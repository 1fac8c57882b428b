---------------------------- MODULE ServerStart ----------------------------
(***************************************************************************)
(* The start of FaceSign.exe (cmd/facesign/main.go): its TLS identity      *)
(* (tls.go), its model files (internal/models/models.go) and its ports.    *)
(*                                                                         *)
(* Several processes may start on the same directory: the task and a       *)
(* second copy, a double click, a start while the old server still runs.   *)
(* Each may be killed between any two steps. os.WriteFile empties a file   *)
(* and then fills it. A start changes only files, so what a clean shutdown *)
(* and a kill leave behind is the same.                                    *)
(***************************************************************************)
EXTENDS Naturals, FiniteSets

CONSTANTS
  Processes,
  Pairs,        \* key pairs ecdsa.GenerateKey may return
  Hosts,        \* addresses the computer may have
  Dirs,         \* candidateDirectories are 1..Dirs, in their order
  Models,       \* pinned is 1..Models
  Writable,     \* canWriteDirectory
  NoPair, NoHost

ASSUME StartAssumption ==
  /\ Dirs \in Nat /\ Models \in Nat /\ Writable \subseteq 1..Dirs
  /\ NoPair \notin Pairs /\ NoHost \notin Hosts

VARIABLES
  scene,     \* bound: what the operator touches in a behaviour
  tls,       \* the four files of the TLS directory
  copies,    \* the model files: [1..Dirs -> [1..Models -> none, bad or good]]
  host,      \* the computer's present address
  proc,      \* [Processes -> the locals of a start]
  trusted,   \* history: roots that clients were served under
  raced      \* history: two processes were creating the root at once

vars == <<scene, tls, copies, host, proc, trusted, raced>>

-----------------------------------------------------------------------------
Files == {"rootCert", "rootKey", "srvCert", "srvKey"}

\* A file's content: the key pair it belongs to and, in certificates, the pair
\* that signed it and the address it is for.
None == [held |-> "none", pair |-> NoPair, by |-> NoPair, host |-> NoHost]
Torn == [held |-> "torn", pair |-> NoPair, by |-> NoPair, host |-> NoHost]
Key(pair) == [held |-> "whole", pair |-> pair, by |-> NoPair, host |-> NoHost]
MutantCert(pair, by, h) == [held |-> "whole", pair |-> pair, by |-> h, host |-> by]
Cert(pair, by, h) == [held |-> "whole", pair |-> pair, by |-> by, host |-> h]

NoProc ==
  [pc |-> "idle", open |-> FALSE, root |-> NoPair, pair |-> NoPair, host |-> NoHost,
   dir |-> 0, model |-> 0, temp |-> "none", disturbed |-> FALSE]

Identity(root, pair, h) ==
  [f \in Files |->
     IF f = "rootCert" THEN Cert(root, root, NoHost)
     ELSE IF f = "rootKey" THEN Key(root)
     ELSE IF f = "srvCert" THEN Cert(pair, root, h)
     ELSE Key(pair)]

\* A new TLS directory and complete models, or an old one and no models.
Init ==
  /\ host \in Hosts
  /\ \/ /\ scene = "identity"
        /\ tls = [f \in Files |-> None]
        /\ copies = [d \in 1..Dirs |-> [m \in 1..Models |-> "good"]]
     \/ /\ scene = "models"
        /\ \E root, pair \in Pairs : root # pair /\ tls = Identity(root, pair, host)
        /\ copies = [d \in 1..Dirs |-> [m \in 1..Models |-> "none"]]
  /\ proc = [p \in Processes |-> NoProc]
  /\ trusted = {} /\ raced = FALSE

Exists(f) == tls[f].held # "none"
Alive == {p \in Processes : proc[p].pc # "idle"}

\* A pair nobody has.
Fresh(k) ==
  /\ k \notin trusted
  /\ \A f \in Files : k # tls[f].pair /\ k # tls[f].by
  /\ \A p \in Processes :
       /\ k \notin {proc[p].root, proc[p].pair}

Go(p, q) == proc' = [proc EXCEPT ![p] = q]
To(p, pc) == Go(p, [proc[p] EXCEPT !.pc = pc])
Exit(p) == Go(p, NoProc)

\* The step of p changes a file: the other processes do not start alone.
Change(p, q) ==
  proc' = [o \in Processes |->
    IF o = p THEN q
    ELSE IF proc[o].pc = "idle" THEN proc[o]
    ELSE [proc[o] EXCEPT !.disturbed = TRUE]]

Begin(p) ==
  /\ proc[p].pc = "idle"
  /\ To(p, "stat")
  /\ UNCHANGED <<scene, tls, copies, host, trusted, raced>>

-----------------------------------------------------------------------------
(* loadOrCreateRootCA *)

\* Half an identity is not replaced: the start is refused. (The two files of a
\* pair are looked at in one step: whoever looks at them while they change sees
\* the same with one file of before and one of after.)
MutantWhole == Exists("rootCert") => Exists("rootKey")
Whole == Exists("rootCert") = Exists("rootKey")
Present == Exists("rootCert")

Stat(p) ==
  /\ proc[p].pc = "stat"
  /\ \/ ~ Whole /\ Exit(p)
     \/ Whole /\ Present /\ To(p, "load")
     \/ /\ Whole /\ ~ Present
        /\ \E k \in Pairs :
             /\ Fresh(k)
             /\ Go(p, [proc[p] EXCEPT !.pc = "rootCert", !.open = FALSE, !.root = k])
  /\ UNCHANGED <<scene, tls, copies, host, trusted, raced>>

Matches(cert, key) == cert.held = "whole" /\ key.held = "whole" /\ cert.pair = key.pair

Load(p) ==
  /\ proc[p].pc = "load"
  /\ IF Matches(tls["rootCert"], tls["rootKey"])
     THEN Go(p, [proc[p] EXCEPT !.pc = "hosts", !.root = tls["rootCert"].pair])
     ELSE Exit(p)
  /\ UNCHANGED <<scene, tls, copies, host, trusted, raced>>

\* os.WriteFile of the file p is at. A fault in between leaves it torn.
NextPC(f) ==
  IF f = "rootCert" THEN "rootKey" ELSE IF f = "rootKey" THEN "hosts" ELSE "srvKey"

Content(p, f) ==
  IF f = "rootCert" THEN Cert(proc[p].root, proc[p].root, NoHost)
  ELSE IF f = "rootKey" THEN Key(proc[p].root)
  ELSE IF f = "srvCert" THEN Cert(proc[p].pair, proc[p].root, proc[p].host)
  ELSE Key(proc[p].pair)

\* ensureTLSIdentity returns.
Ready(p) ==
  [pc |-> "search", open |-> FALSE, root |-> NoPair, pair |-> NoPair, host |-> NoHost,
   dir |-> 0, model |-> 0, temp |-> "none", disturbed |-> proc[p].disturbed]

Creating(o) == proc[o].pc \in {"rootCert", "rootKey"}

Truncate(p) ==
  LET f == proc[p].pc IN
  /\ f \in Files /\ ~ proc[p].open
  /\ tls' = [tls EXCEPT ![f] = Torn]
  /\ Change(p, [proc[p] EXCEPT !.open = TRUE])
  /\ raced' = (raced \/ (Creating(p) /\ \E o \in Processes \ {p} : Creating(o)))
  /\ UNCHANGED <<scene, copies, host, trusted>>

Fill(p) ==
  LET f == proc[p].pc IN
  /\ f \in Files /\ proc[p].open
  /\ tls' = [tls EXCEPT ![f] = Content(p, f)]
  /\ Change(p, IF f = "srvKey" THEN Ready(p)
               ELSE [proc[p] EXCEPT !.open = FALSE, !.pc = NextPC(f)])
  /\ raced' = (raced \/ (Creating(p) /\ \E o \in Processes \ {p} : Creating(o)))
  /\ UNCHANGED <<scene, copies, host, trusted>>

-----------------------------------------------------------------------------
(* The server certificate *)

CollectHosts(p) ==
  /\ proc[p].pc = "hosts"
  /\ Go(p, [proc[p] EXCEPT !.pc = "judge", !.host = host])
  /\ UNCHANGED <<scene, tls, copies, host, trusted, raced>>

\* serverCertificateUsable.
MutantUsable(p) ==  \* without publicKeyMatches
  /\ tls["srvCert"].held = "whole" /\ tls["srvKey"].held = "whole"
  /\ tls["srvCert"].by = proc[p].root
  /\ tls["srvCert"].host = proc[p].host
MutantUnsigned(p) ==  \* without CheckSignatureFrom
  /\ Matches(tls["srvCert"], tls["srvKey"])
  /\ tls["srvCert"].host = proc[p].host
Usable(p) ==
  /\ Matches(tls["srvCert"], tls["srvKey"])
  /\ tls["srvCert"].by = proc[p].root
  /\ tls["srvCert"].host = proc[p].host

Judge(p) ==
  /\ proc[p].pc = "judge"
  /\ IF Usable(p) THEN Go(p, Ready(p))
     ELSE \E k \in Pairs :
            /\ Fresh(k)
            /\ Go(p, [proc[p] EXCEPT !.pc = "srvCert", !.open = FALSE, !.pair = k])
  /\ UNCHANGED <<scene, tls, copies, host, trusted, raced>>

-----------------------------------------------------------------------------
(* models.resolve *)

Valid(d, m) == copies[d][m] = "good"
AllValid(d) == \A m \in 1..Models : Valid(d, m)
Count(d) == Cardinality({m \in 1..Models : Valid(d, m)})

\* chooseTarget: the writable directory with most valid models, the first of
\* them.
Better(d, e) == Count(d) > Count(e) \/ (Count(d) = Count(e) /\ d <= e)

Search(p) ==
  /\ proc[p].pc = "search"
  /\ \/ \E d \in 1..Dirs :
          /\ AllValid(d) /\ \A e \in 1..Dirs : AllValid(e) => d <= e
          /\ Go(p, [proc[p] EXCEPT !.pc = "engines", !.dir = d])
     \/ /\ \A d \in 1..Dirs : ~ AllValid(d)
        /\ \/ \E d \in Writable :
                /\ \A e \in Writable : Better(d, e)
                /\ Go(p, [proc[p] EXCEPT !.pc = "model", !.dir = d, !.model = 1])
           \/ Writable = {} /\ Exit(p)
  /\ UNCHANGED <<scene, tls, copies, host, trusted, raced>>

\* What a copy or a download leaves in the temporary file: a copy of another
\* directory's valid file, or whatever the network returns.
Obtained(p) ==
  IF \E d \in (1..Dirs) \ {proc[p].dir} : Valid(d, proc[p].model)
  THEN {"good"} ELSE {"good", "bad"}

\* The checksum of writeVerified.
MutantVerified(temp) == TRUE
Verified(temp) == temp = "good"

MutantKeeps(d, m) == FALSE
Keeps(d, m) == Valid(d, m)

NextModel(p) ==
  LET m == proc[p].model IN
  /\ proc[p].pc = "model"
  /\ \/ m > Models /\ To(p, "engines")
     \/ /\ m <= Models /\ Keeps(proc[p].dir, m)
        /\ Go(p, [proc[p] EXCEPT !.model = m + 1])
     \/ /\ m <= Models /\ ~ Keeps(proc[p].dir, m)
        /\ \E temp \in Obtained(p) :
             IF Verified(temp) THEN Go(p, [proc[p] EXCEPT !.pc = "remove", !.temp = temp])
             ELSE Exit(p)
  /\ UNCHANGED <<scene, tls, copies, host, trusted, raced>>

\* os.Remove of the target, then os.Rename of the temporary file.
Put(p, c, pc, n) ==
  /\ copies' = [copies EXCEPT ![proc[p].dir][proc[p].model] = c]
  /\ Change(p, [proc[p] EXCEPT !.pc = pc, !.model = n,
                               !.temp = IF pc = "model" THEN "none" ELSE @])
  /\ UNCHANGED <<scene, tls, host, trusted, raced>>

Remove(p) == proc[p].pc = "remove" /\ Put(p, "none", "rename", proc[p].model)
Rename(p) == proc[p].pc = "rename" /\ Put(p, proc[p].temp, "model", proc[p].model + 1)

\* The engines open the models: a file that is gone ends the start.
Engines(p) ==
  /\ proc[p].pc = "engines"
  /\ IF \E m \in 1..Models : copies[proc[p].dir][m] = "none" THEN Exit(p)
     ELSE Go(p, [proc[p] EXCEPT !.pc = "listen", !.dir = 0, !.model = 0])
  /\ UNCHANGED <<scene, tls, copies, host, trusted, raced>>

-----------------------------------------------------------------------------
(* Ports and serving *)

HoldsHTTP == {p \in Processes : proc[p].pc \in {"https", "pair", "serving", "plain"}}

Listen(p) ==
  /\ proc[p].pc = "listen"
  /\ IF HoldsHTTP = {} THEN To(p, "https") ELSE Exit(p)
  /\ UNCHANGED <<scene, tls, copies, host, trusted, raced>>

\* The second port may belong to another program: with redirection that ends
\* the start, without it the server goes on with HTTP alone.
ListenHTTPS(p) ==
  /\ proc[p].pc = "https"
  /\ To(p, "pair") \/ To(p, "plain") \/ Exit(p)
  /\ UNCHANGED <<scene, tls, copies, host, trusted, raced>>

\* ServeTLS reads the certificate and the key again.
Serve(p) ==
  /\ proc[p].pc = "pair"
  /\ IF Matches(tls["srvCert"], tls["srvKey"])
     THEN /\ Go(p, [proc[p] EXCEPT !.pc = "serving", !.root = tls["srvCert"].by])
          /\ trusted' = trusted \cup {tls["srvCert"].by}
     ELSE Exit(p) /\ UNCHANGED trusted
  /\ UNCHANGED <<scene, tls, copies, host, raced>>

\* A kill, a power failure or a shutdown.
Kill(p) ==
  /\ proc[p].pc # "idle"
  /\ Exit(p)
  /\ UNCHANGED <<scene, tls, copies, host, trusted, raced>>

-----------------------------------------------------------------------------
(* The operator and the network *)

Touched ==
  proc' = [p \in Processes |->
    IF proc[p].pc = "idle" THEN proc[p] ELSE [proc[p] EXCEPT !.disturbed = TRUE]]

\* The computer gets another address, or the certificate's time runs out.
Move ==
  /\ scene = "identity"
  /\ host' \in Hosts
  /\ UNCHANGED <<scene, tls, copies, proc, trusted, raced>>

\* One of the root's files is lost.
Lose(f) ==
  /\ scene = "identity"
  /\ f \in {"rootCert", "rootKey"}
  /\ Exists("rootCert") /\ Exists("rootKey")
  /\ tls' = [tls EXCEPT ![f] = None]
  /\ Touched
  /\ UNCHANGED <<scene, copies, host, trusted, raced>>

\* Both are deleted to build the clients' trust anew, while nothing runs.
Reset ==
  /\ scene = "identity"
  /\ Alive = {}
  /\ tls' = [tls EXCEPT !["rootCert"] = None, !["rootKey"] = None]
  /\ trusted' = {} /\ raced' = FALSE
  /\ UNCHANGED <<scene, copies, host, proc>>

\* Somebody puts a model file somewhere, damages or deletes one.
Provide(d, m, c) ==
  /\ scene = "models"
  /\ c \in {"none", "bad", "good"}
  /\ copies' = [copies EXCEPT ![d][m] = c]
  /\ Touched
  /\ UNCHANGED <<scene, tls, host, trusted, raced>>

Next ==
  \/ \E p \in Processes :
       \/ Begin(p) \/ Stat(p) \/ Load(p) \/ Truncate(p) \/ Fill(p)
       \/ CollectHosts(p) \/ Judge(p) \/ Search(p) \/ NextModel(p) \/ Remove(p) \/ Rename(p) \/ Engines(p)
       \/ Listen(p) \/ ListenHTTPS(p) \/ Serve(p) \/ Kill(p)
  \/ Move \/ Reset
  \/ \E f \in Files : Lose(f)
  \/ \E d \in 1..Dirs, m \in 1..Models, c \in {"none", "bad", "good"} : Provide(d, m, c)

Spec == Init /\ [][Next]_vars

-----------------------------------------------------------------------------
(* Properties *)

Contents ==
  [held : {"none", "torn", "whole"}, pair : Pairs \cup {NoPair}, by : Pairs \cup {NoPair},
   host : Hosts \cup {NoHost}]

ProcType ==
  [pc : {"idle", "stat", "load", "hosts", "judge", "search", "model", "remove", "rename",
         "engines", "listen", "https", "pair", "serving", "plain"} \cup Files,
   open : BOOLEAN, root : Pairs \cup {NoPair}, pair : Pairs \cup {NoPair},
   host : Hosts \cup {NoHost}, dir : Nat, model : Nat,
   temp : {"none", "bad", "good"}, disturbed : BOOLEAN]

\* Every variable has its type.
TypeOK ==
  /\ scene \in {"identity", "models"}
  /\ tls \in [Files -> Contents]
  /\ copies \in [1..Dirs -> [1..Models -> {"none", "bad", "good"}]]
  /\ host \in Hosts
  /\ proc \in [Processes -> ProcType]
  /\ trusted \subseteq Pairs \cup {NoPair}
  /\ raced \in BOOLEAN

\* README.md:74: "FaceSign now creates a persistent private root CA the first
\* time it starts. The root CA is valid for 50 years and is preserved". Clients import the root once: however
\* starts are killed, files lost and certificates renewed, no second root is
\* ever served, unless the operator deleted both files or two first starts ran
\* at once.
RootNeverReplaced == ~ raced => \A r, s \in trusted : r = s

\* A running server presents a certificate of the root that it hands out to
\* new clients (tlsBootstrapHandler reads the file), also after a reset, and
\* also while a second start renews files under it.
ServedUnderRoot ==
  ~ raced => \A p \in Processes :
    proc[p].pc = "serving" /\ tls["rootCert"].held = "whole" =>
      proc[p].root = tls["rootCert"].pair

\* What a killed start left in the TLS directory never stands in the way of a
\* later one: once ensureTLSIdentity has returned to a start that nobody
\* disturbs, the certificate on disk has its key, and both stay so.
Prepared ==
  \A p \in Processes :
    proc[p].pc \in {"search", "model", "remove", "rename", "engines", "listen", "https",
                    "pair"} /\ ~ proc[p].disturbed
      => Matches(tls["srvCert"], tls["srvKey"])

\* A start that nobody disturbs opens only models with the pinned checksums,
\* whatever was in the directories and whatever the network delivers.
VerifiedModels ==
  \A p \in Processes :
    proc[p].pc = "engines" /\ ~ proc[p].disturbed => AllValid(proc[p].dir)

\* ARCHITECTURE.md:81: "Reuses an existing persistent model cache": a start that nobody disturbs
\* takes no valid copy away, not even for a moment in which it could be killed.
GoodCopiesStay ==
  [][\A p \in Processes, d \in 1..Dirs, m \in 1..Models :
       proc'[p].pc # proc[p].pc /\ ~ proc[p].disturbed /\ Valid(d, m) => Valid(d, m)']_vars
=============================================================================
