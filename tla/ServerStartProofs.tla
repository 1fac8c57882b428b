------------------------- MODULE ServerStartProofs -------------------------
(***************************************************************************)
(* For any number of processes, keys, hosts and models: the root that was  *)
(* served once is the one that is served later, and a running server       *)
(* presents a certificate of the root on disk. When nobody interferes, a   *)
(* server runs with a sound identity and verified models (StartInv), and a *)
(* verified copy of a model is never given up for another one.             *)
(***************************************************************************)
EXTENDS ServerStart, TLAPS

rootCert == tls["rootCert"]
rootKey  == tls["rootKey"]
srvCert  == tls["srvCert"]

\* A process that knows the root, one that has a TLS identity, one beyond the
\* question which root it is.
HasRoot == {"hosts", "judge", "srvCert", "srvKey"}
Done == {"search", "model", "remove", "rename", "engines", "listen", "https", "pair"}
Settled == HasRoot \cup Done \cup {"serving", "plain"}

\* The files are those of root r, as far as they are there.
Agree(r) ==
  /\ rootCert.held = "whole" => rootCert.pair = r
  /\ rootKey.held = "whole" => rootKey.pair = r

\* The root has been created, and at most one of its files been lost.
Standing ==
  /\ rootCert.held # "torn" /\ rootKey.held # "torn"
  /\ rootCert.held = "whole" \/ rootKey.held = "whole"

\* How far the process that creates the root has come.
Progress(p) ==
  /\ proc[p].pc = "rootCert" => rootCert.held = IF proc[p].open THEN "torn" ELSE "none"
  /\ proc[p].pc = "rootCert" => rootKey.held = "none"
  /\ proc[p].pc = "rootKey" =>
       /\ rootCert.held \in {"none", "whole"} /\ Agree(proc[p].root)
       /\ rootKey.held \in {"none", "torn"}
       /\ rootCert.held = "whole" \/ rootKey.held = "torn"
       /\ ~ proc[p].open => rootKey.held = "none" /\ rootCert.held = "whole"

OneCreator ==
  \A p, q \in Processes :
    Creating(p) /\ Creating(q) /\ p # q => proc[p].pc = "rootCert" /\ ~ proc[p].open
Created ==
  \A p \in Processes : Creating(p) => Progress(p) /\ trusted = {}
Stands ==
  /\ trusted # {} => Standing
  /\ \A p \in Processes :
       proc[p].pc \in Settled => Standing /\ \A q \in Processes : ~ Creating(q)
Agreed ==
  /\ \A p \in Processes : proc[p].pc \in HasRoot => Agree(proc[p].root)
  /\ \A p \in Processes :
       proc[p].pc \in Done \cup {"srvKey"} /\ srvCert.held = "whole" => Agree(srvCert.by)
  /\ \A r \in trusted : Agree(r)
  /\ \A p \in Processes : proc[p].pc = "serving" => proc[p].root \in trusted

Core == OneCreator /\ Created /\ Stands /\ Agreed

RootInv == TypeOK /\ (~ raced => Core)

-----------------------------------------------------------------------------
(* Types *)

\* The step of p: the others keep all but the disturbed flag.
Step(p, q) ==
  /\ proc' \in [Processes -> ProcType]
  /\ proc'[p] = q
  /\ \A o \in Processes : o # p =>
       proc'[o].pc = proc[o].pc /\ proc'[o].open = proc[o].open /\ proc'[o].root = proc[o].root

\* A process that is disturbed stays what it is.
LEMMA Disturb ==
  ASSUME NEW q \in ProcType
  PROVE  /\ [q EXCEPT !.disturbed = TRUE] \in ProcType
         /\ [q EXCEPT !.disturbed = TRUE].pc = q.pc
         /\ [q EXCEPT !.disturbed = TRUE].open = q.open
         /\ [q EXCEPT !.disturbed = TRUE].root = q.root
BY DEF ProcType

LEMMA Goes ==
  ASSUME TypeOK, NEW p \in Processes, NEW q \in ProcType, Go(p, q)
  PROVE  Step(p, q)
BY DEF TypeOK, Go, Step

LEMMA Changes ==
  ASSUME TypeOK, NEW p \in Processes, NEW q \in ProcType, Change(p, q)
  PROVE  Step(p, q)
<1>1. proc \in [Processes -> ProcType] BY DEF TypeOK
<1>2. \A o \in Processes : proc[o] \in ProcType BY <1>1
<1>3. \A o \in Processes : proc'[o] =
        IF o = p THEN q
        ELSE IF proc[o].pc = "idle" THEN proc[o] ELSE [proc[o] EXCEPT !.disturbed = TRUE]
  BY DEF Change
<1>4. \A o \in Processes : proc'[o] \in ProcType BY <1>2, <1>3, Disturb
<1>5. proc' \in [Processes -> ProcType] BY <1>4 DEF Change
<1>6. proc'[p] = q BY <1>3
<1>7. ASSUME NEW o \in Processes, o # p
      PROVE  proc'[o].pc = proc[o].pc /\ proc'[o].open = proc[o].open /\ proc'[o].root = proc[o].root
  BY <1>2, <1>3, <1>7, Disturb
<1> QED BY <1>5, <1>6, <1>7 DEF Step

LEMMA Nothing == NoProc \in ProcType /\ NoProc.pc = "idle"
BY StartAssumption DEF NoProc, ProcType

LEMMA Wholes ==
  ASSUME TypeOK, NEW p \in Processes, NEW f \in Files
  PROVE  Content(p, f) \in Contents /\ Torn \in Contents /\ None \in Contents
<1>1. /\ proc[p].root \in Pairs \cup {NoPair} /\ proc[p].pair \in Pairs \cup {NoPair}
      /\ proc[p].host \in Hosts \cup {NoHost}
  BY DEF TypeOK, ProcType
<1> QED BY <1>1 DEF Content, Contents, Torn, None, Cert, Key

LEMMA Readies ==
  ASSUME TypeOK, NEW p \in Processes
  PROVE  Ready(p) \in ProcType /\ Ready(p).pc = "search"
<1>1. proc[p].disturbed \in BOOLEAN BY DEF TypeOK, ProcType
<1> QED BY <1>1 DEF Ready, ProcType

-----------------------------------------------------------------------------
(* The root *)

\* A step that neither touches the root or the server's certificate nor learns
\* about them.
LEMMA Quiet ==
  ASSUME Core, NEW p \in Processes, NEW q, Step(p, q),
         rootCert' = rootCert, rootKey' = rootKey, srvCert' = srvCert, trusted' = trusted,
         q.pc \notin {"rootCert", "rootKey", "serving"},
         q.pc \in Settled => proc[p].pc \in Settled,
         q.pc \in HasRoot => proc[p].pc \in HasRoot /\ q.root = proc[p].root,
         q.pc \in Done \cup {"srvKey"} => proc[p].pc \in Done \cup {"srvKey"}
  PROVE  Core'
<1>1. \A o \in Processes : Creating(o)' => o # p /\ Creating(o)
  BY DEF Step, Creating
<1>2. OneCreator' BY <1>1 DEF Step, OneCreator, Core
<1>3. Created' BY <1>1 DEF Step, Created, Core, Progress, Agree
<1>4. Standing' = Standing BY DEF Standing
<1>5. \A o \in Processes : proc'[o].pc \in Settled => proc[o].pc \in Settled
  BY DEF Step
<1>6. Stands' BY <1>1, <1>4, <1>5 DEF Stands, Core
<1>7. \A r : Agree(r)' = Agree(r) BY DEF Agree
<1>8. Agreed' BY <1>7 DEF Step, Agreed, Core
<1> QED BY <1>2, <1>3, <1>6, <1>8 DEF Core

\* What a step may do that leaves the TLS directory alone.
LEMMA Elsewhere ==
  ASSUME RootInv, NEW p \in Processes, NEW q, Step(p, q),
         UNCHANGED <<scene, tls, host, trusted, raced>>,
         copies' \in [1..Dirs -> [1..Models -> {"none", "bad", "good"}]],
         q.pc \notin {"rootCert", "rootKey", "serving"},
         q.pc \in Settled => proc[p].pc \in Settled,
         q.pc \in HasRoot => proc[p].pc \in HasRoot /\ q.root = proc[p].root,
         q.pc \in Done \cup {"srvKey"} => proc[p].pc \in Done \cup {"srvKey"}
  PROVE  RootInv'
<1>1. TypeOK' BY DEF RootInv, TypeOK, Step
<1>2. rootCert' = rootCert /\ rootKey' = rootKey /\ srvCert' = srvCert
  BY DEF rootCert, rootKey, srvCert
<1>3. ASSUME ~ raced' PROVE Core' BY <1>2, <1>3, Quiet DEF RootInv
<1> QED BY <1>1, <1>3 DEF RootInv

\* A start ends, by itself or by force.
LEMMA Exits ==
  ASSUME RootInv, NEW p \in Processes, Exit(p), UNCHANGED <<scene, tls, copies, host, trusted, raced>>
  PROVE  RootInv'
<1>1. Step(p, NoProc) BY Nothing, Goes DEF RootInv, Exit
<1> QED BY <1>1, Nothing, Elsewhere DEF RootInv, TypeOK, HasRoot, Done, Settled

LEMMA StartsAndPorts ==
  ASSUME RootInv, NEW p \in Processes,
         Begin(p) \/ Search(p) \/ NextModel(p) \/ Engines(p) \/ Listen(p) \/ ListenHTTPS(p)
  PROVE  RootInv'
<1> DEFINE Later == {"stat"} \cup Done \cup {"plain"}
<1>1. UNCHANGED <<scene, tls, copies, host, trusted, raced>>
  BY DEF Begin, Search, NextModel, Engines, Listen, ListenHTTPS
<1>2. TypeOK /\ proc[p] \in ProcType BY DEF RootInv, TypeOK
<1>3. ASSUME NEW q \in ProcType, Go(p, q),
             q.pc = "stat" \/ (proc[p].pc \in Done /\ q.pc \in Done \cup {"plain"})
      PROVE  RootInv'
  <2>1. Step(p, q) BY <1>2, <1>3, Goes
  <2> QED BY <1>1, <1>2, <1>3, <2>1, Elsewhere DEF TypeOK, HasRoot, Done, Settled
<1>4. ASSUME NEW pc \in Later, To(p, pc), pc = "stat" \/ proc[p].pc \in Done
      PROVE  RootInv'
  <2>1. [proc[p] EXCEPT !.pc = pc] \in ProcType /\ [proc[p] EXCEPT !.pc = pc].pc = pc
    BY <1>2, <1>4 DEF ProcType, Done
  <2> QED BY <1>3, <1>4, <2>1 DEF To
<1>5. CASE Begin(p) BY <1>4, <1>5 DEF Begin
<1>6. CASE Search(p)
  <2>1. ASSUME NEW d \in Nat,
               Go(p, [proc[p] EXCEPT !.pc = "model", !.dir = d, !.model = 1])
        PROVE  RootInv'
    <3> DEFINE q == [proc[p] EXCEPT !.pc = "model", !.dir = d, !.model = 1]
    <3>1. q \in ProcType /\ q.pc = "model" BY <1>2 DEF ProcType
    <3> HIDE DEF q
    <3>2. Go(p, q) BY <2>1 DEF q
    <3> QED BY <1>3, <1>6, <3>1, <3>2 DEF Search, Done
  <2>2. ASSUME NEW d \in Nat, Go(p, [proc[p] EXCEPT !.pc = "engines", !.dir = d])
        PROVE  RootInv'
    <3> DEFINE q == [proc[p] EXCEPT !.pc = "engines", !.dir = d]
    <3>1. q \in ProcType /\ q.pc = "engines" BY <1>2 DEF ProcType
    <3> HIDE DEF q
    <3>2. Go(p, q) BY <2>2 DEF q
    <3> QED BY <1>3, <1>6, <3>1, <3>2 DEF Search, Done
  <2>3. 1..Dirs \subseteq Nat BY StartAssumption
  <2> QED BY <1>1, <1>6, <2>1, <2>2, <2>3, Exits, StartAssumption DEF Search
<1>7. CASE NextModel(p)
  <2>1. proc[p].model \in Nat BY <1>2 DEF ProcType
  <2>2. ASSUME Go(p, [proc[p] EXCEPT !.model = proc[p].model + 1]) PROVE RootInv'
    <3> DEFINE q == [proc[p] EXCEPT !.model = proc[p].model + 1]
    <3>1. q \in ProcType /\ q.pc = proc[p].pc BY <1>2, <2>1 DEF ProcType
    <3> HIDE DEF q
    <3>2. Go(p, q) BY <2>2 DEF q
    <3> QED BY <1>3, <1>7, <3>1, <3>2 DEF NextModel, Done
  <2>3. ASSUME NEW temp \in {"good", "bad"},
               Go(p, [proc[p] EXCEPT !.pc = "remove", !.temp = temp])
        PROVE  RootInv'
    <3> DEFINE q == [proc[p] EXCEPT !.pc = "remove", !.temp = temp]
    <3>1. q \in ProcType /\ q.pc = "remove" BY <1>2 DEF ProcType
    <3> HIDE DEF q
    <3>2. Go(p, q) BY <2>3 DEF q
    <3> QED BY <1>3, <1>7, <3>1, <3>2 DEF NextModel, Done
  <2> QED BY <1>1, <1>4, <1>7, <2>2, <2>3, Exits DEF NextModel, Obtained, Done
<1>8. CASE Engines(p)
  <2>1. ASSUME Go(p, [proc[p] EXCEPT !.pc = "listen", !.dir = 0, !.model = 0])
        PROVE  RootInv'
    <3> DEFINE q == [proc[p] EXCEPT !.pc = "listen", !.dir = 0, !.model = 0]
    <3>1. q \in ProcType /\ q.pc = "listen" BY <1>2, StartAssumption DEF ProcType
    <3> HIDE DEF q
    <3>2. Go(p, q) BY <2>1 DEF q
    <3> QED BY <1>3, <1>8, <3>1, <3>2 DEF Engines, Done
  <2> QED BY <1>1, <1>8, <2>1, Exits DEF Engines
<1>9. CASE Listen(p) \/ ListenHTTPS(p)
  BY <1>1, <1>4, <1>9, Exits DEF Listen, ListenHTTPS, Done
<1> QED BY <1>5, <1>6, <1>7, <1>8, <1>9

LEMMA Puts ==
  ASSUME RootInv, NEW p \in Processes, NEW c \in {"none", "bad", "good"},
         NEW pc \in {"rename", "model"}, NEW n \in Nat, Put(p, c, pc, n),
         proc[p].pc \in {"remove", "rename"}
  PROVE  RootInv'
<1> DEFINE temp == IF pc = "model" THEN "none" ELSE proc[p].temp
           q == [proc[p] EXCEPT !.pc = pc, !.model = n, !.temp = temp]
<1>1. TypeOK /\ proc[p] \in ProcType BY DEF RootInv, TypeOK
<1>2. temp \in {"none", "bad", "good"} BY <1>1 DEF ProcType
<1>3. Change(p, q) BY DEF Put
<1> HIDE DEF temp
<1>4. q \in ProcType /\ q.pc = pc BY <1>1, <1>2 DEF ProcType
<1> HIDE DEF q
<1>5. Step(p, q) BY <1>1, <1>3, <1>4, Changes
<1>6. copies' \in [1..Dirs -> [1..Models -> {"none", "bad", "good"}]]
  BY <1>1 DEF Put, TypeOK
<1>7. UNCHANGED <<scene, tls, host, trusted, raced>> BY DEF Put
<1> QED BY <1>4, <1>5, <1>6, <1>7, Elsewhere DEF HasRoot, Done, Settled

LEMMA Installs ==
  ASSUME RootInv, NEW p \in Processes, Remove(p) \/ Rename(p)
  PROVE  RootInv'
<1>1. proc[p].model \in Nat /\ proc[p].temp \in {"none", "bad", "good"}
  BY DEF RootInv, TypeOK, ProcType
<1>2. CASE Remove(p) BY <1>1, <1>2, Puts DEF Remove
<1>3. CASE Rename(p) BY <1>1, <1>3, Puts DEF Rename
<1> QED BY <1>2, <1>3

-----------------------------------------------------------------------------
(* The steps that learn about the root or change it *)

\* A creator's step, seen by everybody else.
LEMMA Alone ==
  ASSUME Core, NEW p \in Processes, Creating(p), \A o \in Processes \ {p} : ~ Creating(o)
  PROVE  \A o \in Processes : proc[o].pc \notin Settled
BY DEF Core, Stands

LEMMA StatInv ==
  ASSUME RootInv, NEW p \in Processes, Stat(p)
  PROVE  RootInv'
<1>1. TypeOK /\ proc[p] \in ProcType BY DEF RootInv, TypeOK
<1>2. UNCHANGED <<scene, tls, copies, host, trusted, raced>> BY DEF Stat
<1>3. CASE Exit(p) BY <1>2, <1>3, Exits
<1>4. CASE To(p, "load")
  <2> DEFINE q == [proc[p] EXCEPT !.pc = "load"]
  <2>1. q \in ProcType /\ q.pc = "load" BY <1>1 DEF ProcType
  <2> HIDE DEF q
  <2>2. Step(p, q) BY <1>1, <1>4, <2>1, Goes DEF To, q
  <2> QED BY <1>1, <1>2, <2>1, <2>2, Elsewhere DEF TypeOK, HasRoot, Done, Settled
<1>5. CASE Whole /\ ~ Present /\ \E k \in Pairs :
             Go(p, [proc[p] EXCEPT !.pc = "rootCert", !.open = FALSE, !.root = k])
  <2>1. PICK k \in Pairs : Go(p, [proc[p] EXCEPT !.pc = "rootCert", !.open = FALSE, !.root = k])
    BY <1>5
  <2> DEFINE q == [proc[p] EXCEPT !.pc = "rootCert", !.open = FALSE, !.root = k]
  <2>2. q \in ProcType /\ q.pc = "rootCert" /\ q.open = FALSE BY <1>1 DEF ProcType, Files
  <2>3. Go(p, q) BY <2>1
  <2> HIDE DEF q
  <2>4. Step(p, q) BY <1>1, <2>2, <2>3, Goes
  <2>5. TypeOK' BY <1>1, <1>2, <2>4 DEF TypeOK, Step
  <2>6. rootCert.held = "none" /\ rootKey.held = "none"
    BY <1>5 DEF Whole, Present, Exists, rootCert, rootKey
  <2>7. /\ rootCert' = rootCert /\ rootKey' = rootKey /\ srvCert' = srvCert
        /\ trusted' = trusted /\ raced' = raced
    BY <1>2 DEF rootCert, rootKey, srvCert
  <2>8. ~ Standing BY <2>6 DEF Standing
  <2>9. ASSUME ~ raced' PROVE Core'
    <3>1. Core BY <2>7, <2>9 DEF RootInv
    <3>2. trusted = {} /\ \A o \in Processes : proc[o].pc \notin Settled
      BY <2>8, <3>1 DEF Core, Stands
    <3>3. \A o \in Processes : Creating(o) => proc[o].pc = "rootCert" /\ ~ proc[o].open
      BY <2>6, <3>1 DEF Core, Created, Progress, Creating
    <3>4. \A o \in Processes : Creating(o)' => proc'[o].pc = "rootCert" /\ ~ proc'[o].open
      BY <2>2, <2>4, <3>3 DEF Step, Creating
    <3>5. OneCreator' BY <3>4 DEF OneCreator
    <3>6. Created' BY <2>6, <2>7, <3>2, <3>4 DEF Created, Progress
    <3>7. \A o \in Processes : proc'[o].pc \notin Settled
      BY <2>2, <2>4, <3>2 DEF Step, Settled, HasRoot, Done
    <3>8. Stands' /\ Agreed' BY <2>7, <3>2, <3>7 DEF Stands, Agreed, Settled, HasRoot, Done
    <3> QED BY <3>5, <3>6, <3>8 DEF Core
  <2> QED BY <2>5, <2>9 DEF RootInv
<1> QED BY <1>3, <1>4, <1>5 DEF Stat

LEMMA LoadInv ==
  ASSUME RootInv, NEW p \in Processes, Load(p)
  PROVE  RootInv'
<1>1. TypeOK /\ proc[p] \in ProcType BY DEF RootInv, TypeOK
<1>2. UNCHANGED <<scene, tls, copies, host, trusted, raced>> BY DEF Load
<1>3. CASE Exit(p) BY <1>2, <1>3, Exits
<1>4. CASE /\ Matches(rootCert, rootKey)
           /\ Go(p, [proc[p] EXCEPT !.pc = "hosts", !.root = rootCert.pair])
  <2> DEFINE q == [proc[p] EXCEPT !.pc = "hosts", !.root = rootCert.pair]
  <2>1. rootCert.pair \in Pairs \cup {NoPair} BY <1>1 DEF TypeOK, Files, Contents, rootCert
  <2>2. q \in ProcType /\ q.pc = "hosts" /\ q.root = rootCert.pair BY <1>1, <2>1 DEF ProcType
  <2>3. Go(p, q) BY <1>4
  <2> HIDE DEF q
  <2>4. Step(p, q) BY <1>1, <2>2, <2>3, Goes
  <2>5. TypeOK' BY <1>1, <1>2, <2>4 DEF TypeOK, Step
  <2>6. /\ rootCert' = rootCert /\ rootKey' = rootKey /\ srvCert' = srvCert
        /\ trusted' = trusted /\ raced' = raced
    BY <1>2 DEF rootCert, rootKey, srvCert
  <2>7. /\ rootCert.held = "whole" /\ rootKey.held = "whole" /\ rootKey.pair = rootCert.pair
    BY <1>4 DEF Matches
  <2>8. ASSUME ~ raced' PROVE Core'
    <3>1. Core BY <2>6, <2>8 DEF RootInv
    <3>2. \A o \in Processes : ~ Creating(o)
      BY <2>7, <3>1 DEF Core, Created, Progress, Creating
    <3>3. \A o \in Processes : ~ Creating(o)'
      BY <2>2, <2>4, <3>2 DEF Step, Creating
    <3>4. OneCreator' /\ Created' BY <3>3 DEF OneCreator, Created
    <3>5. Stands' BY <2>6, <2>7, <3>3 DEF Stands, Standing
    <3>6. \A r : Agree(r)' = Agree(r) BY <2>6 DEF Agree
    <3>7. Agree(rootCert.pair) BY <2>7 DEF Agree
    <3>8. Agreed' BY <2>2, <2>4, <2>6, <3>1, <3>6, <3>7 DEF Step, Agreed, Core, Done
    <3> QED BY <3>4, <3>5, <3>8 DEF Core
  <2> QED BY <2>5, <2>8 DEF RootInv
<1> QED BY <1>3, <1>4 DEF Load, rootCert, rootKey

LEMMA JudgeInv ==
  ASSUME RootInv, NEW p \in Processes, CollectHosts(p) \/ Judge(p)
  PROVE  RootInv'
<1>1. TypeOK /\ proc[p] \in ProcType /\ proc[p].pc \in {"hosts", "judge"}
  BY DEF RootInv, TypeOK, CollectHosts, Judge
<1>2. UNCHANGED <<scene, tls, copies, host, trusted, raced>> BY DEF CollectHosts, Judge
<1>3. ASSUME NEW q \in ProcType, Go(p, q), q.pc \in {"judge", "srvCert"},
             q.root = proc[p].root
      PROVE  RootInv'
  <2>1. Step(p, q) BY <1>1, <1>3, Goes
  <2> QED BY <1>1, <1>2, <1>3, <2>1, Elsewhere DEF TypeOK, HasRoot, Done, Settled
<1>4. CASE CollectHosts(p)
  <2> DEFINE q == [proc[p] EXCEPT !.pc = "judge", !.host = host]
  <2>1. q \in ProcType /\ q.pc = "judge" /\ q.root = proc[p].root BY <1>1 DEF ProcType, TypeOK
  <2>2. Go(p, q) BY <1>4 DEF CollectHosts
  <2> HIDE DEF q
  <2> QED BY <1>3, <2>1, <2>2
<1>5. CASE Judge(p) /\ ~ Usable(p)
  <2>1. PICK k \in Pairs : Go(p, [proc[p] EXCEPT !.pc = "srvCert", !.open = FALSE, !.pair = k])
    BY <1>5 DEF Judge
  <2> DEFINE q == [proc[p] EXCEPT !.pc = "srvCert", !.open = FALSE, !.pair = k]
  <2>2. q \in ProcType /\ q.pc = "srvCert" /\ q.root = proc[p].root
    BY <1>1 DEF ProcType, Files
  <2>3. Go(p, q) BY <2>1
  <2> HIDE DEF q
  <2> QED BY <1>3, <2>2, <2>3
<1>6. CASE Judge(p) /\ Usable(p)
  <2>1. Go(p, Ready(p)) BY <1>6 DEF Judge
  <2>2. Ready(p) \in ProcType /\ Ready(p).pc = "search" BY <1>1, Readies
  <2>3. Step(p, Ready(p)) BY <1>1, <2>1, <2>2, Goes
  <2>4. TypeOK' BY <1>1, <1>2, <2>3 DEF TypeOK, Step
  <2>5. /\ rootCert' = rootCert /\ rootKey' = rootKey /\ srvCert' = srvCert
        /\ trusted' = trusted /\ raced' = raced
    BY <1>2 DEF rootCert, rootKey, srvCert
  <2>6. srvCert.by = proc[p].root BY <1>6 DEF Usable, srvCert
  <2>7. ASSUME ~ raced' PROVE Core'
    <3>1. Core BY <2>5, <2>7 DEF RootInv
    <3>2. Agree(srvCert.by) BY <1>1, <2>6, <3>1 DEF Core, Agreed, HasRoot
    <3>3. Standing /\ \A o \in Processes : ~ Creating(o)
      BY <1>1, <3>1 DEF Core, Stands, Settled, HasRoot
    <3>4. \A o \in Processes : ~ Creating(o)'
      BY <2>2, <2>3, <3>3 DEF Step, Creating
    <3>5. OneCreator' /\ Created' BY <3>4 DEF OneCreator, Created
    <3>6. Stands' BY <2>5, <3>3, <3>4 DEF Stands, Standing
    <3>7. \A r : Agree(r)' = Agree(r) BY <2>5 DEF Agree
    <3>8. Agreed' BY <2>2, <2>3, <2>5, <3>1, <3>2, <3>7 DEF Step, Agreed, Core, HasRoot
    <3> QED BY <3>5, <3>6, <3>8 DEF Core
  <2> QED BY <2>4, <2>7 DEF RootInv
<1> QED BY <1>4, <1>5, <1>6

LEMMA ServeInv ==
  ASSUME RootInv, NEW p \in Processes, Serve(p)
  PROVE  RootInv'
<1>1. TypeOK /\ proc[p] \in ProcType /\ proc[p].pc = "pair" BY DEF RootInv, TypeOK, Serve
<1>2. UNCHANGED <<scene, tls, copies, host, raced>> BY DEF Serve
<1>3. CASE Exit(p) /\ UNCHANGED trusted BY <1>2, <1>3, Exits
<1>4. CASE /\ Matches(srvCert, tls["srvKey"])
           /\ Go(p, [proc[p] EXCEPT !.pc = "serving", !.root = srvCert.by])
           /\ trusted' = trusted \cup {srvCert.by}
  <2> DEFINE q == [proc[p] EXCEPT !.pc = "serving", !.root = srvCert.by]
  <2>1. srvCert.by \in Pairs \cup {NoPair} /\ srvCert.held = "whole"
    BY <1>1, <1>4 DEF TypeOK, Files, Contents, srvCert, Matches
  <2>2. q \in ProcType /\ q.pc = "serving" /\ q.root = srvCert.by BY <1>1, <2>1 DEF ProcType
  <2>3. Go(p, q) BY <1>4
  <2> HIDE DEF q
  <2>4. Step(p, q) BY <1>1, <2>2, <2>3, Goes
  <2>5. TypeOK' BY <1>1, <1>2, <1>4, <2>1, <2>4 DEF TypeOK, Step
  <2>6. /\ rootCert' = rootCert /\ rootKey' = rootKey /\ srvCert' = srvCert /\ raced' = raced
    BY <1>2 DEF rootCert, rootKey, srvCert
  <2>7. ASSUME ~ raced' PROVE Core'
    <3>1. Core BY <2>6, <2>7 DEF RootInv
    <3>2. Agree(srvCert.by) BY <1>1, <2>1, <3>1 DEF Core, Agreed, Done
    <3>3. Standing /\ \A o \in Processes : ~ Creating(o)
      BY <1>1, <3>1 DEF Core, Stands, Settled, Done
    <3>4. \A o \in Processes : ~ Creating(o)'
      BY <2>2, <2>4, <3>3 DEF Step, Creating
    <3>5. OneCreator' /\ Created' BY <3>4 DEF OneCreator, Created
    <3>6. Stands' BY <2>6, <3>3, <3>4 DEF Stands, Standing
    <3>7. \A r : Agree(r)' = Agree(r) BY <2>6 DEF Agree
    <3>8. Agreed' BY <1>4, <2>2, <2>4, <2>6, <3>1, <3>2, <3>7 DEF Step, Agreed, Core, HasRoot, Done
    <3> QED BY <3>5, <3>6, <3>8 DEF Core
  <2> QED BY <2>5, <2>7 DEF RootInv
<1> QED BY <1>3, <1>4 DEF Serve, srvCert
-----------------------------------------------------------------------------
(* The files are written *)

LEMMA TruncateInv ==
  ASSUME RootInv, NEW p \in Processes, Truncate(p)
  PROVE  RootInv'
<1> DEFINE f == proc[p].pc
           q == [proc[p] EXCEPT !.open = TRUE]
<1>1. TypeOK /\ proc[p] \in ProcType /\ f \in Files /\ ~ proc[p].open
  BY DEF RootInv, TypeOK, Truncate
<1>2. q \in ProcType /\ q.pc = f /\ q.open = TRUE /\ q.root = proc[p].root BY <1>1 DEF ProcType
<1>3. Change(p, q) BY DEF Truncate
<1>4. tls' = [tls EXCEPT ![f] = Torn] /\ UNCHANGED <<scene, copies, host, trusted>>
  BY DEF Truncate
<1>5. raced' = (raced \/ (Creating(p) /\ \E o \in Processes \ {p} : Creating(o)))
  BY DEF Truncate
<1> HIDE DEF q
<1>6. Step(p, q) BY <1>1, <1>2, <1>3, Changes
<1>7. TypeOK' BY <1>1, <1>4, <1>5, <1>6, Wholes DEF TypeOK, Step
<1>8. tls \in [Files -> Contents] BY <1>1 DEF TypeOK
<1>9. ASSUME ~ raced' PROVE Core'
  <2>1. Core BY <1>5, <1>9 DEF RootInv
  <2>2. Creating(p) => \A o \in Processes \ {p} : ~ Creating(o) BY <1>5, <1>9
  <2>3. CASE f = "rootCert"
    <3>1. Creating(p) BY <2>3 DEF Creating
    <3>2. trusted = {} /\ rootKey.held = "none" BY <2>1, <2>3, <3>1 DEF Core, Created, Progress
    <3>3. rootCert'.held = "torn" /\ rootKey' = rootKey
      BY <1>4, <1>8, <2>3 DEF rootCert, rootKey, Torn, Files
    <3>4. \A o \in Processes : proc'[o].pc \notin Settled
      BY <1>2, <1>6, <2>1, <2>2, <2>3, <3>1, Alone DEF Step, Settled, HasRoot, Done
    <3>5. \A o \in Processes : Creating(o)' => o = p
      BY <1>6, <2>2, <3>1 DEF Step, Creating
    <3>6. OneCreator' BY <3>5 DEF OneCreator
    <3>7. Created'
      BY <1>2, <1>4, <1>6, <2>3, <3>2, <3>3, <3>5 DEF Created, Progress, Step
    <3>8. Stands' /\ Agreed'
      BY <1>4, <3>2, <3>4 DEF Stands, Agreed, Settled, HasRoot, Done
    <3> QED BY <3>6, <3>7, <3>8 DEF Core
  <2>4. CASE f = "rootKey"
    <3>1. Creating(p) BY <2>4 DEF Creating
    <3>2. trusted = {} /\ rootCert.held = "whole" /\ Agree(proc[p].root)
      BY <1>1, <2>1, <2>4, <3>1 DEF Core, Created, Progress
    <3>3. rootKey'.held = "torn" /\ rootCert' = rootCert
      BY <1>4, <1>8, <2>4 DEF rootCert, rootKey, Torn, Files
    <3>4. \A o \in Processes : proc'[o].pc \notin Settled
      BY <1>2, <1>6, <2>1, <2>2, <2>4, <3>1, Alone DEF Step, Settled, HasRoot, Done
    <3>5. \A o \in Processes : Creating(o)' => o = p
      BY <1>6, <2>2, <3>1 DEF Step, Creating
    <3>6. OneCreator' BY <3>5 DEF OneCreator
    <3>7. Agree(proc[p].root)' BY <1>2, <1>6, <3>2, <3>3 DEF Agree, Step
    <3>8. Created'
      BY <1>2, <1>4, <1>6, <2>4, <3>2, <3>3, <3>5, <3>7 DEF Created, Progress, Step
    <3>9. Stands' /\ Agreed'
      BY <1>4, <3>2, <3>4 DEF Stands, Agreed, Settled, HasRoot, Done
    <3> QED BY <3>6, <3>8, <3>9 DEF Core
  <2>5. CASE f \in {"srvCert", "srvKey"}
    <3>1. rootCert' = rootCert /\ rootKey' = rootKey /\ trusted' = trusted
      BY <1>4, <1>8, <2>5 DEF rootCert, rootKey, Files
    <3>2. srvCert' = srvCert \/ srvCert'.held = "torn"
      BY <1>4, <1>8, <2>5 DEF srvCert, Torn, Files
    <3>3. Standing' = Standing /\ \A r : Agree(r)' = Agree(r) BY <3>1 DEF Standing, Agree
    <3>4. \A o \in Processes : proc'[o].pc = proc[o].pc /\ proc'[o].root = proc[o].root
      BY <1>2, <1>6 DEF Step
    <3>5. \A o \in Processes : ~ Creating(o)
      BY <2>1, <2>5 DEF Core, Stands, Settled, HasRoot
    <3>6. \A o \in Processes : ~ Creating(o)' BY <3>4, <3>5 DEF Creating
    <3>7. OneCreator' /\ Created' BY <3>6 DEF OneCreator, Created
    <3>8. Stands' BY <2>1, <3>1, <3>3, <3>4, <3>6 DEF Core, Stands
    <3>9. Agreed' BY <2>1, <3>1, <3>2, <3>3, <3>4 DEF Core, Agreed
    <3> QED BY <3>7, <3>8, <3>9 DEF Core
  <2> QED BY <1>1, <2>3, <2>4, <2>5 DEF Files
<1> QED BY <1>7, <1>9 DEF RootInv
\* What a file write does beside its file.
LEMMA FillStep ==
  ASSUME TypeOK, NEW p \in Processes, Fill(p)
  PROVE  \E q \in ProcType :
           /\ Step(p, q)
           /\ q.pc = IF proc[p].pc = "srvKey" THEN "search" ELSE NextPC(proc[p].pc)
           /\ proc[p].pc # "srvKey" => q.root = proc[p].root /\ ~ q.open
<1> DEFINE f == proc[p].pc
           q == [proc[p] EXCEPT !.open = FALSE, !.pc = NextPC(f)]
<1>1. proc[p] \in ProcType /\ f \in Files BY DEF TypeOK, Fill
<1>2. CASE f = "srvKey"
  <2>1. Change(p, Ready(p)) BY <1>2 DEF Fill
  <2> QED BY <1>2, <2>1, Readies, Changes
<1>3. CASE f # "srvKey"
  <2>1. Change(p, q) BY <1>3 DEF Fill
  <2>2. NextPC(f) \in {"rootKey", "hosts", "srvKey"} BY DEF NextPC
  <2>3. q \in ProcType /\ q.pc = NextPC(f) /\ ~ q.open /\ q.root = proc[p].root
    BY <1>1, <2>2 DEF ProcType, Files
  <2> HIDE DEF q
  <2>4. Step(p, q) BY <2>1, <2>3, Changes
  <2> QED BY <1>3, <2>3, <2>4
<1> QED BY <1>2, <1>3

LEMMA FillInv ==
  ASSUME RootInv, NEW p \in Processes, Fill(p)
  PROVE  RootInv'
<1> DEFINE f == proc[p].pc
<1>1. TypeOK /\ proc[p] \in ProcType /\ f \in Files /\ proc[p].open
  BY DEF RootInv, TypeOK, Fill
<1>2. PICK q \in ProcType :
        /\ Step(p, q)
        /\ q.pc = IF f = "srvKey" THEN "search" ELSE NextPC(f)
        /\ f # "srvKey" => q.root = proc[p].root /\ ~ q.open
  BY <1>1, FillStep
<1>3. tls' = [tls EXCEPT ![f] = Content(p, f)] /\ UNCHANGED <<scene, copies, host, trusted>>
  BY DEF Fill
<1>4. raced' = (raced \/ (Creating(p) /\ \E o \in Processes \ {p} : Creating(o)))
  BY DEF Fill
<1>5. TypeOK' BY <1>1, <1>2, <1>3, <1>4, Wholes DEF TypeOK, Step
<1>6. tls \in [Files -> Contents] BY <1>1 DEF TypeOK
<1>7. ASSUME ~ raced' PROVE Core'
  <2>1. Core BY <1>4, <1>7 DEF RootInv
  <2>2. Creating(p) => \A o \in Processes \ {p} : ~ Creating(o) BY <1>4, <1>7
  <2>3. CASE f = "rootCert"
    <3>1. Creating(p) BY <2>3 DEF Creating
    <3>2. trusted = {} /\ rootKey.held = "none" BY <2>1, <2>3, <3>1 DEF Core, Created, Progress
    <3>3. /\ rootCert'.held = "whole" /\ rootCert'.pair = proc[p].root
          /\ rootKey' = rootKey
      BY <1>3, <1>6, <2>3 DEF rootCert, rootKey, Content, Cert, Files
    <3>4. q.pc = "rootKey" BY <1>2, <2>3 DEF NextPC
    <3>5. \A o \in Processes : proc'[o].pc \notin Settled
      BY <1>2, <2>1, <2>2, <3>1, <3>4, Alone DEF Step, Settled, HasRoot, Done
    <3>6. \A o \in Processes : Creating(o)' => o = p
      BY <1>2, <2>2, <3>1 DEF Step, Creating
    <3>7. OneCreator' BY <3>6 DEF OneCreator
    <3>8. Agree(proc[p].root)' BY <1>2, <2>3, <3>2, <3>3 DEF Agree, Step
    <3>9. Created'
      BY <1>2, <1>3, <2>3, <3>2, <3>3, <3>4, <3>6, <3>8 DEF Created, Progress, Step
    <3>10. Stands' /\ Agreed'
      BY <1>3, <3>2, <3>5 DEF Stands, Agreed, Settled, HasRoot, Done
    <3> QED BY <3>7, <3>9, <3>10 DEF Core
  <2>4. CASE f = "rootKey"
    <3>1. Creating(p) BY <2>4 DEF Creating
    <3>2. trusted = {} /\ rootCert.held \in {"none", "whole"} /\ Agree(proc[p].root)
      BY <2>1, <2>4, <3>1 DEF Core, Created, Progress
    <3>3. /\ rootKey'.held = "whole" /\ rootKey'.pair = proc[p].root
          /\ rootCert' = rootCert
      BY <1>3, <1>6, <2>4 DEF rootCert, rootKey, Content, Key, Files
    <3>4. q.pc = "hosts" /\ q.root = proc[p].root BY <1>2, <2>4 DEF NextPC
    <3>5. \A o \in Processes \ {p} : proc'[o].pc \notin Settled
      BY <1>2, <2>1, <2>2, <3>1, Alone DEF Step
    <3>6. \A o \in Processes : ~ Creating(o)'
      BY <1>2, <2>2, <3>1, <3>4 DEF Step, Creating
    <3>7. OneCreator' /\ Created' BY <3>6 DEF OneCreator, Created
    <3>8. Standing' BY <3>2, <3>3 DEF Standing
    <3>9. Stands' BY <3>6, <3>8 DEF Stands
    <3>10. Agree(proc[p].root)' /\ proc'[p].root = proc[p].root /\ proc'[p].pc = "hosts"
      BY <1>2, <3>2, <3>3, <3>4 DEF Agree, Step
    <3>11. /\ \A o \in Processes : proc'[o].pc \in HasRoot => Agree(proc[o].root)'
           /\ \A o \in Processes : proc'[o].pc \notin Done \cup {"srvKey", "serving"}
      BY <3>5, <3>10 DEF Settled, HasRoot, Done
    <3>12. Agreed' BY <1>3, <3>2, <3>11 DEF Agreed
    <3> QED BY <3>7, <3>9, <3>12 DEF Core
  <2>5. CASE f \in {"srvCert", "srvKey"}
    <3>1. rootCert' = rootCert /\ rootKey' = rootKey /\ trusted' = trusted
      BY <1>3, <1>6, <2>5 DEF rootCert, rootKey, Files
    <3>2. Standing' = Standing /\ \A r : Agree(r)' = Agree(r) BY <3>1 DEF Standing, Agree
    <3>3. \A o \in Processes : ~ Creating(o)
      BY <2>1, <2>5 DEF Core, Stands, Settled, HasRoot
    <3>4. Standing /\ Agree(proc[p].root) BY <2>1, <2>5 DEF Core, Stands, Agreed, Settled, HasRoot
    <3>5. q.pc \in {"srvKey", "search"} BY <1>2, <2>5 DEF NextPC
    <3>6. \A o \in Processes : ~ Creating(o)' BY <1>2, <3>3, <3>5 DEF Step, Creating
    <3>7. OneCreator' /\ Created' BY <3>6 DEF OneCreator, Created
    <3>8. Stands' BY <3>2, <3>4, <3>6 DEF Stands
    <3>9. CASE f = "srvCert"
      <4>1. srvCert'.by = proc[p].root
        BY <1>3, <1>6, <3>9 DEF srvCert, Content, Cert, Files
      <4>2. q.pc = "srvKey" /\ q.root = proc[p].root BY <1>2, <3>9 DEF NextPC
      <4>3. Agreed' BY <1>2, <2>1, <3>1, <3>2, <3>4, <4>1, <4>2 DEF Agreed, Core, Step, HasRoot, Done
      <4> QED BY <3>7, <3>8, <4>3 DEF Core
    <3>10. CASE f = "srvKey"
      <4>1. srvCert' = srvCert BY <1>3, <1>6, <3>10 DEF srvCert, Files
      <4>2. q.pc = "search" BY <1>2, <3>10
      <4>3. Agreed' BY <1>2, <2>1, <3>1, <3>2, <3>10, <4>1, <4>2 DEF Agreed, Core, Step, HasRoot, Done
      <4> QED BY <3>7, <3>8, <4>3 DEF Core
    <3> QED BY <2>5, <3>9, <3>10
  <2> QED BY <1>1, <2>3, <2>4, <2>5 DEF Files
<1> QED BY <1>5, <1>7 DEF RootInv

-----------------------------------------------------------------------------
(* The operator and the network *)

\* Nobody's place or knowledge changes.
Same(o) == proc'[o].pc = proc[o].pc /\ proc'[o].open = proc[o].open /\ proc'[o].root = proc[o].root

LEMMA Touches ==
  ASSUME TypeOK, Touched
  PROVE  proc' \in [Processes -> ProcType] /\ \A o \in Processes : Same(o)
<1>1. \A o \in Processes : proc[o] \in ProcType BY DEF TypeOK
<1>2. \A o \in Processes : proc'[o] =
        IF proc[o].pc = "idle" THEN proc[o] ELSE [proc[o] EXCEPT !.disturbed = TRUE]
  BY DEF Touched
<1>3. \A o \in Processes : proc'[o] \in ProcType BY <1>1, <1>2, Disturb
<1>4. \A o \in Processes : Same(o) BY <1>1, <1>2, Disturb DEF Same
<1> QED BY <1>3, <1>4 DEF Touched

\* Core depends on no more than the root, the certificate and where the
\* processes are.
LEMMA Unmoved ==
  ASSUME Core, \A o \in Processes : Same(o),
         rootCert' = rootCert, rootKey' = rootKey, srvCert' = srvCert, trusted' = trusted
  PROVE  Core'
<1>1. \A o \in Processes : Creating(o)' = Creating(o) BY DEF Same, Creating
<1>2. Standing' = Standing /\ \A r : Agree(r)' = Agree(r) BY DEF Standing, Agree
<1>3. OneCreator' BY <1>1 DEF Core, OneCreator, Same
<1>4. \A o \in Processes : Progress(o)' = Progress(o) BY DEF Progress, Same, Agree
<1>5. Created' BY <1>1, <1>4 DEF Core, Created
<1>6. Stands' BY <1>1, <1>2 DEF Core, Stands, Same
<1>7. Agreed' BY <1>2 DEF Core, Agreed, Same
<1> QED BY <1>3, <1>5, <1>6, <1>7 DEF Core

LEMMA LoseInv ==
  ASSUME RootInv, NEW f \in Files, Lose(f)
  PROVE  RootInv'
<1>1. TypeOK /\ tls \in [Files -> Contents] BY DEF RootInv, TypeOK
<1>2. f \in {"rootCert", "rootKey"} /\ tls' = [tls EXCEPT ![f] = None]
  BY DEF Lose
<1>3. UNCHANGED <<scene, copies, host, trusted, raced>> BY DEF Lose
<1>4. rootCert.held # "none" /\ rootKey.held # "none"
  BY DEF Lose, Exists, rootCert, rootKey
<1>5. proc' \in [Processes -> ProcType] /\ \A o \in Processes : Same(o)
  BY <1>1, Touches DEF Lose
<1>6. None \in Contents BY DEF None, Contents
<1>7. TypeOK' BY <1>1, <1>2, <1>3, <1>5, <1>6 DEF TypeOK
<1>8. \/ rootCert'.held = "none" /\ rootKey' = rootKey
      \/ rootKey'.held = "none" /\ rootCert' = rootCert
  BY <1>1, <1>2 DEF rootCert, rootKey, None, Files
<1>9. srvCert' = srvCert BY <1>1, <1>2 DEF srvCert, Files
<1>10. ASSUME ~ raced' PROVE Core'
  <2>1. Core BY <1>3, <1>10 DEF RootInv
  <2>2. \A o \in Processes : Creating(o)' = Creating(o) BY <1>5 DEF Same, Creating
  <2>3. \A r : Agree(r) => Agree(r)' BY <1>8 DEF Agree
  <2>4. rootCert.held \in {"none", "torn", "whole"} /\ rootKey.held \in {"none", "torn", "whole"}
    BY <1>1 DEF Contents, rootCert, rootKey, Files
  <2>5. Standing => Standing' BY <1>4, <1>8, <2>4 DEF Standing
  <2>6. \A o \in Processes : Creating(o) =>
          /\ proc[o].pc = "rootKey" /\ proc[o].open /\ Agree(proc[o].root)
          /\ rootCert.held = "whole" /\ rootKey.held = "torn" /\ trusted = {}
    BY <1>4, <2>1 DEF Core, Created, Progress, Creating
  <2>7. OneCreator' BY <1>5, <2>1, <2>2 DEF Core, OneCreator, Same
  <2>8. ASSUME NEW o \in Processes, Creating(o) PROVE Progress(o)' /\ trusted' = {}
    <3>1. Agree(proc[o].root)' BY <1>5, <2>3, <2>6, <2>8 DEF Same, Agree
    <3>2. proc'[o].pc = "rootKey" /\ proc'[o].open BY <1>5, <2>6, <2>8 DEF Same
    <3>3. /\ rootCert'.held \in {"none", "whole"} /\ rootKey'.held \in {"none", "torn"}
          /\ rootCert'.held = "whole" \/ rootKey'.held = "torn"
      BY <1>8, <2>6, <2>8
    <3> QED BY <1>3, <2>6, <2>8, <3>1, <3>2, <3>3 DEF Progress
  <2>9. Created' BY <2>2, <2>8 DEF Created
  <2>10. Stands' BY <1>3, <1>5, <2>1, <2>2, <2>5 DEF Core, Stands, Same
  <2>11. \A o \in Processes : Agree(proc[o].root) => Agree(proc[o].root)'
    BY <1>5, <2>3 DEF Same, Agree
  <2>12. Agreed' BY <1>3, <1>5, <1>9, <2>1, <2>3, <2>11 DEF Core, Agreed, Same, Agree
  <2> QED BY <2>7, <2>9, <2>10, <2>12 DEF Core
<1> QED BY <1>7, <1>10 DEF RootInv

LEMMA ResetInv ==
  ASSUME RootInv, Reset
  PROVE  RootInv'
<1>1. TypeOK /\ None \in Contents BY DEF RootInv, None, Contents
<1>2. TypeOK' BY <1>1 DEF TypeOK, Reset
<1>3. trusted' = {} /\ proc' = proc BY DEF Reset
<1>4. \A p \in Processes : proc'[p].pc = "idle" BY <1>3 DEF Reset, Alive
<1>5. \A p \in Processes : ~ Creating(p)' BY <1>4 DEF Creating
<1>6. OneCreator' /\ Created' BY <1>5 DEF OneCreator, Created
<1>7. Stands' /\ Agreed' BY <1>3, <1>4 DEF Stands, Agreed, Settled, HasRoot, Done
<1> QED BY <1>2, <1>6, <1>7 DEF RootInv, Core

LEMMA MoveInv ==
  ASSUME RootInv, Move
  PROVE  RootInv'
<1>1. TypeOK' BY DEF RootInv, TypeOK, Move
<1>2. ASSUME ~ raced' PROVE Core'
  BY <1>2, Unmoved DEF RootInv, Move, Same, rootCert, rootKey, srvCert
<1> QED BY <1>1, <1>2 DEF RootInv

LEMMA ProvideInv ==
  ASSUME RootInv, NEW d \in 1..Dirs, NEW m \in 1..Models, NEW c, Provide(d, m, c)
  PROVE  RootInv'
<1>1. TypeOK BY DEF RootInv
<1>2. proc' \in [Processes -> ProcType] /\ \A o \in Processes : Same(o)
  BY <1>1, Touches DEF Provide
<1>3. copies' \in [1..Dirs -> [1..Models -> {"none", "bad", "good"}]]
  BY <1>1 DEF TypeOK, Provide
<1>4. TypeOK' BY <1>1, <1>2, <1>3 DEF TypeOK, Provide
<1>5. ASSUME ~ raced' PROVE Core'
  BY <1>2, <1>5, Unmoved DEF RootInv, Provide, rootCert, rootKey, srvCert
<1> QED BY <1>4, <1>5 DEF RootInv

LEMMA KillInv ==
  ASSUME RootInv, NEW p \in Processes, Kill(p)
  PROVE  RootInv'
BY Exits DEF Kill

-----------------------------------------------------------------------------
(* The theorems *)

LEMMA InitInv ==
  ASSUME Init
  PROVE  RootInv
<1>1. \A p \in Processes : proc[p] = NoProc BY DEF Init
<1>2. proc \in [Processes -> ProcType] BY Nothing DEF Init
<1>3. tls \in [Files -> Contents]
  <2>1. None \in Contents BY DEF None, Contents
  <2>2. \A root, pair \in Pairs : \A f \in Files : Identity(root, pair, host)[f] \in Contents
    BY DEF Init, Identity, Cert, Key, Contents
  <2>3. \A root, pair \in Pairs : Identity(root, pair, host) \in [Files -> Contents]
    BY <2>2 DEF Identity
  <2> QED BY <2>1, <2>3 DEF Init
<1>4. copies \in [1..Dirs -> [1..Models -> {"none", "bad", "good"}]] BY DEF Init
<1>5. TypeOK BY <1>2, <1>3, <1>4 DEF Init, TypeOK
<1>6. \A p \in Processes : proc[p].pc = "idle" BY <1>1, Nothing
<1>7. \A p \in Processes : ~ Creating(p) BY <1>6 DEF Creating
<1>8. OneCreator /\ Created BY <1>7 DEF OneCreator, Created
<1>9. Stands /\ Agreed BY <1>6 DEF Init, Stands, Agreed, Settled, HasRoot, Done
<1> QED BY <1>5, <1>8, <1>9 DEF RootInv, Core

LEMMA StepInv ==
  ASSUME RootInv, [Next]_vars
  PROVE  RootInv'
<1>1. CASE UNCHANGED vars
  <2>1. TypeOK' BY <1>1 DEF RootInv, TypeOK, vars
  <2>2. ASSUME ~ raced' PROVE Core'
    BY <1>1, <2>2, Unmoved DEF RootInv, vars, Same, rootCert, rootKey, srvCert
  <2> QED BY <2>1, <2>2 DEF RootInv
<1>2. ASSUME NEW p \in Processes,
             \/ Begin(p) \/ Stat(p) \/ Load(p) \/ Truncate(p) \/ Fill(p)
             \/ CollectHosts(p) \/ Judge(p) \/ Search(p) \/ NextModel(p) \/ Remove(p)
             \/ Rename(p) \/ Engines(p) \/ Listen(p) \/ ListenHTTPS(p) \/ Serve(p) \/ Kill(p)
      PROVE  RootInv'
  BY <1>2, StartsAndPorts, StatInv, LoadInv, TruncateInv, FillInv, JudgeInv, Installs, ServeInv,
     KillInv
<1>3. CASE Move BY <1>3, MoveInv
<1>4. CASE Reset BY <1>4, ResetInv
<1>5. CASE \E f \in Files : Lose(f) BY <1>5, LoseInv
<1>6. CASE \E d \in 1..Dirs, m \in 1..Models, c \in {"none", "bad", "good"} : Provide(d, m, c)
  BY <1>6, ProvideInv
<1> QED BY <1>1, <1>2, <1>3, <1>4, <1>5, <1>6 DEF Next

LEMMA RootAlways == Spec => []RootInv
BY InitInv, StepInv, PTL DEF Spec

\* Every variable keeps its type.
THEOREM Typed == Spec => []TypeOK
BY RootAlways, PTL DEF RootInv

\* However starts are killed, files lost and certificates renewed, clients never
\* meet a second root, unless the operator deleted both files of the first or
\* two processes were creating it at once.
THEOREM RootStays == Spec => []RootNeverReplaced
<1>1. RootInv => RootNeverReplaced
  <2>1. SUFFICES ASSUME RootInv, ~ raced, NEW r \in trusted, NEW s \in trusted PROVE r = s
    BY DEF RootNeverReplaced
  <2>2. Standing /\ Agree(r) /\ Agree(s) BY <2>1 DEF RootInv, Core, Stands, Agreed
  <2> QED BY <2>2 DEF Standing, Agree
<1> QED BY <1>1, RootAlways, PTL

\* A running server presents a certificate of the root it hands out.
THEOREM UnderRoot == Spec => []ServedUnderRoot
<1>1. RootInv => ServedUnderRoot
  BY DEF RootInv, Core, Agreed, Agree, ServedUnderRoot, rootCert
<1> QED BY <1>1, RootAlways, PTL

-----------------------------------------------------------------------------
(* A start that nobody disturbs *)

srvKey == tls["srvKey"]

\* What the TLS files owe to a start that nobody disturbs: the certificate it
\* has written waits for its own key, and from then on the two match.
KeyInHand(p) ==
  /\ proc[p].pc = "srvKey" => srvCert.held = "whole" /\ srvCert.pair = proc[p].pair
  /\ proc[p].pc \in Done => Matches(srvCert, srvKey)

\* What the model files owe to it: the models it has passed are valid, one that
\* it removes was not, and what it puts in place has the pinned checksum.
ModelsInHand(p) ==
  /\ proc[p].pc \in {"model", "remove", "rename"} =>
       \A m \in 1..Models : m < proc[p].model => Valid(proc[p].dir, m)
  /\ proc[p].pc \in {"remove", "rename"} =>
       Verified(proc[p].temp) /\ ~ Valid(proc[p].dir, proc[p].model)
  /\ proc[p].pc = "engines" => AllValid(proc[p].dir)

\* Disturbed or not, it works in a candidate directory, on a pinned model.
InPlace(p) ==
  /\ proc[p].pc \in {"model", "remove", "rename", "engines"} => proc[p].dir \in 1..Dirs
  /\ proc[p].pc = "model" => proc[p].model \in 1..Models + 1
  /\ proc[p].pc \in {"remove", "rename"} => proc[p].model \in 1..Models

Sound(p) == InPlace(p) /\ (~ proc[p].disturbed => KeyInHand(p) /\ ModelsInHand(p))

StartInv == \A p \in Processes : Sound(p)

\* Nobody expects anything of a start that has ended, or of one at the TLS files.
LEMMA NothingOwed ==
  ASSUME NEW p \in Processes,
         proc[p].pc \notin Done \cup {"srvKey"}
  PROVE  Sound(p)
BY DEF Sound, InPlace, KeyInHand, ModelsInHand, Done

\* A start whose place, directory, model, temporary file and key pair stay, and
\* whose files stay, is as sound as it was.
LEMMA Kept ==
  ASSUME NEW p \in Processes, Sound(p), UNCHANGED <<tls, copies>>,
         proc'[p] = proc[p]
  PROVE  Sound(p)'
BY DEF Sound, InPlace, KeyInHand, ModelsInHand, srvCert, srvKey, Matches, Valid, AllValid

\* Others see a step that changes no file as no step at all.
LEMMA OthersStay ==
  ASSUME TypeOK, StartInv, NEW p \in Processes, NEW q, Go(p, q),
         UNCHANGED <<tls, copies>>
  PROVE  proc'[p] = q /\ \A o \in Processes : o # p => Sound(o)'
BY Kept DEF TypeOK, StartInv, Go

\* A start that is disturbed stays in its place.
LEMMA DisturbedSound ==
  ASSUME TypeOK, NEW o \in Processes, Sound(o),
         proc'[o] = IF proc[o].pc = "idle" THEN proc[o]
                    ELSE [proc[o] EXCEPT !.disturbed = TRUE]
  PROVE  Sound(o)' /\ proc'[o].pc = proc[o].pc
<1>1. CASE proc[o].pc = "idle"
  BY <1>1 DEF Sound, InPlace, KeyInHand, ModelsInHand, Done
<1>2. CASE proc[o].pc # "idle"
  <2>1. proc[o] \in ProcType BY DEF TypeOK
  <2>2. /\ proc'[o].disturbed = TRUE
        /\ proc'[o].pc = proc[o].pc /\ proc'[o].dir = proc[o].dir
        /\ proc'[o].model = proc[o].model
    BY <1>2, <2>1 DEF ProcType
  <2> QED BY <2>2 DEF Sound, InPlace
<1> QED BY <1>1, <1>2

\* A step that changes a file disturbs all the others.
LEMMA OthersDisturbed ==
  ASSUME TypeOK, StartInv, NEW p \in Processes, NEW q, Change(p, q)
  PROVE  proc'[p] = q /\ \A o \in Processes : o # p => Sound(o)' /\ proc'[o].pc = proc[o].pc
<1>1. proc'[p] = q BY DEF Change
<1>2. ASSUME NEW o \in Processes, o # p PROVE Sound(o)' /\ proc'[o].pc = proc[o].pc
  <2>1. proc'[o] = IF proc[o].pc = "idle" THEN proc[o]
                   ELSE [proc[o] EXCEPT !.disturbed = TRUE]
    BY <1>2 DEF Change
  <2> QED BY <2>1, DisturbedSound DEF StartInv
<1> QED BY <1>1, <1>2

\* What the operator does to a file disturbs everybody.
LEMMA TouchedSound ==
  ASSUME TypeOK, StartInv, Touched
  PROVE  StartInv' /\ \A o \in Processes : proc'[o].pc = proc[o].pc
<1>1. ASSUME NEW o \in Processes PROVE Sound(o)' /\ proc'[o].pc = proc[o].pc
  <2>1. proc'[o] = IF proc[o].pc = "idle" THEN proc[o]
                   ELSE [proc[o] EXCEPT !.disturbed = TRUE]
    BY DEF Touched
  <2> QED BY <2>1, DisturbedSound DEF StartInv
<1> QED BY <1>1 DEF StartInv

LEMMA ExitSound ==
  ASSUME TypeOK, StartInv, NEW p \in Processes, Exit(p), UNCHANGED <<tls, copies>>
  PROVE  StartInv'
<1>1. proc'[p] = NoProc /\ \A o \in Processes : o # p => Sound(o)'
  BY OthersStay DEF Exit
<1>2. Sound(p)'
  BY <1>1, Nothing DEF Sound, InPlace, KeyInHand, ModelsInHand, Done
<1> QED BY <1>1, <1>2 DEF StartInv

\* A step to a place before the certificate is written.
LEMMA EarlySound ==
  ASSUME TypeOK, StartInv, NEW p \in Processes, NEW q, Go(p, q),
         UNCHANGED <<tls, copies>>, q.pc \notin Done \cup {"srvKey"}
  PROVE  StartInv'
<1>1. proc'[p] = q /\ \A o \in Processes : o # p => Sound(o)'
  BY OthersStay
<1>2. Sound(p)'
  BY <1>1 DEF Sound, InPlace, KeyInHand, ModelsInHand, Done
<1> QED BY <1>1, <1>2 DEF StartInv

LEMMA IdentitySound ==
  ASSUME TypeOK, StartInv, NEW p \in Processes,
         Begin(p) \/ Stat(p) \/ Load(p) \/ CollectHosts(p)
  PROVE  StartInv'
<1>1. UNCHANGED <<tls, copies>> BY DEF Begin, Stat, Load, CollectHosts
<1>2. proc[p] \in ProcType BY DEF TypeOK
<1>3. CASE Exit(p) BY <1>1, <1>3, ExitSound
<1>4. ASSUME NEW pc \in {"stat", "load"}, To(p, pc) PROVE StartInv'
  BY <1>1, <1>2, <1>4, EarlySound DEF To, ProcType, Done
<1>5. ASSUME NEW k, Go(p, [proc[p] EXCEPT !.pc = "rootCert", !.open = FALSE, !.root = k])
      PROVE  StartInv'
  BY <1>1, <1>2, <1>5, EarlySound DEF ProcType, Done
<1>6. ASSUME NEW k, Go(p, [proc[p] EXCEPT !.pc = "hosts", !.root = k]) PROVE StartInv'
  BY <1>1, <1>2, <1>6, EarlySound DEF ProcType, Done
<1>7. ASSUME NEW h, Go(p, [proc[p] EXCEPT !.pc = "judge", !.host = h]) PROVE StartInv'
  BY <1>1, <1>2, <1>7, EarlySound DEF ProcType, Done
<1> QED BY <1>3, <1>4, <1>5, <1>6, <1>7 DEF Begin, Stat, Load, CollectHosts

\* A usable certificate is one whose key is there.
LEMMA JudgeSound ==
  ASSUME TypeOK, StartInv, NEW p \in Processes, Judge(p)
  PROVE  StartInv'
<1>1. UNCHANGED <<tls, copies>> /\ proc[p] \in ProcType BY DEF Judge, TypeOK
<1>2. CASE Usable(p)
  <2>1. Go(p, Ready(p)) BY <1>2 DEF Judge
  <2>2. proc'[p] = Ready(p) /\ \A o \in Processes : o # p => Sound(o)'
    BY <1>1, <2>1, OthersStay
  <2>3. Matches(srvCert, srvKey)' BY <1>1, <1>2 DEF Usable, srvCert, srvKey, Matches
  <2>4. Sound(p)' BY <2>2, <2>3 DEF Ready, Sound, InPlace, KeyInHand, ModelsInHand
  <2> QED BY <2>2, <2>4 DEF StartInv
<1>3. CASE ~ Usable(p)
  <2>1. PICK k \in Pairs : Go(p, [proc[p] EXCEPT !.pc = "srvCert", !.open = FALSE, !.pair = k])
    BY <1>3 DEF Judge
  <2> QED BY <1>1, <2>1, EarlySound DEF ProcType, Done
<1> QED BY <1>2, <1>3

LEMMA TruncateSound ==
  ASSUME TypeOK, StartInv, NEW p \in Processes, Truncate(p)
  PROVE  StartInv'
<1> DEFINE q == [proc[p] EXCEPT !.open = TRUE]
           f == proc[p].pc
<1>1. proc[p] \in ProcType /\ f \in Files /\ Change(p, q) BY DEF Truncate, TypeOK
<1>2. proc'[p] = q /\ \A o \in Processes : o # p => Sound(o)' BY <1>1, OthersDisturbed
<1>3. /\ q.pc = f /\ q.disturbed = proc[p].disturbed /\ q.pair = proc[p].pair
  BY <1>1 DEF ProcType
<1>4. f = "srvKey" => srvCert' = srvCert BY DEF Truncate, srvCert, TypeOK, Files
<1> HIDE DEF q
<1>5. Sound(p)'
  BY <1>1, <1>2, <1>3, <1>4 DEF StartInv, Sound, InPlace, KeyInHand, ModelsInHand, Done, Files
<1> QED BY <1>2, <1>5 DEF StartInv

\* The certificate is written whole, and then the key of the same pair.
LEMMA FillSound ==
  ASSUME TypeOK, StartInv, NEW p \in Processes, Fill(p)
  PROVE  StartInv'
<1> DEFINE f == proc[p].pc
           q == IF f = "srvKey" THEN Ready(p)
                ELSE [proc[p] EXCEPT !.open = FALSE, !.pc = NextPC(f)]
<1>1. proc[p] \in ProcType /\ f \in Files /\ Change(p, q) /\ tls \in [Files -> Contents]
  BY DEF Fill, TypeOK
<1>2. tls' = [tls EXCEPT ![f] = Content(p, f)] BY DEF Fill
<1>3. proc'[p] = q /\ \A o \in Processes : o # p => Sound(o)' BY <1>1, OthersDisturbed
<1>4. CASE f = "srvKey"
  <2>1. srvCert' = srvCert BY <1>1, <1>2, <1>4 DEF srvCert, Files
  <2>2. srvKey' = Key(proc[p].pair)
    BY <1>1, <1>2, <1>4 DEF srvKey, Content, Files
  <2>3. q.pc = "search" /\ q.disturbed = proc[p].disturbed BY <1>4 DEF Ready
  <2> HIDE DEF q
  <2>4. ~ proc[p].disturbed => Matches(srvCert, srvKey)'
    BY <1>4, <2>1, <2>2 DEF StartInv, Sound, KeyInHand, Matches, Key
  <2>5. Sound(p)' BY <1>3, <2>3, <2>4 DEF Sound, InPlace, KeyInHand, ModelsInHand
  <2> QED BY <1>3, <2>5 DEF StartInv
<1>5. CASE f = "srvCert"
  <2>1. srvCert' = Cert(proc[p].pair, proc[p].root, proc[p].host)
    BY <1>1, <1>2, <1>5 DEF srvCert, Content, Files
  <2>2. q.pc = "srvKey" /\ q.pair = proc[p].pair BY <1>1, <1>5 DEF NextPC, ProcType
  <2> HIDE DEF q
  <2>3. Sound(p)'
    BY <1>3, <2>1, <2>2 DEF Sound, InPlace, KeyInHand, ModelsInHand, Cert, Done
  <2> QED BY <1>3, <2>3 DEF StartInv
<1>6. CASE f \in {"rootCert", "rootKey"}
  <2>1. q.pc \in {"rootKey", "hosts"} BY <1>1, <1>6 DEF NextPC, ProcType
  <2> HIDE DEF q
  <2>2. Sound(p)' BY <1>3, <2>1 DEF Sound, InPlace, KeyInHand, ModelsInHand, Done
  <2> QED BY <1>3, <2>2 DEF StartInv
<1> QED BY <1>1, <1>4, <1>5, <1>6 DEF Files

\* A step of one start between the identity and the ports that leaves the files
\* alone: its key stays in hand, whatever its models are.
LEMMA LaterSound ==
  ASSUME TypeOK, StartInv, NEW p \in Processes, NEW q, Go(p, q),
         UNCHANGED <<tls, copies>>, proc[p].pc \in Done,
         q.pc \in Done \cup {"plain", "serving"}, q.disturbed = proc[p].disturbed,
         q.pc \in {"model", "remove", "rename", "engines"} => q.dir \in 1..Dirs,
         q.pc = "model" => q.model \in 1..Models + 1,
         q.pc \in {"remove", "rename"} => q.model \in 1..Models,
         ~ q.disturbed =>
           /\ q.pc \in {"model", "remove", "rename"} =>
                \A m \in 1..Models : m < q.model => Valid(q.dir, m)
           /\ q.pc \in {"remove", "rename"} => Verified(q.temp) /\ ~ Valid(q.dir, q.model)
           /\ q.pc = "engines" => AllValid(q.dir)
  PROVE  StartInv'
<1>1. proc'[p] = q /\ \A o \in Processes : o # p => Sound(o)' BY OthersStay
<1>2. InPlace(p)' BY <1>1 DEF InPlace
<1>3. ASSUME ~ q.disturbed PROVE KeyInHand(p)' /\ ModelsInHand(p)'
  <2>1. Matches(srvCert, srvKey) BY <1>3 DEF StartInv, Sound, KeyInHand
  <2>2. KeyInHand(p)' BY <1>1, <2>1 DEF KeyInHand, Matches, srvCert, srvKey, Done
  <2>3. \A d, m : Valid(d, m)' = Valid(d, m) BY DEF Valid
  <2>4. ModelsInHand(p)' BY <1>1, <1>3, <2>3 DEF ModelsInHand, AllValid
  <2> QED BY <2>2, <2>4
<1>4. Sound(p)' BY <1>1, <1>2, <1>3 DEF Sound
<1> QED BY <1>1, <1>4 DEF StartInv

\* The search opens a directory whose models are all valid, or begins with the
\* first model of the one it fills.
LEMMA SearchSound ==
  ASSUME TypeOK, StartInv, NEW p \in Processes, Search(p)
  PROVE  StartInv'
<1>1. UNCHANGED <<tls, copies>> /\ proc[p] \in ProcType /\ proc[p].pc \in Done
  BY DEF Search, TypeOK, Done
<1>2. ASSUME NEW d \in 1..Dirs, AllValid(d),
             Go(p, [proc[p] EXCEPT !.pc = "engines", !.dir = d])
      PROVE  StartInv'
  <2> DEFINE q == [proc[p] EXCEPT !.pc = "engines", !.dir = d]
  <2>1. q.pc = "engines" /\ q.dir = d /\ q.disturbed = proc[p].disturbed
    BY <1>1 DEF ProcType
  <2> HIDE DEF q
  <2>2. Go(p, q) BY <1>2 DEF q
  <2> QED BY <1>1, <1>2, <2>1, <2>2, LaterSound DEF Done
<1>3. ASSUME NEW d \in 1..Dirs,
             Go(p, [proc[p] EXCEPT !.pc = "model", !.dir = d, !.model = 1])
      PROVE  StartInv'
  <2> DEFINE q == [proc[p] EXCEPT !.pc = "model", !.dir = d, !.model = 1]
  <2>1. q.pc = "model" /\ q.dir = d /\ q.model = 1 /\ q.disturbed = proc[p].disturbed
    BY <1>1 DEF ProcType
  <2>2. Go(p, q) BY <1>3
  <2> HIDE DEF q
  <2>3. 1 \in 1..Models + 1 /\ \A m \in 1..Models : ~ (m < 1) BY StartAssumption
  <2> QED BY <1>1, <2>1, <2>2, <2>3, LaterSound DEF Done
<1>4. CASE Exit(p) BY <1>1, <1>4, ExitSound
<1> QED BY <1>2, <1>3, <1>4, StartAssumption DEF Search

\* The next model is valid already, or a verified copy of it is at hand; behind
\* the last one all are valid.
LEMMA NextModelSound ==
  ASSUME TypeOK, StartInv, NEW p \in Processes, NextModel(p)
  PROVE  StartInv'
<1> DEFINE n == proc[p].model
           d == proc[p].dir
<1>1. /\ UNCHANGED <<tls, copies>> /\ proc[p] \in ProcType
      /\ proc[p].pc = "model" /\ proc[p].pc \in Done
  BY DEF NextModel, TypeOK, Done
<1>2. n \in 1..Models + 1 /\ n \in Nat /\ d \in 1..Dirs
  BY <1>1, StartAssumption DEF ProcType, StartInv, Sound, InPlace
<1>3. ~ proc[p].disturbed => \A m \in 1..Models : m < n => Valid(d, m)
  BY <1>1 DEF StartInv, Sound, ModelsInHand
<1>4. Models \in Nat BY StartAssumption
<1>5. CASE n > Models /\ To(p, "engines")
  <2> DEFINE q == [proc[p] EXCEPT !.pc = "engines"]
  <2>1. q.pc = "engines" /\ q.dir = d /\ q.disturbed = proc[p].disturbed
    BY <1>1 DEF ProcType
  <2>2. Go(p, q) BY <1>5 DEF To
  <2> HIDE DEF q
  <2>3. ~ proc[p].disturbed => AllValid(d)
    <3>1. \A m \in 1..Models : m < n BY <1>2, <1>4, <1>5
    <3> QED BY <1>3, <3>1 DEF AllValid
  <2> QED BY <1>1, <1>2, <2>1, <2>2, <2>3, LaterSound DEF Done
<1>6. CASE n <= Models /\ Keeps(d, n) /\ Go(p, [proc[p] EXCEPT !.model = n + 1])
  <2> DEFINE q == [proc[p] EXCEPT !.model = n + 1]
  <2>1. q.pc = "model" /\ q.dir = d /\ q.disturbed = proc[p].disturbed /\ q.model = n + 1
    BY <1>1 DEF ProcType
  <2>2. Go(p, q) BY <1>6
  <2> HIDE DEF q
  <2>3. n + 1 \in 1..Models + 1
    BY <1>2, <1>4, <1>6
  <2>4. ~ proc[p].disturbed => \A m \in 1..Models : m < n + 1 => Valid(d, m)
    <3>1. \A m \in 1..Models : m < n + 1 => m < n \/ m = n BY <1>2
    <3> QED BY <1>3, <1>6, <3>1 DEF Keeps
  <2> QED BY <1>1, <1>2, <2>1, <2>2, <2>3, <2>4, LaterSound DEF Done
<1>7. ASSUME n <= Models, ~ Keeps(d, n), NEW temp, Verified(temp),
             Go(p, [proc[p] EXCEPT !.pc = "remove", !.temp = temp])
      PROVE  StartInv'
  <2> DEFINE q == [proc[p] EXCEPT !.pc = "remove", !.temp = temp]
  <2>1. /\ q.pc = "remove" /\ q.dir = d /\ q.disturbed = proc[p].disturbed
        /\ q.model = n /\ q.temp = temp
    BY <1>1 DEF ProcType
  <2>2. Go(p, q) BY <1>7
  <2> HIDE DEF q
  <2>3. n \in 1..Models
    BY <1>2, <1>4, <1>7
  <2>4. ~ Valid(d, n) BY <1>7 DEF Keeps
  <2> QED BY <1>1, <1>2, <1>3, <1>7, <2>1, <2>2, <2>3, <2>4, LaterSound DEF Done
<1>8. CASE Exit(p) BY <1>1, <1>8, ExitSound
<1> QED BY <1>2, <1>4, <1>5, <1>6, <1>7, <1>8 DEF NextModel

\* Removing or renaming touches one model of one directory, in which a start
\* that nobody disturbs has no valid file, and disturbs all the others.
LEMMA PutFacts ==
  ASSUME TypeOK, StartInv, NEW p \in Processes, NEW c, NEW pc, NEW n,
         Put(p, c, pc, n), proc[p].pc \in {"remove", "rename"}
  PROVE  /\ proc[p].dir \in 1..Dirs /\ proc[p].model \in 1..Models
         /\ \A d \in 1..Dirs, m \in 1..Models :
              copies'[d][m] = IF d = proc[p].dir /\ m = proc[p].model THEN c
                              ELSE copies[d][m]
         /\ UNCHANGED tls
         /\ \A o \in Processes : o # p => Sound(o)' /\ proc'[o].pc = proc[o].pc
         /\ proc'[p].pc = pc /\ proc'[p].dir = proc[p].dir /\ proc'[p].model = n
         /\ proc'[p].temp = IF pc = "model" THEN "none" ELSE proc[p].temp
         /\ proc'[p].disturbed = proc[p].disturbed
<1> DEFINE q == [proc[p] EXCEPT !.pc = pc, !.model = n,
                                !.temp = IF pc = "model" THEN "none" ELSE @]
<1>1. proc[p] \in ProcType /\ Change(p, q) BY DEF Put, TypeOK
<1>2. proc[p].dir \in 1..Dirs /\ proc[p].model \in 1..Models
  BY DEF StartInv, Sound, InPlace
<1>3. copies' = [copies EXCEPT ![proc[p].dir][proc[p].model] = c] /\ UNCHANGED tls
  BY DEF Put
<1>4. \A d \in 1..Dirs, m \in 1..Models :
        copies'[d][m] = IF d = proc[p].dir /\ m = proc[p].model THEN c ELSE copies[d][m]
  BY <1>2, <1>3 DEF TypeOK
<1>5. /\ q.pc = pc /\ q.dir = proc[p].dir /\ q.model = n
      /\ q.temp = IF pc = "model" THEN "none" ELSE proc[p].temp
      /\ q.disturbed = proc[p].disturbed
  BY <1>1 DEF ProcType
<1> HIDE DEF q
<1>6. proc'[p] = q /\ \A o \in Processes : o # p => Sound(o)' /\ proc'[o].pc = proc[o].pc
  BY <1>1, OthersDisturbed
<1> QED BY <1>2, <1>3, <1>4, <1>5, <1>6

LEMMA RemoveSound ==
  ASSUME TypeOK, StartInv, NEW p \in Processes, Remove(p)
  PROVE  StartInv'
<1> DEFINE d == proc[p].dir
           n == proc[p].model
<1>1. proc[p].pc = "remove" /\ Put(p, "none", "rename", n) BY DEF Remove
<1>2. /\ d \in 1..Dirs /\ n \in 1..Models /\ UNCHANGED tls
      /\ \A e \in 1..Dirs, m \in 1..Models :
           copies'[e][m] = IF e = d /\ m = n THEN "none" ELSE copies[e][m]
      /\ \A o \in Processes : o # p => Sound(o)'
      /\ proc'[p].pc = "rename" /\ proc'[p].dir = d /\ proc'[p].model = n
      /\ proc'[p].temp = proc[p].temp /\ proc'[p].disturbed = proc[p].disturbed
  BY <1>1, PutFacts
<1>3. InPlace(p)' BY <1>2 DEF InPlace
<1>4. ASSUME ~ proc[p].disturbed PROVE KeyInHand(p)' /\ ModelsInHand(p)'
  <2>1. /\ Matches(srvCert, srvKey) /\ Verified(proc[p].temp)
        /\ \A m \in 1..Models : m < n => Valid(d, m)
    BY <1>1, <1>4 DEF StartInv, Sound, KeyInHand, ModelsInHand, Done
  <2>2. KeyInHand(p)' BY <1>2, <2>1 DEF KeyInHand, Matches, srvCert, srvKey, Done
  <2>3. \A m \in 1..Models : m < n => copies'[d][m] = "good"
    BY <1>2, <2>1 DEF Valid
  <2>4. copies'[d][n] # "good" BY <1>2
  <2>5. ModelsInHand(p)' BY <1>2, <2>1, <2>3, <2>4 DEF ModelsInHand, Valid
  <2> QED BY <2>2, <2>5
<1> QED BY <1>2, <1>3, <1>4 DEF StartInv, Sound

LEMMA RenameSound ==
  ASSUME TypeOK, StartInv, NEW p \in Processes, Rename(p)
  PROVE  StartInv'
<1> DEFINE d == proc[p].dir
           n == proc[p].model
<1>1. proc[p].pc = "rename" /\ Put(p, proc[p].temp, "model", n + 1) BY DEF Rename
<1>2. /\ d \in 1..Dirs /\ n \in 1..Models /\ UNCHANGED tls
      /\ \A e \in 1..Dirs, m \in 1..Models :
           copies'[e][m] = IF e = d /\ m = n THEN proc[p].temp ELSE copies[e][m]
      /\ \A o \in Processes : o # p => Sound(o)'
      /\ proc'[p].pc = "model" /\ proc'[p].dir = d /\ proc'[p].model = n + 1
      /\ proc'[p].disturbed = proc[p].disturbed
  BY <1>1, PutFacts
<1>3. n + 1 \in 1..Models + 1 BY <1>2, StartAssumption
<1>4. InPlace(p)' BY <1>2, <1>3 DEF InPlace
<1>5. ASSUME ~ proc[p].disturbed PROVE KeyInHand(p)' /\ ModelsInHand(p)'
  <2>1. /\ Matches(srvCert, srvKey) /\ proc[p].temp = "good"
        /\ \A m \in 1..Models : m < n => Valid(d, m)
    BY <1>1, <1>5 DEF StartInv, Sound, KeyInHand, ModelsInHand, Done, Verified
  <2>2. KeyInHand(p)' BY <1>2, <2>1 DEF KeyInHand, Matches, srvCert, srvKey, Done
  <2>3. \A m \in 1..Models : m < n + 1 => copies'[d][m] = "good"
    <3>1. \A m \in 1..Models : m < n + 1 => m < n \/ m = n BY <1>2
    <3> QED BY <1>2, <2>1, <3>1 DEF Valid
  <2>4. ModelsInHand(p)' BY <1>2, <2>3 DEF ModelsInHand, Valid
  <2> QED BY <2>2, <2>4
<1> QED BY <1>2, <1>4, <1>5 DEF StartInv, Sound

LEMMA PortsSound ==
  ASSUME TypeOK, StartInv, NEW p \in Processes,
         Engines(p) \/ Listen(p) \/ ListenHTTPS(p) \/ Serve(p)
  PROVE  StartInv'
<1>1. /\ UNCHANGED <<tls, copies>> /\ proc[p] \in ProcType
      /\ proc[p].pc \in {"engines", "listen", "https", "pair"}
  BY DEF Engines, Listen, ListenHTTPS, Serve, TypeOK
<1>2. CASE Exit(p) BY <1>1, <1>2, ExitSound
<1>3. ASSUME NEW pc \in {"https", "pair", "plain"}, To(p, pc) PROVE StartInv'
  <2> DEFINE q == [proc[p] EXCEPT !.pc = pc]
  <2>1. q.pc = pc /\ q.disturbed = proc[p].disturbed BY <1>1 DEF ProcType
  <2>2. Go(p, q) BY <1>3 DEF To
  <2> HIDE DEF q
  <2> QED BY <1>1, <2>1, <2>2, LaterSound DEF Done
<1>4. CASE Go(p, [proc[p] EXCEPT !.pc = "listen", !.dir = 0, !.model = 0])
  <2> DEFINE q == [proc[p] EXCEPT !.pc = "listen", !.dir = 0, !.model = 0]
  <2>1. q.pc = "listen" /\ q.disturbed = proc[p].disturbed BY <1>1 DEF ProcType
  <2>2. Go(p, q) BY <1>4
  <2> HIDE DEF q
  <2> QED BY <1>1, <2>1, <2>2, LaterSound DEF Done
<1>5. ASSUME NEW k, Go(p, [proc[p] EXCEPT !.pc = "serving", !.root = k]) PROVE StartInv'
  BY <1>1, <1>5, EarlySound DEF ProcType, Done
<1> QED BY <1>2, <1>3, <1>4, <1>5 DEF Engines, Listen, ListenHTTPS, Serve

\* Every step of Next keeps every start sound.
LEMMA SoundStep ==
  ASSUME TypeOK, StartInv, [Next]_vars
  PROVE  StartInv'
<1>1. ASSUME NEW p \in Processes, Kill(p) PROVE StartInv'
  BY <1>1, ExitSound DEF Kill
<1>2. CASE \/ \E f \in Files : Lose(f)
           \/ \E d \in 1..Dirs, m \in 1..Models, c \in {"none", "bad", "good"} : Provide(d, m, c)
  BY <1>2, TouchedSound DEF Lose, Provide
<1>3. CASE Reset
  <2>1. \A p \in Processes : proc'[p] = proc[p] /\ proc[p].pc = "idle"
    BY <1>3 DEF Reset, Alive
  <2> QED BY <2>1 DEF StartInv, Sound, InPlace, KeyInHand, ModelsInHand, Done
<1>4. CASE Move \/ UNCHANGED vars
  <2>1. UNCHANGED <<tls, copies, proc>> BY <1>4 DEF Move, vars
  <2> QED BY <2>1, Kept DEF StartInv
<1> QED
  BY <1>1, <1>2, <1>3, <1>4, IdentitySound, JudgeSound, TruncateSound, FillSound, SearchSound,
     NextModelSound, RemoveSound, RenameSound, PortsSound DEF Next

LEMMA SoundAlways == Spec => []StartInv
<1>1. Init => StartInv
  BY Nothing DEF Init, StartInv, Sound, InPlace, KeyInHand, ModelsInHand, Done
<1>2. TypeOK /\ StartInv /\ [Next]_vars => StartInv'
  BY SoundStep
<1> QED BY <1>1, <1>2, Typed, PTL DEF Spec

\* Whatever a killed start left in the TLS directory, a start that nobody
\* disturbs has a certificate with its key once ensureTLSIdentity has returned,
\* and keeps both until it serves.
THEOREM IdentityPrepared == Spec => []Prepared
<1>1. StartInv => Prepared
  BY DEF StartInv, Sound, KeyInHand, Prepared, Done, srvCert, srvKey
<1> QED BY <1>1, SoundAlways, PTL

\* Whatever the directories held and the network delivers, the engines of a
\* start that nobody disturbs open models with the pinned checksums only.
THEOREM OnlyVerifiedModels == Spec => []VerifiedModels
<1>1. StartInv => VerifiedModels
  BY DEF StartInv, Sound, ModelsInHand, VerifiedModels
<1> QED BY <1>1, SoundAlways, PTL

\* Only Remove and Rename take a file from a process that is not alone in the
\* step with the operator; both work where there was no valid one.
LEMMA CopiesStep ==
  ASSUME TypeOK, StartInv, [Next]_vars, NEW p \in Processes,
         proc'[p].pc # proc[p].pc, ~ proc[p].disturbed,
         NEW d \in 1..Dirs, NEW m \in 1..Models, Valid(d, m)
  PROVE  Valid(d, m)'
<1>1. CASE UNCHANGED copies
  BY <1>1 DEF Valid
<1>2. ASSUME NEW o \in Processes, Remove(o) \/ Rename(o)
      PROVE  Valid(d, m)'
  <2>1. PICK c, pc, n : Put(o, c, pc, n) /\ proc[o].pc \in {"remove", "rename"}
    BY <1>2 DEF Remove, Rename
  <2>2. /\ \A e \in 1..Dirs, k \in 1..Models :
             copies'[e][k] = IF e = proc[o].dir /\ k = proc[o].model THEN c ELSE copies[e][k]
        /\ \A x \in Processes : x # o => proc'[x].pc = proc[x].pc
    BY <2>1, PutFacts
  <2>3. p = o BY <2>2
  <2>4. ~ Valid(proc[p].dir, proc[p].model)
    BY <2>1, <2>3 DEF StartInv, Sound, ModelsInHand
  <2> QED BY <2>2, <2>3, <2>4 DEF Valid
<1>3. ASSUME NEW e \in 1..Dirs, NEW k \in 1..Models, NEW c, Provide(e, k, c)
      PROVE  FALSE
  BY <1>3, TouchedSound DEF Provide
<1>4. ASSUME NEW o \in Processes,
             \/ Begin(o) \/ Stat(o) \/ Load(o) \/ Truncate(o) \/ Fill(o) \/ CollectHosts(o)
             \/ Judge(o) \/ Search(o) \/ NextModel(o)
      PROVE  UNCHANGED copies
  BY <1>4 DEF Begin, Stat, Load, Truncate, Fill, CollectHosts, Judge, Search, NextModel
<1>5. ASSUME NEW o \in Processes,
             Engines(o) \/ Listen(o) \/ ListenHTTPS(o) \/ Serve(o) \/ Kill(o)
      PROVE  UNCHANGED copies
  BY <1>5 DEF Engines, Listen, ListenHTTPS, Serve, Kill
<1>6. ASSUME Move \/ Reset \/ (\E f \in Files : Lose(f)) \/ UNCHANGED vars
      PROVE  UNCHANGED copies
  BY <1>6 DEF Move, Reset, Lose, vars
<1> QED BY <1>1, <1>2, <1>3, <1>4, <1>5, <1>6 DEF Next

\* A start that nobody disturbs never takes a valid model away, in any directory,
\* not even between the removal of a file and the arrival of its successor.
THEOREM CopiesStay == Spec => GoodCopiesStay
<1>1. TypeOK /\ StartInv /\ [Next]_vars =>
        [\A p \in Processes, d \in 1..Dirs, m \in 1..Models :
           proc'[p].pc # proc[p].pc /\ ~ proc[p].disturbed /\ Valid(d, m) => Valid(d, m)']_vars
  BY CopiesStep
<1> QED BY <1>1, SoundAlways, Typed, PTL DEF Spec, GoodCopiesStay
=============================================================================
