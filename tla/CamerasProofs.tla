--------------------------- MODULE CamerasProofs ---------------------------
(***************************************************************************)
(* For any number of cameras and handlers: there is one default camera,    *)
(* unless an update wrote a default flag that had changed under it, one    *)
(* recognition per camera at a time, and no cached frame of settings the   *)
(* camera no longer has (Owned).                                           *)
(***************************************************************************)
EXTENDS Cameras, TLAPS

Gated == {"find", "lock", "fetch", "answer"}

\* A handler has a camera, settings if it is about to write them, and passed
\* the gate only on its way to an answer.
Good(q) ==
  /\ q.pc # "idle" => q.c \in IDs
  /\ q.pc \in {"current", "update"} => q.settings \in Settings
  /\ q.gated => q.pc \in Gated

Informed == \A r \in Requests : Good(req[r])

DefaultInv == TypeOK /\ Informed /\ AtMostOneDefault /\ DefaultKept

\* The rows of the table are typed.
TableOK(f) == f \in [DOMAIN f -> [settings : Settings, default : BOOLEAN]]

Pcs == {"idle", "current", "update", "reread", "invalidate", "gate", "find",
        "lock", "fetch", "answer"}

\* What handlers start from is typed.
LEMMA Idle == NoReq \in ReqType /\ Good(NoReq) /\ Empty \in [frame : Settings \cup {NoSettings},
                                              owner : Requests \cup {NoEntry}]
BY CamerasAssumption DEF NoReq, Work, ReqType, Empty, Good

LEMMA Works ==
  ASSUME NEW pc \in Pcs, NEW c \in IDs, NEW settings \in Settings \cup {NoSettings},
         NEW want \in BOOLEAN
  PROVE  /\ Work(pc, c, settings, want) \in ReqType
         /\ (pc \in {"current", "update"} => settings \in Settings)
              => Good(Work(pc, c, settings, want))
BY CamerasAssumption DEF Work, Pcs, ReqType, IDs, Good

\* A handler that goes on with another pc keeps its type.
LEMMA Proceed ==
  ASSUME NEW q \in ReqType, NEW pc \in Pcs, Good(q), q.pc # "idle",
         pc \in {"reread", "invalidate"} => ~ q.gated,
         pc \notin {"idle", "current", "update", "gate"}
  PROVE  /\ [q EXCEPT !.pc = pc] \in ReqType
         /\ Good([q EXCEPT !.pc = pc])
         /\ [q EXCEPT !.pc = pc].gated = q.gated
         /\ [q EXCEPT !.pc = pc].c = q.c
BY DEF ReqType, Pcs, Good, Gated

\* One handler moves: its new record is typed and, before a write, has settings.
LEMMA Moves ==
  ASSUME DefaultInv, NEW r \in Requests, NEW q \in ReqType,
         Good(q),
         req' = [req EXCEPT ![r] = q]
  PROVE  req' \in [Requests -> ReqType] /\ Informed'
<1>1. req \in [Requests -> ReqType] BY DEF DefaultInv, TypeOK
<1>2. req' \in [Requests -> ReqType] BY <1>1
<1>3. \A o \in Requests : req'[o] = IF o = r THEN q ELSE req[o] BY <1>1
<1>4. Informed BY DEF DefaultInv
<1> QED BY <1>2, <1>3, <1>4 DEF Informed

\* A step that leaves the table alone keeps what is said of the defaults.
LEMMA Reads ==
  ASSUME DefaultInv, UNCHANGED table, req' \in [Requests -> ReqType], Informed',
         entryOf' \in [IDs -> Entries \cup {NoEntry}],
         entry' \in [Entries -> [frame : Settings \cup {NoSettings},
                                 owner : Requests \cup {NoEntry}]],
         busy' \subseteq IDs, late' \subseteq IDs
  PROVE  DefaultInv'
<1>1. TypeOK' BY DEF DefaultInv, TypeOK, table
<1>2. AtMostOneDefault' BY DEF DefaultInv, AtMostOneDefault, table
<1>3. DefaultKept' BY DEF DefaultInv, DefaultKept, table
<1> QED BY <1>1, <1>2, <1>3 DEF DefaultInv

\* A step that writes the table and keeps the cache and the gate.
LEMMA Writes ==
  ASSUME DefaultInv, UNCHANGED <<cache, busy>>, req' \in [Requests -> ReqType], Informed',
         lastID' \in 0..MaxCameras, DOMAIN cams' \subseteq 1..lastID', TableOK(cams'),
         overtaken' \in BOOLEAN, AtMostOneDefault', DefaultKept'
  PROVE  DefaultInv'
BY DEF DefaultInv, TypeOK, cache, TableOK

\* Nobody is served at the start.
LEMMA InitInv == Init => DefaultInv
<1> SUFFICES ASSUME Init PROVE DefaultInv OBVIOUS
<1>1. DOMAIN cams = {} /\ cams \in [DOMAIN cams -> [settings : Settings, default : BOOLEAN]]
  BY DEF Init
<1>2. lastID = 0 /\ lastID \in 0..MaxCameras BY CamerasAssumption DEF Init
<1>3. entryOf \in [IDs -> Entries \cup {NoEntry}] /\ busy \subseteq IDs /\ late \subseteq IDs
  BY DEF Init
<1>4. /\ entry \in [Entries -> [frame : Settings \cup {NoSettings}, owner : Requests \cup {NoEntry}]]
      /\ req \in [Requests -> ReqType] /\ overtaken \in BOOLEAN
  BY Idle DEF Init
<1>5. TypeOK BY <1>1, <1>2, <1>3, <1>4 DEF TypeOK
<1>6. Informed BY Idle DEF Init, Informed
<1>7. AtMostOneDefault /\ DefaultKept BY <1>1 DEF AtMostOneDefault, DefaultKept
<1> QED BY <1>5, <1>6, <1>7 DEF DefaultInv

\* Clearing the flags of the others leaves a table with no default but c's.
LEMMA Clear ==
  ASSUME DefaultInv, NEW c
  PROVE  /\ TableOK(Cleared(c)) /\ DOMAIN Cleared(c) = DOMAIN cams
         /\ \A d \in DOMAIN cams : d # c => ~ Cleared(c)[d].default
<1>1. TableOK(cams) BY DEF DefaultInv, TypeOK, TableOK
<1> QED BY <1>1 DEF Cleared, TableOK

LEMMA CreateInv ==
  ASSUME DefaultInv, NEW settings \in Settings, NEW want \in BOOLEAN,
         Create(settings, want)
  PROVE  DefaultInv'
<1> DEFINE makeDefault == want \/ DOMAIN cams = {}
           others == IF makeDefault THEN Cleared(0) ELSE cams
           id == lastID + 1
           new == [d \in DOMAIN cams \cup {id} |->
                     IF d = id THEN Row(settings, makeDefault) ELSE others[d]]
<1>1. TypeOK /\ TableOK(cams) BY DEF DefaultInv, TypeOK, TableOK
<1>2. req' \in [Requests -> ReqType] /\ Informed'
  BY <1>1 DEF Create, DefaultInv, TypeOK, Informed
<1>3. UNCHANGED <<overtaken, cache, busy>> BY DEF Create, cache
<1>4. CASE Taken(settings, 0)
  <2>1. cams' = cams /\ lastID' = lastID BY <1>4 DEF Create, Committed
  <2>2. UNCHANGED table BY <2>1, <1>3 DEF table
  <2> QED BY <2>2, <1>1, <1>2, <1>3, Reads DEF TypeOK, cache
<1>5. CASE ~ Taken(settings, 0)
  <2>1. cams' = new /\ lastID' = id /\ id \in IDs
    BY <1>5 DEF Create, Committed
  <2>2. id \notin DOMAIN cams /\ lastID \in Nat BY <1>1 DEF TypeOK
  <2>3. TableOK(others) /\ DOMAIN others = DOMAIN cams
    BY <1>1, Clear
  <2>4. \A d \in DOMAIN cams : makeDefault => ~ others[d].default
    BY <2>2, <1>1, Clear DEF TypeOK
  <2>5. makeDefault \in BOOLEAN OBVIOUS
  <2> HIDE DEF makeDefault, others
  <2>6. Row(settings, makeDefault) \in [settings : Settings, default : BOOLEAN]
        /\ Row(settings, makeDefault).default = makeDefault
    BY <2>5 DEF Row
  <2>7. TableOK(new) BY <2>3, <2>6 DEF TableOK
  <2>8. DOMAIN new \subseteq 1..id /\ id \in 0..MaxCameras
    BY <1>1, <2>1, <2>2, CamerasAssumption DEF TypeOK, IDs
  <2>9. \A d \in DOMAIN new : new[d] = IF d = id THEN Row(settings, makeDefault) ELSE others[d]
    OBVIOUS
  <2>10. AtMostOneDefault'
    <3>1. CASE makeDefault
      BY <3>1, <2>1, <2>4, <2>9 DEF AtMostOneDefault
    <3>2. CASE ~ makeDefault
      <4>1. others = cams BY <3>2 DEF others
      <4>2. \A d \in DOMAIN new : new[d].default => d \in DOMAIN cams /\ cams[d].default
        BY <4>1, <3>2, <2>6, <2>9
      <4> QED BY <4>2, <2>1 DEF AtMostOneDefault, DefaultInv
    <3> QED BY <3>1, <3>2
  <2>11. DefaultKept'
    <3>1. CASE makeDefault
      <4>1. id \in DOMAIN new /\ new[id].default BY <3>1, <2>6, <2>9
      <4> QED BY <4>1, <2>1 DEF DefaultKept
    <3>2. CASE ~ makeDefault
      <4>1. others = cams /\ DOMAIN cams # {} BY <3>2 DEF others, makeDefault
      <4>2. SUFFICES ASSUME ~ overtaken PROVE \E d \in DOMAIN new : new[d].default
        BY <2>1, <1>3 DEF DefaultKept
      <4>3. PICK d \in DOMAIN cams : cams[d].default
        BY <4>1, <4>2 DEF DefaultInv, DefaultKept
      <4>4. d \in DOMAIN new /\ new[d] = cams[d] BY <4>1, <4>3, <2>2, <2>9
      <4> QED BY <4>3, <4>4
    <3> QED BY <3>1, <3>2
  <2> QED BY <2>1, <2>7, <2>8, <2>10, <2>11, <1>1, <1>2, <1>3, Writes DEF TypeOK
<1> QED BY <1>4, <1>5

LEMMA SetDefaultInv ==
  ASSUME DefaultInv, NEW c \in IDs, SetDefault(c)
  PROVE  DefaultInv'
<1>1. TypeOK /\ TableOK(cams) BY DEF DefaultInv, TypeOK, TableOK
<1>2. req' \in [Requests -> ReqType] /\ Informed'
  BY <1>1 DEF SetDefault, DefaultInv, TypeOK, Informed
<1>3. UNCHANGED <<lastID, overtaken, cache, busy>> BY DEF SetDefault, cache
<1>4. /\ DOMAIN cams' = DOMAIN cams /\ c \in DOMAIN cams
      /\ \A d \in DOMAIN cams : cams'[d] = [cams[d] EXCEPT !.default = d = c]
  BY DEF SetDefault
<1>5. TableOK(cams') /\ \A d \in DOMAIN cams : cams'[d].default <=> d = c
  BY <1>1, <1>4 DEF TableOK, SetDefault
<1>6. AtMostOneDefault' /\ DefaultKept' BY <1>4, <1>5 DEF AtMostOneDefault, DefaultKept
<1> QED BY <1>1, <1>2, <1>3, <1>4, <1>5, <1>6, Writes DEF TypeOK

LEMMA UpdateInv ==
  ASSUME DefaultInv, NEW r \in Requests, Update(r)
  PROVE  DefaultInv'
<1> DEFINE c == req[r].c
           makeDefault == req[r].default \/ req[r].want
           others == IF makeDefault THEN Cleared(c) ELSE cams
           ok == c \in DOMAIN cams /\ ~ Taken(req[r].settings, c)
           row == Row(req[r].settings, makeDefault)
           new == [d \in DOMAIN cams |-> IF d = c THEN row ELSE others[d]]
<1>1. TypeOK /\ TableOK(cams) BY DEF DefaultInv, TypeOK, TableOK
<1>2. req[r] \in ReqType /\ req[r].settings \in Settings /\ ~ req[r].gated /\ Good(req[r])
  BY DEF DefaultInv, TypeOK, Informed, Update, Good, Gated
<1>3. PICK q \in ReqType : Good(q) /\ req' = [req EXCEPT ![r] = q]
  <2>1. CASE ok
    <3>1. req' = [req EXCEPT ![r] = [req[r] EXCEPT !.pc = "reread"]] BY <2>1, <1>1 DEF Update, To, TypeOK
    <3>2. req[r].pc # "idle" BY DEF Update
    <3> QED BY <3>1, <3>2, <1>2, Proceed DEF Pcs
  <2>2. CASE ~ ok BY <2>2, Idle DEF Update, Finish
  <2> QED BY <2>1, <2>2
<1>4. req' \in [Requests -> ReqType] /\ Informed' BY <1>3, Moves
<1>5. UNCHANGED <<lastID, cache, busy>> BY DEF Update, cache
<1>6. overtaken' = (overtaken \/ (ok /\ cams[c].default /\ ~ makeDefault)) BY DEF Update
<1>7. CASE ~ ok
  <2>1. cams' = cams BY <1>7 DEF Update, Committed
  <2>2. overtaken' = overtaken BY <1>6, <1>7, <1>1 DEF TypeOK
  <2>3. UNCHANGED table BY <2>1, <2>2, <1>5 DEF table
  <2> QED BY <2>3, <1>1, <1>4, <1>5, Reads DEF TypeOK, cache
<1>8. CASE ok
  <2>1. cams' = new BY <1>8 DEF Update, Committed
  <2>2. c \in DOMAIN cams BY <1>8
  <2>3. makeDefault \in BOOLEAN BY <1>2 DEF ReqType
  <2>4. TableOK(others) /\ DOMAIN others = DOMAIN cams BY <1>1, Clear
  <2>5. \A d \in DOMAIN cams : makeDefault /\ d # c => ~ others[d].default BY Clear
  <2>6. ~ makeDefault => others = cams OBVIOUS
  <2>7. overtaken' = (overtaken \/ (cams[c].default /\ ~ makeDefault)) BY <1>6, <1>8
  <2>8. overtaken' \in BOOLEAN /\ (~ overtaken' => ~ overtaken)
    BY <2>7, <1>1 DEF TypeOK
  <2> HIDE DEF makeDefault, others, c
  <2>9. row \in [settings : Settings, default : BOOLEAN] /\ row.default = makeDefault
    BY <2>3, <1>2 DEF Row
  <2>10. TableOK(new) /\ DOMAIN new = DOMAIN cams BY <2>4, <2>9 DEF TableOK
  <2>11. \A d \in DOMAIN cams : new[d] = IF d = c THEN row ELSE others[d] OBVIOUS
  <2>12. AtMostOneDefault'
    <3>1. CASE makeDefault BY <3>1, <2>1, <2>5, <2>10, <2>11 DEF AtMostOneDefault
    <3>2. CASE ~ makeDefault
      <4>1. \A d \in DOMAIN new : new[d].default => cams[d].default
        BY <3>2, <2>6, <2>9, <2>10, <2>11
      <4> QED BY <4>1, <2>1, <2>10 DEF AtMostOneDefault, DefaultInv
    <3> QED BY <3>1, <3>2
  <2>13. DefaultKept'
    <3>1. CASE makeDefault
      <4>1. c \in DOMAIN new /\ new[c].default BY <3>1, <2>2, <2>9, <2>10, <2>11
      <4> QED BY <4>1, <2>1 DEF DefaultKept
    <3>2. CASE ~ makeDefault
      <4>1. SUFFICES ASSUME ~ overtaken' PROVE \E d \in DOMAIN new : new[d].default
        BY <2>1 DEF DefaultKept
      <4>2. ~ overtaken /\ ~ cams[c].default BY <4>1, <2>7, <3>2
      <4>3. PICK d \in DOMAIN cams : cams[d].default
        BY <2>2, <4>2 DEF DefaultInv, DefaultKept
      <4>4. d \in DOMAIN new /\ new[d] = cams[d] BY <4>2, <4>3, <3>2, <2>6, <2>10, <2>11
      <4> QED BY <4>3, <4>4
    <3> QED BY <3>1, <3>2
  <2> QED BY <2>1, <2>8, <2>10, <2>12, <2>13, <1>1, <1>4, <1>5, Writes DEF TypeOK
<1> QED BY <1>7, <1>8

LEMMA DeleteInv ==
  ASSUME DefaultInv, NEW r \in Requests, NEW c \in IDs, Delete(r, c)
  PROVE  DefaultInv'
<1> DEFINE rest == [d \in DOMAIN cams \ {c} |-> cams[d]]
           q == Work("invalidate", c, NoSettings, FALSE)
<1>1. TypeOK /\ TableOK(cams) BY DEF DefaultInv, TypeOK, TableOK
<1>2. q \in ReqType /\ Good(q) BY Works DEF Pcs
<1>3. req' = [req EXCEPT ![r] = q] BY DEF Delete, Begin, Hold
<1> HIDE DEF q
<1>4. req' \in [Requests -> ReqType] /\ Informed' BY <1>2, <1>3, Moves
<1>5. UNCHANGED <<lastID, overtaken, cache, busy>> BY DEF Delete, cache
<1>6. TableOK(rest) /\ DOMAIN rest = DOMAIN cams \ {c} BY <1>1 DEF TableOK
<1>7. \A d \in DOMAIN rest : rest[d] = cams[d] OBVIOUS
<1>8. AtMostOneDefault BY DEF DefaultInv
<1>9. CASE ~ cams[c].default
  <2>1. cams' = rest BY <1>9 DEF Delete
  <2> HIDE DEF rest
  <2>2. AtMostOneDefault' BY <2>1, <1>6, <1>7, <1>8 DEF AtMostOneDefault
  <2>3. DefaultKept'
    <3>1. SUFFICES ASSUME ~ overtaken, DOMAIN rest # {}
                   PROVE  \E d \in DOMAIN rest : rest[d].default
      BY <2>1, <1>5 DEF DefaultKept
    <3>2. PICK d \in DOMAIN cams : cams[d].default
      BY <3>1, <1>6 DEF DefaultInv, DefaultKept
    <3>3. d \in DOMAIN rest BY <1>6, <1>9, <3>2
    <3> QED BY <3>2, <3>3, <1>7
  <2> QED BY <2>1, <2>2, <2>3, <1>1, <1>4, <1>5, <1>6, Writes DEF TypeOK
<1>10. CASE cams[c].default
  <2>1. Leaves(rest) /\ c \in DOMAIN cams BY <1>10 DEF Delete
  <2> HIDE DEF rest
  <2>2. \A d \in DOMAIN rest : ~ rest[d].default
    BY <1>6, <1>7, <1>8, <1>10, <2>1 DEF AtMostOneDefault
  <2>3. CASE DOMAIN rest = {}
    <3>1. cams' = rest BY <2>1, <2>3 DEF Leaves
    <3>2. AtMostOneDefault' /\ DefaultKept'
      BY <3>1, <2>3 DEF AtMostOneDefault, DefaultKept
    <3> QED BY <3>1, <3>2, <1>1, <1>4, <1>5, <1>6, Writes DEF TypeOK
  <2>4. CASE DOMAIN rest # {}
    <3>1. PICK heir \in DOMAIN rest : cams' = [rest EXCEPT ![heir].default = TRUE]
      BY <2>1, <2>4 DEF Leaves
    <3>2. TableOK(cams') /\ DOMAIN cams' = DOMAIN rest
      BY <3>1, <1>6 DEF TableOK
    <3>3. \A d \in DOMAIN rest : cams'[d].default <=> d = heir
      BY <3>1, <2>2, <1>6 DEF TableOK
    <3>4. AtMostOneDefault' /\ DefaultKept'
      BY <3>2, <3>3 DEF AtMostOneDefault, DefaultKept
    <3> QED BY <3>2, <3>4, <1>1, <1>4, <1>5, <1>6, Writes DEF TypeOK
  <2> QED BY <2>3, <2>4
<1> QED BY <1>9, <1>10

\* A handler goes on without writing to the table.
LEMMA ReadsOn ==
  ASSUME DefaultInv, NEW r \in Requests, NEW q \in ReqType,
         Good(q),
         req' = [req EXCEPT ![r] = q], UNCHANGED <<table, entryOf, entry>>,
         busy' \subseteq IDs, late' \subseteq IDs
  PROVE  DefaultInv'
<1>1. req' \in [Requests -> ReqType] /\ Informed' BY Moves
<1>2. UNCHANGED table /\ entryOf' = entryOf /\ entry' = entry OBVIOUS
<1> QED BY <1>1, <1>2, Reads DEF DefaultInv, TypeOK

LEMMA StartInv ==
  ASSUME DefaultInv, NEW r \in Requests, NEW c \in IDs,
         \/ \E settings \in Settings, want \in BOOLEAN : StartPut(r, c, settings, want)
         \/ \E gated \in BOOLEAN : Ask(r, c, gated)
  PROVE  DefaultInv'
<1>1. PICK q \in ReqType : Good(q) /\ req' = [req EXCEPT ![r] = q]
  <2>1. CASE \E settings \in Settings, want \in BOOLEAN : StartPut(r, c, settings, want)
    <3>1. PICK settings \in Settings, want \in BOOLEAN : StartPut(r, c, settings, want)
      BY <2>1
    <3>2. /\ Work("current", c, settings, want) \in ReqType
          /\ Good(Work("current", c, settings, want)) BY Works DEF Pcs
    <3> QED BY <3>1, <3>2 DEF StartPut, Begin, Hold
  <2>2. CASE \E gated \in BOOLEAN : Ask(r, c, gated)
    <3>1. PICK gated \in BOOLEAN : Ask(r, c, gated) BY <2>2
    <3> DEFINE pc == IF gated THEN "gate" ELSE "find"
    <3>2. pc \in Pcs /\ pc \notin {"current", "update"} BY DEF Pcs
    <3>3. req' = [req EXCEPT ![r] = Work(pc, c, cams[c].settings, FALSE)]
      BY <3>1 DEF Ask, Begin, Hold
    <3>4. cams[c].settings \in Settings BY <3>1 DEF Ask, DefaultInv, TypeOK
    <3> HIDE DEF pc
    <3>5. /\ Work(pc, c, cams[c].settings, FALSE) \in ReqType
          /\ Good(Work(pc, c, cams[c].settings, FALSE)) BY <3>2, <3>4, Works
    <3> QED BY <3>3, <3>5
  <2> QED BY <2>1, <2>2
<1>2. UNCHANGED <<table, cache, busy>> BY DEF StartPut, Ask
<1> QED BY <1>1, <1>2, ReadsOn DEF cache, DefaultInv, TypeOK

LEMMA ReadCurrentInv ==
  ASSUME DefaultInv, NEW r \in Requests, ReadCurrent(r)
  PROVE  DefaultInv'
<1>1. /\ TypeOK /\ req[r] \in ReqType /\ Good(req[r])
      /\ UNCHANGED <<table, cache, busy>> /\ req[r].pc = "current"
  BY DEF DefaultInv, TypeOK, Informed, ReadCurrent
<1>2. PICK q \in ReqType : Good(q) /\ req' = [req EXCEPT ![r] = q]
  <2>1. CASE req[r].c \in DOMAIN cams
    <3> DEFINE q == [req[r] EXCEPT !.pc = "update", !.default = cams[req[r].c].default]
    <3>1. cams[req[r].c].default \in BOOLEAN BY <1>1, <2>1 DEF TypeOK
    <3>2. q \in ReqType /\ Good(q) BY <1>1, <3>1 DEF ReqType, Good, Gated
    <3>3. req' = [req EXCEPT ![r] = q] BY <2>1 DEF ReadCurrent, Hold
    <3> HIDE DEF q
    <3> QED BY <3>2, <3>3
  <2>2. CASE req[r].c \notin DOMAIN cams BY <2>2, Idle DEF ReadCurrent, Finish
  <2> QED BY <2>1, <2>2
<1> QED BY <1>1, <1>2, ReadsOn DEF cache, TypeOK

LEMMA ReReadInv ==
  ASSUME DefaultInv, NEW r \in Requests, ReRead(r)
  PROVE  DefaultInv'
<1>1. /\ TypeOK /\ req[r] \in ReqType /\ Good(req[r]) /\ ~ req[r].gated
      /\ UNCHANGED <<table, entryOf, entry, busy>> /\ req[r].pc = "reread"
      /\ req[r].c \in IDs
  BY DEF DefaultInv, TypeOK, Informed, ReRead, Good, Gated
<1>2. CASE To(r, "invalidate") /\ UNCHANGED late
  <2>1. req' = [req EXCEPT ![r] = [req[r] EXCEPT !.pc = "invalidate"]]
    BY <1>2, <1>1 DEF To, TypeOK
  <2>2. /\ [req[r] EXCEPT !.pc = "invalidate"] \in ReqType
        /\ Good([req[r] EXCEPT !.pc = "invalidate"]) BY <1>1, Proceed DEF Pcs
  <2> QED BY <1>1, <1>2, <2>1, <2>2, ReadsOn DEF TypeOK
<1>3. CASE Finish(r) /\ late' = late \cup {req[r].c}
  BY <1>1, <1>3, Idle, ReadsOn DEF TypeOK, Finish
<1> QED BY <1>2, <1>3 DEF ReRead

LEMMA InvalidateInv ==
  ASSUME DefaultInv, NEW r \in Requests, Invalidate(r)
  PROVE  DefaultInv'
<1>1. TypeOK /\ UNCHANGED <<table, entry, busy>> /\ req' = [req EXCEPT ![r] = NoReq]
  BY DEF DefaultInv, Invalidate, Finish
<1>2. req' \in [Requests -> ReqType] /\ Informed' BY <1>1, Idle, Moves
<1>3. /\ entryOf' \in [IDs -> Entries \cup {NoEntry}] /\ late' \subseteq IDs
  BY <1>1 DEF Invalidate, Dropped, TypeOK
<1>4. UNCHANGED table /\ entry' = entry /\ busy' = busy BY <1>1
<1> QED BY <1>1, <1>2, <1>3, <1>4, Reads DEF TypeOK

LEMMA GateOpens ==
  ASSUME DefaultInv, NEW r \in Requests, TryBegin(r)
  PROVE  DefaultInv'
<1>1. /\ TypeOK /\ req[r] \in ReqType /\ Good(req[r]) /\ UNCHANGED <<table, cache>>
      /\ req[r].pc = "gate" /\ req[r].c \in IDs
  BY DEF DefaultInv, TypeOK, Informed, TryBegin, Good
<1>2. CASE busy' = busy \cup {req[r].c}
             /\ Hold(r, [req[r] EXCEPT !.pc = "find", !.gated = TRUE])
  <2> DEFINE q == [req[r] EXCEPT !.pc = "find", !.gated = TRUE]
  <2>1. q \in ReqType /\ Good(q) BY <1>1 DEF ReqType, Good, Gated
  <2>2. req' = [req EXCEPT ![r] = q] BY <1>2 DEF Hold
  <2> HIDE DEF q
  <2> QED BY <1>1, <1>2, <2>1, <2>2, ReadsOn DEF TypeOK, cache
<1>3. CASE UNCHANGED busy /\ Finish(r)
  BY <1>1, <1>3, Idle, ReadsOn DEF TypeOK, cache, Finish
<1> QED BY <1>2, <1>3 DEF TryBegin

LEMMA AnswerInv ==
  ASSUME DefaultInv, NEW r \in Requests, Answer(r)
  PROVE  DefaultInv'
<1>1. /\ TypeOK /\ UNCHANGED <<table, cache>> /\ busy' \subseteq IDs
      /\ req' = [req EXCEPT ![r] = NoReq]
  BY DEF DefaultInv, TypeOK, Answer, Finish
<1> QED BY <1>1, Idle, ReadsOn DEF TypeOK, cache

\* A request for a frame, between the gate and its answer.
LEMMA SnapshotInv ==
  ASSUME DefaultInv, NEW r \in Requests,
         Find(r) \/ Lock(r) \/ Fetched(r) \/ FetchFails(r)
  PROVE  DefaultInv'
<1>1. /\ TypeOK /\ req[r] \in ReqType /\ Good(req[r])
      /\ req[r].pc \in {"find", "lock", "fetch"} /\ req[r].c \in IDs
  BY DEF DefaultInv, TypeOK, Informed, Find, Lock, Fetched, FetchFails, Good
<1>2. UNCHANGED table /\ busy' = busy BY DEF Find, Lock, Fetched, FetchFails
<1>3. /\ entryOf' \in [IDs -> Entries \cup {NoEntry}]
      /\ entry' \in [Entries -> [frame : Settings \cup {NoSettings},
                                 owner : Requests \cup {NoEntry}]]
      /\ late' \subseteq IDs
  <2>1. CASE Find(r)
    <3>1. late' = late BY <2>1 DEF Find
    <3>2. CASE UNCHANGED <<entryOf, entry>> BY <1>1, <3>1, <3>2 DEF TypeOK
    <3>3. CASE \E e \in Entries : /\ entryOf' = [entryOf EXCEPT ![req[r].c] = e]
                                  /\ entry' = [entry EXCEPT ![e] = Empty]
      BY <1>1, <3>1, <3>3, Idle DEF TypeOK
    <3> QED BY <2>1, <3>2, <3>3 DEF Find
  <2>2. CASE Lock(r) BY <1>1, <2>2 DEF Lock, TypeOK
  <2>3. CASE Fetched(r)
    <3>1. req[r].settings \in Settings \cup {NoSettings} BY <1>1 DEF ReqType
    <3> QED BY <1>1, <2>3, <3>1 DEF Fetched, TypeOK
  <2>4. CASE FetchFails(r) BY <1>1, <2>4 DEF FetchFails, TypeOK
  <2> QED BY <2>1, <2>2, <2>3, <2>4
<1>4. PICK q \in ReqType : Good(q) /\ req' = [req EXCEPT ![r] = q]
  <2>1. CASE \E pc \in {"fetch", "answer"} : To(r, pc)
    <3>1. PICK pc \in {"fetch", "answer"} : To(r, pc) BY <2>1
    <3>2. req' = [req EXCEPT ![r] = [req[r] EXCEPT !.pc = pc]]
      BY <3>1, <1>1 DEF To, TypeOK
    <3>3. [req[r] EXCEPT !.pc = pc] \in ReqType /\ Good([req[r] EXCEPT !.pc = pc])
      BY <1>1, Proceed DEF Pcs
    <3> QED BY <3>2, <3>3
  <2>2. CASE \E e \in Entries \cup {NoEntry} :
               Hold(r, [req[r] EXCEPT !.pc = "lock", !.entry = e])
    <3>1. PICK e \in Entries \cup {NoEntry} :
            Hold(r, [req[r] EXCEPT !.pc = "lock", !.entry = e]) BY <2>2
    <3> DEFINE q == [req[r] EXCEPT !.pc = "lock", !.entry = e]
    <3>2. q \in ReqType /\ Good(q) BY <1>1 DEF ReqType, Good, Gated
    <3>3. req' = [req EXCEPT ![r] = q] BY <3>1 DEF Hold
    <3> HIDE DEF q
    <3> QED BY <3>2, <3>3
  <2>3. CASE Find(r)
    <3>1. entryOf[req[r].c] \in Entries \cup {NoEntry} BY <1>1 DEF TypeOK
    <3> QED BY <2>2, <2>3, <3>1 DEF Find
  <2> QED BY <2>1, <2>3 DEF Lock, Fetched, FetchFails
<1>5. req' \in [Requests -> ReqType] /\ Informed' BY <1>4, Moves
<1> QED BY <1>1, <1>2, <1>3, <1>5, Reads DEF TypeOK

LEMMA RestartInv ==
  ASSUME DefaultInv, Restart
  PROVE  DefaultInv'
<1>1. req' \in [Requests -> ReqType] /\ Informed' BY Idle DEF Restart, Informed
<1>2. entryOf' \in [IDs -> Entries \cup {NoEntry}] /\ busy' = {} /\ late' = {} BY DEF Restart
<1>3. entry' \in [Entries -> [frame : Settings \cup {NoSettings}, owner : Requests \cup {NoEntry}]]
  BY Idle DEF Restart
<1>4. UNCHANGED table BY DEF Restart
<1> QED BY <1>1, <1>2, <1>3, <1>4, Reads

LEMMA StepInv == DefaultInv /\ [Next]_vars => DefaultInv'
<1> SUFFICES ASSUME DefaultInv, [Next]_vars PROVE DefaultInv' OBVIOUS
<1>1. CASE UNCHANGED vars
  <2>1. /\ UNCHANGED table /\ req' = req /\ entryOf' = entryOf /\ entry' = entry
        /\ busy' = busy /\ late' = late BY <1>1 DEF vars, cache
  <2>2. Informed' BY <2>1 DEF DefaultInv, Informed
  <2> QED BY <2>1, <2>2, Reads DEF DefaultInv, TypeOK
<1>2. CASE \E settings \in Settings, want \in BOOLEAN : Create(settings, want)
  BY <1>2, CreateInv
<1>3. CASE \E c \in IDs : SetDefault(c) BY <1>3, SetDefaultInv
<1>4. CASE \E r \in Requests : Start(r) BY <1>4, StartInv, DeleteInv DEF Start
<1>5. CASE \E r \in Requests : Step(r)
  BY <1>5, ReadCurrentInv, UpdateInv, ReReadInv, InvalidateInv, GateOpens, SnapshotInv,
     AnswerInv DEF Step
<1>6. CASE Restart BY <1>6, RestartInv
<1> QED BY <1>1, <1>2, <1>3, <1>4, <1>5, <1>6 DEF Next

LEMMA Invariant == Spec => []DefaultInv
BY InitInv, StepInv, PTL DEF Spec

\* Every variable keeps its type.
THEOREM Typed == Spec => []TypeOK
<1>1. DefaultInv => TypeOK BY DEF DefaultInv
<1> QED BY <1>1, Invariant, PTL

\* There are never two default cameras.
THEOREM OneDefault == Spec => []AtMostOneDefault
<1>1. DefaultInv => AtMostOneDefault BY DEF DefaultInv
<1> QED BY <1>1, Invariant, PTL

\* While there are cameras one is the default, unless an update wrote back a
\* default flag that had changed after it read its row.
THEOREM DefaultStays == Spec => []DefaultKept
<1>1. DefaultInv => DefaultKept BY DEF DefaultInv
<1> QED BY <1>1, Invariant, PTL

-----------------------------------------------------------------------------
(* The recognition gate *)

Recognising == {r \in Requests : req[r].gated}

\* A step after which the same handlers hold the gate for the same cameras.
LEMMA GateKept ==
  ASSUME OneRecognition, busy' = busy, Recognising' = Recognising,
         \A r \in Recognising : req'[r].c = req[r].c
  PROVE  OneRecognition'
<1>1. {req'[r].c : r \in Recognising} = {req[r].c : r \in Recognising} OBVIOUS
<1>2. busy' = {req'[r].c : r \in Recognising'}
  BY <1>1 DEF OneRecognition, Recognising
<1>3. \A r1, r2 \in Recognising : req'[r1].c = req'[r2].c => r1 = r2
  BY DEF OneRecognition, Recognising
<1> QED BY <1>2, <1>3 DEF OneRecognition, Recognising

\* A handler that neither had nor gets the gate.
LEMMA Ungated ==
  ASSUME DefaultInv, OneRecognition, NEW r \in Requests, NEW q \in ReqType,
         req' = [req EXCEPT ![r] = q], busy' = busy,
         q.gated = req[r].gated, q.gated => q.c = req[r].c
  PROVE  OneRecognition'
<1>1. req \in [Requests -> ReqType] BY DEF DefaultInv, TypeOK
<1>2. \A o \in Requests : req'[o] = IF o = r THEN q ELSE req[o] BY <1>1
<1>3. Recognising' = Recognising BY <1>2 DEF Recognising
<1>4. \A o \in Recognising : req'[o].c = req[o].c BY <1>2 DEF Recognising
<1> QED BY <1>3, <1>4, GateKept

\* A handler without the gate starts, goes on or ends.
LEMMA UngatedStep ==
  ASSUME DefaultInv, OneRecognition, NEW r \in Requests,
         \/ Start(r) \/ ReadCurrent(r) \/ Update(r) \/ ReRead(r) \/ Invalidate(r)
         \/ Find(r) \/ Lock(r) \/ Fetched(r) \/ FetchFails(r)
  PROVE  OneRecognition'
<1>1. req \in [Requests -> ReqType] /\ req[r] \in ReqType /\ Good(req[r]) /\ TypeOK
  BY DEF DefaultInv, TypeOK, Informed
<1>2. busy' = busy
  BY DEF Start, StartPut, Delete, Ask, ReadCurrent, Update, ReRead, Invalidate, Find, Lock,
         Fetched, FetchFails
<1>3. ASSUME NEW pc \in Pcs, To(r, pc) PROVE OneRecognition'
  <2>1. req' = [req EXCEPT ![r] = [req[r] EXCEPT !.pc = pc]] BY <1>3, <1>1 DEF To
  <2>2. /\ [req[r] EXCEPT !.pc = pc] \in ReqType
        /\ [req[r] EXCEPT !.pc = pc].gated = req[r].gated
        /\ [req[r] EXCEPT !.pc = pc].c = req[r].c BY <1>1, <1>3 DEF ReqType, Pcs
  <2> QED BY <1>2, <2>1, <2>2, Ungated
<1>4. ASSUME Finish(r), req[r].pc \notin Gated PROVE OneRecognition'
  <2>1. ~ req[r].gated /\ NoReq.gated = FALSE BY <1>1, <1>4 DEF Good, NoReq, Work, ReqType
  <2>2. req' = [req EXCEPT ![r] = NoReq] BY <1>4 DEF Finish
  <2> QED BY <1>1, <1>2, <2>1, <2>2, Idle, Ungated DEF ReqType
<1>5. ASSUME NEW q \in ReqType, Hold(r, q), q.gated = req[r].gated, q.c = req[r].c
      PROVE  OneRecognition'
  BY <1>2, <1>5, Ungated DEF Hold
<1>6. ASSUME NEW pc \in Pcs, NEW c \in IDs, NEW settings \in Settings \cup {NoSettings},
             NEW want \in BOOLEAN, Begin(r, Work(pc, c, settings, want))
      PROVE  OneRecognition'
  <2>1. ~ req[r].gated /\ Work(pc, c, settings, want).gated = FALSE
    BY <1>1, <1>6 DEF Begin, Good, Gated, Work
  <2>2. Work(pc, c, settings, want) \in ReqType BY Works
  <2>3. req' = [req EXCEPT ![r] = Work(pc, c, settings, want)] BY <1>6 DEF Begin, Hold
  <2>4. req[r].gated = FALSE BY <1>1, <2>1 DEF ReqType
  <2> QED BY <1>2, <2>1, <2>2, <2>3, <2>4, Ungated
<1>7. CASE Start(r)
  <2>1. PICK c \in IDs : \/ \E settings \in Settings, want \in BOOLEAN : StartPut(r, c, settings, want)
                         \/ Delete(r, c)
                         \/ \E gated \in BOOLEAN : Ask(r, c, gated)
    BY <1>7 DEF Start
  <2>2. CASE \E settings \in Settings, want \in BOOLEAN : StartPut(r, c, settings, want)
    BY <2>2, <1>6 DEF StartPut, Pcs
  <2>3. CASE Delete(r, c) BY <2>3, <1>6 DEF Delete, Pcs
  <2>4. CASE \E gated \in BOOLEAN : Ask(r, c, gated)
    <3>1. PICK gated \in BOOLEAN : Ask(r, c, gated) BY <2>4
    <3> DEFINE pc == IF gated THEN "gate" ELSE "find"
    <3>2. pc \in Pcs BY DEF Pcs
    <3>3. cams[c].settings \in Settings BY <1>1, <3>1 DEF Ask, TypeOK
    <3>4. Begin(r, Work(pc, c, cams[c].settings, FALSE)) BY <3>1 DEF Ask
    <3> HIDE DEF pc
    <3> QED BY <3>2, <3>3, <3>4, <1>6
  <2> QED BY <2>1, <2>2, <2>3, <2>4
<1>8. CASE ReadCurrent(r)
  <2>1. CASE req[r].c \in DOMAIN cams
    <3> DEFINE q == [req[r] EXCEPT !.pc = "update", !.default = cams[req[r].c].default]
    <3>1. cams[req[r].c].default \in BOOLEAN BY <1>1, <2>1 DEF TypeOK
    <3>2. q \in ReqType /\ q.gated = req[r].gated /\ q.c = req[r].c
      BY <1>1, <3>1 DEF ReqType
    <3>3. Hold(r, q) BY <1>8, <2>1 DEF ReadCurrent
    <3> HIDE DEF q
    <3> QED BY <3>2, <3>3, <1>5
  <2>2. CASE req[r].c \notin DOMAIN cams BY <1>8, <2>2, <1>4 DEF ReadCurrent, Gated
  <2> QED BY <2>1, <2>2
<1>9. CASE Update(r) BY <1>9, <1>3, <1>4 DEF Update, Gated, Pcs
<1>10. CASE ReRead(r) BY <1>10, <1>3, <1>4 DEF ReRead, Gated, Pcs
<1>11. CASE Invalidate(r) BY <1>11, <1>4 DEF Invalidate, Gated
<1>12. CASE Find(r)
  <2>1. PICK e \in Entries \cup {NoEntry} :
          Hold(r, [req[r] EXCEPT !.pc = "lock", !.entry = e])
    <3>1. req[r].c \in IDs BY <1>1, <1>12 DEF Find, Good
    <3>2. entryOf[req[r].c] \in Entries \cup {NoEntry} BY <1>1, <3>1 DEF TypeOK
    <3> QED BY <1>12, <3>2 DEF Find
  <2> DEFINE q == [req[r] EXCEPT !.pc = "lock", !.entry = e]
  <2>2. q \in ReqType /\ q.gated = req[r].gated /\ q.c = req[r].c BY <1>1 DEF ReqType
  <2> HIDE DEF q
  <2>3. Hold(r, q) BY <2>1 DEF q
  <2> QED BY <2>2, <2>3, <1>5
<1>13. CASE Lock(r) BY <1>13, <1>3 DEF Lock, Pcs
<1>14. CASE Fetched(r) \/ FetchFails(r) BY <1>14, <1>3 DEF Fetched, FetchFails, Pcs
<1> QED BY <1>7, <1>8, <1>9, <1>10, <1>11, <1>12, <1>13, <1>14

LEMMA TryBeginGate ==
  ASSUME DefaultInv, OneRecognition, NEW r \in Requests, TryBegin(r)
  PROVE  OneRecognition'
<1>1. req \in [Requests -> ReqType] /\ req[r] \in ReqType /\ req[r].gated = FALSE
  BY DEF DefaultInv, TypeOK, Informed, Good, Gated, TryBegin, ReqType
<1>2. CASE Open(req[r].c) /\ busy' = busy \cup {req[r].c}
             /\ Hold(r, [req[r] EXCEPT !.pc = "find", !.gated = TRUE])
  <2> DEFINE q == [req[r] EXCEPT !.pc = "find", !.gated = TRUE]
  <2>1. q.gated /\ q.c = req[r].c BY <1>1 DEF ReqType
  <2>2. \A o \in Requests : req'[o] = IF o = r THEN q ELSE req[o]
    BY <1>1, <1>2 DEF Hold
  <2> HIDE DEF q
  <2>3. Recognising' = Recognising \cup {r} BY <2>1, <2>2 DEF Recognising
  <2>4. \A o \in Recognising : o # r /\ req'[o] = req[o] BY <1>1, <2>2 DEF Recognising
  <2>5. req'[r].c = req[r].c BY <2>1, <2>2
  <2>6. busy = {req[o].c : o \in Recognising} BY DEF OneRecognition, Recognising
  <2>7. \A o \in Recognising : req[o].c # req[r].c BY <1>2, <2>6 DEF Open
  <2>8. busy' = {req'[o].c : o \in Recognising'} BY <1>2, <2>3, <2>4, <2>5, <2>6
  <2>9. \A o1, o2 \in Recognising' : req'[o1].c = req'[o2].c => o1 = o2
    BY <2>3, <2>4, <2>5, <2>7 DEF OneRecognition, Recognising
  <2> QED BY <2>8, <2>9 DEF OneRecognition, Recognising
<1>3. CASE UNCHANGED busy /\ Finish(r)
  BY <1>1, <1>3, Idle, Ungated DEF Finish, NoReq, Work
<1> QED BY <1>2, <1>3 DEF TryBegin

LEMMA AnswerGate ==
  ASSUME DefaultInv, OneRecognition, NEW r \in Requests, Answer(r)
  PROVE  OneRecognition'
<1>1. req \in [Requests -> ReqType] /\ req[r] \in ReqType BY DEF DefaultInv, TypeOK
<1>2. req' = [req EXCEPT ![r] = NoReq] /\ NoReq.gated = FALSE
  BY DEF Answer, Finish, NoReq, Work
<1>3. CASE ~ req[r].gated
  BY <1>1, <1>2, <1>3, Idle, Ungated DEF Answer, ReqType
<1>4. CASE req[r].gated
  <2>1. busy' = busy \ {req[r].c} BY <1>4 DEF Answer
  <2>2. \A o \in Requests : req'[o] = IF o = r THEN NoReq ELSE req[o] BY <1>1, <1>2
  <2>3. Recognising' = Recognising \ {r} BY <1>2, <2>2 DEF Recognising
  <2>4. \A o \in Recognising' : req'[o] = req[o] BY <2>2, <2>3 DEF Recognising
  <2>5. \A o \in Recognising' : req[o].c # req[r].c
    BY <1>4, <2>3 DEF OneRecognition, Recognising
  <2>6. busy = {req[o].c : o \in Recognising} BY DEF OneRecognition, Recognising
  <2>7. busy' = {req'[o].c : o \in Recognising'} BY <2>1, <2>3, <2>4, <2>5, <2>6
  <2>8. \A o1, o2 \in Recognising' : req'[o1].c = req'[o2].c => o1 = o2
    BY <2>3, <2>4 DEF OneRecognition, Recognising
  <2> QED BY <2>7, <2>8 DEF OneRecognition, Recognising
<1> QED BY <1>3, <1>4

LEMMA GateStep == DefaultInv /\ OneRecognition /\ [Next]_vars => OneRecognition'
<1> SUFFICES ASSUME DefaultInv, OneRecognition, [Next]_vars PROVE OneRecognition' OBVIOUS
<1>1. CASE UNCHANGED <<busy, req>> BY <1>1 DEF OneRecognition
<1>2. CASE UNCHANGED vars BY <1>1, <1>2 DEF vars
<1>3. CASE \/ \E settings \in Settings, want \in BOOLEAN : Create(settings, want)
           \/ \E c \in IDs : SetDefault(c)
  BY <1>1, <1>3 DEF Create, SetDefault
<1>4. CASE \E r \in Requests : Start(r) \/ Step(r)
  BY <1>4, UngatedStep, TryBeginGate, AnswerGate DEF Step
<1>5. CASE Restart
  <2>1. \A r \in Requests : req'[r].gated = FALSE BY <1>5 DEF Restart, NoReq, Work
  <2>2. busy' = {} BY <1>5 DEF Restart
  <2> QED BY <2>1, <2>2 DEF OneRecognition
<1> QED BY <1>2, <1>3, <1>4, <1>5 DEF Next

\* One recognition per camera, and the gate is closed exactly as long.
THEOREM OneAtATime == Spec => []OneRecognition
<1>1. Init => OneRecognition BY DEF Init, OneRecognition, NoReq, Work
<1> QED BY <1>1, Invariant, GateStep, PTL DEF Spec

-----------------------------------------------------------------------------
(* The cached frames *)

\* A change of c that its handler has not answered yet.
Pending(c) == \E r \in Requests : req[r].c = c /\ req[r].pc \in {"reread", "invalidate"}

Present(c) == c \in DOMAIN cams /\ cams[c].settings = entry[entryOf[c]].frame

\* FreshSnapshot of one camera.
FreshAt(c) ==
  entryOf[c] # NoEntry /\ entry[entryOf[c]].frame # NoSettings /\ c \notin late =>
    Present(c) \/ Pending(c)

\* An entry is of one camera, and a handler that holds one works for it: the
\* entry it fills is its own camera's, or nobody's any more.
Owned ==
  /\ \A c, d \in IDs : entryOf[c] # NoEntry /\ entryOf[c] = entryOf[d] => c = d
  /\ \A r \in Requests, d \in IDs :
       req[r].entry # NoEntry /\ entryOf[d] = req[r].entry => d = req[r].c

LEMMA FreshByCamera == FreshSnapshot <=> \A c \in IDs : FreshAt(c)
BY DEF FreshSnapshot, FreshAt, Present, Pending

\* A handler moves on, keeping its entry and its camera or giving the entry up,
\* and no camera gets an entry.
LEMMA OwnedMoves ==
  ASSUME DefaultInv, Owned, NEW r \in Requests, NEW q, req' = [req EXCEPT ![r] = q],
         q.entry = NoEntry \/ (q.entry = req[r].entry /\ q.c = req[r].c),
         \A c \in IDs : entryOf'[c] \in {entryOf[c], NoEntry}
  PROVE  Owned'
<1>1. \A o \in Requests : req'[o] = IF o = r THEN q ELSE req[o]
  BY DEF DefaultInv, TypeOK
<1> QED BY <1>1 DEF Owned

\* A step of r that is not the end of a change leaves the changes of all pending.
LEMMA PendingMoves ==
  ASSUME DefaultInv, NEW r \in Requests, NEW q, req' = [req EXCEPT ![r] = q], NEW c,
         req[r].c = c /\ req[r].pc \in {"reread", "invalidate"} =>
           q.c = c /\ q.pc \in {"reread", "invalidate"}
  PROVE  Pending(c) => Pending(c)'
<1>1. \A o \in Requests : req'[o] = IF o = r THEN q ELSE req[o]
  BY DEF DefaultInv, TypeOK
<1> QED BY <1>1 DEF Pending

\* A step that puts no frame in place: c's row stays or its change is pending.
LEMMA NoNewFrame ==
  ASSUME NEW c \in IDs, FreshAt(c),
         \/ entryOf'[c] = NoEntry
         \/ entryOf'[c] = entryOf[c] /\ entry'[entryOf[c]].frame = entry[entryOf[c]].frame,
         c \in late => c \in late',
         Pending(c) => Pending(c)' \/ c \in late',
         c \in DOMAIN cams => \/ c \in DOMAIN cams' /\ cams'[c].settings = cams[c].settings
                              \/ Pending(c)'
  PROVE  FreshAt(c)'
BY DEF FreshAt, Present

\* What a handler may do that neither writes the table nor touches the cache.
LEMMA HandlerFresh ==
  ASSUME DefaultInv, Owned, FreshSnapshot, NEW r \in Requests, NEW q,
         req' = [req EXCEPT ![r] = q], UNCHANGED <<cams, entryOf, entry, late>>,
         q.entry = NoEntry \/ (q.entry = req[r].entry /\ q.c = req[r].c),
         req[r].pc \in {"reread", "invalidate"} => q.c = req[r].c /\ q.pc \in {"reread", "invalidate"}
  PROVE  Owned' /\ FreshSnapshot'
<1>1. Owned' BY OwnedMoves
<1>2. ASSUME NEW c \in IDs PROVE FreshAt(c)'
  <2>1. Pending(c) => Pending(c)' BY PendingMoves
  <2>2. FreshAt(c) BY FreshByCamera
  <2> QED BY <2>1, <2>2, NoNewFrame
<1> QED BY <1>1, <1>2 DEF FreshSnapshot, FreshAt, Present, Pending

\* A transaction that writes the table: of every camera the settings stay, or
\* the change is pending.
LEMMA TableFresh ==
  ASSUME Owned', FreshSnapshot, UNCHANGED <<entryOf, entry, late>>,
         \A c \in IDs : Pending(c) => Pending(c)',
         \A c \in DOMAIN cams : \/ c \in DOMAIN cams' /\ cams'[c].settings = cams[c].settings
                                \/ Pending(c)'
  PROVE  Owned' /\ FreshSnapshot'
<1>1. ASSUME NEW c \in IDs PROVE FreshAt(c)'
  <2>1. FreshAt(c) BY FreshByCamera
  <2> QED BY <2>1, NoNewFrame
<1> QED BY <1>1 DEF FreshSnapshot, FreshAt, Present, Pending

\* Creating a camera and choosing the default change nobody's settings.
LEMMA AdminFresh ==
  ASSUME DefaultInv, Owned, FreshSnapshot,
         \/ \E settings \in Settings, want \in BOOLEAN : Create(settings, want)
         \/ \E c \in IDs : SetDefault(c)
  PROVE  Owned' /\ FreshSnapshot'
<1>1. UNCHANGED <<entryOf, entry, late, req>> BY DEF Create, SetDefault, cache
<1>2. Owned' BY <1>1 DEF Owned
<1>3. \A c \in IDs : Pending(c) => Pending(c)' BY <1>1 DEF Pending
<1>4. TypeOK /\ TableOK(cams) BY DEF DefaultInv, TypeOK, TableOK
<1>5. ASSUME NEW c \in DOMAIN cams PROVE c \in DOMAIN cams' /\ cams'[c].settings = cams[c].settings
  <2>1. CASE \E d \in IDs : SetDefault(d)
    BY <1>4, <1>5, <2>1 DEF SetDefault, TableOK
  <2>2. ASSUME NEW settings \in Settings, NEW want \in BOOLEAN, Create(settings, want)
        PROVE  c \in DOMAIN cams' /\ cams'[c].settings = cams[c].settings
    <3> DEFINE others == IF want \/ DOMAIN cams = {} THEN Cleared(0) ELSE cams
               id == lastID + 1
    <3>1. id # c BY <1>4, <1>5 DEF TypeOK
    <3>2. others[c].settings = cams[c].settings BY <1>4, <1>5 DEF TableOK, Cleared
    <3>3. CASE Taken(settings, 0) BY <2>2, <3>3, <1>5 DEF Create, Committed
    <3>4. CASE ~ Taken(settings, 0)
      <4>1. cams' = [d \in DOMAIN cams \cup {id} |->
                       IF d = id THEN Row(settings, want \/ DOMAIN cams = {}) ELSE others[d]]
        BY <2>2, <3>4 DEF Create, Committed
      <4> HIDE DEF others, id
      <4> QED BY <4>1, <3>1, <3>2, <1>5
    <3> QED BY <3>3, <3>4
  <2> QED BY <2>1, <2>2
<1> QED BY <1>1, <1>2, <1>3, <1>5, TableFresh

\* An update that succeeds is pending until its cache entry is dropped.
LEMMA UpdateFresh ==
  ASSUME DefaultInv, Owned, FreshSnapshot, NEW r \in Requests, Update(r)
  PROVE  Owned' /\ FreshSnapshot'
<1>0. PICK c : c = req[r].c
  OBVIOUS
<1> DEFINE makeDefault == req[r].default \/ req[r].want
           others == IF makeDefault THEN Cleared(c) ELSE cams
           ok == c \in DOMAIN cams /\ ~ Taken(req[r].settings, c)
           q == IF ok THEN [req[r] EXCEPT !.pc = "reread"] ELSE NoReq
<1>1. /\ TypeOK /\ TableOK(cams) /\ req[r] \in ReqType /\ req[r].pc = "update"
      /\ req \in [Requests -> ReqType]
  BY DEF DefaultInv, TypeOK, TableOK, Update
<1>2. UNCHANGED <<entryOf, entry, late>> BY DEF Update, cache
<1>3. req' = [req EXCEPT ![r] = q] BY <1>0, <1>1 DEF Update, To, Finish
<1>4. /\ q.entry = NoEntry \/ (q.entry = req[r].entry /\ q.c = c)
      /\ ok => q.pc = "reread" /\ q.c = c
  BY <1>0, <1>1 DEF NoReq, Work, ReqType
<1>5. cams' = IF ok THEN [d \in DOMAIN cams |->
                            IF d = c THEN Row(req[r].settings, makeDefault) ELSE others[d]]
              ELSE cams
  BY <1>0 DEF Update, Committed
<1>6. \A d \in DOMAIN cams : others[d].settings = cams[d].settings
  BY <1>1 DEF TableOK, Cleared
<1> HIDE DEF q, others, makeDefault, ok
<1>7. Owned' BY <1>0, <1>2, <1>3, <1>4, OwnedMoves
<1>8. \A d \in IDs : Pending(d) => Pending(d)' BY <1>1, <1>3, PendingMoves
<1>9. ok => Pending(c)' BY <1>1, <1>3, <1>4 DEF Pending
<1>10. \A d \in DOMAIN cams : \/ d \in DOMAIN cams' /\ cams'[d].settings = cams[d].settings
                              \/ Pending(d)'
  BY <1>5, <1>6, <1>9
<1> QED BY <1>2, <1>7, <1>8, <1>10, TableFresh

\* So is a deletion, and whom it makes the default keeps his settings.
LEMMA DeleteFresh ==
  ASSUME DefaultInv, Owned, FreshSnapshot, NEW r \in Requests, NEW c \in IDs, Delete(r, c)
  PROVE  Owned' /\ FreshSnapshot'
<1> DEFINE q == Work("invalidate", c, NoSettings, FALSE)
           rest == [d \in DOMAIN cams \ {c} |-> cams[d]]
<1>1. /\ TypeOK /\ TableOK(cams) /\ req[r].pc = "idle" /\ req \in [Requests -> ReqType]
      /\ UNCHANGED <<entryOf, entry, late>> /\ req' = [req EXCEPT ![r] = q]
  BY DEF DefaultInv, TypeOK, TableOK, Delete, Begin, Hold, cache
<1>2. q.entry = NoEntry /\ q.c = c /\ q.pc = "invalidate" BY DEF Work
<1> HIDE DEF q
<1>3. Owned' BY <1>1, <1>2, OwnedMoves
<1>4. \A d \in IDs : Pending(d) => Pending(d)' BY <1>1, PendingMoves
<1>5. Pending(c)' BY <1>1, <1>2 DEF Pending
<1>6. \A d \in DOMAIN cams \ {c} : d \in DOMAIN cams' /\ cams'[d].settings = cams[d].settings
  <2>1. CASE cams' = rest BY <2>1
  <2>2. ASSUME NEW heir \in DOMAIN rest, cams' = [rest EXCEPT ![heir].default = TRUE]
        PROVE  \A d \in DOMAIN cams \ {c} :
                 d \in DOMAIN cams' /\ cams'[d].settings = cams[d].settings
    BY <1>1, <2>2 DEF TableOK
  <2> QED BY <2>1, <2>2 DEF Delete, Leaves
<1> QED BY <1>1, <1>3, <1>4, <1>5, <1>6, TableFresh

\* PUT answers an error: from here on the old frame may be shown, as late says.
LEMMA ReReadFresh ==
  ASSUME DefaultInv, Owned, FreshSnapshot, NEW r \in Requests, ReRead(r)
  PROVE  Owned' /\ FreshSnapshot'
<1>1. /\ TypeOK /\ req[r] \in ReqType /\ req[r].pc = "reread" /\ req \in [Requests -> ReqType]
      /\ UNCHANGED <<cams, entryOf, entry>>
  BY DEF DefaultInv, TypeOK, ReRead, table
<1>2. CASE To(r, "invalidate") /\ UNCHANGED late
  <2> DEFINE q == [req[r] EXCEPT !.pc = "invalidate"]
  <2>1. req' = [req EXCEPT ![r] = q] BY <1>1, <1>2 DEF To
  <2>2. q.entry = req[r].entry /\ q.c = req[r].c /\ q.pc = "invalidate" BY <1>1 DEF ReqType
  <2> HIDE DEF q
  <2> QED BY <1>1, <1>2, <2>1, <2>2, HandlerFresh
<1>3. CASE Finish(r) /\ late' = late \cup {req[r].c}
  <2>1. req' = [req EXCEPT ![r] = NoReq] /\ NoReq.entry = NoEntry
    BY <1>3 DEF Finish, NoReq, Work
  <2>2. Owned' BY <1>1, <2>1, OwnedMoves
  <2>3. ASSUME NEW c \in IDs PROVE FreshAt(c)'
    <3>1. Pending(c) => Pending(c)' \/ c \in late'
      BY <1>3, <2>1, PendingMoves
    <3>2. FreshAt(c) BY FreshByCamera
    <3> QED BY <1>1, <1>3, <3>1, <3>2, NoNewFrame
  <2> QED BY <2>2, <2>3 DEF FreshSnapshot, FreshAt, Present, Pending
<1> QED BY <1>2, <1>3 DEF ReRead

\* The change is no longer pending, and the entry it was about is forgotten.
LEMMA InvalidateFresh ==
  ASSUME DefaultInv, Owned, FreshSnapshot, NEW r \in Requests, Invalidate(r)
  PROVE  Owned' /\ FreshSnapshot'
<1>1. /\ TypeOK /\ entryOf' = [entryOf EXCEPT ![req[r].c] = NoEntry]
      /\ UNCHANGED <<cams, entry>> /\ late' = late \ {req[r].c}
      /\ req' = [req EXCEPT ![r] = NoReq] /\ NoReq.entry = NoEntry
  BY DEF DefaultInv, Invalidate, Dropped, Finish, table, NoReq, Work
<1>2. \A c \in IDs : entryOf'[c] = IF c = req[r].c THEN NoEntry ELSE entryOf[c]
  BY <1>1 DEF TypeOK
<1>3. Owned' BY <1>1, <1>2, OwnedMoves
<1>4. ASSUME NEW c \in IDs PROVE FreshAt(c)'
  <2>1. CASE c = req[r].c BY <1>2, <2>1 DEF FreshAt
  <2>2. CASE c # req[r].c
    <3>1. Pending(c) => Pending(c)' BY <1>1, <2>2, PendingMoves
    <3>2. FreshAt(c) BY FreshByCamera
    <3> QED BY <1>1, <1>2, <2>2, <3>1, <3>2, NoNewFrame
  <2> QED BY <2>1, <2>2
<1> QED BY <1>3, <1>4 DEF FreshSnapshot, FreshAt, Present, Pending

\* A new entry is empty, and nothing referred to it.
LEMMA FindFresh ==
  ASSUME DefaultInv, Owned, FreshSnapshot, NEW r \in Requests, Find(r)
  PROVE  Owned' /\ FreshSnapshot'
<1>1. /\ TypeOK /\ req[r] \in ReqType /\ req[r].pc = "find" /\ req[r].c \in IDs
      /\ UNCHANGED <<cams, late>> /\ req \in [Requests -> ReqType]
      /\ entryOf \in [IDs -> Entries \cup {NoEntry}]
  BY DEF DefaultInv, TypeOK, Informed, Good, Find, table
<1>2. \A e : /\ [req[r] EXCEPT !.pc = "lock", !.entry = e].entry = e
             /\ [req[r] EXCEPT !.pc = "lock", !.entry = e].c = req[r].c
  BY <1>1 DEF ReqType
<1>3. CASE /\ entryOf[req[r].c] # NoEntry
           /\ Hold(r, [req[r] EXCEPT !.pc = "lock", !.entry = entryOf[req[r].c]])
           /\ UNCHANGED <<entryOf, entry>>
  <2> DEFINE q == [req[r] EXCEPT !.pc = "lock", !.entry = entryOf[req[r].c]]
  <2>1. req' = [req EXCEPT ![r] = q] /\ q.entry = entryOf[req[r].c] /\ q.c = req[r].c
    BY <1>2, <1>3 DEF Hold
  <2> HIDE DEF q
  <2>2. \A o \in Requests : req'[o] = IF o = r THEN q ELSE req[o] BY <1>1, <2>1
  <2>3. Owned' BY <1>1, <1>3, <2>1, <2>2 DEF Owned
  <2>4. \A c \in IDs : Pending(c) => Pending(c)' BY <1>1, <2>1, PendingMoves
  <2> QED BY <1>1, <1>3, <2>3, <2>4, TableFresh
<1>4. ASSUME NEW e \in Entries, Garbage(e),
             entryOf' = [entryOf EXCEPT ![req[r].c] = e],
             entry' = [entry EXCEPT ![e] = Empty],
             Hold(r, [req[r] EXCEPT !.pc = "lock", !.entry = e])
      PROVE  Owned' /\ FreshSnapshot'
  <2> DEFINE q == [req[r] EXCEPT !.pc = "lock", !.entry = e]
  <2>1. req' = [req EXCEPT ![r] = q] /\ q.entry = e /\ q.c = req[r].c
    BY <1>2, <1>4 DEF Hold
  <2> HIDE DEF q
  <2>2. \A o \in Requests : req'[o] = IF o = r THEN q ELSE req[o] BY <1>1, <2>1
  <2>3. \A c \in IDs : entryOf'[c] = IF c = req[r].c THEN e ELSE entryOf[c]
    BY <1>1, <1>4
  <2>4. /\ \A c \in IDs : entryOf[c] # e
        /\ \A o \in Requests : req[o].entry # e
    BY <1>4 DEF Garbage
  <2>5. Owned' BY <1>1, <2>1, <2>2, <2>3, <2>4 DEF Owned
  <2>6. \A x \in Entries : entry'[x] = IF x = e THEN Empty ELSE entry[x]
    BY <1>1, <1>4 DEF TypeOK
  <2>7. ASSUME NEW c \in IDs PROVE FreshAt(c)'
    <3>1. CASE c = req[r].c
      <4>1. entry'[entryOf'[c]].frame = NoSettings BY <1>4, <2>3, <2>6, <3>1 DEF Empty
      <4> QED BY <4>1 DEF FreshAt
    <3>2. CASE c # req[r].c
      <4>1. Pending(c) => Pending(c)' BY <1>1, <2>1, PendingMoves
      <4>2. FreshAt(c) BY FreshByCamera
      <4>3. \/ entryOf'[c] = NoEntry
            \/ entryOf'[c] = entryOf[c] /\ entry'[entryOf[c]].frame = entry[entryOf[c]].frame
        BY <1>1, <2>3, <2>4, <2>6, <3>2
      <4> QED BY <1>1, <4>1, <4>2, <4>3, NoNewFrame
    <3> QED BY <3>1, <3>2
  <2> QED BY <2>5, <2>7 DEF FreshSnapshot, FreshAt, Present, Pending
<1> QED BY <1>3, <1>4 DEF Find

\* Taking the entry's mutex, and giving it up without a frame.
LEMMA LockFresh ==
  ASSUME DefaultInv, Owned, FreshSnapshot, NEW r \in Requests, Lock(r) \/ FetchFails(r)
  PROVE  Owned' /\ FreshSnapshot'
<1>1. /\ TypeOK /\ req[r] \in ReqType /\ req[r].pc \in {"lock", "fetch"}
      /\ UNCHANGED <<cams, entryOf, late>> /\ req \in [Requests -> ReqType]
  BY DEF DefaultInv, TypeOK, Lock, FetchFails, table
<1>2. PICK pc \in {"answer", "fetch"} : To(r, pc) BY DEF Lock, FetchFails
<1> DEFINE q == [req[r] EXCEPT !.pc = pc]
<1>3. req' = [req EXCEPT ![r] = q] /\ q.entry = req[r].entry /\ q.c = req[r].c
  BY <1>1, <1>2 DEF To, ReqType
<1> HIDE DEF q
<1>4. Owned' BY <1>1, <1>3, OwnedMoves
<1>5. \A e \in Entries : entry'[e].frame = entry[e].frame
  BY <1>1 DEF Lock, FetchFails, TypeOK
<1>6. ASSUME NEW c \in IDs PROVE FreshAt(c)'
  <2>1. Pending(c) => Pending(c)' BY <1>1, <1>3, PendingMoves
  <2>2. FreshAt(c) BY FreshByCamera
  <2>3. entryOf[c] \in Entries \cup {NoEntry} BY <1>1 DEF TypeOK
  <2> QED BY <1>1, <1>5, <2>1, <2>2, <2>3, NoNewFrame
<1> QED BY <1>4, <1>6 DEF FreshSnapshot, FreshAt, Present, Pending

\* A frame arrives in the entry of its handler's camera, and of no other one.
LEMMA FetchedFresh ==
  ASSUME DefaultInv, Owned, FreshSnapshot, NEW r \in Requests, Fetched(r)
  PROVE  Owned' /\ FreshSnapshot'
<1>1. /\ TypeOK /\ req[r] \in ReqType /\ req[r].pc = "fetch" /\ UNCHANGED <<cams, entryOf>>
      /\ req \in [Requests -> ReqType] /\ req[r].c \in IDs
      /\ entryOf \in [IDs -> Entries \cup {NoEntry}]
  BY DEF DefaultInv, TypeOK, Informed, Good, Fetched, table
<1> DEFINE q == [req[r] EXCEPT !.pc = "answer"]
           e == req[r].entry
<1>2. req' = [req EXCEPT ![r] = q] /\ q.entry = req[r].entry /\ q.c = req[r].c
  BY <1>1 DEF Fetched, To, ReqType
<1> HIDE DEF q
<1>3. Owned' BY <1>1, <1>2, OwnedMoves
<1>4. \A x \in Entries : entry'[x].frame = IF x = e THEN req[r].settings ELSE entry[x].frame
  BY <1>1 DEF Fetched, TypeOK
<1>5. late' = IF entryOf[req[r].c] = e /\ Outdated(r) THEN late \cup {req[r].c} ELSE late
  BY DEF Fetched
<1>6. ASSUME NEW c \in IDs PROVE FreshAt(c)'
  <2>1. Pending(c) => Pending(c)' BY <1>1, <1>2, PendingMoves
  <2>2. FreshAt(c) BY FreshByCamera
  <2>3. entryOf[c] \in Entries \cup {NoEntry} BY <1>1
  <2>4. CASE entryOf[c] = e /\ e # NoEntry
    <3>1. c = req[r].c BY <2>4 DEF Owned
    <3>2. CASE Outdated(r) BY <1>5, <2>4, <3>1, <3>2 DEF FreshAt
    <3>3. CASE ~ Outdated(r)
      <4>1. entry'[entryOf'[c]].frame = req[r].settings BY <1>1, <1>4, <2>3, <2>4
      <4> QED BY <1>1, <3>1, <3>3, <4>1 DEF Outdated, FreshAt, Present
    <3> QED BY <3>2, <3>3
  <2>5. CASE entryOf[c] # e \/ e = NoEntry
    <3>1. \/ entryOf'[c] = NoEntry
          \/ entryOf'[c] = entryOf[c] /\ entry'[entryOf[c]].frame = entry[entryOf[c]].frame
      BY <1>1, <1>4, <2>3, <2>5
    <3>2. c \in late => c \in late' BY <1>5
    <3> QED BY <1>1, <2>1, <2>2, <3>1, <3>2, NoNewFrame
  <2> QED BY <2>4, <2>5
<1> QED BY <1>3, <1>6 DEF FreshSnapshot, FreshAt, Present, Pending

\* The other steps of a handler.
LEMMA OtherFresh ==
  ASSUME DefaultInv, Owned, FreshSnapshot, NEW r \in Requests, NEW c \in IDs,
         \/ \E settings \in Settings, want \in BOOLEAN : StartPut(r, c, settings, want)
         \/ \E gated \in BOOLEAN : Ask(r, c, gated)
         \/ ReadCurrent(r) \/ TryBegin(r) \/ Answer(r)
  PROVE  Owned' /\ FreshSnapshot'
<1>1. /\ TypeOK /\ req[r] \in ReqType /\ req[r].pc \in {"idle", "current", "gate", "answer"}
      /\ UNCHANGED <<cams, entryOf, entry, late>>
  BY DEF DefaultInv, TypeOK, StartPut, Ask, Begin, ReadCurrent, TryBegin, Answer, table, cache
<1>2. ASSUME NEW pc, NEW d, NEW settings, NEW want, Hold(r, Work(pc, d, settings, want))
      PROVE  Owned' /\ FreshSnapshot'
  <2>1. Work(pc, d, settings, want).entry = NoEntry BY DEF Work
  <2>2. req' = [req EXCEPT ![r] = Work(pc, d, settings, want)] BY <1>2 DEF Hold
  <2> QED BY <1>1, <2>1, <2>2, HandlerFresh
<1>3. CASE Finish(r)
  BY <1>2, <1>3 DEF Finish, NoReq, Hold
<1>4. CASE \E default : Hold(r, [req[r] EXCEPT !.pc = "update", !.default = default])
  <2>1. PICK default : Hold(r, [req[r] EXCEPT !.pc = "update", !.default = default]) BY <1>4
  <2> DEFINE q == [req[r] EXCEPT !.pc = "update", !.default = default]
  <2>2. q.entry = req[r].entry /\ q.c = req[r].c BY <1>1 DEF ReqType
  <2>3. req' = [req EXCEPT ![r] = q] BY <2>1 DEF Hold
  <2> HIDE DEF q
  <2> QED BY <1>1, <2>2, <2>3, HandlerFresh
<1>5. CASE Hold(r, [req[r] EXCEPT !.pc = "find", !.gated = TRUE])
  <2> DEFINE q == [req[r] EXCEPT !.pc = "find", !.gated = TRUE]
  <2>1. q.entry = req[r].entry /\ q.c = req[r].c BY <1>1 DEF ReqType
  <2>2. req' = [req EXCEPT ![r] = q] BY <1>5 DEF Hold
  <2> HIDE DEF q
  <2> QED BY <1>1, <2>1, <2>2, HandlerFresh
<1> QED BY <1>2, <1>3, <1>4, <1>5 DEF StartPut, Ask, Begin, ReadCurrent, TryBegin, Answer

LEMMA FreshStep == DefaultInv /\ Owned /\ FreshSnapshot /\ [Next]_vars => Owned' /\ FreshSnapshot'
<1> SUFFICES ASSUME DefaultInv, Owned, FreshSnapshot, [Next]_vars
             PROVE  Owned' /\ FreshSnapshot'
  OBVIOUS
<1>1. CASE UNCHANGED vars
  BY <1>1 DEF vars, table, cache, Owned, FreshSnapshot
<1>2. CASE Restart
  <2>1. /\ \A c \in IDs : entryOf'[c] = NoEntry
        /\ \A r \in Requests : req'[r].entry = NoEntry
    BY <1>2 DEF Restart, NoReq, Work
  <2> QED BY <2>1 DEF Owned, FreshSnapshot
<1>3. CASE \/ \E settings \in Settings, want \in BOOLEAN : Create(settings, want)
           \/ \E c \in IDs : SetDefault(c)
  BY <1>3, AdminFresh
<1>4. ASSUME NEW r \in Requests, Start(r) PROVE Owned' /\ FreshSnapshot'
  BY <1>4, OtherFresh, DeleteFresh DEF Start
<1>5. ASSUME NEW r \in Requests, Step(r) PROVE Owned' /\ FreshSnapshot'
  <2>1. CASE ReadCurrent(r) \/ TryBegin(r) \/ Answer(r)
    <3>1. \E c \in IDs : TRUE
      BY <2>1 DEF ReadCurrent, TryBegin, Answer, DefaultInv, Informed, Good
    <3> QED BY <2>1, <3>1, OtherFresh
  <2> QED BY <1>5, <2>1, UpdateFresh, ReReadFresh, InvalidateFresh, FindFresh, LockFresh,
             FetchedFresh DEF Step
<1> QED BY <1>1, <1>2, <1>3, <1>4, <1>5 DEF Next

\* A cached frame is of the camera's present settings, unless the change is not
\* answered yet or met a handler that worked with the old ones, for any number
\* of cameras, handlers and cache entries.
THEOREM FreshFrames == Spec => []FreshSnapshot
<1>1. Init => Owned /\ FreshSnapshot
  BY DEF Init, Owned, FreshSnapshot, NoReq, Work
<1> QED BY <1>1, Invariant, FreshStep, PTL DEF Spec
=============================================================================
