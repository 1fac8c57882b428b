------------------------ MODULE ServiceManagerProofs ------------------------
(***************************************************************************)
(* What module ServiceManager promises, for any number of managers and     *)
(* scripts.                                                                *)
(***************************************************************************)
EXTENDS ServiceManager, TLAPS

-----------------------------------------------------------------------------
(* The inductive invariant *)

\* The setting is the one the user asked for, as far as nothing was hidden.
Asked(setting) == hidden \/ setting = choice
USE DEF Asked

WinPCs == WorkPCs \cup {"none", "report", "script", "choose", "launch"}
Settings == {"missing", "enabled", "disabled"}

\* A window with an action in its background is open and busy and has nothing
\* posted, and it owes the task a change on the way back only.
Sound(w) ==
  /\ w.pc # "none" => w.open /\ w.busy /\ w.posted = "none"
  /\ w.posted # "none" => w.open /\ w.busy
  /\ w.owes => w.pc \in {"end", "wait", "kill", "last", "restore", "run", "startDisable"}

\* install.ps1 with the manager that waits for it.
Waits(q, m) == ~ q.helper /\ q.for = m

\* A manager waits for one script, and does nothing else meanwhile.
Shape ==
  /\ \A m \in Managers : Sound(win[m])
  /\ \A m \in Managers, s \in Scripts : Waits(script[s], m) => win[m].pc = "script"
  /\ \A m \in Managers, s, o \in Scripts : Waits(script[s], m) /\ Waits(script[o], m) => s = o

\* What a manager at work owes the task, command by command.
WinOk(w) ==
  /\ w.pc \in {"restart", "stop", "stopState", "start", "startState", "query", "change"} =>
       ~ w.owes /\ Asked(task)
  /\ w.pc = "stopDisable" => ~ w.owes /\ Asked(task) /\ Asked("enabled")
  /\ w.pc \in {"end", "wait", "kill", "last"} =>
       IF w.owes THEN task = "disabled" /\ Asked("enabled") ELSE Asked(task)
  /\ w.pc = "restore" =>
       w.owes /\ task = "disabled" /\ Asked("enabled") /\ (w.gone => server # "task")
  /\ w.pc = "startEnable" => ~ w.owes /\ Asked(task) /\ Asked("disabled")
  /\ w.pc = "run" =>
       IF w.owes THEN task = "enabled" /\ Asked("disabled") ELSE Asked(task)
  /\ w.pc = "startDisable" => w.owes /\ task = "enabled" /\ Asked("disabled")

\* What a script at work owes it.
ScriptOk(q) ==
  /\ q.pc \in {"read", "verify"} => Asked(task)
  /\ q.pc \in {"end", "kill", "check", "unregister"} => Asked(task) /\ Asked(q.was)
  /\ q.pc = "register" => Asked(q.was)
  /\ q.pc = "start" =>
       /\ task = "enabled" /\ (q.owes <=> q.was = "disabled")
       /\ Asked(IF q.was = "missing" THEN "enabled" ELSE q.was)
  /\ q.pc = "disable" => Asked("disabled")

\* While nothing excuses them they work one at a time.
Alone ==
  /\ \A m, o \in Managers : Working(m) /\ Working(o) => m = o
  /\ \A s, o \in Scripts : Active(s) /\ Active(o) => s = o
  /\ \A m \in Managers, s \in Scripts : ~ (Working(m) /\ Active(s))

Quiet == (\A m \in Managers : ~ Working(m)) /\ (\A s \in Scripts : ~ Active(s))

Duties ==
  /\ Alone
  /\ Quiet => Asked(task)
  /\ \A m \in Managers : WinOk(win[m])
  /\ \A s \in Scripts : ScriptOk(script[s])

IInv == TypeOK /\ Shape /\ (~ excused => Duties)

-----------------------------------------------------------------------------
(* Records *)

Owing == {"end", "wait", "kill", "last", "restore", "run", "startDisable"}

LEMMA Constants ==
  /\ Closed \in WinType /\ Sound(Closed) /\ Closed.pc = "none"
  /\ Opened \in WinType /\ Sound(Opened) /\ Opened.pc = "report"
  /\ [Closed EXCEPT !.open = TRUE] \in WinType
  /\ Sound([Closed EXCEPT !.open = TRUE]) /\ [Closed EXCEPT !.open = TRUE].pc = "none"
  /\ NoScript \in ScriptType /\ NoScript.pc = "none" /\ NoScript.for = NoManager
BY DEF Closed, Opened, WinType, Sound, WorkPCs, NoScript, ScriptType

\* A window whose action goes on.
LEMMA Onward ==
  ASSUME NEW w \in WinType, NEW pc \in WinPCs
  PROVE  LET v == [w EXCEPT !.pc = pc] IN
           /\ v \in WinType /\ v.pc = pc
           /\ v.open = w.open /\ v.busy = w.busy /\ v.act = w.act /\ v.owes = w.owes
           /\ v.gone = w.gone /\ v.ok = w.ok /\ v.posted = w.posted
BY DEF WinType, WinPCs

\* The end of stopFaceSign.
LEMMA Afterwards ==
  ASSUME NEW w \in WinType, NEW ok \in BOOLEAN
  PROVE  LET v == After(w, ok) IN
           /\ v \in WinType /\ v.pc \in {"start", "report"}
           /\ v.open = w.open /\ v.busy = w.busy /\ v.posted = w.posted /\ ~ v.owes
<1>1. [w EXCEPT !.pc = "start", !.owes = FALSE, !.gone = FALSE, !.ok = FALSE] \in WinType
  BY DEF WinType, WorkPCs
<1>2. [w EXCEPT !.pc = "report", !.owes = FALSE, !.gone = FALSE, !.ok = FALSE] \in WinType
  BY DEF WinType, WorkPCs
<1> QED BY <1>1, <1>2 DEF After, WinType

LEMMA Leaving ==
  ASSUME NEW w \in WinType, NEW ok \in BOOLEAN
  PROVE  LET v == Leave(w, ok) IN
           /\ v \in WinType /\ v.open = w.open /\ v.busy = w.busy /\ v.posted = w.posted
           /\ w.owes => v.pc = "restore" /\ v.owes /\ v.gone = w.gone
           /\ ~ w.owes => v.pc \in {"start", "report"} /\ ~ v.owes
<1>1. [w EXCEPT !.pc = "restore", !.ok = ok] \in WinType BY DEF WinType, WorkPCs
<1> QED BY <1>1, Afterwards DEF Leave, WinType

\* A script that goes on.
LEMMA ScriptOnward ==
  ASSUME NEW q \in ScriptType, NEW pc \in {"read", "end", "kill", "check", "unregister",
                                           "register", "start", "disable", "verify"}
  PROVE  LET v == [q EXCEPT !.pc = pc] IN
           /\ v \in ScriptType /\ v.pc = pc
           /\ v.for = q.for /\ v.helper = q.helper /\ v.was = q.was /\ v.owes = q.owes
BY DEF ScriptType

-----------------------------------------------------------------------------
(* Steps *)

\* One window changes.
LEMMA SetWin ==
  ASSUME TypeOK, NEW m \in Managers, NEW w \in WinType, Set(m, w)
  PROVE  /\ win' \in [Managers -> WinType] /\ win'[m] = w
         /\ \A o \in Managers \ {m} : win'[o] = win[o]
BY DEF TypeOK, Set

LEMMA SetScript ==
  ASSUME TypeOK, NEW s \in Scripts, NEW q \in ScriptType, SGo(s, q)
  PROVE  /\ script' \in [Scripts -> ScriptType] /\ script'[s] = q
         /\ \A o \in Scripts \ {s} : script'[o] = script[o]
BY DEF TypeOK, SGo

Servers == {"none", "task", "hand"}

\* A window that is not the one that waits for a script.
LEMMA WinShape ==
  ASSUME TypeOK, Shape, NEW m \in Managers, NEW w \in WinType, Set(m, w), Sound(w),
         UNCHANGED script, win[m].pc # "script"
  PROVE  Shape'
<1>1. \A o \in Managers : Sound(win'[o]) BY SetWin DEF Shape
<1>2. \A o \in Managers, s \in Scripts : Waits(script[s], o) => win'[o].pc = "script"
  BY SetWin DEF Shape
<1>3. \A o \in Managers, s \in Scripts : Waits(script'[s], o) => win'[o].pc = "script"
  BY <1>2
<1>4. \A o \in Managers, s, t \in Scripts : Waits(script'[s], o) /\ Waits(script'[t], o) => s = t
  BY DEF Shape
<1> QED BY <1>1, <1>3, <1>4 DEF Shape, Sound, Waits

\* A manager at work on its own.
LEMMA Command ==
  ASSUME IInv, NEW m \in Managers, NEW w \in WinType, Set(m, w), Sound(w), UNCHANGED script,
         win[m].pc # "script",
         task' \in Settings, server' \in Servers, choice' \in Settings, excused' \in BOOLEAN,
         hidden' \in BOOLEAN,
         ~ excused' => ~ Others(m) /\ WinOk(win[m])' /\ (w.pc \notin WorkPCs => Asked(task)')
  PROVE  IInv'
<1>1. TypeOK' BY SetWin DEF IInv, TypeOK, Settings, Servers
<1>2. Shape' BY WinShape DEF IInv
<1>3. ASSUME ~ excused' PROVE Duties'
  <2>1. \A o \in Managers \ {m} : ~ Working(o)'
    BY <1>3, SetWin DEF IInv, Others, Working
  <2>2. \A s \in Scripts : ~ Active(s)' BY <1>3 DEF Others, Active
  <2>3. Alone' BY <2>1, <2>2 DEF Alone
  <2>4. Working(m)' <=> w.pc \in WorkPCs BY SetWin DEF IInv, Working
  <2>5. (Quiet => Asked(task))' BY <1>3, <2>4 DEF Quiet
  <2>6. \A o \in Managers : WinOk(win[o])'
    <3>1. WinOk(win[m])' BY <1>3
    <3>2. ASSUME NEW o \in Managers \ {m} PROVE WinOk(win[o])'
      BY <2>1 DEF WinOk, Working, WorkPCs
    <3> QED BY <3>1, <3>2
  <2>7. \A s \in Scripts : ScriptOk(script[s])' BY <2>2 DEF Active, ScriptOk
  <2> QED BY <2>3, <2>5, <2>6, <2>7 DEF Duties
<1> QED BY <1>1, <1>2, <1>3 DEF IInv

\* A window that only reads, asks or posts.
LEMMA Idles ==
  ASSUME IInv, NEW m \in Managers, NEW w \in WinType, Set(m, w), Sound(w), UNCHANGED script,
         win[m].pc # "script", ~ Working(m), w.pc \notin WorkPCs,
         UNCHANGED <<task, server, choice, excused, hidden>>
  PROVE  IInv'
<1>1. TypeOK' BY SetWin DEF IInv, TypeOK
<1>2. Shape' BY WinShape DEF IInv
<1>3. ASSUME ~ excused PROVE Duties'
  <2>1. \A o \in Managers : Working(o)' <=> Working(o) BY SetWin DEF IInv, Working
  <2>2. \A s \in Scripts : Active(s)' <=> Active(s) BY DEF Active
  <2>3. Duties BY <1>3 DEF IInv
  <2>4. Alone' BY <2>1, <2>2, <2>3 DEF Duties, Alone
  <2>5. (Quiet => Asked(task))' BY <2>1, <2>2, <2>3 DEF Duties, Quiet
  <2>6. \A o \in Managers : WinOk(win[o])'
    <3>1. WinOk(win[m])' BY SetWin DEF IInv, WinOk, WorkPCs
    <3>2. ASSUME NEW o \in Managers \ {m} PROVE WinOk(win[o])'
      BY <2>3, SetWin DEF IInv, Duties, WinOk
    <3> QED BY <3>1, <3>2
  <2>7. \A s \in Scripts : ScriptOk(script[s])' BY <2>3 DEF Duties, ScriptOk
  <2> QED BY <2>4, <2>5, <2>6, <2>7 DEF Duties
<1> QED BY <1>1, <1>2, <1>3 DEF IInv

\* What a manager at work may rely on.
LEMMA Own ==
  ASSUME IInv, NEW m \in Managers
  PROVE  /\ win[m] \in WinType /\ Sound(win[m]) /\ task \in Settings /\ choice \in Settings
         /\ server \in Servers /\ excused \in BOOLEAN /\ hidden \in BOOLEAN
         /\ Working(m) /\ ~ excused => ~ Others(m) /\ WinOk(win[m])
BY DEF IInv, TypeOK, Shape, Settings, Servers, Duties, Alone, Others

\* What a command leaves of the window's record.
LEMMA Went ==
  ASSUME IInv, NEW m \in Managers, NEW pc \in WinPCs, Go(m, pc)
  PROVE  /\ win'[m].pc = pc /\ win'[m].owes = win[m].owes /\ win'[m].gone = win[m].gone
         /\ win'[m].act = win[m].act
BY Own, Onward DEF Go, Set, IInv, TypeOK

\* A command after which the action goes on at pc.
LEMMA GoesOn ==
  ASSUME IInv, NEW m \in Managers, Working(m), NEW pc \in WorkPCs \cup {"report"}, Go(m, pc),
         UNCHANGED <<task, script, choice, excused>>, server' \in Servers, hidden' \in BOOLEAN,
         win[m].owes => pc \in Owing,
         ~ excused => WinOk(win[m])' /\ (pc \notin WorkPCs => Asked(task)')
  PROVE  IInv'
<1> DEFINE w == [win[m] EXCEPT !.pc = pc]
<1>1. pc \in WinPCs BY DEF WinPCs
<1>2. /\ w \in WinType /\ w.pc = pc
      /\ w.open = win[m].open /\ w.busy = win[m].busy /\ w.owes = win[m].owes
      /\ w.posted = win[m].posted
  BY <1>1, Own, Onward
<1>3. Sound(w) BY <1>2, Own DEF Sound, Working, WorkPCs, Owing
<1>4. Set(m, w) BY DEF Go
<1>5. win[m].pc # "script" BY DEF Working, WorkPCs
<1>6. ~ excused' => ~ Others(m) /\ WinOk(win[m])' /\ (w.pc \notin WorkPCs => Asked(task)')
  BY <1>2, Own
<1>7. task' \in Settings /\ choice' \in Settings /\ excused' \in BOOLEAN /\ hidden' \in BOOLEAN
  BY Own
<1>8. UNCHANGED script /\ server' \in Servers OBVIOUS
<1> HIDE DEF w
<1> QED BY <1>2, <1>3, <1>4, <1>5, <1>6, <1>7, <1>8, Command

-----------------------------------------------------------------------------
(* The window's actions *)

\* A window that shows something and has nothing to do.
LEMMA Rests ==
  ASSUME IInv, NEW m \in Managers, Set(m, [Closed EXCEPT !.open = TRUE]), ~ Working(m),
         win[m].pc # "script", UNCHANGED <<task, server, script, choice, excused, hidden>>
  PROVE  IInv'
<1> DEFINE w == [Closed EXCEPT !.open = TRUE]
<1>1. w \in WinType /\ Sound(w) /\ w.pc = "none" BY Constants
<1>2. w.pc \notin WorkPCs BY <1>1 DEF WorkPCs
<1>3. Set(m, w) OBVIOUS
<1> HIDE DEF w
<1> QED BY <1>1, <1>2, <1>3, Idles

LEMMA OpenKeeps == ASSUME IInv, NEW m \in Managers, Open(m) PROVE IInv'
<1>1. ~ Working(m) /\ win[m].pc # "script" BY Own DEF Open, Sound, Working, WorkPCs
<1>2. Opened.pc \notin WorkPCs BY Constants DEF WorkPCs
<1> QED BY <1>1, <1>2, Constants, Idles DEF Open

\* A click on a window that is not busy finds no action in its background.
LEMMA ClickKeeps ==
  ASSUME IInv, NEW m \in Managers,
         NEW act \in {"start", "stop", "restart", "enable", "disable", "refresh"}, Click(m, act)
  PROVE  IInv'
<1> DEFINE w == [win[m] EXCEPT !.busy = TRUE, !.act = act, !.pc = FirstPC(act)]
<1>1. win[m].pc = "none" /\ ~ win[m].owes /\ win[m].open /\ win[m].posted = "none"
  BY Own DEF Click, Sound
<1>2. FirstPC(act) \in {"start", "stop", "restart", "query", "report"} BY DEF FirstPC
<1>3. /\ w \in WinType /\ w.pc = FirstPC(act) /\ w.open /\ w.busy
      /\ ~ w.owes /\ w.posted = "none"
  <2>1. win[m] \in WinType BY Own
  <2>2. FirstPC(act) \in WorkPCs \cup {"none", "report", "script", "choose", "launch"}
    BY <1>2 DEF WorkPCs
  <2>3. act \in {"none", "first", "refresh", "start", "stop", "restart", "enable", "disable",
                 "upgrade", "install"}
    OBVIOUS
  <2>4. DOMAIN win[m] = {"open", "busy", "pc", "act", "owes", "gone", "ok", "posted"}
    BY <2>1 DEF WinType
  <2>5. w \in WinType BY ONLY <2>1, <2>2, <2>3 DEF WinType, w
  <2>6. /\ w.pc = FirstPC(act) /\ w.open = win[m].open /\ w.busy = TRUE
        /\ w.owes = win[m].owes /\ w.posted = win[m].posted
    BY ONLY <2>4 DEF w
  <2> QED BY <1>1, <2>5, <2>6
<1>4. Sound(w) BY <1>3 DEF Sound
<1>5. Set(m, w) /\ UNCHANGED <<task, server, script, choice, hidden>> BY DEF Click
<1>6. ~ Working(m) /\ win[m].pc # "script" BY <1>1 DEF Working, WorkPCs
<1>7. CASE act = "refresh"
  <2>1. w.pc \notin WorkPCs BY <1>3, <1>7 DEF FirstPC, WorkPCs
  <2>2. UNCHANGED excused BY <1>7, Own DEF Click
  <2> HIDE DEF w
  <2> QED BY <1>3, <1>4, <1>5, <1>6, <2>1, <2>2, Idles
<1>8. CASE act # "refresh"
  <2>1. w.pc \in WorkPCs BY <1>3, <1>8 DEF FirstPC, WorkPCs
  <2>2. excused' = (excused \/ Others(m)) BY <1>8 DEF Click
  <2>3. ~ excused' => ~ excused /\ ~ Others(m) BY <2>2
  <2>4. ~ excused' => Asked(task)
    BY <2>3, <1>6 DEF IInv, Duties, Quiet, Others
  <2>5. w.pc \in {"start", "stop", "restart", "query"} BY <1>2, <1>3, <2>1 DEF WorkPCs
  <2>6. ~ excused' => WinOk(win[m])'
    <3>1. win'[m] = w BY <1>3, <1>5, SetWin DEF IInv
    <3> HIDE DEF w
    <3> QED BY <3>1, <1>3, <1>5, <2>4, <2>5 DEF WinOk
  <2>7. /\ task' \in Settings /\ server' \in Servers /\ choice' \in Settings
        /\ excused' \in BOOLEAN /\ hidden' \in BOOLEAN
    BY <1>5, <2>2, Own DEF Others, Working, Active
  <2> HIDE DEF w
  <2> QED BY <1>3, <1>4, <1>5, <1>6, <2>1, <2>3, <2>6, <2>7, Command
<1> QED BY <1>7, <1>8

LEMMA ReportKeeps == ASSUME IInv, NEW m \in Managers, Report(m) PROVE IInv'
<1> DEFINE w == [win[m] EXCEPT !.pc = "none", !.posted = "done"]
<1>1. Set(m, w) BY DEF Report, Target
<1>2. win[m].pc = "report" /\ win[m].open /\ win[m].busy /\ ~ win[m].owes
  BY Own DEF Report, At, Sound
<1>3. w \in WinType /\ w.pc = "none" /\ w.open /\ w.busy /\ ~ w.owes BY <1>2, Own DEF WinType
<1>4. Sound(w) BY <1>3 DEF Sound
<1>5. ~ Working(m) /\ w.pc \notin WorkPCs BY <1>2, <1>3 DEF Working, WorkPCs
<1>6. UNCHANGED <<task, server, script, choice, excused, hidden>> BY DEF Report
<1> HIDE DEF w
<1> QED BY <1>1, <1>2, <1>3, <1>4, <1>5, <1>6, Idles

LEMMA BeginUpgradeKeeps == ASSUME IInv, NEW m \in Managers, BeginUpgrade(m) PROVE IInv'
<1> DEFINE w == [win[m] EXCEPT !.busy = TRUE, !.act = "upgrade", !.pc = "choose"]
<1>1. win[m].pc = "none" /\ ~ win[m].owes /\ win[m].open /\ win[m].posted = "none"
  BY Own DEF BeginUpgrade, Sound
<1>2. /\ w \in WinType /\ w.pc = "choose" /\ w.open /\ w.busy /\ ~ w.owes /\ w.posted = "none"
  BY <1>1, Own DEF WinType
<1>3. Sound(w) BY <1>2 DEF Sound
<1>4. ~ Working(m) /\ w.pc \notin WorkPCs BY <1>1, <1>2 DEF Working, WorkPCs
<1>5. Set(m, w) /\ UNCHANGED <<task, server, script, choice, excused, hidden>> BY DEF BeginUpgrade
<1> HIDE DEF w
<1> QED BY <1>1, <1>2, <1>3, <1>4, <1>5, Idles

LEMMA ChooseKeeps == ASSUME IInv, NEW m \in Managers, Choose(m) PROVE IInv'
<1>1. PICK ok \in BOOLEAN :
        Set(m, [win[m] EXCEPT !.pc = "none", !.posted = "selected", !.ok = ok])
  BY DEF Choose
<1> DEFINE w == [win[m] EXCEPT !.pc = "none", !.posted = "selected", !.ok = ok]
<1>2. win[m].pc = "choose" /\ win[m].open /\ win[m].busy /\ ~ win[m].owes
  BY Own DEF Choose, At, Sound
<1>3. w \in WinType /\ w.pc = "none" /\ w.open /\ w.busy /\ ~ w.owes BY <1>2, Own DEF WinType
<1>4. Sound(w) BY <1>3 DEF Sound
<1>5. ~ Working(m) /\ w.pc \notin WorkPCs BY <1>2, <1>3 DEF Working, WorkPCs
<1>6. Set(m, w) /\ UNCHANGED <<task, server, script, choice, excused, hidden>> BY <1>1 DEF Choose
<1> HIDE DEF w
<1> QED BY <1>2, <1>3, <1>4, <1>5, <1>6, Idles

\* Whoever has something posted has no action in its background.
LEMMA Posted ==
  ASSUME IInv, NEW m \in Managers, win[m].posted # "none"
  PROVE  win[m].pc = "none" /\ win[m].busy /\ ~ win[m].owes /\ ~ Working(m)
BY Own DEF Sound, Working, WorkPCs

LEMMA FinishKeeps ==
  ASSUME IInv, NEW m \in Managers, FinishAction(m) \/ FinishSelection(m)
  PROVE  IInv'
<1>1. win[m].posted # "none" /\ win[m].open BY Own DEF FinishAction, FinishSelection, Sound
<1>2. ~ Working(m) /\ win[m].pc # "script" BY <1>1, Posted
<1>3. UNCHANGED <<task, server, script, choice, excused, hidden>>
  BY DEF FinishAction, FinishSelection
<1>4. CASE Set(m, [Closed EXCEPT !.open = TRUE]) BY <1>2, <1>3, <1>4, Rests
<1>5. CASE Set(m, [win[m] EXCEPT !.posted = "none", !.pc = "launch"])
  <2> DEFINE w == [win[m] EXCEPT !.posted = "none", !.pc = "launch"]
  <2>1. /\ w \in WinType /\ w.pc = "launch" /\ w.busy /\ w.open /\ ~ w.owes
        /\ w.posted = "none"
    BY <1>1, <1>5, Own, Posted DEF WinType
  <2>2. Sound(w) BY <2>1 DEF Sound
  <2>3. w.pc \notin WorkPCs BY <2>1 DEF WorkPCs
  <2>4. Set(m, w) BY <1>5
  <2> HIDE DEF w
  <2> QED BY <1>2, <1>3, <2>1, <2>2, <2>3, <2>4, Idles
<1> QED BY <1>4, <1>5 DEF FinishAction, FinishSelection

-----------------------------------------------------------------------------
(* The actions that change the task and the server *)

\* stopFaceSign and startFaceSign look before they do anything. A state that
\* is not the task's own is remembered in hidden.
LEMMA LookKeeps ==
  ASSUME IInv, NEW m \in Managers, Restart(m) \/ StartLook(m) \/ StopState(m) \/ StartState(m)
  PROVE  IInv'
<1>1. win[m].pc \in {"restart", "start", "stopState", "startState"} /\ ~ win[m].owes
  BY Own DEF Restart, StartLook, StopState, StartState, At, Sound
<1>2. Working(m) BY <1>1 DEF Working, WorkPCs
<1>3. UNCHANGED <<task, server, script, choice, excused>>
  BY DEF Restart, StartLook, StopState, StartState
<1>4. ~ excused => Asked(task) BY <1>1, <1>2, Own DEF WinOk
<1>5. PICK pc \in {"stop", "start", "report", "startState", "stopDisable", "end", "kill", "run",
                   "startEnable"} :
        /\ Go(m, pc)
        /\ pc = "stopDisable" => task = "enabled" \/ hidden'
        /\ pc = "startEnable" => task = "disabled"
        /\ hidden' \in BOOLEAN /\ (hidden => hidden')
  <2>1. CASE Restart(m) \/ StartLook(m) BY <2>1, Own DEF Restart, StartLook
  <2>2. CASE StopState(m)
    <3>1. CASE Go(m, "kill") /\ UNCHANGED hidden BY <3>1, Own
    <3>2. ASSUME NEW state \in Shown,
                 Go(m, IF state = "enabled" THEN "stopDisable"
                       ELSE IF state = "disabled" THEN "end" ELSE "kill"),
                 hidden' = (hidden \/ state # task)
          PROVE  \E pc \in {"stopDisable", "end", "kill"} :
                   /\ Go(m, pc) /\ (pc = "stopDisable" => task = "enabled" \/ hidden')
                   /\ hidden' \in BOOLEAN /\ (hidden => hidden')
      <4>1. hidden' \in BOOLEAN /\ (hidden => hidden') BY <3>2, Own
      <4>2. CASE state = "enabled" BY <3>2, <4>1, <4>2
      <4>3. CASE state # "enabled" BY <3>2, <4>1, <4>3
      <4> QED BY <4>2, <4>3
    <3> QED BY <2>2, <3>1, <3>2 DEF StopState
  <2>3. CASE StartState(m)
    <3>1. UNCHANGED hidden BY <2>3 DEF StartState
    <3>2. \A state \in Shown : state = "disabled" => task = "disabled" BY DEF Shown
    <3>3. \/ \E state \in Shown :
               Go(m, IF state = "enabled" THEN "run"
                     ELSE IF state = "disabled" THEN "startEnable" ELSE "report")
          \/ Go(m, "report")
      BY <2>3 DEF StartState
    <3> QED BY <3>1, <3>2, <3>3, Own
  <2> QED BY <2>1, <2>2, <2>3
<1>6. pc \in WorkPCs \cup {"report"} /\ pc \in WinPCs BY DEF WorkPCs, WinPCs
<1>7. ~ excused => WinOk(win[m])' BY <1>1, <1>3, <1>4, <1>5, <1>6, Went DEF WinOk
<1>8. server' \in Servers /\ hidden' \in BOOLEAN BY <1>3, <1>5, Own
<1>9. ~ excused => Asked(task)' BY <1>3, <1>4, <1>5
<1> QED BY <1>1, <1>2, <1>3, <1>5, <1>6, <1>7, <1>8, <1>9, GoesOn

\* schtasks /End and taskkill: what the window owes stays.
LEMMA EndKeeps ==
  ASSUME IInv, NEW m \in Managers, End(m) \/ Kill(m)
  PROVE  IInv'
<1>1. win[m].pc \in {"end", "kill"} BY DEF End, Kill, At
<1>2. Working(m) BY <1>1 DEF Working, WorkPCs
<1>3. UNCHANGED <<task, script, choice, excused, hidden>> /\ server' \in Servers
  BY Own DEF End, Kill, Servers
<1>4. PICK pc \in {"wait", "last"} : Go(m, pc) BY DEF End, Kill
<1>5. pc \in WorkPCs /\ pc \in WinPCs /\ pc \in Owing BY DEF WorkPCs, WinPCs, Owing
<1>6. ~ excused => WinOk(win[m])' BY <1>1, <1>2, <1>3, <1>4, <1>5, Own, Went DEF WinOk
<1>7. hidden' \in BOOLEAN BY <1>3, Own
<1> QED BY <1>2, <1>3, <1>4, <1>5, <1>6, <1>7, GoesOn

\* The last command of a stop: the ENABLE that is owed, or the end.
LEMMA LeaveKeeps ==
  ASSUME IInv, NEW m \in Managers, NEW v \in WinType, NEW ok \in BOOLEAN,
         win[m].pc \in {"stop", "wait", "last"}, Set(m, Leave(v, ok)),
         v.open = win[m].open, v.busy = win[m].busy, v.posted = win[m].posted,
         v.owes = win[m].owes, v.gone => server = "none",
         UNCHANGED <<task, server, script, choice, excused, hidden>>
  PROVE  IInv'
<1> DEFINE w == Leave(v, ok)
<1>1. /\ w \in WinType /\ w.open = win[m].open /\ w.busy = win[m].busy
      /\ w.posted = win[m].posted
      /\ win[m].owes => w.pc = "restore" /\ w.owes /\ w.gone = v.gone
      /\ ~ win[m].owes => w.pc \in {"start", "report"} /\ ~ w.owes
  BY Leaving
<1>2. Working(m) /\ win[m].pc # "script" BY DEF Working, WorkPCs
<1>3. Sound(w) BY <1>1, <1>2, Own DEF Sound, Working, WorkPCs
<1>4. Set(m, w) OBVIOUS
<1>5. win'[m] = w BY <1>1, <1>4, SetWin DEF IInv
<1>6. ~ excused => WinOk(win[m]) /\ ~ Others(m) BY <1>2, Own
<1>7. ~ excused => WinOk(win[m])'
  <2> HIDE DEF w
  <2> QED BY <1>1, <1>5, <1>6 DEF WinOk
<1>8. ~ excused' => (w.pc \notin WorkPCs => Asked(task)')
  <2> HIDE DEF w
  <2> QED BY <1>1, <1>6 DEF WinOk, WorkPCs
<1>9. /\ task' \in Settings /\ server' \in Servers /\ choice' \in Settings
      /\ excused' \in BOOLEAN /\ hidden' \in BOOLEAN
  BY Own
<1>10. ~ excused' => ~ Others(m) /\ WinOk(win[m])' BY <1>6, <1>7
<1>11. UNCHANGED script OBVIOUS
<1> HIDE DEF w
<1> QED BY <1>1, <1>2, <1>3, <1>4, <1>8, <1>9, <1>10, <1>11, Command

LEMMA WaitKeeps ==
  ASSUME IInv, NEW m \in Managers, Wait(m) \/ WaitLast(m)
  PROVE  IInv'
<1>1. win[m].pc \in {"wait", "last"} BY DEF Wait, WaitLast, At
<1>2. UNCHANGED <<task, server, script, choice, excused, hidden>> BY DEF Wait, WaitLast
<1>3. CASE Go(m, "kill")
  <2>1. Working(m) BY <1>1 DEF Working, WorkPCs
  <2>2. "kill" \in WorkPCs /\ "kill" \in WinPCs /\ "kill" \in Owing
    BY DEF WorkPCs, WinPCs, Owing
  <2>3. ~ excused => WinOk(win[m])' BY <1>1, <1>2, <1>3, <2>1, <2>2, Own, Went DEF WinOk
  <2>4. server' \in Servers /\ hidden' \in BOOLEAN BY <1>2, Own
  <2> QED BY <1>2, <1>3, <2>1, <2>2, <2>3, <2>4, GoesOn
<1>4. CASE \E ok \in BOOLEAN : Set(m, Gone(m, ok))
  <2>1. PICK ok \in BOOLEAN : Set(m, Gone(m, ok)) BY <1>4
  <2> DEFINE v == [win[m] EXCEPT !.gone = (server = "none")]
  <2>2. /\ v \in WinType /\ v.open = win[m].open /\ v.busy = win[m].busy
        /\ v.posted = win[m].posted /\ v.owes = win[m].owes /\ (v.gone => server = "none")
    BY Own DEF WinType
  <2>3. Set(m, Leave(v, ok)) BY <2>1 DEF Gone
  <2>4. win[m].pc \in {"stop", "wait", "last"} BY <1>1
  <2> HIDE DEF v
  <2> QED BY <1>2, <2>2, <2>3, <2>4, LeaveKeeps
<1>5. Seen \subseteq BOOLEAN BY DEF Seen
<1>6. ASSUME Wait(m) PROVE Go(m, "kill") \/ \E ok \in BOOLEAN : Set(m, Gone(m, ok))
  <2>1. PICK seen \in BOOLEAN : IF seen THEN Go(m, "kill") ELSE Set(m, Gone(m, TRUE))
    BY <1>5, <1>6 DEF Wait
  <2> QED BY <2>1
<1>7. ASSUME WaitLast(m) PROVE \E ok \in BOOLEAN : Set(m, Gone(m, ok))
  <2>1. PICK seen \in BOOLEAN : Set(m, Gone(m, ~ seen)) BY <1>5, <1>7 DEF WaitLast
  <2> QED BY <2>1
<1> QED BY <1>3, <1>4, <1>6, <1>7

LEMMA StopLookKeeps == ASSUME IInv, NEW m \in Managers, StopLook(m) PROVE IInv'
<1>1. win[m].pc = "stop" /\ ~ win[m].owes BY Own DEF StopLook, At, Sound
<1>2. UNCHANGED <<task, server, script, choice, excused, hidden>> BY DEF StopLook
<1>3. Working(m) BY <1>1 DEF Working, WorkPCs
<1>4. CASE Go(m, "stopState")
  <2>1. "stopState" \in WorkPCs /\ "stopState" \in WinPCs BY DEF WorkPCs, WinPCs
  <2>2. ~ excused => WinOk(win[m])' BY <1>1, <1>2, <1>3, <1>4, <2>1, Own, Went DEF WinOk
  <2>3. server' \in Servers /\ hidden' \in BOOLEAN BY <1>2, Own
  <2> QED BY <1>1, <1>2, <1>3, <1>4, <2>1, <2>2, <2>3, GoesOn
<1>5. CASE Set(m, After(win[m], TRUE))
  <2> DEFINE v == [win[m] EXCEPT !.gone = FALSE]
  <2>1. /\ v \in WinType /\ v.open = win[m].open /\ v.busy = win[m].busy
        /\ v.posted = win[m].posted /\ v.owes = win[m].owes /\ ~ v.gone
    BY Own DEF WinType
  <2>2. After(win[m], TRUE) = After(v, TRUE) BY Own DEF After, WinType
  <2>3. Leave(v, TRUE) = After(win[m], TRUE) BY <1>1, <2>1, <2>2 DEF Leave
  <2>4. Set(m, Leave(v, TRUE)) BY <1>5, <2>3
  <2> HIDE DEF v
  <2> QED BY <1>1, <1>2, <2>1, <2>4, LeaveKeeps
<1> QED BY <1>2, <1>4, <1>5 DEF StopLook, Seen

\* A command after which the window owes nothing.
LEMMA Settles ==
  ASSUME IInv, NEW m \in Managers, NEW w \in WinType, Set(m, w), Working(m),
         w.open = win[m].open, w.busy = win[m].busy, w.posted = win[m].posted, ~ w.owes,
         w.pc \in {"start", "report", "end"}, UNCHANGED <<script, server>>,
         task' \in Settings, choice' \in Settings, excused' \in BOOLEAN,
         hidden' \in BOOLEAN,
         ~ excused' => ~ Others(m) /\ Asked(task)'
  PROVE  IInv'
<1>1. Sound(w) BY Own DEF Sound, Working, WorkPCs
<1>2. win'[m] = w BY SetWin DEF IInv
<1>3. ~ excused' => WinOk(win[m])' BY <1>2 DEF WinOk
<1>4. win[m].pc # "script" BY DEF Working, WorkPCs
<1>5. server' \in Servers BY Own
<1> QED BY <1>1, <1>3, <1>4, <1>5, Command

\* What schtasks /Change does to the task.
LEMMA Changed ==
  ASSUME IInv, NEW m \in Managers, Working(m), NEW t \in {"enabled", "disabled"},
         NEW done \in WinType, NEW failed \in WinType, Change(m, t, done, failed),
         UNCHANGED <<choice, hidden>>
  PROVE  /\ task' \in Settings /\ choice' \in Settings
         /\ excused' \in BOOLEAN /\ hidden' \in BOOLEAN
         /\ ~ excused' => ~ excused /\ ~ Others(m)
         /\ \/ Set(m, done) /\ task' = t
            \/ Set(m, failed) /\ (~ excused' => Asked(task)')
<1>1. task' \in Settings BY Own DEF Change, Settings
<1>2. excused' \in BOOLEAN /\ choice' \in Settings /\ hidden' \in BOOLEAN BY Own DEF Change
<1>3. ~ excused' => ~ excused BY DEF Change
<1>4. \/ Set(m, done) /\ task' = t
      \/ Set(m, failed) /\ (~ excused' => Asked(task)')
  BY DEF Change
<1> QED BY <1>1, <1>2, <1>3, <1>4, Own

LEMMA StopDisableKeeps == ASSUME IInv, NEW m \in Managers, StopDisable(m) PROVE IInv'
<1> DEFINE done == [win[m] EXCEPT !.pc = "end", !.owes = TRUE]
           failed == [win[m] EXCEPT !.pc = "end"]
<1>1. win[m].pc = "stopDisable" /\ ~ win[m].owes BY Own DEF StopDisable, At, Sound
<1>2. Working(m) /\ win[m].pc # "script" BY <1>1 DEF Working, WorkPCs
<1>3. /\ done \in WinType /\ done.pc = "end" /\ done.owes
      /\ done.open = win[m].open /\ done.busy = win[m].busy /\ done.posted = win[m].posted
  BY Own DEF WinType, WorkPCs
<1>4. /\ failed \in WinType /\ failed.pc = "end" /\ ~ failed.owes
      /\ failed.open = win[m].open /\ failed.busy = win[m].busy /\ failed.posted = win[m].posted
  BY <1>1, Own DEF WinType, WorkPCs
<1>5. Change(m, "disabled", done, failed) /\ UNCHANGED <<server, script, choice, hidden>>
  BY DEF StopDisable, Paused
<1> HIDE DEF done, failed
<1>6. /\ task' \in Settings /\ excused' \in BOOLEAN /\ choice' \in Settings /\ hidden' \in BOOLEAN
      /\ ~ excused' => ~ excused /\ ~ Others(m)
      /\ \/ Set(m, done) /\ task' = "disabled"
         \/ Set(m, failed) /\ (~ excused' => Asked(task)')
  BY <1>2, <1>3, <1>4, <1>5, Changed
<1>7. CASE Set(m, failed) /\ (~ excused' => Asked(task)')
  BY <1>2, <1>4, <1>5, <1>6, <1>7, Settles
<1>8. CASE Set(m, done) /\ task' = "disabled"
  <2>1. Sound(done) BY <1>2, <1>3, Own DEF Sound, Working, WorkPCs
  <2>2. win'[m] = done BY <1>3, <1>8, SetWin DEF IInv
  <2>3. ~ excused' => Asked("enabled")' BY <1>1, <1>2, <1>5, <1>6, Own DEF WinOk
  <2>4. ~ excused' => WinOk(win[m])' BY <1>3, <1>8, <2>2, <2>3 DEF WinOk
  <2>5. done.pc \in WorkPCs BY <1>3 DEF WorkPCs
  <2>6. server' \in Servers BY <1>5, Own
  <2> QED BY <1>2, <1>3, <1>5, <1>6, <1>8, <2>1, <2>4, <2>5, <2>6, Command
<1> QED BY <1>6, <1>7, <1>8

LEMMA RestoreKeeps == ASSUME IInv, NEW m \in Managers, Restore(m) PROVE IInv'
<1> DEFINE done == After(win[m], win[m].ok)
           failed == After(win[m], FALSE)
<1>1. win[m].pc = "restore" BY DEF Restore, At
<1>2. Working(m) BY <1>1 DEF Working, WorkPCs
<1>3. /\ done \in WinType /\ done.pc \in {"start", "report"} /\ ~ done.owes
      /\ done.open = win[m].open /\ done.busy = win[m].busy /\ done.posted = win[m].posted
  <2>1. win[m] \in WinType /\ win[m].ok \in BOOLEAN BY Own DEF WinType
  <2> QED BY <2>1, Afterwards
<1>4. /\ failed \in WinType /\ failed.pc \in {"start", "report"} /\ ~ failed.owes
      /\ failed.open = win[m].open /\ failed.busy = win[m].busy /\ failed.posted = win[m].posted
  BY Own, Afterwards
<1>5. Change(m, "enabled", done, failed) /\ UNCHANGED <<server, script, choice, hidden>>
  BY DEF Restore
<1> HIDE DEF done, failed
<1>6. /\ task' \in Settings /\ excused' \in BOOLEAN /\ choice' \in Settings /\ hidden' \in BOOLEAN
      /\ ~ excused' => ~ excused /\ ~ Others(m)
      /\ \/ Set(m, done) /\ task' = "enabled"
         \/ Set(m, failed) /\ (~ excused' => Asked(task)')
  BY <1>2, <1>3, <1>4, <1>5, Changed
<1>7. ~ excused => Asked("enabled") BY <1>1, <1>2, Own DEF WinOk
<1>8. CASE Set(m, done) /\ task' = "enabled"
  BY <1>2, <1>3, <1>5, <1>6, <1>7, <1>8, Settles
<1>9. CASE Set(m, failed) /\ (~ excused' => Asked(task)')
  BY <1>2, <1>4, <1>5, <1>6, <1>9, Settles
<1> QED BY <1>6, <1>8, <1>9

LEMMA StartEnableKeeps == ASSUME IInv, NEW m \in Managers, StartEnable(m) PROVE IInv'
<1> DEFINE done == [win[m] EXCEPT !.pc = "run", !.owes = TRUE]
           failed == [win[m] EXCEPT !.pc = "report"]
<1>1. win[m].pc = "startEnable" /\ ~ win[m].owes BY Own DEF StartEnable, At, Sound
<1>2. Working(m) /\ win[m].pc # "script" BY <1>1 DEF Working, WorkPCs
<1>3. /\ done \in WinType /\ done.pc = "run" /\ done.owes
      /\ done.open = win[m].open /\ done.busy = win[m].busy /\ done.posted = win[m].posted
  BY Own DEF WinType, WorkPCs
<1>4. /\ failed \in WinType /\ failed.pc = "report" /\ ~ failed.owes
      /\ failed.open = win[m].open /\ failed.busy = win[m].busy /\ failed.posted = win[m].posted
  BY <1>1, Own DEF WinType
<1>5. Change(m, "enabled", done, failed) /\ UNCHANGED <<server, script, choice, hidden>>
  BY DEF StartEnable
<1> HIDE DEF done, failed
<1>6. /\ task' \in Settings /\ excused' \in BOOLEAN /\ choice' \in Settings /\ hidden' \in BOOLEAN
      /\ ~ excused' => ~ excused /\ ~ Others(m)
      /\ \/ Set(m, done) /\ task' = "enabled"
         \/ Set(m, failed) /\ (~ excused' => Asked(task)')
  BY <1>2, <1>3, <1>4, <1>5, Changed
<1>7. CASE Set(m, failed) /\ (~ excused' => Asked(task)')
  BY <1>2, <1>4, <1>5, <1>6, <1>7, Settles
<1>8. CASE Set(m, done) /\ task' = "enabled"
  <2>1. Sound(done) BY <1>2, <1>3, Own DEF Sound, Working, WorkPCs
  <2>2. win'[m] = done BY <1>3, <1>8, SetWin DEF IInv
  <2>3. ~ excused' => Asked("disabled")' BY <1>1, <1>2, <1>5, <1>6, Own DEF WinOk
  <2>4. ~ excused' => WinOk(win[m])' BY <1>3, <1>8, <2>2, <2>3 DEF WinOk
  <2>5. done.pc \in WorkPCs BY <1>3 DEF WorkPCs
  <2>6. server' \in Servers BY <1>5, Own
  <2> QED BY <1>2, <1>3, <1>5, <1>6, <1>8, <2>1, <2>4, <2>5, <2>6, Command
<1> QED BY <1>6, <1>7, <1>8

LEMMA RunKeeps == ASSUME IInv, NEW m \in Managers, Run(m) PROVE IInv'
<1>1. win[m].pc = "run" BY DEF Run, At
<1>2. Working(m) BY <1>1 DEF Working, WorkPCs
<1>3. UNCHANGED <<task, script, choice, excused, hidden>> BY DEF Run
<1>4. server' \in Servers /\ hidden' \in BOOLEAN BY <1>3, Own DEF Run, Servers
<1>5. PICK pc \in {"startDisable", "report"} : /\ Go(m, pc)
                                               /\ pc = "startDisable" <=> win[m].owes
  BY DEF Run
<1>6. pc \in WorkPCs \cup {"report"} /\ pc \in WinPCs /\ (win[m].owes => pc \in Owing)
  BY <1>5 DEF WorkPCs, WinPCs, Owing
<1>7. ~ excused => WinOk(win[m])' BY <1>1, <1>2, <1>3, <1>5, <1>6, Own, Went DEF WinOk
<1>8. ~ excused => (pc \notin WorkPCs => Asked(task)')
  BY <1>1, <1>2, <1>3, <1>5, Own DEF WinOk, WorkPCs
<1> QED BY <1>2, <1>3, <1>4, <1>5, <1>6, <1>7, <1>8, GoesOn

LEMMA StartDisableKeeps == ASSUME IInv, NEW m \in Managers, StartDisable(m) PROVE IInv'
<1> DEFINE w == [win[m] EXCEPT !.pc = "report", !.owes = FALSE]
<1>1. win[m].pc = "startDisable" BY DEF StartDisable, At
<1>2. Working(m) BY <1>1 DEF Working, WorkPCs
<1>3. /\ w \in WinType /\ w.pc = "report" /\ ~ w.owes
      /\ w.open = win[m].open /\ w.busy = win[m].busy /\ w.posted = win[m].posted
  BY Own DEF WinType
<1>4. Change(m, "disabled", w, w) /\ UNCHANGED <<server, script, choice, hidden>>
  BY DEF StartDisable
<1> HIDE DEF w
<1>5. /\ task' \in Settings /\ excused' \in BOOLEAN /\ choice' \in Settings /\ hidden' \in BOOLEAN
      /\ ~ excused' => ~ excused /\ ~ Others(m)
      /\ Set(m, w)
      /\ task' = "disabled" \/ (~ excused' => Asked(task)')
  BY <1>2, <1>3, <1>4, Changed
<1>6. ~ excused => Asked("disabled") BY <1>1, <1>2, Own DEF WinOk
<1>7. ~ excused' => Asked(task)' BY <1>4, <1>5, <1>6
<1> QED BY <1>2, <1>3, <1>4, <1>5, <1>7, Settles

LEMMA QueryKeeps == ASSUME IInv, NEW m \in Managers, Query(m) PROVE IInv'
<1>1. win[m].pc = "query" /\ ~ win[m].owes BY Own DEF Query, At, Sound
<1>2. Working(m) BY <1>1 DEF Working, WorkPCs
<1>3. UNCHANGED <<task, server, script>> /\ server' \in Servers BY Own DEF Query
<1>4. CASE /\ Go(m, "report") /\ choice' = Wanted(m) /\ excused' = Others(m)
           /\ hidden' = (task # choice')
  <2> DEFINE w == [win[m] EXCEPT !.pc = "report"]
  <2>1. /\ w \in WinType /\ w.pc = "report" /\ ~ w.owes
        /\ w.open = win[m].open /\ w.busy = win[m].busy /\ w.posted = win[m].posted
    BY <1>1, Own DEF WinType
  <2>2. Set(m, w) BY <1>4 DEF Go
  <2>3. /\ task' \in Settings /\ choice' \in Settings
        /\ excused' \in BOOLEAN /\ hidden' \in BOOLEAN
    BY <1>3, <1>4, Own DEF Wanted, Settings, Others, Working, Active
  <2>4. ~ excused' => ~ Others(m) /\ Asked(task)' BY <1>3, <1>4
  <2> HIDE DEF w
  <2> QED BY <1>2, <1>3, <2>1, <2>2, <2>3, <2>4, Settles
<1>5. CASE (Go(m, "change") \/ Go(m, "report")) /\ UNCHANGED <<choice, excused, hidden>>
  <2>1. PICK pc \in {"change", "report"} : Go(m, pc) BY <1>5
  <2>2. pc \in WorkPCs \cup {"report"} /\ pc \in WinPCs BY DEF WorkPCs, WinPCs
  <2>3. ~ excused => Asked(task) BY <1>1, <1>2, Own DEF WinOk
  <2>4. ~ excused => WinOk(win[m])' BY <1>1, <1>3, <1>5, <2>1, <2>2, <2>3, Went DEF WinOk
  <2>5. hidden' \in BOOLEAN BY <1>5, Own
  <2>6. ~ excused => Asked(task)' BY <1>3, <1>5, <2>3
  <2> QED BY <1>1, <1>2, <1>3, <1>5, <2>1, <2>2, <2>4, <2>5, <2>6, GoesOn
<1> QED BY <1>4, <1>5 DEF Query

LEMMA ChangeStartupKeeps == ASSUME IInv, NEW m \in Managers, ChangeStartup(m) PROVE IInv'
<1> DEFINE w == [win[m] EXCEPT !.pc = "report"]
<1>1. win[m].pc = "change" /\ ~ win[m].owes BY Own DEF ChangeStartup, At, Sound
<1>2. Working(m) BY <1>1 DEF Working, WorkPCs
<1>3. /\ w \in WinType /\ w.pc = "report" /\ ~ w.owes
      /\ w.open = win[m].open /\ w.busy = win[m].busy /\ w.posted = win[m].posted
  BY <1>1, Own DEF WinType
<1>4. Set(m, w) /\ UNCHANGED <<script, server>> BY DEF ChangeStartup, Go
<1>5. Wanted(m) \in Settings BY DEF Wanted, Settings
<1>6. task' \in Settings /\ choice' \in Settings /\ excused' \in BOOLEAN /\ hidden' \in BOOLEAN
  BY <1>5, Own DEF ChangeStartup, Others, Working, Active
<1>7. ~ excused' => ~ Others(m) /\ Asked(task)' BY <1>2, Own DEF ChangeStartup
<1> HIDE DEF w
<1> QED BY <1>2, <1>3, <1>4, <1>6, <1>7, Settles

-----------------------------------------------------------------------------
(* Windows and scripts together *)

\* Who changes here was not at work and is not.
LEMMA Passes ==
  ASSUME IInv, TypeOK', Shape', UNCHANGED <<task, server, choice, excused, hidden>>,
         \A o \in Managers : win'[o] = win[o] \/ (~ Working(o) /\ ~ Working(o)'),
         \A s \in Scripts : script'[s] = script[s] \/ (~ Active(s) /\ ~ Active(s)')
  PROVE  IInv'
<1>1. ASSUME ~ excused PROVE Duties'
  <2>1. Duties BY <1>1 DEF IInv
  <2>2. \A o \in Managers : Working(o)' <=> Working(o) BY DEF Working
  <2>3. \A s \in Scripts : Active(s)' <=> Active(s) BY DEF Active
  <2>4. Alone' BY <2>1, <2>2, <2>3 DEF Duties, Alone
  <2>5. (Quiet => Asked(task))' BY <2>1, <2>2, <2>3 DEF Duties, Quiet
  <2>6. ASSUME NEW o \in Managers PROVE WinOk(win[o])'
    <3>1. CASE win'[o] = win[o] BY <2>1, <3>1 DEF Duties, WinOk
    <3>2. CASE ~ Working(o)' BY <3>2 DEF Working, WorkPCs, WinOk
    <3> QED BY <3>1, <3>2
  <2>7. ASSUME NEW s \in Scripts PROVE ScriptOk(script[s])'
    <3>1. CASE script'[s] = script[s] BY <2>1, <3>1 DEF Duties, ScriptOk
    <3>2. CASE ~ Active(s)' BY <3>2 DEF Active, ScriptOk
    <3> QED BY <3>1, <3>2
  <2> QED BY <2>4, <2>5, <2>6, <2>7 DEF Duties
<1> QED BY <1>1 DEF IInv

LEMMA LaunchKeeps == ASSUME IInv, NEW m \in Managers, Launch(m) PROVE IInv'
<1>1. /\ win[m].pc = "launch" /\ win[m].open /\ win[m].busy /\ ~ win[m].owes
      /\ win[m].posted = "none"
  BY Own DEF Launch, At, Sound
<1>2. ~ Working(m) /\ win[m].pc # "script" BY <1>1 DEF Working, WorkPCs
<1>3. UNCHANGED <<task, server, choice, excused, hidden>> BY DEF Launch
<1>4. CASE /\ \E s \in Scripts :
             /\ script[s].pc = "none"
             /\ script' = [script EXCEPT ![s] =
                  [NoScript EXCEPT !.pc = "wait", !.for = m, !.helper = TRUE]]
           /\ Set(m, [win[m] EXCEPT !.pc = "none", !.posted = "launched", !.ok = TRUE])
  <2> DEFINE w == [win[m] EXCEPT !.pc = "none", !.posted = "launched", !.ok = TRUE]
             q == [NoScript EXCEPT !.pc = "wait", !.for = m, !.helper = TRUE]
  <2>1. PICK s \in Scripts : script[s].pc = "none" /\ SGo(s, q) BY <1>4 DEF SGo
  <2>2. /\ w \in WinType /\ w.pc = "none" /\ w.open /\ w.busy /\ ~ w.owes
    BY <1>1, Own DEF WinType
  <2>3. q \in ScriptType /\ q.pc = "wait" /\ q.helper BY DEF NoScript, ScriptType
  <2>4. Set(m, w) BY <1>4
  <2> HIDE DEF w, q
  <2>5. Sound(w) BY <2>2 DEF Sound
  <2>6. /\ script' \in [Scripts -> ScriptType] /\ script'[s] = q
        /\ \A o \in Scripts \ {s} : script'[o] = script[o]
    BY <2>1, <2>3, SetScript DEF IInv
  <2>7. /\ win' \in [Managers -> WinType] /\ win'[m] = w
        /\ \A o \in Managers \ {m} : win'[o] = win[o]
    BY <2>2, <2>4, SetWin DEF IInv
  <2>8. TypeOK' BY <1>3, <2>6, <2>7 DEF IInv, TypeOK
  <2>9. \A o \in Managers, t \in Scripts :
          Waits(script'[t], o) => Waits(script[t], o) /\ o # m
    BY <1>2, <2>3, <2>6 DEF Waits, IInv, Shape
  <2>10. Shape'
    <3>1. \A o \in Managers : Sound(win'[o]) BY <2>5, <2>7 DEF IInv, Shape
    <3>2. \A o \in Managers, t \in Scripts : Waits(script'[t], o) => win'[o].pc = "script"
      BY <2>7, <2>9 DEF IInv, Shape
    <3>3. \A o \in Managers, t, u \in Scripts :
            Waits(script'[t], o) /\ Waits(script'[u], o) => t = u
      BY <2>9 DEF IInv, Shape
    <3> QED BY <3>1, <3>2, <3>3 DEF Shape, Sound, Waits
  <2>11. ~ Working(m)' BY <2>2, <2>7 DEF Working, WorkPCs
  <2>12. ~ Active(s) /\ ~ Active(s)' BY <2>1, <2>3, <2>6 DEF Active
  <2> QED BY <1>2, <1>3, <2>6, <2>7, <2>8, <2>10, <2>11, <2>12, Passes
<1>5. CASE /\ Set(m, [win[m] EXCEPT !.pc = "none", !.posted = "launched", !.ok = FALSE])
           /\ UNCHANGED script
  <2> DEFINE w == [win[m] EXCEPT !.pc = "none", !.posted = "launched", !.ok = FALSE]
  <2>1. w \in WinType /\ w.pc = "none" /\ w.open /\ w.busy /\ ~ w.owes
    BY <1>1, Own DEF WinType
  <2>2. Sound(w) /\ w.pc \notin WorkPCs BY <2>1 DEF Sound, WorkPCs
  <2>3. Set(m, w) BY <1>5
  <2> HIDE DEF w
  <2> QED BY <1>2, <1>3, <1>5, <2>1, <2>2, <2>3, Idles
<1> QED BY <1>4, <1>5 DEF Launch

\* A manager that is closed and owes nothing leaves the task as it was chosen.
LEMMA CloseKeeps == ASSUME IInv, NEW m \in Managers, Close(m) PROVE IInv'
<1>1. Set(m, Closed) /\ script' = Released(m) /\ UNCHANGED <<task, server, choice, hidden>>
  BY DEF Close
<1>2. excused' = (excused \/ win[m].owes) BY DEF Close
<1>3. /\ win' \in [Managers -> WinType] /\ win'[m] = Closed
      /\ \A o \in Managers \ {m} : win'[o] = win[o]
  BY <1>1, Constants, SetWin DEF IInv
<1>4. ASSUME NEW s \in Scripts
      PROVE  /\ script'[s] \in ScriptType /\ script'[s].pc = script[s].pc
             /\ script'[s].was = script[s].was /\ script'[s].owes = script[s].owes
             /\ \A o \in Managers : Waits(script'[s], o) => Waits(script[s], o) /\ o # m
  <2>1. script[s] \in ScriptType BY DEF IInv, TypeOK
  <2>2. script'[s] = IF script[s].for = m THEN [script[s] EXCEPT !.for = NoManager]
                     ELSE script[s]
    BY <1>1 DEF Released
  <2> QED BY <2>1, <2>2, ManagerAssumption DEF ScriptType, Waits
<1>5. script' \in [Scripts -> ScriptType] BY <1>1, <1>4 DEF Released
<1>6. TypeOK'
  <2>1. excused' \in BOOLEAN BY <1>2, Own DEF WinType
  <2> QED BY <1>1, <1>3, <1>5, <2>1 DEF IInv, TypeOK
<1>7. Shape'
  <2>1. \A o \in Managers : Sound(win'[o]) BY <1>3, Constants DEF IInv, Shape
  <2>2. \A o \in Managers, t \in Scripts : Waits(script'[t], o) => win'[o].pc = "script"
    BY <1>3, <1>4 DEF IInv, Shape
  <2>3. \A o \in Managers, t, u \in Scripts :
          Waits(script'[t], o) /\ Waits(script'[u], o) => t = u
    BY <1>4 DEF IInv, Shape
  <2> QED BY <2>1, <2>2, <2>3 DEF Shape, Sound, Waits
<1>8. ASSUME ~ excused' PROVE Duties'
  <2>1. Duties /\ ~ win[m].owes BY <1>2, <1>8 DEF IInv
  <2>2. ~ Working(m)' BY <1>3, Constants DEF Working, WorkPCs
  <2>3. \A o \in Managers \ {m} : Working(o)' <=> Working(o) BY <1>3 DEF Working
  <2>4. \A s \in Scripts : Active(s)' <=> Active(s) BY <1>4 DEF Active
  <2>5. Alone' BY <2>1, <2>2, <2>3, <2>4 DEF Duties, Alone
  <2>6. (Quiet => Asked(task))'
    <3>1. Working(m) => Asked(task) BY <2>1 DEF Duties, Working, WorkPCs, WinOk
    <3> QED BY <1>1, <2>1, <2>3, <2>4, <3>1 DEF Duties, Quiet
  <2>7. ASSUME NEW o \in Managers PROVE WinOk(win[o])'
    <3>1. CASE o = m BY <2>2, <3>1 DEF Working, WorkPCs, WinOk
    <3>2. CASE o # m BY <1>1, <1>3, <2>1, <3>2 DEF Duties, WinOk
    <3> QED BY <3>1, <3>2
  <2>8. ASSUME NEW s \in Scripts PROVE ScriptOk(script[s])'
    BY <1>1, <1>4, <2>1 DEF Duties, ScriptOk
  <2> QED BY <2>5, <2>6, <2>7, <2>8 DEF Duties
<1> QED BY <1>6, <1>7, <1>8 DEF IInv

LEMMA FinishLaunchKeeps == ASSUME IInv, NEW m \in Managers, FinishLaunch(m) PROVE IInv'
<1>1. ~ Working(m) /\ win[m].pc # "script" BY Posted DEF FinishLaunch
<1>2. CASE Close(m) BY <1>2, CloseKeeps
<1>3. CASE /\ Set(m, [Closed EXCEPT !.open = TRUE])
           /\ UNCHANGED <<task, server, script, choice, excused, hidden>>
  BY <1>1, <1>3, Rests
<1> QED BY <1>2, <1>3 DEF FinishLaunch

LEMMA BeginInstallKeeps == ASSUME IInv, NEW m \in Managers, BeginInstall(m) PROVE IInv'
<1>1. win[m].pc = "none" /\ ~ win[m].owes /\ win[m].open /\ win[m].posted = "none"
  BY Own DEF BeginInstall, Sound
<1>2. ~ Working(m) /\ win[m].pc # "script" BY <1>1 DEF Working, WorkPCs
<1>3. UNCHANGED <<task, server, choice, hidden>> BY DEF BeginInstall
<1>4. CASE /\ \E s \in Scripts :
             /\ script[s].pc = "none"
             /\ script' = [script EXCEPT ![s] = [NoScript EXCEPT !.pc = "read", !.for = m]]
           /\ Set(m, [win[m] EXCEPT !.busy = TRUE, !.act = "install", !.pc = "script"])
           /\ excused' = (excused \/ Others(m))
  <2> DEFINE w == [win[m] EXCEPT !.busy = TRUE, !.act = "install", !.pc = "script"]
             q == [NoScript EXCEPT !.pc = "read", !.for = m]
  <2>1. PICK s \in Scripts : script[s].pc = "none" /\ SGo(s, q) BY <1>4 DEF SGo
  <2>2. /\ w \in WinType /\ w.pc = "script" /\ w.open /\ w.busy /\ ~ w.owes
        /\ w.posted = "none"
    BY <1>1, Own DEF WinType
  <2>3. q \in ScriptType /\ q.pc = "read" /\ q.for = m BY DEF NoScript, ScriptType
  <2>4. Set(m, w) BY <1>4
  <2> HIDE DEF w, q
  <2>5. Sound(w) BY <2>2 DEF Sound
  <2>6. /\ script' \in [Scripts -> ScriptType] /\ script'[s] = q
        /\ \A o \in Scripts \ {s} : script'[o] = script[o]
    BY <2>1, <2>3, SetScript DEF IInv
  <2>7. /\ win' \in [Managers -> WinType] /\ win'[m] = w
        /\ \A o \in Managers \ {m} : win'[o] = win[o]
    BY <2>2, <2>4, SetWin DEF IInv
  <2>8. excused' \in BOOLEAN BY <1>4, Own DEF Others, Working, Active
  <2>9. TypeOK' BY <1>3, <2>6, <2>7, <2>8 DEF IInv, TypeOK
  <2>10. \A t \in Scripts : ~ Waits(script[t], m) BY <1>2 DEF IInv, Shape
  <2>11. \A o \in Managers, t \in Scripts : Waits(script'[t], o) =>
           IF t = s THEN o = m ELSE Waits(script[t], o) /\ o # m
    BY <2>3, <2>6, <2>10 DEF Waits
  <2>12. Shape'
    <3>1. \A o \in Managers : Sound(win'[o]) BY <2>5, <2>7 DEF IInv, Shape
    <3>2. \A o \in Managers, t \in Scripts : Waits(script'[t], o) => win'[o].pc = "script"
      BY <2>2, <2>7, <2>11 DEF IInv, Shape
    <3>3. \A o \in Managers, t, u \in Scripts :
            Waits(script'[t], o) /\ Waits(script'[u], o) => t = u
      BY <2>11 DEF IInv, Shape
    <3> QED BY <3>1, <3>2, <3>3 DEF Shape, Sound, Waits
  <2>13. ASSUME ~ excused' PROVE Duties'
    <3>1. Duties /\ ~ Others(m) BY <1>4, <2>13 DEF IInv
    <3>2. Asked(task) BY <1>2, <3>1 DEF Duties, Quiet, Others
    <3>3. \A o \in Managers : ~ Working(o)'
      BY <2>2, <2>7, <3>1 DEF Others, Working, WorkPCs
    <3>4. \A t \in Scripts \ {s} : ~ Active(t)' BY <2>6, <3>1 DEF Others, Active
    <3>5. Alone' BY <3>3, <3>4 DEF Alone
    <3>6. \A o \in Managers : WinOk(win[o])' BY <3>3 DEF Working, WorkPCs, WinOk
    <3>7. ScriptOk(script[s])' BY <1>3, <2>3, <2>6, <3>2 DEF ScriptOk
    <3>8. \A t \in Scripts : ScriptOk(script[t])' BY <3>4, <3>7 DEF Active, ScriptOk
    <3> QED BY <1>3, <3>2, <3>5, <3>6, <3>8 DEF Duties
  <2> QED BY <2>9, <2>12, <2>13 DEF IInv
<1>5. CASE /\ Set(m, [win[m] EXCEPT !.busy = TRUE, !.act = "install", !.pc = "report"])
           /\ UNCHANGED <<script, excused>>
  <2> DEFINE w == [win[m] EXCEPT !.busy = TRUE, !.act = "install", !.pc = "report"]
  <2>1. /\ w \in WinType /\ w.pc = "report" /\ w.open /\ w.busy /\ ~ w.owes
        /\ w.posted = "none"
    BY <1>1, Own DEF WinType
  <2>2. Sound(w) /\ w.pc \notin WorkPCs BY <2>1 DEF Sound, WorkPCs
  <2>3. Set(m, w) BY <1>5
  <2> HIDE DEF w
  <2> QED BY <1>2, <1>3, <1>5, <2>1, <2>2, <2>3, Idles
<1> QED BY <1>4, <1>5 DEF BeginInstall

-----------------------------------------------------------------------------
(* The script's actions *)

\* What a script at work may rely on.
LEMMA OwnScript ==
  ASSUME IInv, NEW s \in Scripts
  PROVE  /\ script[s] \in ScriptType /\ task \in Settings /\ choice \in Settings
         /\ server \in Servers /\ excused \in BOOLEAN /\ hidden \in BOOLEAN
         /\ Active(s) /\ ~ excused => ~ Rivals(s) /\ ScriptOk(script[s])
BY DEF IInv, TypeOK, Settings, Servers, Duties, Alone, Rivals

\* A script at work on its own.
LEMMA ScriptStep ==
  ASSUME IInv, NEW s \in Scripts, NEW q \in ScriptType, SGo(s, q), UNCHANGED win,
         q.for = script[s].for, q.helper = script[s].helper, q.pc \notin {"none", "wait"},
         task' \in Settings, server' \in Servers, choice' \in Settings, excused' \in BOOLEAN,
         hidden' \in BOOLEAN,
         ~ excused' => ~ Rivals(s) /\ ScriptOk(script[s])'
  PROVE  IInv'
<1>1. /\ script' \in [Scripts -> ScriptType] /\ script'[s] = q
      /\ \A o \in Scripts \ {s} : script'[o] = script[o]
  BY SetScript DEF IInv
<1>2. TypeOK' BY <1>1 DEF IInv, TypeOK, Settings, Servers
<1>3. Shape'
  <2>1. \A m \in Managers, o \in Scripts : Waits(script'[o], m) => Waits(script[o], m)
    BY <1>1 DEF Waits
  <2>2. \A m \in Managers : Sound(win'[m]) BY DEF IInv, Shape
  <2>3. \A m \in Managers, o \in Scripts : Waits(script'[o], m) => win'[m].pc = "script"
    BY <2>1 DEF IInv, Shape
  <2>4. \A m \in Managers, o, t \in Scripts :
          Waits(script'[o], m) /\ Waits(script'[t], m) => o = t
    BY <2>1 DEF IInv, Shape
  <2> QED BY <2>2, <2>3, <2>4 DEF Shape, Sound, Waits
<1>4. ASSUME ~ excused' PROVE Duties'
  <2>1. \A m \in Managers : ~ Working(m)' BY <1>4 DEF Rivals, Working
  <2>2. \A o \in Scripts \ {s} : ~ Active(o)' BY <1>1, <1>4 DEF Rivals, Active
  <2>3. Alone' BY <2>1, <2>2 DEF Alone
  <2>4. Active(s)' BY <1>1 DEF Active
  <2>5. ~ Quiet' BY <2>4 DEF Quiet
  <2>6. \A m \in Managers : WinOk(win[m])' BY <2>1 DEF Working, WorkPCs, WinOk
  <2>7. \A o \in Scripts : ScriptOk(script[o])' BY <1>4, <2>2 DEF Active, ScriptOk
  <2> QED BY <2>3, <2>5, <2>6, <2>7 DEF Duties
<1> QED BY <1>2, <1>3, <1>4 DEF IInv

\* A script that goes on without touching the task.
LEMMA ScriptGoesOn ==
  ASSUME IInv, NEW s \in Scripts, Active(s),
         NEW pc \in {"kill", "check", "unregister", "disable", "verify"}, SNext(s, pc),
         UNCHANGED <<task, win, choice, excused, hidden>>, server' \in Servers,
         ~ excused => ScriptOk([script[s] EXCEPT !.pc = pc])
  PROVE  IInv'
<1> DEFINE q == [script[s] EXCEPT !.pc = pc]
<1>1. /\ q \in ScriptType /\ q.pc = pc /\ q.for = script[s].for /\ q.helper = script[s].helper
  BY OwnScript DEF ScriptType
<1>2. SGo(s, q) BY DEF SNext
<1>3. script'[s] = q BY <1>1, <1>2, SetScript DEF IInv
<1>4. ~ excused' => ~ Rivals(s) /\ ScriptOk(script[s])'
  <2> HIDE DEF q
  <2>1. ~ excused => ScriptOk(q) BY DEF q
  <2> QED BY <1>3, <2>1, OwnScript DEF ScriptOk
<1>5. task' \in Settings /\ choice' \in Settings /\ excused' \in BOOLEAN /\ hidden' \in BOOLEAN
  BY OwnScript
<1>6. q.pc \notin {"none", "wait"} BY <1>1
<1>7. UNCHANGED win /\ server' \in Servers OBVIOUS
<1> HIDE DEF q
<1> QED BY <1>1, <1>2, <1>4, <1>5, <1>6, <1>7, ScriptStep

\* The script's process ends.
LEMMA Ends ==
  ASSUME IInv, NEW s \in Scripts, Active(s), NEW ok \in BOOLEAN, SEnd(s, ok),
         UNCHANGED <<task, server, choice, hidden>>, ok /\ ~ excused => Asked(task)
  PROVE  IInv'
<1>1. /\ script' \in [Scripts -> ScriptType] /\ script'[s] = NoScript
      /\ \A o \in Scripts \ {s} : script'[o] = script[o]
  BY Constants, SetScript DEF SEnd, IInv
<1>2. \A m \in Managers, o \in Scripts :
        Waits(script'[o], m) => Waits(script[o], m) /\ o # s /\ ~ Waits(script[s], m)
  <2>1. \A m \in Managers : ~ Waits(NoScript, m) BY Constants, ManagerAssumption DEF Waits
  <2> QED BY <1>1, <2>1 DEF IInv, Shape
<1>3. /\ win' \in [Managers -> WinType]
      /\ \A m \in Managers :
           \/ win'[m] = win[m]
           \/ /\ win[m].pc \in {"none", "script"} /\ win'[m].pc = "report" /\ Sound(win'[m])
              /\ win[m].pc = "script" => Waits(script[s], m)
  <2>1. CASE ~ script[s].helper
    <3>1. win' = [m \in Managers |->
            IF m = script[s].for THEN [win[m] EXCEPT !.pc = "report"] ELSE win[m]]
      BY <2>1 DEF SEnd
    <3>2. ASSUME NEW m \in Managers, m = script[s].for
          PROVE  /\ win'[m] \in WinType /\ win'[m].pc = "report" /\ Sound(win'[m])
                 /\ win[m].pc = "script" /\ Waits(script[s], m)
      <4>1. Waits(script[s], m) /\ win[m].pc = "script"
        BY <2>1, <3>2 DEF Waits, IInv, Shape
      <4>2. win'[m] = [win[m] EXCEPT !.pc = "report"] BY <3>1, <3>2
      <4>3. "report" \in WinPCs BY DEF WinPCs
      <4>4. win'[m] \in WinType /\ win'[m].pc = "report" /\ win'[m].open = win[m].open
            /\ win'[m].busy = win[m].busy /\ win'[m].owes = win[m].owes
            /\ win'[m].posted = win[m].posted
        BY <4>2, <4>3, Own, Onward
      <4> QED BY <4>1, <4>4, Own DEF Sound
    <3>3. \A m \in Managers : m # script[s].for => win'[m] = win[m] BY <3>1
    <3>4. \A m \in Managers : win'[m] \in WinType BY <3>2, <3>3, Own
    <3>5. win' \in [Managers -> WinType] BY <3>1, <3>4
    <3> QED BY <3>2, <3>3, <3>5
  <2>2. CASE script[s].helper
    <3>1. CASE UNCHANGED win BY <3>1 DEF IInv, TypeOK
    <3>2. CASE \E m \in Managers : ~ win[m].open /\ Set(m, Opened)
      <4>1. PICK m \in Managers : ~ win[m].open /\ Set(m, Opened) BY <3>2
      <4>2. win[m].pc = "none" BY <4>1, Own DEF Sound
      <4>3. /\ win' \in [Managers -> WinType] /\ win'[m] = Opened
            /\ \A o \in Managers \ {m} : win'[o] = win[o]
        BY <4>1, Constants, SetWin DEF IInv
      <4> QED BY <4>2, <4>3, Constants
    <3> QED BY <2>2, <3>1, <3>2 DEF SEnd
  <2> QED BY <2>1, <2>2
<1>4. excused' = (excused \/ (~ ok /\ task # choice)) BY DEF SEnd
<1>5. TypeOK'
  <2>1. excused' \in BOOLEAN BY <1>4, OwnScript
  <2> QED BY <1>1, <1>3, <2>1 DEF IInv, TypeOK
<1>6. Shape'
  <2>1. \A m \in Managers : Sound(win'[m]) BY <1>3 DEF IInv, Shape
  <2>2. \A m \in Managers, o \in Scripts : Waits(script'[o], m) => win'[m].pc = "script"
    BY <1>2, <1>3 DEF IInv, Shape
  <2>3. \A m \in Managers, o, t \in Scripts :
          Waits(script'[o], m) /\ Waits(script'[t], m) => o = t
    BY <1>2 DEF IInv, Shape
  <2> QED BY <2>1, <2>2, <2>3 DEF Shape, Sound, Waits
<1>7. ASSUME ~ excused' PROVE Duties'
  <2>1. ~ excused /\ Asked(task) BY <1>4, <1>7
  <2>2. ~ Rivals(s) BY <2>1, OwnScript
  <2>3. \A m \in Managers : ~ Working(m)'
    BY <1>3, <2>2 DEF Rivals, Working, WorkPCs
  <2>4. \A o \in Scripts : ~ Active(o)' BY <1>1, <2>2, Constants DEF Rivals, Active
  <2>5. Alone' BY <2>3, <2>4 DEF Alone
  <2>6. \A m \in Managers : WinOk(win[m])' BY <2>3 DEF Working, WorkPCs, WinOk
  <2>7. \A o \in Scripts : ScriptOk(script[o])' BY <2>4 DEF Active, ScriptOk
  <2> QED BY <2>1, <2>5, <2>6, <2>7 DEF Duties
<1> QED BY <1>5, <1>6, <1>7 DEF IInv

LEMMA ThrowKeeps == ASSUME IInv, NEW s \in Scripts, Throw(s) PROVE IInv'
<1>1. Active(s) /\ SEnd(s, FALSE) /\ UNCHANGED <<task, server, choice, hidden>> BY DEF Throw
<1> QED BY <1>1, Ends

LEMMA VerifyKeeps == ASSUME IInv, NEW s \in Scripts, Verify(s) PROVE IInv'
<1>1. script[s].pc = "verify" /\ SEnd(s, TRUE) /\ UNCHANGED <<task, server, choice, hidden>>
  BY DEF Verify
<1>2. Active(s) BY <1>1 DEF Active
<1>3. ~ excused => Asked(task) BY <1>1, <1>2, OwnScript DEF ScriptOk
<1> QED BY <1>1, <1>2, <1>3, Ends

LEMMA HelperStartsKeeps == ASSUME IInv, NEW s \in Scripts, HelperStarts(s) PROVE IInv'
<1>1. script[s].pc = "wait" /\ script[s].for = NoManager /\ ~ Active(s)
  BY DEF HelperStarts, Active
<1>2. UNCHANGED <<task, server, win, choice, hidden>> BY DEF HelperStarts
<1>3. CASE SNext(s, "read") /\ excused' = (excused \/ Rivals(s))
  <2> DEFINE q == [script[s] EXCEPT !.pc = "read"]
  <2>1. /\ q \in ScriptType /\ q.pc = "read"
        /\ q.for = script[s].for /\ q.helper = script[s].helper
    BY OwnScript, ScriptOnward
  <2>2. SGo(s, q) BY <1>3 DEF SNext
  <2>3. script'[s] = q BY <2>1, <2>2, SetScript DEF IInv
  <2>4. ~ excused' => ~ excused /\ ~ Rivals(s) BY <1>3
  <2>5. ~ excused' => Asked(task) BY <1>1, <2>4 DEF IInv, Duties, Quiet, Rivals
  <2>6. ~ excused' => ScriptOk(script[s])'
    <3> HIDE DEF q
    <3> QED BY <1>2, <2>1, <2>3, <2>5 DEF ScriptOk
  <2>7. /\ task' \in Settings /\ server' \in Servers /\ choice' \in Settings
        /\ excused' \in BOOLEAN /\ hidden' \in BOOLEAN
    BY <1>2, <1>3, OwnScript DEF Rivals, Working, Active
  <2>8. q.pc \notin {"none", "wait"} BY <2>1
  <2> HIDE DEF q
  <2> QED BY <1>2, <2>1, <2>2, <2>4, <2>6, <2>7, <2>8, ScriptStep
<1>4. CASE SGo(s, NoScript) /\ UNCHANGED excused
  <2>1. /\ script' \in [Scripts -> ScriptType] /\ script'[s] = NoScript
        /\ \A o \in Scripts \ {s} : script'[o] = script[o]
    BY <1>4, Constants, SetScript DEF IInv
  <2>2. TypeOK' BY <1>2, <1>4, <2>1 DEF IInv, TypeOK
  <2>3. \A m \in Managers : ~ Waits(NoScript, m) BY Constants, ManagerAssumption DEF Waits
  <2>4. \A m \in Managers, o \in Scripts : Waits(script'[o], m) => Waits(script[o], m)
    BY <2>1, <2>3
  <2>5. Shape'
    <3>1. \A m \in Managers : Sound(win'[m]) BY <1>2 DEF IInv, Shape
    <3>2. \A m \in Managers, o \in Scripts : Waits(script'[o], m) => win'[m].pc = "script"
      BY <1>2, <2>4 DEF IInv, Shape
    <3>3. \A m \in Managers, o, t \in Scripts :
            Waits(script'[o], m) /\ Waits(script'[t], m) => o = t
      BY <2>4 DEF IInv, Shape
    <3> QED BY <3>1, <3>2, <3>3 DEF Shape, Sound, Waits
  <2>6. ~ Active(s)' BY <2>1, Constants DEF Active
  <2> QED BY <1>1, <1>2, <1>4, <2>1, <2>2, <2>5, <2>6, Passes
<1> QED BY <1>3, <1>4 DEF HelperStarts

\* Stopping what runs, and what precedes the replacement of the task.
LEMMA PrepareKeeps ==
  ASSUME IInv, NEW s \in Scripts, EndTask(s) \/ KillServers(s) \/ CheckGone(s)
  PROVE  IInv'
<1>1. script[s].pc \in {"end", "kill", "check"} BY DEF EndTask, KillServers, CheckGone
<1>2. Active(s) BY <1>1 DEF Active
<1>3. UNCHANGED <<task, win, choice, excused, hidden>> /\ server' \in Servers
  BY OwnScript DEF EndTask, KillServers, CheckGone, Servers
<1>4. PICK pc \in {"kill", "check", "unregister"} : SNext(s, pc)
  BY DEF EndTask, KillServers, CheckGone
<1>5. /\ [script[s] EXCEPT !.pc = pc].pc = pc
      /\ [script[s] EXCEPT !.pc = pc].was = script[s].was
  BY OwnScript, ScriptOnward
<1>6. ~ excused => ScriptOk([script[s] EXCEPT !.pc = pc])
  BY <1>1, <1>2, <1>5, OwnScript DEF ScriptOk
<1> QED BY <1>2, <1>3, <1>4, <1>6, ScriptGoesOn

LEMMA ReadTaskKeeps == ASSUME IInv, NEW s \in Scripts, ReadTask(s) PROVE IInv'
<1>1. script[s].pc = "read" BY DEF ReadTask
<1>2. Active(s) BY <1>1 DEF Active
<1>3. PICK was \in Shown \cup {"missing"} :
        /\ SGo(s, [script[s] EXCEPT !.was = was, !.pc = IF was = "missing" THEN "kill" ELSE "end"])
        /\ excused' = (excused \/ (was = "missing" /\ task # "missing"))
        /\ hidden' = (hidden \/ (was = "enabled" /\ task = "disabled"))
  BY DEF ReadTask
<1> DEFINE q == [script[s] EXCEPT !.was = was, !.pc = IF was = "missing" THEN "kill" ELSE "end"]
<1>4. /\ q \in ScriptType /\ q.pc \in {"kill", "end"} /\ q.was = was
      /\ q.for = script[s].for /\ q.helper = script[s].helper
  <2>1. was \in {"missing", "enabled", "disabled"} BY OwnScript DEF Settings, Shown
  <2>2. CASE was = "missing"
    <3>1. q = [script[s] EXCEPT !.was = "missing", !.pc = "kill"] BY <2>2
    <3>2. script[s] \in ScriptType BY OwnScript
    <3> HIDE DEF q
    <3> QED BY ONLY <2>2, <3>1, <3>2 DEF ScriptType
  <2>3. CASE was # "missing"
    <3>1. q = [script[s] EXCEPT !.was = was, !.pc = "end"] BY <2>3
    <3>2. script[s] \in ScriptType BY OwnScript
    <3> HIDE DEF q
    <3> QED BY ONLY <2>1, <3>1, <3>2 DEF ScriptType
  <2> QED BY <2>2, <2>3
<1>5. SGo(s, q) BY <1>3
<1>6. UNCHANGED <<task, server, win, choice>> BY DEF ReadTask
<1> HIDE DEF q
<1>7. script'[s] = q BY <1>4, <1>5, SetScript DEF IInv
<1>8. ~ excused' => ~ excused /\ (was = task \/ hidden') /\ (hidden => hidden')
  BY <1>3, OwnScript DEF Shown
<1>9. ~ excused' => Asked(task)' BY <1>1, <1>2, <1>6, <1>8, OwnScript DEF ScriptOk
<1>10. ~ excused' => ~ Rivals(s) /\ ScriptOk(script[s])'
  BY <1>2, <1>4, <1>6, <1>7, <1>8, <1>9, OwnScript DEF ScriptOk
<1>11. /\ task' \in Settings /\ server' \in Servers /\ choice' \in Settings
       /\ excused' \in BOOLEAN /\ hidden' \in BOOLEAN
  BY <1>3, <1>6, OwnScript
<1>12. q.pc \notin {"none", "wait"} BY <1>4
<1> QED BY <1>4, <1>5, <1>6, <1>10, <1>11, <1>12, ScriptStep

LEMMA UnregisterKeeps == ASSUME IInv, NEW s \in Scripts, Unregister(s) PROVE IInv'
<1> DEFINE q == [script[s] EXCEPT !.pc = "register", !.owes = TRUE]
<1>1. script[s].pc = "unregister" BY DEF Unregister
<1>2. Active(s) BY <1>1 DEF Active
<1>3. /\ q \in ScriptType /\ q.pc = "register" /\ q.was = script[s].was
      /\ q.for = script[s].for /\ q.helper = script[s].helper
  BY OwnScript DEF ScriptType
<1>4. SGo(s, q) /\ task' = "missing" /\ UNCHANGED <<server, win, choice, excused, hidden>>
  BY DEF Unregister
<1> HIDE DEF q
<1>5. script'[s] = q BY <1>3, <1>4, SetScript DEF IInv
<1>6. ~ excused' => ~ Rivals(s) /\ ScriptOk(script[s])'
  BY <1>1, <1>2, <1>3, <1>4, <1>5, OwnScript DEF ScriptOk
<1>7. /\ task' \in Settings /\ server' \in Servers /\ choice' \in Settings
      /\ excused' \in BOOLEAN /\ hidden' \in BOOLEAN
  BY <1>4, OwnScript DEF Settings
<1>8. q.pc \notin {"none", "wait"} BY <1>3
<1> QED BY <1>3, <1>4, <1>6, <1>7, <1>8, ScriptStep

LEMMA RegisterKeeps == ASSUME IInv, NEW s \in Scripts, Register(s) PROVE IInv'
<1> DEFINE q == [script[s] EXCEPT !.pc = "start", !.owes = script[s].was = "disabled"]
<1>1. script[s].pc = "register" BY DEF Register
<1>2. Active(s) BY <1>1 DEF Active
<1>3. /\ q \in ScriptType /\ q.pc = "start" /\ q.was = script[s].was
      /\ q.owes = (script[s].was = "disabled")
      /\ q.for = script[s].for /\ q.helper = script[s].helper
  BY OwnScript DEF ScriptType
<1>4. /\ SGo(s, q) /\ task' = "enabled" /\ UNCHANGED <<server, win, excused, hidden>>
      /\ choice' = IF script[s].was = "missing" THEN "enabled" ELSE choice
  BY DEF Register
<1> HIDE DEF q
<1>5. script'[s] = q BY <1>3, <1>4, SetScript DEF IInv
<1>6. ~ excused' => ~ Rivals(s) /\ Asked(script[s].was)
  BY <1>1, <1>2, <1>4, OwnScript DEF ScriptOk
<1>7. ~ excused' => ScriptOk(script[s])' BY <1>3, <1>4, <1>5, <1>6 DEF ScriptOk
<1>8. /\ task' \in Settings /\ server' \in Servers /\ choice' \in Settings
      /\ excused' \in BOOLEAN /\ hidden' \in BOOLEAN
  BY <1>4, OwnScript DEF Settings
<1>9. q.pc \notin {"none", "wait"} BY <1>3
<1> QED BY <1>3, <1>4, <1>6, <1>7, <1>8, <1>9, ScriptStep

LEMMA StartTaskKeeps == ASSUME IInv, NEW s \in Scripts, StartTask(s) PROVE IInv'
<1>1. script[s].pc = "start" BY DEF StartTask
<1>2. Active(s) BY <1>1 DEF Active
<1>3. UNCHANGED <<task, win, choice, excused, hidden>> /\ server' \in Servers
  BY OwnScript DEF StartTask, Servers
<1>4. PICK pc \in {"disable", "verify"} : SNext(s, pc) /\ (pc = "disable" <=> script[s].owes)
  BY DEF StartTask
<1>5. [script[s] EXCEPT !.pc = pc].pc = pc BY OwnScript, ScriptOnward
<1>6. ~ excused => ScriptOk([script[s] EXCEPT !.pc = pc])
  BY <1>1, <1>2, <1>4, <1>5, OwnScript DEF ScriptOk, ScriptType
<1> QED BY <1>2, <1>3, <1>4, <1>6, ScriptGoesOn

LEMMA DisableTaskKeeps == ASSUME IInv, NEW s \in Scripts, DisableTask(s) PROVE IInv'
<1> DEFINE q == [script[s] EXCEPT !.pc = "verify", !.owes = FALSE]
<1>1. script[s].pc = "disable" BY DEF DisableTask
<1>2. Active(s) BY <1>1 DEF Active
<1>3. /\ q \in ScriptType /\ q.pc = "verify"
      /\ q.for = script[s].for /\ q.helper = script[s].helper
  BY OwnScript DEF ScriptType
<1>4. SGo(s, q) /\ task' = "disabled" /\ UNCHANGED <<server, win, choice, excused, hidden>>
  BY DEF DisableTask
<1> HIDE DEF q
<1>5. script'[s] = q BY <1>3, <1>4, SetScript DEF IInv
<1>6. ~ excused' => ~ Rivals(s) /\ ScriptOk(script[s])'
  BY <1>1, <1>2, <1>3, <1>4, <1>5, OwnScript DEF ScriptOk
<1>7. /\ task' \in Settings /\ server' \in Servers /\ choice' \in Settings
      /\ excused' \in BOOLEAN /\ hidden' \in BOOLEAN
  BY <1>4, OwnScript DEF Settings
<1>8. q.pc \notin {"none", "wait"} BY <1>3
<1> QED BY <1>3, <1>4, <1>6, <1>7, <1>8, ScriptStep

-----------------------------------------------------------------------------
(* Outside the manager *)

LEMMA OutsideKeeps ==
  ASSUME IInv, TaskStarts \/ StartedByHand \/ ServerEnds
  PROVE  IInv'
<1>1. UNCHANGED <<task, win, script, choice, excused, hidden>> /\ server' \in Servers
  BY DEF TaskStarts, StartedByHand, ServerEnds, Servers
<1>2. TypeOK' BY <1>1 DEF IInv, TypeOK, Servers
<1>3. Shape' BY <1>1 DEF IInv, Shape, Sound, Waits
<1>4. ASSUME ~ excused' PROVE Duties'
  <2>1. Duties BY <1>1, <1>4 DEF IInv
  <2>2. Alone' BY <1>1, <2>1 DEF Duties, Alone, Working, Active
  <2>3. (Quiet => Asked(task))' BY <1>1, <2>1 DEF Duties, Quiet, Working, Active
  <2>4. ASSUME NEW m \in Managers PROVE WinOk(win[m])'
    <3>1. server' = "task" => task = "enabled" BY DEF TaskStarts, StartedByHand, ServerEnds
    <3> QED BY <1>1, <2>1, <3>1 DEF Duties, WinOk
  <2>5. \A s \in Scripts : ScriptOk(script[s])' BY <1>1, <2>1 DEF Duties, ScriptOk
  <2> QED BY <2>2, <2>3, <2>4, <2>5 DEF Duties
<1> QED BY <1>2, <1>3, <1>4 DEF IInv

-----------------------------------------------------------------------------
(* The theorems *)

LEMMA Initially == Init => IInv
<1> SUFFICES ASSUME Init PROVE IInv OBVIOUS
<1>1. TypeOK BY Constants DEF Init, TypeOK
<1>2. \A m \in Managers : ~ Working(m) BY Constants DEF Init, Working, WorkPCs
<1>3. \A s \in Scripts : ~ Active(s) BY Constants DEF Init, Active
<1>4. \A m \in Managers, s \in Scripts : ~ Waits(script[s], m)
  BY Constants, ManagerAssumption DEF Init, Waits
<1>5. Shape BY <1>4, Constants DEF Init, Shape
<1>6. Alone BY <1>2, <1>3 DEF Alone
<1>7. \A m \in Managers : WinOk(win[m]) BY <1>2 DEF Working, WorkPCs, WinOk
<1>8. \A s \in Scripts : ScriptOk(script[s]) BY <1>3 DEF Active, ScriptOk
<1>9. Duties BY <1>6, <1>7, <1>8 DEF Init, Duties
<1> QED BY <1>1, <1>5, <1>9 DEF IInv

LEMMA Keeps == IInv /\ [Next]_vars => IInv'
<1> SUFFICES ASSUME IInv, [Next]_vars PROVE IInv' OBVIOUS
<1>1. ASSUME NEW m \in Managers, Action(m) PROVE IInv'
  BY <1>1, LookKeeps, StopLookKeeps, StopDisableKeeps, EndKeeps, WaitKeeps, RestoreKeeps,
     StartEnableKeeps, RunKeeps, StartDisableKeeps, QueryKeeps, ChangeStartupKeeps,
     ReportKeeps, LaunchKeeps
  DEF Action
<1>2. ASSUME NEW m \in Managers, Dispatch(m) PROVE IInv'
  BY <1>2, FinishKeeps, FinishLaunchKeeps DEF Dispatch
<1>3. ASSUME NEW s \in Scripts, Installing(s) PROVE IInv'
  BY <1>3, HelperStartsKeeps, ReadTaskKeeps, PrepareKeeps, UnregisterKeeps, RegisterKeeps,
     StartTaskKeeps, DisableTaskKeeps, VerifyKeeps
  DEF Installing
<1>4. CASE UNCHANGED vars
  <2>1. UNCHANGED <<task, server, win, script, choice, excused, hidden>> BY <1>4 DEF vars
  <2>2. TypeOK' BY <2>1 DEF IInv, TypeOK
  <2>3. Shape' BY <2>1 DEF IInv, Shape, Sound, Waits
  <2> QED BY <2>1, <2>2, <2>3, Passes
<1>5. CASE Next
  BY <1>1, <1>2, <1>3, <1>5, OpenKeeps, CloseKeeps, BeginUpgradeKeeps, ChooseKeeps,
     BeginInstallKeeps, ClickKeeps, ThrowKeeps, OutsideKeeps
  DEF Next
<1> QED BY <1>4, <1>5

LEMMA Holds == Spec => []IInv
<1> QED BY Initially, Keeps, PTL DEF Spec

\* Every variable keeps its type.
THEOREM Typed == Spec => []TypeOK
<1>1. IInv => TypeOK BY DEF IInv
<1> QED BY <1>1, Holds, PTL

\* Whatever is started, stopped, restarted, installed or upgraded, from however
\* many windows: with nobody at work the startup setting is the user's, unless
\* a command failed, a manager was closed while it owed a change, two of
\* them were at work at once, or a live server hid from one of them that the
\* task was disabled.
THEOREM StartupStays == Spec => []StartupKept
<1>1. IInv => StartupKept BY DEF IInv, Duties, Quiet, StartupKept
<1> QED BY <1>1, Holds, PTL

\* What stopFaceSign has seen gone is not brought back by the scheduler before
\* it restores the startup setting, whatever state of the task was read.
THEOREM StopStays == Spec => []StopHolds
<1>1. IInv => StopHolds BY DEF IInv, Duties, WinOk, StopHolds
<1> QED BY <1>1, Holds, PTL
=============================================================================
