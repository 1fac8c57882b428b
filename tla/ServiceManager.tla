--------------------------- MODULE ServiceManager ---------------------------
(***************************************************************************)
(* FaceSignManager.exe (cmd/facesign-manager/main_windows.go): its windows *)
(* with their background actions, the installation and upgrade scripts     *)
(* they start, the scheduled task and the FaceSign process.                *)
(*                                                                         *)
(* A manager is one process with one window: when it closes, its           *)
(* background action ends wherever it is. A script is a process of its own *)
(* and goes on. Every command (schtasks, tasklist, taskkill, PowerShell)   *)
(* is one step; it may fail or be cut off after execHidden's eight seconds *)
(* with its work done or not.                                              *)
(***************************************************************************)
EXTENDS Naturals

CONSTANTS Managers, Scripts, NoManager

ASSUME ManagerAssumption == NoManager \notin Managers

VARIABLES
  task,     \* the scheduled task: missing, enabled or disabled
  server,   \* FaceSign.exe: none, started by the task, or by hand
  win,      \* [Managers -> the window, its background action, its posted message]
  script,   \* [Scripts -> install.ps1 in progress]
  choice,   \* history: the startup setting the user asked for
  excused,  \* history: what that setting was may be lost (see StartupKept)
  hidden    \* history: a live server hid from a command that the task is disabled

vars == <<task, server, win, script, choice, excused, hidden>>

-----------------------------------------------------------------------------
Closed == [open |-> FALSE, busy |-> FALSE, pc |-> "none", act |-> "none", owes |-> FALSE,
           gone |-> FALSE, ok |-> FALSE, posted |-> "none"]
NoScript == [pc |-> "none", for |-> NoManager, helper |-> FALSE, was |-> "missing", owes |-> FALSE]

\* beginAsyncUIAction marks the window busy and starts the action.
Opened == [Closed EXCEPT !.open = TRUE, !.busy = TRUE, !.pc = "report", !.act = "first"]

Init ==
  /\ task \in {"missing", "enabled", "disabled"}
  /\ server = "none"
  /\ win = [m \in Managers |-> Closed]
  /\ script = [s \in Scripts |-> NoScript]
  /\ choice = task /\ excused = FALSE /\ hidden = FALSE

Set(m, w) == win' = [win EXCEPT ![m] = w]
At(m, pc) == win[m].pc = pc
Go(m, pc) == Set(m, [win[m] EXCEPT !.pc = pc])

\* Who is changing the task or the server.
WorkPCs ==
  {"restart", "start", "startState", "startEnable", "run", "startDisable", "stop", "stopState",
   "stopDisable", "end", "wait", "kill", "last", "restore", "query", "change"}
Working(m) == win[m].pc \in WorkPCs
Active(s)  == script[s].pc \notin {"none", "wait"}
Others(m) == (\E o \in Managers \ {m} : Working(o)) \/ (\E s \in Scripts : Active(s))
Rivals(s) == (\E o \in Managers : Working(o)) \/ (\E o \in Scripts \ {s} : Active(o))

-----------------------------------------------------------------------------
(* The window *)

\* WM_CREATE publishes the window and reads the status.
Open(m) ==
  /\ ~ win[m].open
  /\ Set(m, Opened)
  /\ UNCHANGED <<task, server, script, choice, excused, hidden>>

MutantFirstPC(act) == IF act = "refresh" THEN "report" ELSE act
FirstPC(act) ==
  IF act \in {"enable", "disable"} THEN "query"
  ELSE IF act = "refresh" THEN "report" ELSE act

\* A button (a busy window ignores it). "refresh" stands for every action that
\* only reads or opens something.
Click(m, act) ==
  /\ win[m].open /\ ~ win[m].busy
  /\ Set(m, [win[m] EXCEPT !.busy = TRUE, !.act = act, !.pc = FirstPC(act)])
  /\ excused' = (excused \/ (act # "refresh" /\ Others(m)))
  /\ UNCHANGED <<task, server, script, choice, hidden>>

\* The window the action's end is posted to.
MutantTarget(act) == act # "first"  \* HWND 0 while CreateWindowExW has not returned
Target(act) == TRUE

\* buildStatusText only reads; then the result is posted.
Report(m) ==
  /\ At(m, "report")
  /\ Set(m, [win[m] EXCEPT !.pc = "none", !.posted = IF Target(win[m].act) THEN "done" ELSE "none"])
  /\ UNCHANGED <<task, server, script, choice, excused, hidden>>

FinishAction(m) ==
  /\ win[m].posted = "done"
  /\ Set(m, [Closed EXCEPT !.open = TRUE])
  /\ UNCHANGED <<task, server, script, choice, excused, hidden>>

BeginUpgrade(m) ==
  /\ win[m].open /\ ~ win[m].busy
  /\ Set(m, [win[m] EXCEPT !.busy = TRUE, !.act = "upgrade", !.pc = "choose"])
  /\ UNCHANGED <<task, server, script, choice, excused, hidden>>

\* A valid package, or none, or a wrong one.
Choose(m) ==
  /\ At(m, "choose")
  /\ \E ok \in BOOLEAN :
       Set(m, [win[m] EXCEPT !.pc = "none", !.posted = "selected", !.ok = ok])
  /\ UNCHANGED <<task, server, script, choice, excused, hidden>>

\* finishUpgradeSelection: the question is modal.
FinishSelection(m) ==
  /\ win[m].posted = "selected"
  /\ \/ Set(m, [Closed EXCEPT !.open = TRUE])
     \/ win[m].ok /\ Set(m, [win[m] EXCEPT !.posted = "none", !.pc = "launch"])
  /\ UNCHANGED <<task, server, script, choice, excused, hidden>>

\* launchUpgradeHelper: a process that waits for this one to end.
Launch(m) ==
  /\ At(m, "launch")
  /\ \/ /\ \E s \in Scripts :
             /\ script[s].pc = "none"
             /\ script' = [script EXCEPT ![s] = [NoScript EXCEPT !.pc = "wait", !.for = m, !.helper = TRUE]]
        /\ Set(m, [win[m] EXCEPT !.pc = "none", !.posted = "launched", !.ok = TRUE])
     \/ /\ Set(m, [win[m] EXCEPT !.pc = "none", !.posted = "launched", !.ok = FALSE])
        /\ UNCHANGED script
  /\ UNCHANGED <<task, server, choice, excused, hidden>>

\* The process ends; scripts lose the manager that waited for them, or that
\* they waited for.
Released(m) ==
  [s \in Scripts |-> IF script[s].for = m THEN [script[s] EXCEPT !.for = NoManager] ELSE script[s]]

Close(m) ==
  /\ win[m].open
  /\ Set(m, Closed)
  /\ script' = Released(m)
  /\ excused' = (excused \/ win[m].owes)
  /\ UNCHANGED <<task, server, choice, hidden>>

FinishLaunch(m) ==
  /\ win[m].posted = "launched"
  /\ \/ win[m].ok /\ Close(m)
     \/ /\ ~ win[m].ok
        /\ Set(m, [Closed EXCEPT !.open = TRUE])
        /\ UNCHANGED <<task, server, script, choice, excused, hidden>>

-----------------------------------------------------------------------------
(* Commands *)

\* faceSignPIDs: a tasklist that fails shows nothing.
Seen == IF server = "none" THEN {FALSE} ELSE BOOLEAN

\* The task's State, as Get-ScheduledTask answers: while an instance of a task
\* lives it is Running, whether the task is enabled or not. Like the code,
\* "enabled" is every state but Disabled (and missing): Ready, Queued, Running.
Shown == {task} \cup (IF task = "disabled" /\ server = "task" THEN {"enabled"} ELSE {})

\* schtasks /Change towards t. A failure that leaves the task in another state
\* than the user's excuses what follows.
Change(m, t, done, failed) ==
  \/ /\ task # "missing" /\ task' = t
     /\ Set(m, done)
     /\ UNCHANGED excused
  \/ /\ task' \in IF task = "missing" THEN {task} ELSE {task, t}
     /\ Set(m, failed)
     /\ excused' = (excused \/ task' # choice)

-----------------------------------------------------------------------------
(* stopFaceSign *)

\* What follows a stop: the end of the action or, of a restart, the start.
After(w, ok) == [w EXCEPT !.pc = IF w.act = "restart" /\ ok THEN "start" ELSE "report",
                          !.owes = FALSE, !.gone = FALSE, !.ok = FALSE]

\* Every return runs the deferred ENABLE.
MutantLeave(w, ok) == After(w, ok)
Leave(w, ok) == IF w.owes THEN [w EXCEPT !.pc = "restore", !.ok = ok] ELSE After(w, ok)

Restart(m) ==
  /\ At(m, "restart")
  /\ \E seen \in Seen : Go(m, IF seen THEN "stop" ELSE "start")
  /\ UNCHANGED <<task, server, script, choice, excused, hidden>>

StopLook(m) ==
  /\ At(m, "stop")
  /\ \E seen \in Seen : IF seen THEN Go(m, "stopState") ELSE Set(m, After(win[m], TRUE))
  /\ UNCHANGED <<task, server, script, choice, excused, hidden>>

StopState(m) ==
  /\ At(m, "stopState")
  /\ \/ \E state \in Shown :
          /\ Go(m, IF state = "enabled" THEN "stopDisable"
                   ELSE IF state = "disabled" THEN "end" ELSE "kill")
          /\ hidden' = (hidden \/ state # task)
     \/ Go(m, "kill") /\ UNCHANGED hidden  \* the query failed
  /\ UNCHANGED <<task, server, script, choice, excused>>

MutantPaused == "enabled"
Paused == "disabled"

StopDisable(m) ==
  /\ At(m, "stopDisable")
  /\ Change(m, Paused, [win[m] EXCEPT !.pc = "end", !.owes = TRUE], [win[m] EXCEPT !.pc = "end"])
  /\ UNCHANGED <<server, script, choice, hidden>>

\* schtasks /End ends the process the task started, or not yet.
End(m) ==
  /\ At(m, "end")
  /\ server' \in {server} \cup (IF server = "task" /\ task # "missing" THEN {"none"} ELSE {})
  /\ Go(m, "wait")
  /\ UNCHANGED <<task, script, choice, excused, hidden>>

Gone(m, ok) == Leave([win[m] EXCEPT !.gone = (server = "none")], ok)

\* waitForFaceSignExit
Wait(m) ==
  /\ At(m, "wait")
  /\ \E seen \in Seen : IF seen THEN Go(m, "kill") ELSE Set(m, Gone(m, TRUE))
  /\ UNCHANGED <<task, server, script, choice, excused, hidden>>

Kill(m) ==
  /\ At(m, "kill")
  /\ server' \in {server, "none"}
  /\ Go(m, "last")
  /\ UNCHANGED <<task, script, choice, excused, hidden>>

WaitLast(m) ==
  /\ At(m, "last")
  /\ \E seen \in Seen : Set(m, Gone(m, ~ seen))
  /\ UNCHANGED <<task, server, script, choice, excused, hidden>>

\* The deferred ENABLE; its failure is the action's failure.
Restore(m) ==
  /\ At(m, "restore")
  /\ Change(m, "enabled", After(win[m], win[m].ok), After(win[m], FALSE))
  /\ UNCHANGED <<server, script, choice, hidden>>

-----------------------------------------------------------------------------
(* startFaceSign *)

StartLook(m) ==
  /\ At(m, "start")
  /\ \E seen \in Seen : Go(m, IF seen THEN "report" ELSE "startState")
  /\ UNCHANGED <<task, server, script, choice, excused, hidden>>

StartState(m) ==
  /\ At(m, "startState")
  /\ \/ \E state \in Shown :
          Go(m, IF state = "enabled" THEN "run"
                ELSE IF state = "disabled" THEN "startEnable" ELSE "report")
     \/ Go(m, "report")
  /\ UNCHANGED <<task, server, script, choice, excused, hidden>>

StartEnable(m) ==
  /\ At(m, "startEnable")
  /\ Change(m, "enabled", [win[m] EXCEPT !.pc = "run", !.owes = TRUE], [win[m] EXCEPT !.pc = "report"])
  /\ UNCHANGED <<server, script, choice, hidden>>

\* schtasks /Run, and either way the DISABLE that takes the ENABLE back.
Run(m) ==
  /\ At(m, "run")
  /\ server' \in {server} \cup (IF server = "none" /\ task = "enabled" THEN {"task"} ELSE {})
  /\ Go(m, IF win[m].owes THEN "startDisable" ELSE "report")
  /\ UNCHANGED <<task, script, choice, excused, hidden>>

StartDisable(m) ==
  LET w == [win[m] EXCEPT !.pc = "report", !.owes = FALSE] IN
  /\ At(m, "startDisable")
  /\ Change(m, "disabled", w, w)
  /\ UNCHANGED <<server, script, choice, hidden>>

-----------------------------------------------------------------------------
(* enableStartup and disableStartup *)

Wanted(m) == IF win[m].act = "enable" THEN "enabled" ELSE "disabled"

Query(m) ==
  /\ At(m, "query")
  /\ \E state \in Shown :
       \/ /\ state \notin {"missing", Wanted(m)} /\ Go(m, "change")
          /\ UNCHANGED <<choice, excused, hidden>>
       \/ /\ state = Wanted(m) /\ Go(m, "report")
          /\ choice' = Wanted(m) /\ excused' = Others(m) /\ hidden' = (task # choice')
       \/ Go(m, "report") /\ UNCHANGED <<choice, excused, hidden>>  \* missing, or the query failed
  /\ UNCHANGED <<task, server, script>>

ChangeStartup(m) ==
  /\ At(m, "change")
  /\ Go(m, "report")
  /\ \/ /\ task # "missing" /\ task' = Wanted(m)
        /\ choice' = Wanted(m) /\ excused' = Others(m) /\ hidden' = FALSE
     \/ /\ task' \in IF task = "missing" THEN {task} ELSE {task, Wanted(m)}
        /\ excused' = (excused \/ task' # choice)
        /\ UNCHANGED <<choice, hidden>>
  /\ UNCHANGED <<server, script>>

-----------------------------------------------------------------------------
(* installCurrentDirectory and install.ps1 *)

\* Bound: as many scripts at once as there are slots.
BeginInstall(m) ==
  /\ win[m].open /\ ~ win[m].busy
  /\ \/ /\ \E s \in Scripts :
             /\ script[s].pc = "none"
             /\ script' = [script EXCEPT ![s] = [NoScript EXCEPT !.pc = "read", !.for = m]]
        /\ Set(m, [win[m] EXCEPT !.busy = TRUE, !.act = "install", !.pc = "script"])
        /\ excused' = (excused \/ Others(m))
     \/ /\ Set(m, [win[m] EXCEPT !.busy = TRUE, !.act = "install", !.pc = "report"])
        /\ UNCHANGED <<script, excused>>
  /\ UNCHANGED <<task, server, choice, hidden>>

SGo(s, q) == script' = [script EXCEPT ![s] = q]
SNext(s, pc) == SGo(s, [script[s] EXCEPT !.pc = pc])

\* The script's process ends: the manager that waited for it reports, and a
\* helper that succeeded opens the manager again.
SEnd(s, ok) ==
  /\ SGo(s, NoScript)
  /\ IF ~ script[s].helper
     THEN win' = [m \in Managers |->
            IF m = script[s].for THEN [win[m] EXCEPT !.pc = "report"] ELSE win[m]]
     ELSE \/ ok /\ \E m \in Managers : ~ win[m].open /\ Set(m, Opened)
          \/ UNCHANGED win
  /\ excused' = (excused \/ (~ ok /\ task # choice))

\* A statement throws, somebody closes its console, or the ten minutes of the
\* manager that waits for it are over.
Throw(s) ==
  /\ Active(s)
  /\ SEnd(s, FALSE)
  /\ UNCHANGED <<task, server, choice, hidden>>

\* upgrade.ps1: without a task it ends before it has done anything.
HelperStarts(s) ==
  /\ script[s].pc = "wait" /\ script[s].for = NoManager
  /\ \/ task # "missing" /\ SNext(s, "read") /\ excused' = (excused \/ Rivals(s))
     \/ SGo(s, NoScript) /\ UNCHANGED excused
  /\ UNCHANGED <<task, server, win, choice, hidden>>

\* Get-ScheduledTask: a failure looks like no task. What is remembered is
\* whether the state was Disabled.
ReadTask(s) ==
  /\ script[s].pc = "read"
  /\ \E was \in Shown \cup {"missing"} :
       /\ SGo(s, [script[s] EXCEPT !.was = was, !.pc = IF was = "missing" THEN "kill" ELSE "end"])
       /\ excused' = (excused \/ (was = "missing" /\ task # "missing"))
       /\ hidden' = (hidden \/ (was = "enabled" /\ task = "disabled"))
  /\ UNCHANGED <<task, server, win, choice>>

EndTask(s) ==
  /\ script[s].pc = "end"
  /\ server' \in {server} \cup (IF server = "task" THEN {"none"} ELSE {})
  /\ SNext(s, "kill")
  /\ UNCHANGED <<task, win, choice, excused, hidden>>

KillServers(s) ==
  /\ script[s].pc = "kill"
  /\ server' \in {server, "none"}
  /\ SNext(s, "check")
  /\ UNCHANGED <<task, win, choice, excused, hidden>>

\* Nothing may run when the program's files are replaced. (Copying, models and
\* arguments change neither the task nor the server; a failure is Throw.)
CheckGone(s) ==
  /\ script[s].pc = "check"
  /\ server = "none"
  /\ SNext(s, "unregister")
  /\ UNCHANGED <<task, server, win, choice, excused, hidden>>

Unregister(s) ==
  /\ script[s].pc = "unregister"
  /\ task' = "missing"
  /\ SGo(s, [script[s] EXCEPT !.pc = "register", !.owes = TRUE])
  /\ UNCHANGED <<server, win, choice, excused, hidden>>

\* A task that was disabled is enabled until it has been started.
Register(s) ==
  /\ script[s].pc = "register"
  /\ task' = "enabled"
  /\ choice' = IF script[s].was = "missing" THEN "enabled" ELSE choice
  /\ SGo(s, [script[s] EXCEPT !.pc = "start", !.owes = script[s].was = "disabled"])
  /\ UNCHANGED <<server, win, excused, hidden>>

\* try Start-ScheduledTask finally Disable-ScheduledTask
StartTask(s) ==
  /\ script[s].pc = "start"
  /\ server' \in {server} \cup (IF server = "none" /\ task = "enabled" THEN {"task"} ELSE {})
  /\ SNext(s, IF script[s].owes THEN "disable" ELSE "verify")
  /\ UNCHANGED <<task, win, choice, excused, hidden>>

DisableTask(s) ==
  /\ script[s].pc = "disable"
  /\ task # "missing"
  /\ task' = "disabled"
  /\ SGo(s, [script[s] EXCEPT !.pc = "verify", !.owes = FALSE])
  /\ UNCHANGED <<server, win, choice, excused, hidden>>

\* The root certificate and the version are answered.
Verify(s) ==
  /\ script[s].pc = "verify"
  /\ server # "none"
  /\ SEnd(s, TRUE)
  /\ UNCHANGED <<task, server, choice, hidden>>

-----------------------------------------------------------------------------
(* Outside the manager *)

\* The user signs in, or the scheduler's restart interval is over.
TaskStarts ==
  /\ task = "enabled" /\ server = "none"
  /\ server' = "task"
  /\ UNCHANGED <<task, win, script, choice, excused, hidden>>

\* A double click on FaceSign.exe.
StartedByHand ==
  /\ server = "none"
  /\ server' = "hand"
  /\ UNCHANGED <<task, win, script, choice, excused, hidden>>

ServerEnds ==
  /\ server # "none"
  /\ server' = "none"
  /\ UNCHANGED <<task, win, script, choice, excused, hidden>>

Action(m) ==
  \/ Restart(m) \/ StopLook(m) \/ StopState(m) \/ StopDisable(m) \/ End(m) \/ Wait(m)
  \/ Kill(m) \/ WaitLast(m) \/ Restore(m)
  \/ StartLook(m) \/ StartState(m) \/ StartEnable(m) \/ Run(m) \/ StartDisable(m)
  \/ Query(m) \/ ChangeStartup(m) \/ Report(m) \/ Launch(m)

Dispatch(m) == FinishAction(m) \/ FinishSelection(m) \/ FinishLaunch(m)

Installing(s) ==
  \/ HelperStarts(s) \/ ReadTask(s) \/ EndTask(s) \/ KillServers(s) \/ CheckGone(s) \/ Unregister(s)
  \/ Register(s) \/ StartTask(s) \/ DisableTask(s) \/ Verify(s)

Next ==
  \/ \E m \in Managers :
       \/ Open(m) \/ Close(m) \/ BeginUpgrade(m) \/ Choose(m) \/ BeginInstall(m)
       \/ \E act \in {"start", "stop", "restart", "enable", "disable", "refresh"} : Click(m, act)
       \/ Action(m) \/ Dispatch(m)
  \/ \E s \in Scripts : Installing(s) \/ Throw(s)
  \/ TaskStarts \/ StartedByHand \/ ServerEnds

\* Goroutines run, the window reads its messages, commands end within their
\* time limits, and the script a manager waits for within ten minutes.
Fairness ==
  /\ \A m \in Managers : WF_vars(Action(m)) /\ WF_vars(Dispatch(m))
  /\ \A s \in Scripts : WF_vars(script[s].for \in Managers /\ (Installing(s) \/ Throw(s)))

Spec == Init /\ [][Next]_vars /\ Fairness

-----------------------------------------------------------------------------
(* Properties *)

WinType ==
  [open : BOOLEAN, busy : BOOLEAN, pc : WorkPCs \cup {"none", "report", "script", "choose", "launch"},
   act : {"none", "first", "refresh", "start", "stop", "restart", "enable", "disable", "upgrade", "install"},
   owes : BOOLEAN, gone : BOOLEAN, ok : BOOLEAN, posted : {"none", "done", "selected", "launched"}]

ScriptType ==
  [pc : {"none", "wait", "read", "end", "kill", "check", "unregister", "register", "start",
         "disable", "verify"},
   for : Managers \cup {NoManager}, helper : BOOLEAN, was : {"missing", "enabled", "disabled"},
   owes : BOOLEAN]

\* Every variable has its type.
TypeOK ==
  /\ task \in {"missing", "enabled", "disabled"}
  /\ server \in {"none", "task", "hand"}
  /\ win \in [Managers -> WinType]
  /\ script \in [Scripts -> ScriptType]
  /\ choice \in {"missing", "enabled", "disabled"}
  /\ excused \in BOOLEAN /\ hidden \in BOOLEAN

\* README.md:70, "Stopping FaceSign does **not** disable startup", and the
\* promises of the upgrade (main_windows.go:820): whatever was started,
\* stopped, restarted, installed or upgraded, when nobody is at work the
\* startup setting is the one the user asked for last. Excused is what no
\* order of commands can help: a command that fails, a manager that is closed
\* while it owes the task a change, two of them at work at once. Hidden is what
\* breaks the promise with every command in order: a task disabled while its
\* instance lives is read as Running, so a stop (main_windows.go:618) and an
\* upgrade (install.ps1:117) leave it enabled, and an enableStartup leaves it
\* disabled (main_windows.go:702), until the user sets it anew.
StartupKept ==
  ~ excused /\ ~ hidden /\ (\A m \in Managers : ~ Working(m)) /\ (\A s \in Scripts : ~ Active(s))
    => task = choice

\* stopFaceSign disables the task so that the scheduler does not bring back
\* what it has just ended: from the moment it saw nothing running until it
\* restores the setting, no server of the task runs.
StopHolds ==
  \A m \in Managers : ~ excused /\ win[m].pc = "restore" /\ win[m].gone => server # "task"

\* "leave the real window thread without a message pump" (main_windows.go:245):
\* a window that is busy becomes usable again, or is closed, unless the user
\* leaves the choice of the package open.
BusyEnds ==
  \A m \in Managers : win[m].busy /\ ~ At(m, "choose") ~> ~ win[m].busy \/ At(m, "choose")
=============================================================================
