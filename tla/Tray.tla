--------------------------------- MODULE Tray ---------------------------------
(***************************************************************************)
(* The tray (main.rs of vellum-tray): processes of which one may own the   *)
(* icon, and in each the main loop, the thread that runs the callbacks of  *)
(* the menu, and a worker per entry chosen.  What a request does in the    *)
(* service is in ControlClient, and how preferences are saved in           *)
(* SettingsFile; here are what the icon and the menu show, and when.       *)
(***************************************************************************)
EXTENDS Naturals, Sequences, FiniteSets

CONSTANTS TrayProcesses,
          WatcherAttempts,    \* attempts to register the icon
          MaxClicks           \* bound on the entries chosen

ASSUME TrayAssumption ==
    WatcherAttempts \in Nat \ {0} /\ MaxClicks \in Nat /\ "none" \notin TrayProcesses

VARIABLES tyLock,       \* who holds tray.lock
          tyDisk,       \* the preference "save after a capture" on disk
          tyService,    \* what the service does
          tyProc,       \* the processes
          tyClicks

tyVars == <<tyLock, tyDisk, tyService, tyProc, tyClicks>>

NoTray == "none"
Captures == {"region", "long"}
Entries == Captures \union {"pin-last", "restart"}
Statuses == {"down", "idle"} \union Captures

(* "behind" and "unseen" are for the properties: the preference was saved  *)
(* by another since this process read it; a worker asked something of the  *)
(* service since this process read its status.                             *)
NoProcess ==
    [phase |-> "off", tries |-> 0, marks |-> 0, queue |-> <<>>, quit |-> FALSE, callback |-> "free", wrote |-> 0, workers |-> {},
     behind |-> FALSE, unseen |-> FALSE]

TrayInit ==
    /\ tyLock = NoTray /\ tyDisk \in {0, 1} /\ tyService = "down" /\ tyClicks = 0
    /\ tyProc = [process \in TrayProcesses |-> NoProcess]

Shows(process) == tyProc[process].phase \in {"top", "ask", "update"}
HasQueued(process, message) == \E i \in DOMAIN tyProc[process].queue : tyProc[process].queue[i] = message

Launch(process) ==
    /\ tyProc[process].phase = "off"
    /\ tyProc' = [tyProc EXCEPT ![process].phase = "lock"]
    /\ UNCHANGED <<tyLock, tyDisk, tyService, tyClicks>>

(* acquire_lock: non-blocking; a second tray leaves at once. *)
Acquire(process) ==
    /\ tyProc[process].phase = "lock"
    /\ IF tyLock = NoTray
       THEN tyLock' = process /\ tyProc' = [tyProc EXCEPT ![process].phase = "register"]
       ELSE UNCHANGED tyLock /\ tyProc' = [tyProc EXCEPT ![process] = NoProcess]
    /\ UNCHANGED <<tyDisk, tyService, tyClicks>>

(* The end of a process, whatever it was doing: the kernel frees the lock, *)
(* and its workers go with it.                                             *)
End(process) ==
    /\ tyProc' = [tyProc EXCEPT ![process] = NoProcess]
    /\ tyLock' = IF tyLock = process THEN NoTray ELSE tyLock
    /\ UNCHANGED <<tyDisk, tyService, tyClicks>>

Crash(process) == tyProc[process].phase # "off" /\ End(process)

(* Mutation: the waiting for the shell has no last attempt. *)
LastTryNever(tries) == FALSE

LastTry(tries) == tries + 1 = WatcherAttempts

(* spawn_with_retry: the shell may not be there yet.  Each attempt builds  *)
(* the tray afresh; once the icon is there a worker starts the service.    *)
RegisterIcon(process) ==
    /\ tyProc[process].phase = "register"
    /\ tyProc' = [tyProc EXCEPT ![process] =
            [@ EXCEPT !.phase = "top", !.marks = tyDisk, !.behind = FALSE,
                      !.workers = {[entry |-> "ensure", args |-> 0, saved |-> 0, stage |-> "route"]}]]
    /\ UNCHANGED <<tyLock, tyDisk, tyService, tyClicks>>

RegisterFails(process) ==
    /\ tyProc[process].phase = "register"
    /\ IF LastTry(tyProc[process].tries)
       THEN End(process)
       ELSE /\ tyProc' = [tyProc EXCEPT ![process].tries = @ + 1]
            /\ UNCHANGED <<tyLock, tyDisk, tyService, tyClicks>>

-----------------------------------------------------------------------------
(* The main loop *)

(* drain: a Quit anywhere in the backlog wins, otherwise a Refresh. *)
Drain(queue) ==
    IF \E i \in DOMAIN queue : queue[i] = "quit" THEN "quit"
    ELSE IF queue # <<>> THEN "refresh" ELSE "none"

(* One turn of the loop; the two seconds of a poll may have passed. *)
Turn(process) ==
    LET message == Drain(tyProc[process].queue) IN
    /\ tyProc[process].phase = "top"
    /\ IF message = "quit"
       THEN End(process)
       ELSE /\ tyProc' = [tyProc EXCEPT ![process].queue = <<>>, ![process].phase = "ask"]
            /\ UNCHANGED <<tyLock, tyDisk, tyService, tyClicks>>

(* client::status: whatever the answer, the next update shows it. *)
AskStatus(process) ==
    /\ tyProc[process].phase = "ask"
    /\ tyProc' = [tyProc EXCEPT ![process] = [@ EXCEPT !.phase = "update", !.unseen = FALSE]]
    /\ UNCHANGED <<tyLock, tyDisk, tyService, tyClicks>>

(* handle.update waits for a callback; the host may be gone by then. *)
Update(process) ==
    /\ tyProc[process].phase = "update" /\ tyProc[process].callback = "free"
    /\ \/ /\ tyProc' = [tyProc EXCEPT ![process] =
                [@ EXCEPT !.phase = "top", !.marks = tyDisk, !.behind = FALSE]]
          /\ UNCHANGED <<tyLock, tyDisk, tyService, tyClicks>>
       \/ End(process)

-----------------------------------------------------------------------------
(* The menu *)

Clicks(process) ==
    /\ Shows(process) /\ tyProc[process].callback = "free"
    /\ tyClicks < MaxClicks /\ tyClicks' = tyClicks + 1

OpenMenu(process) ==
    /\ Shows(process) /\ tyProc[process].callback = "free"
    /\ tyProc' = [tyProc EXCEPT ![process] = [@ EXCEPT !.marks = tyDisk, !.behind = FALSE]]
    /\ UNCHANGED <<tyLock, tyDisk, tyService, tyClicks>>

(* dispatch_args: what is on disk now; pin-last takes none. *)
ArgsOf(process, entry) == IF entry \in Captures THEN tyDisk ELSE 0

(* dispatch and restart_service *)
Choose(process, entry) ==
    /\ Clicks(process)
    /\ LET worker == [entry |-> entry, args |-> ArgsOf(process, entry),
                      saved |-> IF entry \in Captures THEN tyDisk ELSE 0, stage |-> "route"]
           busy == tyProc[process].workers \union {worker}
       IN tyProc' = [tyProc EXCEPT ![process] =
            IF entry = "restart" THEN [@ EXCEPT !.workers = busy]
            ELSE [@ EXCEPT !.workers = busy, !.marks = tyDisk, !.behind = FALSE]]
    /\ UNCHANGED <<tyLock, tyDisk, tyService>>

(* A save of the preference by anybody, as the processes see it. *)
SavedBy(saver) == [process \in TrayProcesses |->
    [tyProc[process] EXCEPT !.behind = Shows(process) /\ process # saver]]

(* toggle: prefs::update flips what the disk says, under the lock of the   *)
(* settings, and may fail, also after the file was replaced.               *)
ToggleSaved(process) ==
    /\ Clicks(process) /\ tyDisk' = 1 - tyDisk
    /\ tyProc' = [SavedBy(process) EXCEPT ![process] = [@ EXCEPT !.callback = "saved", !.wrote = tyDisk']]
    /\ UNCHANGED <<tyLock, tyService>>

ToggleFailed(process) ==
    /\ Clicks(process) /\ tyDisk' \in {0, 1}
    /\ tyProc' = [(IF tyDisk' = tyDisk THEN tyProc ELSE SavedBy(NoTray)) EXCEPT ![process].callback = "failed"]
    /\ UNCHANGED <<tyLock, tyService>>

(* Mutation: after a failure the marks stay as they were. *)
MarksKept(process) == IF tyProc[process].callback = "failed" THEN tyProc[process].marks ELSE tyProc[process].wrote

(* A failure reads the file again; a success shows what it wrote.          *)
MarksAfter(process) == IF tyProc[process].callback = "failed" THEN tyDisk ELSE tyProc[process].wrote

ToggleShows(process) ==
    /\ tyProc[process].callback # "free"
    /\ tyProc' = [tyProc EXCEPT ![process] =
            [@ EXCEPT !.callback = "free", !.wrote = 0, !.marks = MarksAfter(process),
                      !.behind = tyProc[process].behind /\ tyProc[process].callback = "saved"]]
    /\ UNCHANGED <<tyLock, tyDisk, tyService, tyClicks>>

ChooseQuit(process) ==
    /\ Clicks(process)
    /\ tyProc' = [tyProc EXCEPT ![process].queue = Append(@, "quit"), ![process].quit = TRUE]
    /\ UNCHANGED <<tyLock, tyDisk, tyService>>

-----------------------------------------------------------------------------
(* The workers and the world *)

(* What the service makes of an entry: the same entry ends a long shot,    *)
(* another action is turned away, and with no service the tray starts the  *)
(* action itself.                                                          *)
Answers(entry) ==
    CASE entry \in {"ensure", "restart"} ->
            {"idle", tyService}
      [] entry \in Captures /\ tyService = "idle" -> {entry}
      [] entry = "long" /\ tyService = "long" -> {"idle"}
      [] OTHER -> {tyService}

RouteWorker(process, worker) ==
    /\ worker.stage = "route"
    /\ tyService' \in Answers(worker.entry)
    /\ tyProc' = [tyProc EXCEPT ![process].unseen = TRUE,
            ![process].workers = (@ \ {worker}) \union {[worker EXCEPT !.stage = "report"]}]
    /\ UNCHANGED <<tyLock, tyDisk, tyClicks>>

ReportWorker(process, worker) ==
    /\ worker.stage = "report"
    /\ tyProc' = [tyProc EXCEPT ![process].workers = @ \ {worker}, ![process].queue = Append(@, "refresh")]
    /\ UNCHANGED <<tyLock, tyDisk, tyService, tyClicks>>

(* The settings panel saves; the service ends an action or dies. *)
PanelSaves ==
    /\ tyDisk' = 1 - tyDisk /\ tyProc' = SavedBy(NoTray)
    /\ UNCHANGED <<tyLock, tyService, tyClicks>>

ServiceMoves ==
    /\ tyService \in Captures \union {"idle"}
    /\ tyService' \in {"idle", "down"} \ {tyService}
    /\ UNCHANGED <<tyLock, tyDisk, tyProc, tyClicks>>

TrayNext ==
    \/ \E process \in TrayProcesses :
        \/ Launch(process) \/ Acquire(process) \/ Crash(process)
        \/ RegisterIcon(process) \/ RegisterFails(process)
        \/ Turn(process) \/ AskStatus(process) \/ Update(process)
        \/ OpenMenu(process) \/ ToggleSaved(process) \/ ToggleFailed(process)
        \/ ToggleShows(process) \/ ChooseQuit(process)
        \/ \E entry \in Entries : Choose(process, entry)
        \/ \E worker \in tyProc[process].workers : RouteWorker(process, worker) \/ ReportWorker(process, worker)
    \/ PanelSaves \/ ServiceMoves

TraySpec == TrayInit /\ [][TrayNext]_tyVars

-----------------------------------------------------------------------------
TrayTypeOK ==
    /\ tyLock \in TrayProcesses \union {NoTray} /\ tyDisk \in {0, 1} /\ tyService \in Statuses
    /\ tyClicks \in 0 .. MaxClicks
    /\ \A process \in TrayProcesses :
        LET it == tyProc[process] IN
        /\ it.phase \in {"off", "lock", "register", "top", "ask", "update"}
        /\ it.tries \in 0 .. WatcherAttempts - 1
        /\ {it.marks, it.wrote} \subseteq {0, 1}
        /\ Len(it.queue) <= MaxClicks + 1
        /\ it.callback \in {"free", "saved", "failed"}

(* What the tray shows (run, drain, toggle, dispatch): there is one icon,  *)
(* whatever starts and dies; a check mark says what is on disk, after a    *)
(* failed save too, unless another program saved since the tray last read  *)
(* it; what a worker made the service do is looked at again, however it    *)
(* was answered; a capture takes the preferences of the moment it was      *)
(* chosen; and a Quit is never lost in the backlog.                        *)
TrayTrue ==
    /\ Cardinality({process \in TrayProcesses : Shows(process)}) <= 1
    /\ \A process \in TrayProcesses :
        LET it == tyProc[process] IN
        Shows(process) =>
            /\ it.callback = "free" /\ ~it.behind => it.marks = tyDisk
            /\ it.unseen => \/ it.phase = "ask" \/ HasQueued(process, "refresh")
                            \/ \E worker \in it.workers : worker.stage = "report"
            /\ \A worker \in it.workers : worker.args = worker.saved
            /\ it.quit => HasQueued(process, "quit")
=============================================================================
