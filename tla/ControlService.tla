--------------------------- MODULE ControlService ---------------------------
(***************************************************************************)
(* The control service of vellum-ipc (daemon.rs): one accept loop, one     *)
(* thread per connection and the action processes they start.  Every       *)
(* operation runs under the `lifecycle` mutex; between its steps the       *)
(* action processes still boot, release the screen, exit and take signals. *)
(* Connection contents, logging and tracing are abstracted away.           *)
(***************************************************************************)
EXTENDS Naturals, FiniteSets

CONSTANTS
  Worker,            \* connection threads (reused after a connection ends)
  Main,              \* the accept loop
  Free,              \* nobody holds the lifecycle mutex
  MaxChildren        \* bound on the processes ever started

Thread == Worker \cup {Main}
Child  == 1..MaxChildren
None   == 0

ASSUME ThreadAssumption ==
  /\ Main \notin Worker
  /\ Free \notin Worker \cup {Main}
ASSUME BoundAssumption == MaxChildren \in Nat

Exclusive == {"region", "long"}          \* Action::is_exclusive
Actions   == Exclusive \cup {"pin"}
Requests  == Actions \cup {"status", "shutdown", "refused"}
ExitCodes == {"normal", "abnormal"}      \* NORMAL_EXITS (0, 130); all others
Running   == {"boot", "ready", "armed", "result"}  \* phases of a live process
Held      == {"wait", "body", "kill", "await"}  \* pcs under the mutex

VARIABLES
  running, lifecycle, active, event,   \* Service and Inner
  stopping,                            \* the child stop() took out of `active`
  detached,                            \* children whose exit nobody reports
  pc, request,                         \* threads and what each is serving
  spawned, action, phase, code,        \* processes, in order of their start
  release, finish, killed,             \* release datagram, finish flag, SIGKILL
  reported, notice                     \* finish_action calls; notification shown

service == <<running, lifecycle, active, event, stopping, detached>>
threads == <<pc, request>>
bodies  == <<spawned, action, phase, code, release, finish, killed>>
reports == <<reported, notice>>
vars    == <<service, threads, bodies, reports>>

Init ==
  /\ running = TRUE
  /\ lifecycle = Free
  /\ active = None
  /\ event = [what |-> "ready", child |-> None]
  /\ stopping = None
  /\ detached = {}
  /\ pc = [t \in Thread |-> IF t = Main THEN "loop" ELSE "idle"]
  /\ request = [t \in Thread |-> "none"]
  /\ spawned = 0
  /\ action = [c \in Child |-> "pin"]
  /\ phase = [c \in Child |-> "unborn"]
  /\ code = [c \in Child |-> "normal"]
  /\ release = [c \in Child |-> "absent"]
  /\ finish = [c \in Child |-> FALSE]
  /\ killed = [c \in Child |-> FALSE]
  /\ reported = [c \in Child |-> 0]
  /\ notice = [c \in Child |-> FALSE]

Up == pc[Main] # "exited"   \* threads live as long as the daemon process

Goto(t, label) == pc' = [pc EXCEPT ![t] = label]
SetEvent(what, c) == event' = [what |-> what, child |-> c]

---------------------------------------------------------------------------
(* Completion of an action *)

(* finish_action: the event, and a notification unless the exit is normal  *)
(* or the caller (stop) asked for none.                                    *)
FinishAction(c, notify) ==
  /\ SetEvent("exited", c)
  /\ reported' = [reported EXCEPT ![c] = @ + 1]
  /\ notice' = IF notify /\ code[c] # "normal" THEN [notice EXCEPT ![c] = TRUE]
               ELSE notice

---------------------------------------------------------------------------
(* The accept loop *)

Accept(w) ==
  /\ pc[Main] = "loop" /\ running
  /\ pc[w] = "idle"
  /\ Goto(w, "read")
  /\ UNCHANGED <<service, request, bodies, reports>>

PollActive ==
  /\ pc[Main] = "loop" /\ running
  /\ Goto(Main, "lock")
  /\ request' = [request EXCEPT ![Main] = "poll"]
  /\ UNCHANGED <<service, bodies, reports>>

BeginStop ==
  /\ Goto(Main, "lock")
  /\ request' = [request EXCEPT ![Main] = "stop"]
  /\ UNCHANGED <<service, bodies, reports>>

ListenerBroken ==   \* five consecutive accept failures; fewer change nothing
  /\ pc[Main] = "loop" /\ running
  /\ BeginStop

LeaveLoop ==
  /\ pc[Main] = "loop" /\ ~running
  /\ BeginStop

---------------------------------------------------------------------------
(* serve_connection *)

(* "refused" stands for a frame answered without the mutex: unparsable, an *)
(* identity mismatch, or an argument of 256 bytes or more.                 *)
ReadFrame(w, r) ==
  /\ Up /\ pc[w] = "read"
  /\ IF r = "refused"
     THEN Goto(w, "reply") /\ UNCHANGED request
     ELSE Goto(w, "lock") /\ request' = [request EXCEPT ![w] = r]
  /\ UNCHANGED <<service, bodies, reports>>

Hangup(w) ==   \* end of stream, or the 500 ms read timeout
  /\ Up /\ pc[w] = "read"
  /\ Goto(w, "idle")
  /\ UNCHANGED <<service, request, bodies, reports>>

(* The answer is written, then `running` is read without the mutex.  The   *)
(* two frames a connection may carry are not counted: a third one is here  *)
(* what a new connection on the same thread is.                            *)
Reply(w) ==
  /\ Up /\ pc[w] = "reply"
  /\ Goto(w, "idle") \/ (running /\ Goto(w, "read"))
  /\ UNCHANGED <<service, request, bodies, reports>>

---------------------------------------------------------------------------
(* The lifecycle mutex and reap_finished_locked *)

(* Mutation: the channel's end of file counts as a release.                *)
TakeReleasedOnEof ==
  IF active # None /\ action[active] = "region" /\ release[active] # "absent"
  THEN /\ active' = None
       /\ detached' = detached \cup {active}
       /\ SetEvent("result", active)
  ELSE UNCHANGED <<active, detached, event>>

(* A region selector that released the screen stops being tracked; a       *)
(* detached thread waits for its result window.                            *)
TakeReleased ==
  IF active # None /\ action[active] = "region" /\ release[active] = "sent"
  THEN /\ active' = None
       /\ detached' = detached \cup {active}
       /\ SetEvent("result", active)
  ELSE UNCHANGED <<active, detached, event>>

(* Every operation but the shutdown request reaps first, and looks for a   *)
(* release before it looks for an exit.                                    *)
Lock(t) ==
  /\ Up /\ pc[t] = "lock"
  /\ lifecycle = Free
  /\ lifecycle' = t
  /\ IF request[t] = "shutdown"
     THEN Goto(t, "body") /\ UNCHANGED <<active, detached, event>>
     ELSE Goto(t, "wait") /\ TakeReleased
  /\ UNCHANGED <<running, stopping, request, bodies, reports>>

TryWaitFrame(t) ==
  /\ Goto(t, "body")
  /\ UNCHANGED <<running, lifecycle, stopping, detached, request, spawned, action,
                 code, release, finish, killed>>

ReapActive ==
  /\ phase' = [phase EXCEPT ![active] = "reaped"]
  /\ FinishAction(active, TRUE)

(* Mutation: the slot is not emptied.                                      *)
TryWaitKeepsSlot(t) ==
  /\ Up /\ pc[t] = "wait"
  /\ IF active # None /\ phase[active] = "zombie" THEN ReapActive
     ELSE UNCHANGED <<phase, event, reports>>
  /\ UNCHANGED active /\ TryWaitFrame(t)

(* Mutation: wait instead of try_wait.                                     *)
TryWaitBlocks(t) ==
  /\ Up /\ pc[t] = "wait"
  /\ IF active # None
     THEN phase[active] = "zombie" /\ active' = None /\ ReapActive
     ELSE UNCHANGED <<active, phase, event, reports>>
  /\ TryWaitFrame(t)

(* Mutation: only requests reap, the accept loop's poll does not.          *)
TryWaitOnRequest(t) ==
  /\ Up /\ pc[t] = "wait"
  /\ IF active # None /\ phase[active] = "zombie" /\ request[t] # "poll"
     THEN active' = None /\ ReapActive
     ELSE UNCHANGED <<active, phase, event, reports>>
  /\ TryWaitFrame(t)

(* try_wait on the tracked child; reaping and finish_action are one step,  *)
(* since nobody reads Inner without the mutex.                             *)
TryWait(t) ==
  /\ Up /\ pc[t] = "wait"
  /\ IF active # None /\ phase[active] = "zombie"
     THEN active' = None /\ ReapActive
     ELSE UNCHANGED <<active, phase, event, reports>>
  /\ TryWaitFrame(t)

Unlock(t, label) ==
  /\ lifecycle' = Free
  /\ Goto(t, label)
  /\ request' = [request EXCEPT ![t] = "none"]

---------------------------------------------------------------------------
(* Request handlers, entered with the mutex held *)

InBody(w, ops) == Up /\ pc[w] = "body" /\ request[w] \in ops

Toggles(w) ==
  request[w] = "long" /\ active # None /\ action[active] = "long"

Snapshot(w) ==
  /\ InBody(w, {"status"})
  /\ Unlock(w, "reply")
  /\ UNCHANGED <<running, active, event, stopping, detached, bodies, reports>>

Shutdown(w) ==
  /\ InBody(w, {"shutdown"})
  /\ running' = FALSE
  /\ Unlock(w, "reply")
  /\ UNCHANGED <<active, event, stopping, detached, bodies, reports>>

(* "stopping", or "already open": a launch that changes nothing.           *)
Decline(w) ==
  /\ InBody(w, Actions)
  /\ \/ ~running
     \/ request[w] \in Exclusive /\ active # None /\ ~Toggles(w)
  /\ Unlock(w, "reply")
  /\ UNCHANGED <<running, active, event, stopping, detached, bodies, reports>>

(* SIGUSR1 on the tracked long shot.  Before vellum-ui installs its        *)
(* handler the default action ends the process; the handler ignores the    *)
(* signal until recording is armed.                                        *)
FinishSignal(c) ==
  /\ phase' = [phase EXCEPT ![c] = IF @ = "boot" THEN "zombie" ELSE @]
  /\ code' = [code EXCEPT ![c] = IF phase[c] = "boot" THEN "abnormal" ELSE @]
  /\ finish' = [finish EXCEPT ![c] = IF phase[c] = "armed" THEN TRUE ELSE @]

Toggle(w) ==
  /\ InBody(w, {"long"})
  /\ running /\ Toggles(w)
  /\ IF phase[active] = "reaped"           \* kill(2) fails: nothing happens
     THEN UNCHANGED <<event, phase, code, finish>>
     ELSE FinishSignal(active) /\ SetEvent("finishing", active)
  /\ Unlock(w, "reply")
  /\ UNCHANGED <<running, active, stopping, detached, spawned, action, release,
                 killed, reports>>

(* Mutation: `running` is not checked again under the mutex.               *)
MayLaunchAfterStop(w) ==
  /\ InBody(w, Actions)
  /\ ~Toggles(w)
  /\ request[w] \in Exclusive => active = None

MayLaunch(w) ==
  /\ InBody(w, Actions)
  /\ running /\ ~Toggles(w)
  /\ request[w] \in Exclusive => active = None

(* Only a region child may be given a release channel, when one could be   *)
(* made; only exclusive children are tracked.                              *)
Launch(w) ==
  LET c == spawned + 1
      a == request[w]
  IN /\ MayLaunch(w)
     /\ spawned < MaxChildren
     /\ spawned' = c
     /\ action' = [action EXCEPT ![c] = a]
     /\ phase' = [phase EXCEPT ![c] = "boot"]
     /\ \E r \in IF a = "region" THEN {"absent", "open"} ELSE {"absent"} :
          release' = [release EXCEPT ![c] = r]
     /\ SetEvent("started", c)
     /\ active' = IF a \in Exclusive THEN c ELSE active
     /\ Unlock(w, "reply")
     /\ UNCHANGED <<running, stopping, detached, code, finish, killed, reports>>

SpawnFails(w) ==
  /\ MayLaunch(w)
  /\ Unlock(w, "reply")
  /\ UNCHANGED <<running, active, event, stopping, detached, bodies, reports>>

(* An output forwarder could not start: the child is killed and waited for *)
(* before anyone learns of it.                                             *)
ForwarderFails(w) ==
  LET c == spawned + 1
  IN /\ MayLaunch(w)
     /\ spawned < MaxChildren
     /\ spawned' = c
     /\ action' = [action EXCEPT ![c] = request[w]]
     /\ phase' = [phase EXCEPT ![c] = "reaped"]
     /\ code' = [code EXCEPT ![c] = "abnormal"]
     /\ detached' = detached \cup {c}
     /\ Unlock(w, "reply")
     /\ UNCHANGED <<running, active, event, stopping, release, finish, killed, reports>>

Handle(w) ==
  \/ Snapshot(w) \/ Shutdown(w) \/ Decline(w)
  \/ Toggle(w) \/ Launch(w) \/ SpawnFails(w) \/ ForwarderFails(w)

---------------------------------------------------------------------------
(* poll_active and stop, run by the accept loop *)

PollDone ==
  /\ pc[Main] = "body" /\ request[Main] = "poll"
  /\ Unlock(Main, "loop")
  /\ UNCHANGED <<running, active, event, stopping, detached, bodies, reports>>

StopTake ==
  /\ pc[Main] = "body" /\ request[Main] = "stop"
  /\ running' = FALSE
  /\ active' = None
  /\ stopping' = active
  /\ IF active = None THEN Unlock(Main, "unlink")
     ELSE Goto(Main, "kill") /\ UNCHANGED <<lifecycle, request>>
  /\ UNCHANGED <<event, detached, bodies, reports>>

(* stop_child: a child that already ended is reaped, any other is killed.  *)
StopKill ==
  /\ pc[Main] = "kill"
  /\ phase[stopping] # "zombie"
  /\ killed' = [killed EXCEPT ![stopping] = TRUE]
  /\ Goto(Main, "await")
  /\ UNCHANGED <<service, request, spawned, action, phase, code, release, finish,
                 reports>>

(* Mutation: stopping a capture is notified like a failure.                *)
StopReapNotifies ==
  /\ pc[Main] \in {"kill", "await"}
  /\ phase[stopping] = "zombie"
  /\ phase' = [phase EXCEPT ![stopping] = "reaped"]
  /\ FinishAction(stopping, TRUE)
  /\ Unlock(Main, "unlink")
  /\ UNCHANGED <<running, active, stopping, detached, spawned, action, code,
                 release, finish, killed>>

StopReap ==
  /\ pc[Main] \in {"kill", "await"}
  /\ phase[stopping] = "zombie"
  /\ phase' = [phase EXCEPT ![stopping] = "reaped"]
  /\ FinishAction(stopping, FALSE)
  /\ Unlock(Main, "unlink")
  /\ UNCHANGED <<running, active, stopping, detached, spawned, action, code,
                 release, finish, killed>>

(* Mutation: at the deadline the child is killed again, without limit.     *)
StopRetries ==
  /\ pc[Main] = "await"
  /\ phase[stopping] # "zombie"
  /\ Goto(Main, "kill")
  /\ UNCHANGED <<service, request, bodies, reports>>

(* The 1 s deadline passed: reap_in_background takes the child over.       *)
StopDefer ==
  /\ pc[Main] = "await"
  /\ phase[stopping] # "zombie"
  /\ detached' = detached \cup {stopping}
  /\ SetEvent("terminating", stopping)
  /\ Unlock(Main, "unlink")
  /\ UNCHANGED <<running, active, stopping, bodies, reports>>

(* The socket is removed and run() returns: the process and its threads    *)
(* end, and the flock with them.                                           *)
Exit ==
  /\ pc[Main] = "unlink"
  /\ Goto(Main, "exited")
  /\ UNCHANGED <<service, request, bodies, reports>>

---------------------------------------------------------------------------
(* Waiter threads *)

(* watch: the waiter of a pin window reaps it at once and reports when it  *)
(* gets the mutex; nothing can tell the two apart.                         *)
Watch(c) ==
  /\ Up /\ action[c] = "pin" /\ phase[c] = "zombie"
  /\ lifecycle = Free
  /\ phase' = [phase EXCEPT ![c] = "reaped"]
  /\ FinishAction(c, TRUE)
  /\ UNCHANGED <<running, lifecycle, active, stopping, detached, threads,
                 spawned, action, code, release, finish, killed>>

(* Mutation: the waiter of a released result runs finish_action.           *)
BackgroundReapReports(c) ==
  /\ Up /\ c \in detached /\ phase[c] = "zombie"
  /\ phase' = [phase EXCEPT ![c] = "reaped"]
  /\ FinishAction(c, TRUE)
  /\ UNCHANGED <<running, lifecycle, active, stopping, detached, threads,
                 spawned, action, code, release, finish, killed>>

BackgroundReap(c) ==
  /\ Up /\ c \in detached /\ phase[c] = "zombie"
  /\ phase' = [phase EXCEPT ![c] = "reaped"]
  /\ UNCHANGED <<service, threads, spawned, action, code, release, finish,
                 killed, reports>>

---------------------------------------------------------------------------
(* The action processes.  A process with SIGKILL pending runs no code.     *)

Live(c) == phase[c] \in Running

Become(c, p) == phase' = [phase EXCEPT ![c] = p]

(* vellum execs vellum-ui, whose main installs the handler.  Only a long    *)
(* shot is ever signalled, so the other actions stay in "boot".            *)
HandlerInstalled(c) ==
  /\ action[c] = "long" /\ phase[c] = "boot" /\ ~killed[c]
  /\ Become(c, "ready")
  /\ UNCHANGED <<service, threads, spawned, action, code, release, finish,
                 killed, reports>>

ArmRecording(c) ==           \* begin_longshot
  /\ action[c] = "long" /\ phase[c] = "ready" /\ ~killed[c]
  /\ Become(c, "armed")
  /\ UNCHANGED <<service, threads, spawned, action, code, release, finish,
                 killed, reports>>

(* release_capture after the result's first frame.  A daemon that is gone  *)
(* has closed the receiving end: the window stays, nothing is delivered.   *)
ReleaseCapture(c) ==
  /\ action[c] = "region" /\ phase[c] = "boot" /\ ~killed[c]
  /\ release[c] = "open"
  /\ Become(c, "result")
  /\ release' = [release EXCEPT ![c] = IF Up THEN "sent" ELSE "open"]
  /\ UNCHANGED <<service, threads, spawned, action, code, finish, killed, reports>>

ChildExits(c, exit) ==
  /\ Live(c) /\ ~killed[c]
  /\ Become(c, "zombie")
  /\ code' = [code EXCEPT ![c] = exit]
  /\ UNCHANGED <<service, threads, spawned, action, release, finish, killed, reports>>

KillTakesEffect(c) ==
  /\ Live(c) /\ killed[c]
  /\ Become(c, "zombie")
  /\ code' = [code EXCEPT ![c] = "abnormal"]
  /\ UNCHANGED <<service, threads, spawned, action, release, finish, killed, reports>>

---------------------------------------------------------------------------

WorkerStep(w) ==
  \/ Accept(w) \/ Hangup(w) \/ Reply(w)
  \/ \E r \in Requests : ReadFrame(w, r)
  \/ Handle(w)

MainStep ==
  \/ PollActive \/ ListenerBroken \/ LeaveLoop
  \/ PollDone \/ StopTake \/ StopKill \/ StopReap \/ StopDefer \/ Exit

ChildStep(c) ==
  \/ HandlerInstalled(c) \/ ArmRecording(c) \/ ReleaseCapture(c)
  \/ \E exit \in ExitCodes : ChildExits(c, exit)
  \/ KillTakesEffect(c)
  \/ Watch(c) \/ BackgroundReap(c)

Next ==
  \/ \E w \in Worker : WorkerStep(w)
  \/ MainStep
  \/ \E t \in Thread : Lock(t) \/ TryWait(t)
  \/ \E c \in Child : ChildStep(c)

(* Fairness.  The daemon's own threads always take their next step.  The   *)
(* mutex is held only for short sections and a waiter parked on its futex  *)
(* is woken at each release, hence strong fairness for Lock.  The accept   *)
(* loop's poll() returns within 25 ms, and connections do not keep it from *)
(* polling for ever.  A connection that sends nothing times out.  Users    *)
(* and processes owe nothing, except that an armed long shot told to       *)
(* finish does finish.                                                     *)
Fairness ==
  /\ \A t \in Thread : SF_vars(Lock(t)) /\ WF_vars(TryWait(t))
  /\ \A w \in Worker : WF_vars(Handle(w)) /\ WF_vars(Reply(w)) /\ WF_vars(Hangup(w))
  /\ WF_vars(PollActive) /\ WF_vars(LeaveLoop) /\ WF_vars(PollDone)
  /\ WF_vars(StopTake) /\ WF_vars(StopKill \/ StopReap) /\ WF_vars(StopDefer)
  /\ WF_vars(Exit)
  /\ \A c \in Child :
       WF_vars(finish[c] /\ \E exit \in ExitCodes : ChildExits(c, exit))

Spec     == Init /\ [][Next]_vars
FairSpec == Spec /\ Fairness

---------------------------------------------------------------------------
(* Properties *)

Stopping    == pc[Main] \in {"kill", "await"}     \* in stop_child
Tracked(c)  == active = c \/ (stopping = c /\ Stopping)
Selector(c) == action[c] \in Exclusive /\ phase[c] \in {"boot", "ready", "armed"}
Selectors   == {c \in Child : Selector(c)}

ServiceType ==
  /\ running \in BOOLEAN
  /\ lifecycle \in Thread \cup {Free}
  /\ active \in Child \cup {None}
  /\ event \in [what : {"ready", "started", "finishing", "result", "exited",
                       "terminating"},
                child : Child \cup {None}]
  /\ stopping \in Child \cup {None}
  /\ detached \subseteq Child

ThreadType ==
  /\ pc \in [Thread -> {"idle", "read", "reply", "loop", "lock", "unlink", "exited"}
                         \cup Held]
  /\ request \in [Thread -> Requests \cup {"none", "poll", "stop"}]

ProcessType ==
  /\ spawned \in 0..MaxChildren
  /\ action \in [Child -> Actions]
  /\ phase \in [Child -> Running \cup {"unborn", "zombie", "reaped"}]
  /\ code \in [Child -> ExitCodes]
  /\ release \in [Child -> {"absent", "open", "sent"}]
  /\ finish \in [Child -> BOOLEAN]
  /\ killed \in [Child -> BOOLEAN]
  /\ reported \in [Child -> Nat]
  /\ notice \in [Child -> BOOLEAN]

(* Every variable has its type: one value per thread or process, from the  *)
(* sets the code can produce.                                              *)
TypeOK == ServiceType /\ ThreadType /\ ProcessType

(* No selector is orphaned over the screen (stop, daemon.rs:531): each one *)
(* still on it is the child the service tracks or is stopping, or has been *)
(* sent SIGKILL by a stop that could not wait for it any longer.           *)
NoOrphanSelector ==
  \A c \in Selectors : Tracked(c) \/ (c \in detached /\ killed[c] /\ ~running)

(* The pid kept for a tracked child is never that of a reaped process, so  *)
(* neither SIGUSR1 (signal_child, daemon.rs:733) nor SIGKILL can reach an  *)
(* unrelated process that was given the same pid.                          *)
HeldPidUnreaped ==
  \A c \in Child : Tracked(c) => phase[c] \notin {"unborn", "reaped"}

(* Every process the service reaps itself is reported exactly once, with a *)
(* notification exactly when it failed and stop() was not ending it; a     *)
(* process left to a background waiter is never reported.                  *)
ExitReportedOnce ==
  \A c \in Child :
    /\ reported[c] = (IF phase[c] = "reaped" /\ c \notin detached THEN 1 ELSE 0)
    /\ notice[c] = (reported[c] = 1 /\ c # stopping /\ code[c] # "normal")

(* Events about exclusive actions never go back in time: completion of a   *)
(* process cannot overwrite the event of a newer capture (the reason for   *)
(* the lifecycle mutex, daemon.rs:80, and for the silent result waiter).   *)
EventFollowsNewest ==
  LET c == event'.child
  IN event' # event /\ c # None /\ action'[c] \in Exclusive =>
       \A d \in Child : d > c /\ action'[d] \in Exclusive => phase'[d] = "unborn"
EventsFollowNewestCapture == [][EventFollowsNewest]_vars

(* The processes on the screen and the open door implement ScreenOwner.    *)
Screen == INSTANCE ScreenOwner
            WITH Owner <- Child, owners <- Selectors, open <- running
ExclusiveScreen == Screen!Spec

(* A service asked to stop, or whose listener broke, does exit and frees   *)
(* its lock, however its child behaves.                                    *)
ShutdownCompletes == ~running ~> pc[Main] = "exited"

(* No request waits forever for the mutex or for another handler.          *)
RequestsAnswered ==
  \A w \in Worker :
    pc[w] \in {"lock", "reply"} \cup Held ~> pc[w] \in {"idle", "read"} \/ ~Up

(* A tracked process that ended, or an armed long shot told to finish,     *)
(* frees the exclusive slot without any further request.                   *)
FinishedChildFreesSlot ==
  \A c \in Child :
    active = c /\ (phase[c] = "zombie" \/ finish[c]) ~> active # c

(* main.rs:185 of vellum-ui says that a second shortcut arriving before    *)
(* the application is up is ignored rather than fatal.                     *)
EarlyFinishIgnored ==
  [][\A w \in Worker, c \in Child :
       Toggle(w) /\ active = c /\ phase[c] # "armed" => phase'[c] = phase[c]]_vars

(* docs/RESULT_OPENING.md: stopping over IPC never ends a result process   *)
(* that has been released.                                                 *)
StopSparesReleased ==
  [][\A c \in Child : killed'[c] /\ ~killed[c] => release[c] # "sent"]_vars

---------------------------------------------------------------------------
(* The inductive invariant behind the safety properties                    *)

Stopped == pc[Main] \in {"kill", "await", "unlink", "exited"}

(* The mutex is held by the one thread inside an operation, and each       *)
(* thread is at a label of its own code.                                   *)
MutexInv ==
  /\ \A t \in Thread : pc[t] \in Held <=> lifecycle = t
  /\ \A w \in Worker : pc[w] \in {"idle", "read", "lock", "wait", "body", "reply"}
  /\ pc[Main] \in {"loop", "lock", "unlink", "exited"} \cup Held

(* A stop in progress has closed the door and emptied the slot; what it    *)
(* took is the only process ever sent SIGKILL.                             *)
StopInv ==
  /\ Stopped => ~running /\ active = None
  /\ ~Stopped => stopping = None
  /\ Stopping => stopping # None
  /\ stopping # None => action[stopping] \in Exclusive
  /\ pc[Main] = "await" => killed[stopping]
  /\ \A c \in Child : killed[c] => c = stopping

(* Processes are numbered in order of their start; a tracked one is        *)
(* exclusive, not reaped, not left to a waiter, and the newest of its kind; *)
(* a release in the channel means its sender is a selector no more.        *)
TrackInv ==
  /\ \A c \in Child : phase[c] = "unborn" <=> c > spawned
  /\ \A c \in Child : Tracked(c) =>
       /\ action[c] \in Exclusive
       /\ phase[c] \notin {"unborn", "reaped"}
       /\ c \notin detached
       /\ \A d \in Child : d > c /\ action[d] \in Exclusive => phase[d] = "unborn"
  /\ \A c \in detached :
       /\ phase[c] # "unborn"
       /\ action[c] = "pin" => phase[c] = "reaped"
  /\ \A c \in Child : release[c] = "sent" => phase[c] \in {"result", "zombie", "reaped"}

IndInv ==
  TypeOK /\ MutexInv /\ StopInv /\ TrackInv /\ NoOrphanSelector /\ ExitReportedOnce
=============================================================================
