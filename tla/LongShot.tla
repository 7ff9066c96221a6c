------------------------------ MODULE LongShot ------------------------------
(***************************************************************************)
(* A long shot inside vellum-ui (main.rs, recorder.rs): the finish signal, *)
(* the session that arms it and creates the recorder, the capture thread   *)
(* that grabs frames into a bounded queue, and the GTK main loop that      *)
(* stitches them and ends the session.  The main loop and the capture      *)
(* thread share the queue under its mutex and two atomic flags; every      *)
(* other variable belongs to one of them.                                  *)
(***************************************************************************)
EXTENDS Naturals, Sequences

CONSTANTS
  Image,       \* contents of a frame, as far as the duplicate test can tell
  Capacity,    \* frames the queue has room for (QUEUE_CAPACITY, QUEUE_BYTE_LIMIT)
  MaxGrabs     \* bound on the frames that do not repeat the last one

ASSUME CapacityAssumption == Capacity \in Nat \ {0}
ASSUME GrabsAssumption == MaxGrabs \in Nat

Frame == [seq : 1..MaxGrabs, image : Image]
NoFrame == [seq |-> 0]

VARIABLES
  managed,     \* started by the daemon, which can finish it without a panel
  discard,     \* the backend's first frame is a warm-up (grim, KWin)
  stage,       \* select, handoff, settle, running, over
  armed, pending, requested,   \* FINISH_ARMED, FINISH_PENDING, finish_requested
  panel,       \* the panel window: none, opening, mapped (panel_available)
  frames, latest, notice, latch, limited, grabs, warmups, failures,  \* Queue
  sampling, aborting,          \* the atomic flags of Shared
  wpc, held, failing,          \* the capture thread
  mpc, popped, told,           \* the main loop: its place and what it popped
  idles, idleFinish,           \* callbacks queued on the main loop
  finished, stitched, full, shown,   \* State
  taken, outcome               \* distinct frames taken; what on_done was given

session == <<managed, discard, stage, armed, pending, requested, panel>>
queue   == <<frames, latest, notice, latch, limited, grabs, warmups, failures>>
flags   == <<sampling, aborting>>
worker  == <<wpc, held, failing>>
loop    == <<mpc, popped, told, idles, idleFinish>>
state   == <<finished, stitched, full, shown>>
ends    == <<taken, outcome>>
vars    == <<session, queue, flags, worker, loop, state, ends>>

Init ==
  /\ managed \in BOOLEAN /\ discard \in BOOLEAN
  /\ stage = "select"
  /\ armed = FALSE /\ pending = FALSE /\ requested = FALSE
  /\ panel = "none"
  /\ frames = <<>> /\ latest = NoFrame /\ notice = "none" /\ latch = FALSE
  /\ limited = FALSE /\ grabs = 0 /\ warmups = 0 /\ failures = FALSE
  /\ sampling = TRUE /\ aborting = FALSE
  /\ wpc = "none" /\ held = NoFrame /\ failing = FALSE
  /\ mpc = "loop" /\ popped = NoFrame /\ told = "none"
  /\ idles = 0 /\ idleFinish = FALSE
  /\ finished = FALSE /\ stitched = <<>> /\ full = FALSE /\ shown = "none"
  /\ taken = <<>> /\ outcome = "open"

Worker(label) == wpc' = label
Main(label)   == mpc' = label

Joined == wpc \in {"none", "ended"}    \* no capture thread, or it has ended
AtLoop == mpc = "loop"

---------------------------------------------------------------------------
(* The capture thread: capture_loop_with                                   *)

(* Hand over to the main loop, unless a callback is already on its way.    *)
Wake ==
  IF latch THEN Worker("sleep") /\ UNCHANGED latch
  ELSE Worker("notify") /\ latch' = TRUE

WorkerStarts ==
  /\ wpc = "start"
  /\ Worker(IF sampling THEN "first" ELSE "ended")
  /\ UNCHANGED <<session, queue, flags, held, failing, loop, state, ends>>

(* A grab succeeds; the frame gets the next sequence number, except that   *)
(* one that repeats `latest` takes none here, for nothing ever looks at it. *)
(* The very first one is thrown away when the backend needs a warm-up.     *)
Repeats(i) == latest # NoFrame /\ latest.image = i

GrabSucceeds(i) ==
  /\ wpc \in {"first", "grab"}
  /\ grabs' = IF Repeats(i) THEN grabs ELSE grabs + 1
  /\ grabs' <= MaxGrabs
  /\ IF wpc = "first" /\ discard
     THEN warmups' = 1 /\ Worker("sleep") /\ UNCHANGED held
     ELSE /\ held' = [seq |-> grabs', image |-> i]
          /\ Worker("commit")
          /\ UNCHANGED warmups
  /\ UNCHANGED <<session, frames, latest, notice, latch, limited, failures, flags,
                 failing, loop, state, ends>>

(* A failed or timed-out grab: counted, announced, retried.                *)
GrabFails ==
  /\ wpc \in {"first", "grab"}
  /\ failures' = TRUE
  /\ failing' = TRUE
  /\ notice' = "retrying"
  /\ Wake
  /\ UNCHANGED <<session, frames, latest, limited, grabs, warmups, flags, held, loop,
                 state, ends>>

GrabCancelled ==
  /\ wpc \in {"first", "grab"}
  /\ aborting \/ ~sampling
  /\ Worker("ended")
  /\ UNCHANGED <<session, queue, flags, held, failing, loop, state, ends>>

(* A frame beyond the limits: resource_limited is set, then sampling is    *)
(* cleared, then the main loop is woken without regard to the latch.       *)
GrabOversize ==
  /\ wpc \in {"first", "grab"}
  /\ limited' = TRUE
  /\ Worker("oversize")
  /\ UNCHANGED <<session, frames, latest, notice, latch, grabs, warmups, failures,
                 flags, held, failing, loop, state, ends>>

StopOversize ==
  /\ wpc = "oversize"
  /\ sampling' = FALSE
  /\ Worker("notifyLast")
  /\ UNCHANGED <<session, queue, aborting, held, failing, loop, state, ends>>

Room == Len(frames) < Capacity

(* The held frame goes to the queue while there is room and sampling goes  *)
(* on; once sampling has stopped it stays in `latest` only.                *)
Offer ==
  \/ /\ sampling /\ Room
     /\ frames' = Append(frames, held)
     /\ held' = NoFrame
     /\ Wake
  \/ sampling /\ ~Room /\ Worker("room") /\ UNCHANGED <<frames, latch, held>>
  \/ ~sampling /\ Worker("ended") /\ held' = NoFrame /\ UNCHANGED <<frames, latch>>

(* Mutation: a duplicate never wakes the main loop.                        *)
CommitSilently ==
  /\ wpc = "commit"
  /\ failing' = FALSE
  /\ notice' = IF failing THEN "resumed" ELSE notice
  /\ IF Repeats(held.image)
     THEN /\ Worker("sleep") /\ held' = NoFrame
          /\ UNCHANGED <<frames, latest, latch, taken>>
     ELSE latest' = held /\ taken' = Append(taken, held) /\ Offer
  /\ UNCHANGED <<session, limited, grabs, warmups, failures, flags, loop, state, outcome>>

(* One critical section: the duplicate test, `latest`, and the push.       *)
Commit ==
  /\ wpc = "commit"
  /\ failing' = FALSE
  /\ notice' = IF failing THEN "resumed" ELSE notice
  /\ IF Repeats(held.image)
     THEN /\ IF failing THEN Wake ELSE Worker("sleep") /\ UNCHANGED latch
          /\ held' = NoFrame
          /\ UNCHANGED <<frames, latest, taken>>
     ELSE /\ latest' = held
          /\ taken' = Append(taken, held)
          /\ Offer
  /\ UNCHANGED <<session, limited, grabs, warmups, failures, flags, loop, state, outcome>>

(* The wait on the condition variable re-examines both every 50 ms.        *)
RoomFound ==
  /\ wpc = "room"
  /\ ~sampling \/ Room
  /\ Offer
  /\ UNCHANGED <<session, latest, notice, limited, grabs, warmups, failures, flags,
                 failing, loop, state, ends>>

Notify ==
  /\ wpc \in {"notify", "notifyLast"}
  /\ idles' = idles + 1
  /\ Worker(IF wpc = "notify" THEN "sleep" ELSE "ended")
  /\ UNCHANGED <<session, queue, flags, held, failing, mpc, popped, told, idleFinish,
                 state, ends>>

WorkerWakes ==
  /\ wpc = "sleep"
  /\ Worker(IF sampling THEN "grab" ELSE "ended")
  /\ UNCHANGED <<session, queue, flags, held, failing, loop, state, ends>>

---------------------------------------------------------------------------
(* Ending a session: finish and fail_capture                               *)

(* on_done drops the recorder and quits the application.                   *)
Done(result) == outcome' = result /\ stage' = "over"

(* What every ending does first: later requests find `finished` set, the   *)
(* worker takes no new frame, and the panel is closed.                     *)
Stop == finished' = TRUE /\ sampling' = FALSE /\ panel' = "none"

(* finish(false) waits for the capture thread: nothing else runs on the    *)
(* main loop until the result is out.                                      *)
Finish ==
  IF finished THEN Main("loop") /\ UNCHANGED <<finished, sampling, panel>>
  ELSE Stop /\ Main("wait")

(* fail_capture stops and aborts at once, then joins the thread.           *)
Fail ==
  IF finished THEN UNCHANGED <<finished, sampling, aborting, panel, mpc>>
  ELSE Stop /\ aborting' = TRUE /\ Main("failed")

FinishWaits ==     \* FINAL_GRAB_WAIT passed: the grab in flight is aborted
  /\ mpc = "wait" /\ ~Joined
  /\ aborting' = TRUE
  /\ Main("join")
  /\ UNCHANGED <<session, queue, sampling, worker, popped, told, idles, idleFinish,
                 state, ends>>

WorkerJoined ==
  /\ mpc \in {"wait", "join"} /\ Joined
  /\ Main("drain")
  /\ UNCHANGED <<session, queue, flags, worker, popped, told, idles, idleFinish, state,
                 ends>>

(* State.process: a frame seen before is skipped, any other goes to the    *)
(* stitcher, whose canvas may then be full.                                *)
LastSeq(s) == IF s = <<>> THEN 0 ELSE s[Len(s)].seq

(* Mutation: a frame is stitched without a look at its number.             *)
FedAlways(s, f) == Append(s, f)

Fed(s, f) == IF f.seq > LastSeq(s) THEN Append(s, f) ELSE s

Process(f) ==
  /\ stitched' = Fed(stitched, f)
  /\ full' \in IF f.seq > LastSeq(stitched) THEN {full, TRUE} ELSE {full}

(* drain_pending: every frame still in the queue.                          *)
Drain ==
  /\ mpc = "drain" /\ frames # <<>>
  /\ frames' = Tail(frames)
  /\ Process(Head(frames))
  /\ UNCHANGED <<session, latest, notice, latch, limited, grabs, warmups, failures,
                 flags, worker, loop, finished, shown, ends>>

(* Mutation: the warm-up counts as a frame.                                *)
EmptySessionWarm == ~limited /\ ~full /\ ~failures /\ grabs = 0

EmptySession == ~limited /\ ~full /\ ~failures /\ grabs = warmups

(* Then `latest` if it never went through the queue, and flatten.  Without *)
(* a single frame there is no image, which is a cancellation if none was   *)
(* due.                                                                    *)
Deliver ==
  /\ mpc = "drain" /\ frames = <<>>
  /\ IF latest = NoFrame THEN UNCHANGED <<stitched, full>> ELSE Process(latest)
  /\ latest' = NoFrame
  /\ Done(IF stitched' # <<>> THEN "image"
          ELSE IF EmptySession THEN "cancelled" ELSE "failed")
  /\ Main("loop")
  /\ UNCHANGED <<managed, discard, armed, pending, requested, panel, frames, notice,
                 latch, limited, grabs, warmups, failures, flags, worker, popped, told,
                 idles, idleFinish, finished, shown, taken>>

FailDelivers ==
  /\ mpc = "failed" /\ Joined
  /\ Done("failed")
  /\ Main("loop")
  /\ UNCHANGED <<managed, discard, armed, pending, requested, panel, queue, flags,
                 worker, popped, told, idles, idleFinish, state, taken>>

---------------------------------------------------------------------------
(* The session: main.rs and the recorder's callbacks, all on the main loop *)

HasRecorder == stage \in {"settle", "running"}

(* The daemon's SIGUSR1.  It is dropped until the region is confirmed; once *)
(* the shot is over the process quits and nobody reads the flag.           *)
FinishSignal ==
  /\ stage # "over"
  /\ pending' = (pending \/ armed)
  /\ UNCHANGED <<managed, discard, stage, armed, requested, panel, queue, flags, worker,
                 loop, state, ends>>

ConfirmSelection ==
  /\ AtLoop /\ stage = "select"
  /\ armed' = TRUE
  /\ stage' = "handoff"
  /\ UNCHANGED <<managed, discard, pending, requested, panel, queue, flags, worker,
                 loop, state, ends>>

(* The overlay fails to open, or the selection is cancelled.               *)
AbandonSelection ==
  /\ AtLoop /\ stage = "select"
  /\ \E result \in {"cancelled", "failed"} : Done(result)
  /\ UNCHANGED <<managed, discard, armed, pending, requested, panel, queue, flags,
                 worker, loop, state, taken>>

(* The poll of the finish flag: to the recorder, or remembered for it.     *)
PollFinish ==
  /\ AtLoop /\ pending /\ stage # "over"
  /\ pending' = FALSE
  /\ IF HasRecorder THEN Finish /\ UNCHANGED requested
     ELSE requested' = TRUE /\ UNCHANGED <<finished, sampling, panel, mpc>>
  /\ UNCHANGED <<managed, discard, stage, armed, queue, aborting, worker, popped, told,
                 idles, idleFinish, stitched, full, shown, ends>>

(* Mutation: the request made during the handoff is forgotten.             *)
CreateRecorderForgets ==
  /\ AtLoop /\ stage = "handoff"
  /\ stage' = "settle"
  /\ panel' = "opening"
  /\ requested' = FALSE
  /\ UNCHANGED <<managed, discard, armed, pending, queue, flags, worker, loop, state, ends>>

(* 250 ms later: the recorder, its panel if there is room for one, and the *)
(* finish request that came in between.                                    *)
CreateRecorder ==
  /\ AtLoop /\ stage = "handoff"
  /\ stage' = "settle"
  /\ \/ panel' = "opening" /\ UNCHANGED <<finished, sampling, aborting, mpc>>
     \/ managed /\ UNCHANGED <<panel, finished, sampling, aborting, mpc>>
     \/ ~managed /\ Fail
  /\ requested' = FALSE
  /\ idleFinish' = requested
  /\ UNCHANGED <<managed, discard, armed, pending, queue, worker, popped, told, idles,
                 stitched, full, shown, ends>>

PanelMapped ==
  /\ AtLoop /\ panel = "opening"
  /\ panel' = "mapped"
  /\ UNCHANGED <<managed, discard, stage, armed, pending, requested, queue, flags,
                 worker, loop, state, ends>>

(* Mutation: only a panel that never came up is fatal.                     *)
PanelLostSpared ==
  /\ AtLoop /\ panel = "mapped"
  /\ panel' = "none"
  /\ UNCHANGED <<managed, discard, stage, armed, pending, requested, queue, flags,
                 worker, loop, state, ends>>

(* The panel goes away at any time: without the daemon nobody could finish. *)
PanelLost ==
  /\ AtLoop /\ panel = "mapped"
  /\ IF sampling /\ ~managed THEN Fail
     ELSE panel' = "none" /\ UNCHANGED <<finished, sampling, aborting, mpc>>
  /\ UNCHANGED <<managed, discard, stage, armed, pending, requested, queue, worker,
                 popped, told, idles, idleFinish, stitched, full, shown, ends>>

(* The panel is not mapped in time, or covers the region: close it and     *)
(* start later, or give up.                                                *)
HidePanel ==
  /\ AtLoop /\ stage = "settle" /\ panel # "none"
  /\ IF managed THEN panel' = "none" /\ UNCHANGED <<finished, sampling, aborting, mpc>>
     ELSE Fail
  /\ UNCHANGED <<managed, discard, stage, armed, pending, requested, queue, worker,
                 popped, told, idles, idleFinish, stitched, full, shown, ends>>

(* The panel stands where it should, or was given up: start the thread.    *)
MayStart == AtLoop /\ stage = "settle" /\ panel # "opening" /\ sampling

StartCapture ==
  /\ MayStart
  /\ stage' = "running"
  /\ Worker("start")
  /\ UNCHANGED <<managed, discard, armed, pending, requested, panel, queue, flags, held,
                 failing, loop, state, ends>>

SpawnFails ==
  /\ MayStart
  /\ Fail
  /\ UNCHANGED <<managed, discard, stage, armed, pending, requested, queue, worker,
                 popped, told, idles, idleFinish, stitched, full, shown, ends>>

(* Enter or the confirm button of the panel.                               *)
UserConfirms ==
  /\ AtLoop /\ HasRecorder /\ panel = "mapped"
  /\ Finish
  /\ UNCHANGED <<managed, discard, stage, armed, pending, requested, queue, aborting,
                 worker, popped, told, idles, idleFinish, stitched, full, shown, ends>>

(* finish(true): nothing is kept and nobody waits for the thread.          *)
UserCancels ==
  /\ AtLoop /\ HasRecorder /\ panel = "mapped" /\ ~finished
  /\ Stop /\ aborting' = TRUE
  /\ Done("cancelled")
  /\ UNCHANGED <<managed, discard, armed, pending, requested, queue, worker, loop,
                 stitched, full, shown, taken>>

(* The callback begin_longshot queued for an early finish request.         *)
IdleFinish ==
  /\ AtLoop /\ idleFinish
  /\ idleFinish' = FALSE
  /\ Finish
  /\ UNCHANGED <<managed, discard, stage, armed, pending, requested, queue, aborting,
                 worker, popped, told, idles, stitched, full, shown, ends>>

---------------------------------------------------------------------------
(* consume_pending: one frame and one notice for each callback             *)

(* Mutation: the latch is kept while the callback runs.                    *)
ConsumePopLatched ==
  /\ AtLoop /\ idles > 0 /\ stage = "running"
  /\ idles' = idles - 1
  /\ popped' = IF frames = <<>> THEN NoFrame ELSE Head(frames)
  /\ frames' = IF frames = <<>> THEN <<>> ELSE Tail(frames)
  /\ told' = notice /\ notice' = "none"
  /\ Main("process")
  /\ UNCHANGED <<session, latest, latch, limited, grabs, warmups, failures, flags, worker,
                 idleFinish, state, ends>>

ConsumePop ==
  /\ AtLoop /\ idles > 0 /\ stage = "running"
  /\ idles' = idles - 1
  /\ latch' = FALSE
  /\ popped' = IF frames = <<>> THEN NoFrame ELSE Head(frames)
  /\ frames' = IF frames = <<>> THEN <<>> ELSE Tail(frames)
  /\ told' = notice /\ notice' = "none"
  /\ Main("process")
  /\ UNCHANGED <<session, latest, limited, grabs, warmups, failures, flags, worker,
                 idleFinish, state, ends>>

(* The recorder is gone: the callback only releases the latch.             *)
ConsumeGone ==
  /\ AtLoop /\ idles > 0 /\ stage = "over"
  /\ idles' = idles - 1
  /\ latch' = FALSE
  /\ UNCHANGED <<session, frames, latest, notice, limited, grabs, warmups, failures,
                 flags, worker, mpc, popped, told, idleFinish, state, ends>>

(* State.process: one more frame may fill the canvas.                      *)
ConsumeProcess ==
  /\ mpc = "process"
  /\ Main("limited")
  /\ IF (sampling \/ limited) /\ popped # NoFrame
     THEN /\ Process(popped)
          /\ shown' = IF popped.seq > LastSeq(stitched) THEN "stitching" ELSE shown
     ELSE UNCHANGED <<stitched, shown, full>>
  /\ popped' = NoFrame
  /\ UNCHANGED <<session, queue, flags, worker, told, idles, idleFinish, finished,
                 ends>>

(* A limit ends the session; otherwise the notice is shown, a retry only   *)
(* when it timed out or was not the first.                                 *)
ConsumeLimited ==
  /\ mpc = "limited"
  /\ IF limited \/ full THEN Finish /\ UNCHANGED shown
     ELSE /\ Main("more")
          /\ shown' \in CASE told = "none" -> {shown}
                          [] told = "retrying" -> {shown, "retrying"}
                          [] told = "resumed" -> {"resumed"}
          /\ UNCHANGED <<finished, sampling, panel>>
  /\ told' = "none"
  /\ UNCHANGED <<managed, discard, stage, armed, pending, requested, queue, aborting,
                 worker, popped, idles, idleFinish, stitched, full, ends>>

(* One callback handles one frame: what is left needs another.             *)
MoreLeft == (frames # <<>> \/ notice # "none") /\ ~latch /\ sampling

ConsumeMore ==
  /\ mpc = "more"
  /\ Main("loop")
  /\ latch' = (latch \/ MoreLeft)
  /\ idles' = idles + (IF MoreLeft THEN 1 ELSE 0)
  /\ UNCHANGED <<session, frames, latest, notice, limited, grabs, warmups, failures,
                 flags, worker, popped, told, idleFinish, state, ends>>

---------------------------------------------------------------------------

Grab == GrabFails \/ GrabCancelled \/ GrabOversize \/ \E i \in Image : GrabSucceeds(i)

WorkerNext ==
  WorkerStarts \/ Grab \/ StopOversize \/ Commit \/ RoomFound \/ Notify \/ WorkerWakes

Consume ==
  ConsumePop \/ ConsumeGone \/ ConsumeProcess \/ ConsumeLimited \/ ConsumeMore

Ending == FinishWaits \/ WorkerJoined \/ Drain \/ Deliver \/ FailDelivers

SessionNext ==
  FinishSignal \/ ConfirmSelection \/ AbandonSelection \/ PollFinish \/ CreateRecorder
    \/ PanelMapped \/ PanelLost \/ HidePanel \/ StartCapture \/ SpawnFails
    \/ UserConfirms \/ UserCancels \/ IdleFinish

Next == WorkerNext \/ Consume \/ Ending \/ SessionNext

Spec == Init /\ [][Next]_vars

(* The thread runs; a grab returns, for every backend has a hard deadline; *)
(* and an ending goes on.  GLib dispatches each timer and queued callback  *)
(* in turn, though others come in between: hence strong fairness.  The     *)
(* user, the signal and the panel owe nothing.                             *)
Fairness ==
  /\ WF_vars(WorkerNext)
  /\ WF_vars(ConsumeProcess \/ ConsumeLimited \/ ConsumeMore) /\ WF_vars(Ending)
  /\ SF_vars(ConsumePop) /\ SF_vars(PollFinish) /\ SF_vars(IdleFinish)
  /\ WF_vars(CreateRecorder)

FairSpec == Spec /\ Fairness

---------------------------------------------------------------------------
(* Properties *)

SessionType ==
  /\ managed \in BOOLEAN /\ discard \in BOOLEAN
  /\ stage \in {"select", "handoff", "settle", "running", "over"}
  /\ armed \in BOOLEAN /\ pending \in BOOLEAN /\ requested \in BOOLEAN
  /\ panel \in {"none", "opening", "mapped"}

QueueType ==
  /\ frames \in Seq(Frame) /\ Len(frames) <= Capacity
  /\ latest \in Frame \cup {NoFrame}
  /\ notice \in {"none", "retrying", "resumed"} /\ latch \in BOOLEAN
  /\ limited \in BOOLEAN /\ failures \in BOOLEAN
  /\ grabs \in 0..MaxGrabs /\ warmups \in 0..1
  /\ sampling \in BOOLEAN /\ aborting \in BOOLEAN

WorkerType ==
  /\ wpc \in {"none", "start", "first", "grab", "commit", "room", "notify", "oversize",
              "notifyLast", "sleep", "ended"}
  /\ held \in Frame \cup {NoFrame} /\ failing \in BOOLEAN

LoopType ==
  /\ mpc \in {"loop", "process", "limited", "more", "wait", "join", "drain", "failed"}
  /\ popped \in Frame \cup {NoFrame} /\ told \in {"none", "retrying", "resumed"}
  /\ idles \in Nat /\ idleFinish \in BOOLEAN

StateType ==
  /\ finished \in BOOLEAN /\ full \in BOOLEAN
  /\ stitched \in Seq(Frame) /\ taken \in Seq(Frame)
  /\ shown \in {"none", "stitching", "retrying", "resumed"}
  /\ outcome \in {"open", "image", "cancelled", "failed"}

TypeOK == SessionType /\ QueueType /\ WorkerType /\ LoopType /\ StateType

(* While the shot goes on, a frame or a notice in the queue is never left  *)
(* without somebody about to look at it: a callback is queued, or is still *)
(* to ask for more, or the worker is about to queue one (idle_queued,      *)
(* recorder.rs:1982).                                                      *)
Attended == idles > 0 \/ wpc = "notify" \/ mpc \in {"process", "limited", "more"}

NoLostWakeup ==
  sampling /\ (frames # <<>> \/ notice # "none") => Attended

(* A shot the daemon cannot finish is never recorded without a panel to    *)
(* finish it with (missing_panel_action).                                  *)
Controllable ==
  stage = "running" /\ ~managed /\ sampling => panel = "mapped"

(* Finishing with a frame taken delivers an image; with none it is a       *)
(* cancellation, and called a failure only when something did fail.        *)
FinishResult ==
  mpc = "drain" /\ outcome' # outcome =>
    IF taken # <<>> THEN outcome' = "image"
    ELSE outcome' = (IF failures \/ limited THEN "failed" ELSE "cancelled")
FinishKeepsFrames == [][FinishResult]_vars

(* The frames taken, those given to the stitcher and what is delivered     *)
(* implement Recording: none is skipped, repeated or out of order.         *)
Promise == INSTANCE Recording
StitchedInOrder == Promise!Spec

(* A finish request that was accepted ends the shot: however early it      *)
(* comes, whether or not the panel, the worker or the backend answers.     *)
FinishHonoured ==
  pending \/ requested \/ idleFinish ~> outcome # "open"

(* Every frame taken reaches the stitcher or the shot is over, though the  *)
(* callbacks take one frame each and the worker waits for room.            *)
FramesStitched ==
  \A n \in 1..MaxGrabs : Len(taken) >= n ~> Len(stitched) >= n \/ outcome # "open"

(* The panel does not say "reconnecting" for ever once grabs succeed       *)
(* again.                                                                  *)
RetryCleared ==
  shown = "retrying" ~> shown # "retrying" \/ failing \/ outcome # "open"

---------------------------------------------------------------------------
(* The inductive invariant behind the safety properties                    *)

Consuming == mpc \in {"process", "limited", "more"}
Closing   == mpc \in {"wait", "join", "drain", "failed"}

(* Where the two threads can be together: the shot is over once and for    *)
(* all, sampling stops only for an ending or a limit, and the worker has   *)
(* ended before the queue is drained.                                      *)
ControlInv ==
  /\ stage = "over" <=> outcome # "open"
  /\ mpc # "loop" => stage # "over"
  /\ Consuming => stage = "running" /\ ~finished
  /\ Closing => finished /\ stage \in {"settle", "running"}
  /\ mpc = "loop" /\ stage # "over" => ~finished
  /\ sampling => ~finished /\ ~aborting
  /\ ~sampling => finished \/ (limited /\ wpc \in {"notifyLast", "ended"})
  /\ wpc \in {"notifyLast", "ended"} => ~sampling
  /\ limited => wpc \in {"oversize", "notifyLast", "ended"}
  /\ wpc \in {"oversize", "notifyLast"} => limited
  /\ stage \in {"select", "handoff", "settle"} => wpc = "none"
  /\ stage = "running" => wpc # "none"
  /\ stage = "over" /\ sampling => wpc = "none"
  /\ wpc = "none" => idles = 0
  /\ mpc = "drain" \/ outcome = "image" => Joined
  /\ popped # NoFrame => mpc = "process"
  /\ panel # "none" => HasRecorder /\ ~finished
  /\ idleFinish => HasRecorder \/ finished

(* The latch is up only if a callback is queued or about to be.            *)
WakeInv ==
  /\ latch => idles > 0 \/ wpc = "notify"
  /\ NoLostWakeup

PanelInv ==
  /\ stage = "settle" /\ ~managed /\ sampling => panel # "none"
  /\ Controllable

(* Frames before the one in the main loop's hands, and on their way.       *)
InHand == IF popped # NoFrame THEN 1 ELSE 0
Sent   == Len(stitched) + InHand + Len(frames)

(* The frames taken lie along the way in order: stitched, in the main      *)
(* loop's hands, queued, and at most one known to `latest` alone.          *)
OrderInv ==
  /\ \A i, j \in 1..Len(taken) : i < j => taken[i].seq < taken[j].seq
  /\ Len(taken) \in {Sent, Sent + 1}
  /\ wpc \notin {"room", "ended"} => Len(taken) = Sent
  /\ wpc = "room" => Len(taken) = Sent + 1 /\ held = latest
  /\ \A i \in 1..Len(stitched) : stitched[i] = taken[i]
  /\ popped # NoFrame => popped = taken[Len(stitched) + 1]
  /\ \A i \in 1..Len(frames) : frames[i] = taken[Len(stitched) + InHand + i]
  /\ latest = IF taken = <<>> THEN NoFrame ELSE taken[Len(taken)]

(* What the worker holds is newer than what it took before.                *)
HeldInv ==
  /\ wpc \in {"commit", "room"} => held # NoFrame
  /\ wpc = "commit" => held.seq <= grabs
  /\ latest # NoFrame => latest.seq <= grabs
  /\ wpc = "commit" /\ latest # NoFrame => Repeats(held.image) \/ held.seq > latest.seq
  /\ wpc \in {"none", "start", "first"} => grabs = 0 /\ warmups = 0 /\ latest = NoFrame

(* A grab that was no warm-up becomes a frame taken; only frames fill the  *)
(* canvas.                                                                 *)
CountInv ==
  /\ grabs = warmups \/ taken # <<>> \/ wpc = "commit"
  /\ full => stitched # <<>>

IndInv ==
  /\ TypeOK /\ ControlInv /\ WakeInv /\ PanelInv /\ HeldInv
  /\ outcome = "open" => OrderInv /\ CountInv
=============================================================================
