--------------------------- MODULE LongShotProofs ---------------------------
(***************************************************************************)
(* Proofs about LongShot, for any set of images, any capacity of the queue *)
(* and any number of grabs: the inductive invariant, the safety properties *)
(* it implies, and the implementation of Recording.                        *)
(***************************************************************************)
EXTENDS LongShot, SequenceTheorems, TLAPS

USE CapacityAssumption, GrabsAssumption
USE DEF Worker, Main, AtLoop

LEMMA NoFrameIsNone == NoFrame \notin Frame
  BY DEF NoFrame, Frame

---------------------------------------------------------------------------
(* Type correctness, one group of variables at a time                      *)

LEMMA SessionTypeStep == ASSUME TypeOK, Next PROVE SessionType'
<1> USE DEF TypeOK, SessionType, session
<1>1. CASE WorkerNext
  BY <1>1 DEF WorkerNext, Grab, WorkerStarts, GrabSucceeds, GrabFails, GrabCancelled,
    GrabOversize, StopOversize, Commit, RoomFound, Notify, WorkerWakes
<1>2. CASE Consume \/ Ending
  BY <1>2 DEF Consume, Ending, ConsumePop, ConsumeGone, ConsumeProcess, ConsumeLimited,
    ConsumeMore, FinishWaits, WorkerJoined, Drain, Deliver, FailDelivers, Done, Finish,
    Stop
<1>3. CASE FinishSignal \/ ConfirmSelection \/ AbandonSelection \/ PanelMapped
           \/ StartCapture \/ UserConfirms \/ UserCancels \/ IdleFinish
  BY <1>3 DEF FinishSignal, ConfirmSelection, AbandonSelection, PanelMapped,
    StartCapture, UserConfirms, UserCancels, IdleFinish, Done, Finish, Stop
<1>4. CASE PollFinish \/ PanelLost \/ HidePanel \/ SpawnFails
  BY <1>4 DEF PollFinish, PanelLost, HidePanel, SpawnFails, Finish, Fail, Stop
<1>5. CASE CreateRecorder
  BY <1>5 DEF CreateRecorder, Fail, Stop
<1> QED
  BY <1>1, <1>2, <1>3, <1>4, <1>5 DEF Next, SessionNext

LEMMA LoopTypeStep == ASSUME TypeOK, Next PROVE LoopType'
<1> USE DEF TypeOK, LoopType, loop
<1>1. CASE WorkerNext
  BY <1>1 DEF WorkerNext, Grab, WorkerStarts, GrabSucceeds, GrabFails, GrabCancelled,
    GrabOversize, StopOversize, Commit, RoomFound, Notify, WorkerWakes
<1>2. CASE Consume \/ Ending
  BY <1>2 DEF Consume, Ending, ConsumePop, ConsumeGone, ConsumeProcess, ConsumeLimited,
    ConsumeMore, FinishWaits, WorkerJoined, Drain, Deliver, FailDelivers, Finish,
    QueueType
<1>3. CASE SessionNext
  BY <1>3 DEF SessionNext, FinishSignal, ConfirmSelection, AbandonSelection, PollFinish,
    CreateRecorder, PanelMapped, PanelLost, HidePanel, StartCapture, SpawnFails,
    UserConfirms, UserCancels, IdleFinish, Finish, Fail, SessionType
<1> QED
  BY <1>1, <1>2, <1>3 DEF Next

(* A held frame stays a frame on its way to the queue.                     *)
LEMMA OfferType ==
  ASSUME TypeOK, held \in Frame, Offer
  PROVE  /\ frames' \in Seq(Frame) /\ Len(frames') <= Capacity
         /\ latch' \in BOOLEAN
         /\ held' \in Frame \cup {NoFrame}
         /\ wpc' \in {"sleep", "notify", "room", "ended"}
<1> USE DEF TypeOK, QueueType
<1>1. CASE sampling /\ Room /\ frames' = Append(frames, held) /\ held' = NoFrame /\ Wake
  <2>1. frames' \in Seq(Frame)
    BY <1>1
  <2>2. Len(frames') <= Capacity
    BY <1>1 DEF Room
  <2>3. latch' \in BOOLEAN /\ wpc' \in {"sleep", "notify"}
    BY <1>1 DEF Wake
  <2> QED
    BY <1>1, <2>1, <2>2, <2>3
<1>2. CASE UNCHANGED <<frames, latch>> /\ held' \in {held, NoFrame}
           /\ wpc' \in {"room", "ended"}
  BY <1>2
<1> QED
  BY <1>1, <1>2 DEF Offer

LEMMA HeldFrame ==
  ASSUME TypeOK, HeldInv, wpc \in {"commit", "room"}
  PROVE  held \in Frame
  BY DEF TypeOK, WorkerType, HeldInv

LEMMA CommitType ==
  ASSUME TypeOK, HeldInv, Commit
  PROVE  QueueType' /\ WorkerType' /\ taken' \in Seq(Frame)
<1> USE DEF TypeOK, QueueType, WorkerType, StateType
<1>1. held \in Frame
  BY HeldFrame DEF Commit
<1>2. notice' \in {"none", "retrying", "resumed"} /\ failing' \in BOOLEAN
      /\ UNCHANGED <<limited, failures, grabs, warmups, sampling, aborting>>
  BY DEF Commit, flags
<1>3. CASE Repeats(held.image)
  <2>1. UNCHANGED <<frames, latest, taken>> /\ held' = NoFrame
    BY <1>3 DEF Commit
  <2>2. wpc' \in {"sleep", "notify"} /\ latch' \in BOOLEAN
    BY <1>3 DEF Commit, Wake
  <2> QED
    BY <1>2, <2>1, <2>2
<1>4. CASE ~Repeats(held.image)
  <2>1. latest' = held /\ taken' = Append(taken, held) /\ Offer
    BY <1>4 DEF Commit
  <2>2. taken' \in Seq(Frame)
    BY <1>1, <2>1
  <2> QED
    BY <1>1, <1>2, <2>1, <2>2, OfferType
<1> QED
  BY <1>3, <1>4

LEMMA RoomType ==
  ASSUME TypeOK, HeldInv, RoomFound
  PROVE  QueueType' /\ WorkerType'
<1>1. held \in Frame /\ Offer
  BY HeldFrame DEF RoomFound
<1>2. UNCHANGED <<latest, notice, limited, grabs, warmups, failures, sampling, aborting,
                  failing>>
  BY DEF RoomFound, flags
<1> QED
  BY <1>1, <1>2, OfferType DEF TypeOK, QueueType, WorkerType

(* A repeated frame takes the number of an earlier one.                    *)
LEMMA GrabType ==
  ASSUME TypeOK, HeldInv, NEW i \in Image, GrabSucceeds(i)
  PROVE  QueueType' /\ WorkerType'
<1> USE DEF TypeOK, QueueType, WorkerType
<1>1. Repeats(i) => grabs >= 1
  BY NoFrameIsNone DEF Repeats, HeldInv, Frame
<1>2. grabs' \in 0..MaxGrabs /\ (grabs' # grabs => grabs' >= 1)
  BY DEF GrabSucceeds
<1>3. grabs' >= 1
  BY <1>1, <1>2 DEF GrabSucceeds
<1>4. held' \in Frame \cup {NoFrame}
  BY <1>2, <1>3 DEF GrabSucceeds, Frame
<1> QED
  BY <1>2, <1>4 DEF GrabSucceeds, flags

LEMMA QueueTypeStep == ASSUME TypeOK, HeldInv, Next PROVE QueueType'
<1> USE DEF TypeOK, QueueType
<1>1. CASE WorkerStarts \/ GrabFails \/ GrabCancelled \/ GrabOversize \/ StopOversize
           \/ Notify \/ WorkerWakes
  BY <1>1 DEF WorkerStarts, GrabFails, GrabCancelled, GrabOversize, StopOversize,
    Notify, WorkerWakes, Wake, queue, flags
<1>2. CASE ConsumePop \/ Drain
  <2>1. frames' \in Seq(Frame) /\ Len(frames') <= Capacity
    BY <1>2 DEF ConsumePop, Drain
  <2> QED
    BY <1>2, <2>1 DEF ConsumePop, Drain, flags
<1>3. CASE ConsumeGone \/ ConsumeProcess \/ ConsumeLimited \/ ConsumeMore
  BY <1>3 DEF ConsumeGone, ConsumeProcess, ConsumeLimited, ConsumeMore, Finish, Stop,
    MoreLeft, queue, flags
<1>4. CASE FinishWaits \/ WorkerJoined \/ Deliver \/ FailDelivers
  BY <1>4 DEF FinishWaits, WorkerJoined, Deliver, FailDelivers, queue, flags
<1>5. CASE FinishSignal \/ ConfirmSelection \/ AbandonSelection \/ PollFinish
           \/ CreateRecorder
  BY <1>5 DEF FinishSignal, ConfirmSelection, AbandonSelection, PollFinish,
    CreateRecorder, Finish, Fail, Stop, queue, flags
<1>6. CASE PanelMapped \/ PanelLost \/ HidePanel \/ StartCapture \/ SpawnFails
  BY <1>6 DEF PanelMapped, PanelLost, HidePanel, StartCapture, SpawnFails, Fail, Stop,
    queue, flags
<1>7. CASE UserConfirms \/ UserCancels \/ IdleFinish
  BY <1>7 DEF UserConfirms, UserCancels, IdleFinish, Finish, Stop, queue, flags
<1>8. CASE SessionNext
  BY <1>5, <1>6, <1>7, <1>8 DEF SessionNext
<1> QED
  BY <1>1, <1>2, <1>3, <1>4, <1>8, CommitType, RoomType, GrabType
  DEF Next, WorkerNext, Grab, Consume, Ending

LEMMA WorkerTypeStep == ASSUME TypeOK, HeldInv, Next PROVE WorkerType'
<1> USE DEF TypeOK, WorkerType
<1>1. CASE WorkerStarts \/ GrabFails \/ GrabCancelled \/ GrabOversize \/ StopOversize
           \/ Notify \/ WorkerWakes
  BY <1>1 DEF WorkerStarts, GrabFails, GrabCancelled, GrabOversize, StopOversize,
    Notify, WorkerWakes, Wake
<1>2. CASE Consume \/ Ending
  BY <1>2 DEF Consume, ConsumePop, ConsumeGone, ConsumeProcess, ConsumeLimited,
    ConsumeMore, Ending, FinishWaits, WorkerJoined, Drain, Deliver, FailDelivers, worker
<1>3. CASE SessionNext
  BY <1>3 DEF SessionNext, FinishSignal, ConfirmSelection, AbandonSelection, PollFinish,
    CreateRecorder, PanelMapped, PanelLost, HidePanel, StartCapture, SpawnFails,
    UserConfirms, UserCancels, IdleFinish, worker
<1> QED
  BY <1>1, <1>2, <1>3, CommitType, RoomType, GrabType DEF Next, WorkerNext, Grab

LEMMA ProcessType ==
  ASSUME TypeOK, NEW f \in Frame, Process(f)
  PROVE  stitched' \in Seq(Frame) /\ full' \in BOOLEAN
<1>1. stitched' \in Seq(Frame)
  BY DEF TypeOK, StateType, Process, Fed
<1>2. full' \in BOOLEAN
  BY DEF TypeOK, StateType, Process
<1> QED
  BY <1>1, <1>2

LEMMA StateTypeStep == ASSUME TypeOK, HeldInv, Next PROVE StateType'
<1> USE DEF TypeOK, StateType
<1>1. CASE WorkerNext /\ ~Commit
  BY <1>1 DEF WorkerNext, Grab, WorkerStarts, GrabSucceeds, GrabFails, GrabCancelled,
    GrabOversize, StopOversize, RoomFound, Notify, WorkerWakes, state, ends
<1>2. CASE Commit
  BY <1>2, CommitType DEF Commit, state
<1>3. CASE ConsumeProcess
  <2>1. CASE popped # NoFrame /\ Process(popped)
    <3>1. popped \in Frame
      BY <2>1 DEF LoopType
    <3> QED
      BY <1>3, <2>1, <3>1, ProcessType DEF ConsumeProcess, ends
  <2>2. CASE UNCHANGED <<stitched, shown, full>>
    BY <1>3, <2>2 DEF ConsumeProcess, ends
  <2> QED
    BY <1>3, <2>1, <2>2 DEF ConsumeProcess
<1>4. CASE Drain
  <2>1. Head(frames) \in Frame
    BY <1>4 DEF Drain, QueueType
  <2> QED
    BY <1>4, <2>1, ProcessType DEF Drain, ends
<1>5. CASE Deliver
  <2>1. stitched' \in Seq(Frame) /\ full' \in BOOLEAN
    BY <1>5, ProcessType DEF Deliver, QueueType
  <2> QED
    BY <1>5, <2>1 DEF Deliver, Done
<1>6. CASE ConsumePop \/ ConsumeGone \/ ConsumeLimited \/ ConsumeMore
  BY <1>6 DEF ConsumePop, ConsumeGone, ConsumeLimited, ConsumeMore, Finish, Stop,
    LoopType, state, ends
<1>7. CASE FinishWaits \/ WorkerJoined \/ FailDelivers
  BY <1>7 DEF FinishWaits, WorkerJoined, FailDelivers, Done, state, ends
<1>8. CASE SessionNext
  BY <1>8 DEF SessionNext, FinishSignal, ConfirmSelection, AbandonSelection, PollFinish,
    CreateRecorder, PanelMapped, PanelLost, HidePanel, StartCapture, SpawnFails,
    UserConfirms, UserCancels, IdleFinish, Done, Finish, Fail, Stop, state, ends
<1> QED
  BY <1>1, <1>2, <1>3, <1>4, <1>5, <1>6, <1>7, <1>8 DEF Next, Consume, Ending

LEMMA TypeStep == ASSUME TypeOK, HeldInv, Next PROVE TypeOK'
  BY SessionTypeStep, LoopTypeStep, QueueTypeStep, WorkerTypeStep, StateTypeStep
  DEF TypeOK

---------------------------------------------------------------------------
(* The two threads together                                                *)

LEMMA ControlStep ==
  ASSUME TypeOK, ControlInv, Next
  PROVE  ControlInv'
<1> USE DEF ControlInv, Consuming, Closing, Joined, HasRecorder
<1> USE DEF session, queue, flags, worker, loop, state, ends
<1>0. sampling \in BOOLEAN /\ finished \in BOOLEAN /\ limited \in BOOLEAN
      /\ aborting \in BOOLEAN
  BY DEF TypeOK, QueueType, StateType
<1>1. CASE WorkerStarts
  BY <1>0, <1>1 DEF WorkerStarts
<1>17. CASE WorkerWakes
  BY <1>0, <1>17 DEF WorkerWakes
<1>18. CASE Notify
  BY <1>0, <1>18 DEF Notify
<1>2. ASSUME NEW i \in Image, GrabSucceeds(i) PROVE ControlInv'
  BY <1>0, <1>2 DEF GrabSucceeds
<1>3. CASE GrabFails
  BY <1>0, <1>3 DEF GrabFails, Wake
<1>4. CASE GrabCancelled
  BY <1>0, <1>4 DEF GrabCancelled
<1>5. CASE GrabOversize \/ StopOversize
  BY <1>0, <1>5 DEF GrabOversize, StopOversize
<1>6. CASE Commit
  BY <1>0, <1>6 DEF Commit, Offer, Wake
<1>7. CASE RoomFound
  BY <1>0, <1>7 DEF RoomFound, Offer, Wake
<1>8. CASE ConsumePop \/ ConsumeGone \/ ConsumeProcess \/ ConsumeMore
  BY <1>0, <1>8 DEF ConsumePop, ConsumeGone, ConsumeProcess, ConsumeMore
<1>9. CASE ConsumeLimited
  BY <1>0, <1>9 DEF ConsumeLimited, Finish, Stop
<1>10. CASE FinishWaits \/ WorkerJoined \/ Drain
  BY <1>0, <1>10 DEF FinishWaits, WorkerJoined, Drain
<1>11. CASE Deliver \/ FailDelivers
  BY <1>0, <1>11 DEF Deliver, FailDelivers, Done
<1>12. CASE FinishSignal \/ ConfirmSelection \/ AbandonSelection \/ PanelMapped
            \/ StartCapture
  BY <1>0, <1>12 DEF FinishSignal, ConfirmSelection, AbandonSelection, PanelMapped,
    StartCapture, MayStart, Done
<1>13. CASE UserConfirms \/ IdleFinish
  BY <1>0, <1>13 DEF UserConfirms, IdleFinish, Finish, Stop
<1>19. CASE PollFinish
  BY <1>0, <1>19 DEF PollFinish, Finish, Stop
<1>14. CASE CreateRecorder
  BY <1>0, <1>14 DEF CreateRecorder, Fail, Stop
<1>15. CASE PanelLost
  BY <1>0, <1>15 DEF PanelLost, Fail, Stop
<1>20. CASE HidePanel \/ SpawnFails
  BY <1>0, <1>20 DEF HidePanel, SpawnFails, MayStart, Fail, Stop
<1>16. CASE UserCancels
  BY <1>0, <1>16 DEF UserCancels, Stop, Done
<1> HIDE DEF ControlInv
<1> QED
  BY <1>1, <1>2, <1>3, <1>4, <1>5, <1>6, <1>7, <1>8, <1>9, <1>10, <1>11, <1>12, <1>13,
     <1>14, <1>15, <1>16, <1>17, <1>18, <1>19, <1>20
  DEF Next, WorkerNext, Grab, Consume, Ending, SessionNext

LEMMA WakeStep ==
  ASSUME TypeOK, ControlInv, WakeInv, Next
  PROVE  WakeInv'
<1> USE DEF WakeInv, NoLostWakeup, Attended
<1> USE DEF session, queue, flags, worker, loop, state, ends
<1>0. sampling \in BOOLEAN /\ latch \in BOOLEAN /\ idles \in Nat
  BY DEF TypeOK, QueueType, LoopType
<1>1. CASE WorkerStarts \/ WorkerWakes \/ Notify
  BY <1>0, <1>1 DEF WorkerStarts, WorkerWakes, Notify
<1>2. ASSUME NEW i \in Image, GrabSucceeds(i) PROVE WakeInv'
  BY <1>0, <1>2 DEF GrabSucceeds
<1>3. CASE GrabFails
  BY <1>0, <1>3 DEF GrabFails, Wake
<1>4. CASE GrabCancelled \/ GrabOversize \/ StopOversize
  BY <1>0, <1>4 DEF GrabCancelled, GrabOversize, StopOversize
<1>6. CASE Commit
  <2>1. CASE Repeats(held.image)
    BY <1>0, <1>6, <2>1 DEF Commit, Wake
  <2>2. CASE ~Repeats(held.image)
    <3>1. Offer /\ UNCHANGED <<sampling, idles, mpc>>
      BY <1>6, <2>2 DEF Commit
    <3>2. CASE ~sampling
      BY <1>0, <1>6, <3>1, <3>2 DEF Commit, Offer
    <3>3. CASE wpc' = "room"
      <4>1. ~Room /\ UNCHANGED <<frames, latch>>
        BY <3>1, <3>3 DEF Offer, Wake
      <4>2. frames # <<>>
        BY <4>1 DEF Room
      <4> QED
        BY <1>0, <1>6, <3>1, <3>3, <4>1, <4>2 DEF Commit
    <3>4. CASE Wake
      BY <1>0, <1>6, <3>1, <3>4 DEF Commit, Wake
    <3> QED
      BY <1>0, <3>1, <3>2, <3>3, <3>4 DEF Offer
  <2> QED
    BY <2>1, <2>2
<1>7. CASE RoomFound
  BY <1>0, <1>7 DEF RoomFound, Offer, Wake
<1>8. CASE ConsumePop \/ ConsumeGone \/ ConsumeProcess
  BY <1>0, <1>8 DEF ConsumePop, ConsumeGone, ConsumeProcess, ControlInv, Consuming
<1>17. CASE ConsumeMore
  BY <1>0, <1>17 DEF ConsumeMore, MoreLeft
<1>9. CASE ConsumeLimited
  BY <1>0, <1>9 DEF ConsumeLimited, Finish, Stop, ControlInv, Consuming
<1>10. CASE Ending
  BY <1>0, <1>10 DEF Ending, FinishWaits, WorkerJoined, Drain, Deliver, FailDelivers,
    ControlInv, Closing
<1>12. CASE FinishSignal \/ ConfirmSelection \/ AbandonSelection \/ PanelMapped
  BY <1>0, <1>12 DEF FinishSignal, ConfirmSelection, AbandonSelection, PanelMapped
<1>13. CASE PollFinish \/ UserConfirms \/ IdleFinish
  BY <1>0, <1>13 DEF PollFinish, UserConfirms, IdleFinish, Finish, Stop
<1>14. CASE CreateRecorder
  BY <1>0, <1>14 DEF CreateRecorder, Fail, Stop
<1>15. CASE PanelLost \/ HidePanel \/ SpawnFails
  BY <1>0, <1>15 DEF PanelLost, HidePanel, SpawnFails, Fail, Stop
<1>16. CASE StartCapture \/ UserCancels
  BY <1>0, <1>16 DEF StartCapture, MayStart, UserCancels, Stop, ControlInv
<1> HIDE DEF WakeInv
<1> QED
  BY <1>1, <1>2, <1>3, <1>4, <1>6, <1>7, <1>8, <1>9, <1>10, <1>12, <1>13, <1>14, <1>15,
     <1>16, <1>17
  DEF Next, WorkerNext, Grab, Consume, SessionNext

LEMMA PanelStep ==
  ASSUME TypeOK, ControlInv, PanelInv, Next
  PROVE  PanelInv'
<1> USE DEF PanelInv, Controllable
<1> USE DEF session, queue, flags
<1>0. sampling \in BOOLEAN /\ managed \in BOOLEAN
  BY DEF TypeOK, QueueType, SessionType
<1>1. CASE WorkerNext
  BY <1>0, <1>1 DEF WorkerNext, Grab, WorkerStarts, GrabSucceeds, GrabFails,
    GrabCancelled, GrabOversize, StopOversize, Commit, RoomFound, Notify, WorkerWakes
<1>2. CASE Consume
  BY <1>0, <1>2 DEF Consume, ConsumePop, ConsumeGone, ConsumeProcess, ConsumeLimited,
    ConsumeMore, Finish, Stop
<1>3. CASE Ending
  BY <1>0, <1>3 DEF Ending, FinishWaits, WorkerJoined, Drain, Deliver, FailDelivers, Done
<1>4. CASE FinishSignal \/ ConfirmSelection \/ AbandonSelection \/ PanelMapped
           \/ StartCapture \/ UserCancels
  BY <1>0, <1>4 DEF FinishSignal, ConfirmSelection, AbandonSelection, PanelMapped,
    StartCapture, MayStart, UserCancels, Stop, Done, SessionType, TypeOK
<1>5. CASE PollFinish \/ UserConfirms \/ IdleFinish
  BY <1>0, <1>5 DEF PollFinish, UserConfirms, IdleFinish, Finish, Stop
<1>6. CASE CreateRecorder
  BY <1>0, <1>6 DEF CreateRecorder, Fail, Stop, ControlInv
<1>7. CASE PanelLost \/ HidePanel \/ SpawnFails
  BY <1>0, <1>7 DEF PanelLost, HidePanel, SpawnFails, MayStart, Fail, Stop, ControlInv
<1> HIDE DEF PanelInv
<1> QED
  BY <1>1, <1>2, <1>3, <1>4, <1>5, <1>6, <1>7 DEF Next, SessionNext

LEMMA HeldStep ==
  ASSUME TypeOK, ControlInv, HeldInv, Next
  PROVE  HeldInv'
<1> USE DEF HeldInv, Repeats
<1> USE DEF queue, worker
<1>0. sampling \in BOOLEAN /\ failing \in BOOLEAN /\ grabs \in Nat /\ discard \in BOOLEAN
  BY DEF TypeOK, QueueType, WorkerType, SessionType
<1>1. CASE WorkerStarts \/ WorkerWakes \/ Notify \/ GrabCancelled \/ GrabOversize
           \/ StopOversize
  BY <1>0, <1>1 DEF WorkerStarts, WorkerWakes, Notify, GrabCancelled, GrabOversize,
    StopOversize
<1>2. ASSUME NEW i \in Image, GrabSucceeds(i) PROVE HeldInv'
  <2>1. grabs' \in Nat /\ grabs' >= grabs /\ (latest = NoFrame => grabs' = grabs + 1)
    BY <1>0, <1>2 DEF GrabSucceeds
  <2>2. CASE wpc = "first" /\ discard
    BY <1>0, <1>2, <2>1, <2>2 DEF GrabSucceeds
  <2>3. CASE ~(wpc = "first" /\ discard)
    <3>1. held' = [seq |-> grabs', image |-> i] /\ wpc' = "commit" /\ latest' = latest
      BY <1>2, <2>3 DEF GrabSucceeds
    <3>2. held'.seq = grabs' /\ held'.image = i /\ held' # NoFrame
      BY <3>1 DEF NoFrame
    <3>3. latest # NoFrame => latest.image = i \/ grabs' > latest.seq
      <4>1. latest # NoFrame => latest.seq \in Nat
        BY DEF TypeOK, QueueType, Frame
      <4> QED
        BY <1>0, <1>2, <4>1 DEF GrabSucceeds
    <3>4. (latest' # NoFrame => latest'.seq <= grabs') /\ held'.seq <= grabs'
      <4>1. latest # NoFrame => latest.seq \in Nat
        BY DEF TypeOK, QueueType, Frame
      <4> QED
        BY <1>0, <2>1, <3>1, <3>2, <4>1
    <3> QED
      BY <3>1, <3>2, <3>3, <3>4
  <2> QED
    BY <2>2, <2>3
<1>3. CASE GrabFails
  BY <1>0, <1>3 DEF GrabFails, Wake
<1>6. CASE Commit
  BY <1>0, <1>6 DEF Commit, Offer, Wake
<1>7. CASE RoomFound
  BY <1>0, <1>7 DEF RoomFound, Offer, Wake
<1>8. CASE Consume
  BY <1>0, <1>8 DEF Consume, ConsumePop, ConsumeGone, ConsumeProcess, ConsumeLimited,
    ConsumeMore
<1>9. CASE Ending
  BY <1>0, <1>9 DEF Ending, FinishWaits, WorkerJoined, Drain, Deliver, FailDelivers,
    ControlInv, Joined
<1>10. CASE SessionNext
  BY <1>0, <1>10 DEF SessionNext, FinishSignal, ConfirmSelection, AbandonSelection,
    PollFinish, CreateRecorder, PanelMapped, PanelLost, HidePanel, StartCapture,
    MayStart, SpawnFails, UserConfirms, UserCancels, IdleFinish, ControlInv
<1> HIDE DEF HeldInv
<1> QED
  BY <1>1, <1>2, <1>3, <1>6, <1>7, <1>8, <1>9, <1>10 DEF Next, WorkerNext, Grab

---------------------------------------------------------------------------
(* The order of the frames                                                 *)

(* A shot that is over never becomes open again.                           *)
LEMMA StaysOver == ASSUME Next, outcome' = "open" PROVE outcome = "open"
<1> USE DEF ends
<1>1. CASE WorkerNext
  BY <1>1 DEF WorkerNext, Grab, WorkerStarts, GrabSucceeds, GrabFails, GrabCancelled,
    GrabOversize, StopOversize, Commit, RoomFound, Notify, WorkerWakes
<1>2. CASE Consume \/ Ending
  BY <1>2 DEF Consume, ConsumePop, ConsumeGone, ConsumeProcess, ConsumeLimited,
    ConsumeMore, Ending, FinishWaits, WorkerJoined, Drain, Deliver, FailDelivers, Done
<1>3. CASE SessionNext
  BY <1>3 DEF SessionNext, FinishSignal, ConfirmSelection, AbandonSelection, PollFinish,
    CreateRecorder, PanelMapped, PanelLost, HidePanel, StartCapture, SpawnFails,
    UserConfirms, UserCancels, IdleFinish, Done
<1> QED
  BY <1>1, <1>2, <1>3 DEF Next

(* A step that moves no frame.                                             *)
Still ==
  /\ UNCHANGED <<stitched, popped, frames, latest, taken>>
  /\ wpc' = "room" => wpc = "room" /\ held' = held
  /\ wpc' \notin {"room", "ended"} => wpc \notin {"room", "ended"}

LEMMA StillKeepsOrder == ASSUME OrderInv, Still PROVE OrderInv'
  BY DEF OrderInv, Still, Sent, InHand

(* The next frame to be stitched is newer than all that were.              *)
LEMMA NextIsNewer ==
  ASSUME TypeOK, OrderInv, Len(stitched) < Len(taken)
  PROVE  taken[Len(stitched) + 1].seq > LastSeq(stitched)
<1> USE DEF TypeOK, StateType
<1>1. CASE stitched = <<>>
  <2>1. taken[Len(stitched) + 1] \in Frame
    OBVIOUS
  <2> QED
    BY <1>1, <2>1 DEF LastSeq, Frame
<1>2. CASE stitched # <<>>
  <2>1. Len(stitched) \in 1..Len(taken) /\ Len(stitched) + 1 \in 1..Len(taken)
    BY <1>2
  <2>2. stitched[Len(stitched)] = taken[Len(stitched)]
    BY <1>2, <2>1 DEF OrderInv
  <2>3. taken[Len(stitched)].seq < taken[Len(stitched) + 1].seq
    BY <2>1 DEF OrderInv
  <2>4. taken[Len(stitched)].seq \in Nat /\ taken[Len(stitched) + 1].seq \in Nat
    <3>1. taken[Len(stitched)] \in Frame /\ taken[Len(stitched) + 1] \in Frame
      BY <2>1
    <3> QED
      BY <3>1 DEF Frame
  <2> QED
    BY <1>2, <2>2, <2>3, <2>4 DEF LastSeq
<1> QED
  BY <1>1, <1>2

(* The worker takes a frame: it is the newest of all.                      *)
LEMMA TakeKeepsOrder ==
  ASSUME TypeOK, ControlInv, HeldInv, OrderInv, Commit, ~Repeats(held.image)
  PROVE  OrderInv'
<1> USE DEF TypeOK, StateType, QueueType
<1>1. held \in Frame /\ wpc = "commit"
  BY HeldFrame DEF Commit
<1>2. /\ latest' = held /\ taken' = Append(taken, held) /\ Offer
      /\ UNCHANGED <<stitched, popped>>
  BY DEF Commit, loop, state
<1>3. /\ Len(taken') = Len(taken) + 1
      /\ taken'[Len(taken) + 1] = held
      /\ \A i \in 1..Len(taken) : taken'[i] = taken[i]
  BY <1>1, <1>2
<1>4. \A i \in 1..Len(taken) : taken[i].seq < held.seq
  <2> SUFFICES ASSUME NEW i \in 1..Len(taken) PROVE taken[i].seq < held.seq
    OBVIOUS
  <2>1. taken # <<>> /\ latest = taken[Len(taken)] /\ latest # NoFrame
    BY NoFrameIsNone DEF OrderInv
  <2>2. held.seq > latest.seq
    BY <1>1, <2>1 DEF HeldInv
  <2>3. i = Len(taken) \/ taken[i].seq < latest.seq
    BY <2>1 DEF OrderInv
  <2>4. held.seq \in Nat /\ latest.seq \in Nat /\ taken[i].seq \in Nat
    <3>1. latest \in Frame /\ taken[i] \in Frame
      BY <2>1
    <3> QED
      BY <1>1, <3>1 DEF Frame
  <2> QED
    BY <2>1, <2>2, <2>3, <2>4
<1>5. \A i, j \in 1..Len(taken') : i < j => taken'[i].seq < taken'[j].seq
  <2> SUFFICES ASSUME NEW i \in 1..Len(taken'), NEW j \in 1..Len(taken'), i < j
               PROVE  taken'[i].seq < taken'[j].seq
    OBVIOUS
  <2>0. Len(taken) \in Nat
    OBVIOUS
  <2>1. i \in 1..Len(taken) /\ taken'[i] = taken[i]
    BY <1>3, <2>0
  <2>2. CASE j = Len(taken) + 1
    BY <1>3, <1>4, <2>1, <2>2
  <2>3. CASE j \in 1..Len(taken)
    BY <1>3, <2>1, <2>3 DEF OrderInv
  <2> QED
    BY <1>3, <2>0, <2>2, <2>3
<1>6. /\ Len(taken) = Sent
      /\ \A i \in 1..Len(stitched) : i \in 1..Len(taken) /\ stitched[i] = taken[i]
      /\ popped # NoFrame =>
           Len(stitched) + 1 \in 1..Len(taken) /\ popped = taken[Len(stitched) + 1]
      /\ \A i \in 1..Len(frames) : /\ Len(stitched) + InHand + i \in 1..Len(taken)
                                   /\ frames[i] = taken[Len(stitched) + InHand + i]
  BY <1>1 DEF OrderInv, Sent, InHand
<1>7. InHand' = InHand /\ InHand \in {0, 1}
  BY <1>2 DEF InHand
<1>8. latest' = IF taken' = <<>> THEN NoFrame ELSE taken'[Len(taken')]
  BY <1>2, <1>3
<1>9. CASE frames' = Append(frames, held) /\ wpc' \in {"sleep", "notify"}
  <2>1. /\ Len(frames') = Len(frames) + 1
        /\ frames'[Len(frames) + 1] = held
        /\ \A i \in 1..Len(frames) : frames'[i] = frames[i]
    BY <1>1, <1>9
  <2>2. Len(taken') = Sent'
    BY <1>2, <1>3, <1>6, <1>7, <2>1 DEF Sent
  <2>3. \A i \in 1..Len(frames') : frames'[i] = taken'[Len(stitched') + InHand' + i]
    <3> SUFFICES ASSUME NEW i \in 1..Len(frames')
                 PROVE  frames'[i] = taken'[Len(stitched') + InHand' + i]
      OBVIOUS
    <3>1. CASE i = Len(frames) + 1
      BY <1>2, <1>3, <1>6, <1>7, <2>1, <3>1 DEF Sent
    <3>2. CASE i \in 1..Len(frames)
      BY <1>2, <1>3, <1>6, <1>7, <2>1, <3>2
    <3> QED
      BY <2>1, <3>1, <3>2
  <2>4. /\ \A i \in 1..Len(stitched') : stitched'[i] = taken'[i]
        /\ popped' # NoFrame => popped' = taken'[Len(stitched') + 1]
    BY <1>2, <1>3, <1>6
  <2> QED
    BY <1>5, <1>8, <1>9, <2>2, <2>3, <2>4 DEF OrderInv
<1>10. CASE frames' = frames /\ \/ wpc' = "room" /\ held' = held
                                \/ wpc' = "ended"
  <2>1. Len(taken') = Sent' + 1
    BY <1>2, <1>3, <1>6, <1>7, <1>10 DEF Sent
  <2>2. /\ \A i \in 1..Len(stitched') : stitched'[i] = taken'[i]
        /\ popped' # NoFrame => popped' = taken'[Len(stitched') + 1]
        /\ \A i \in 1..Len(frames') : frames'[i] = taken'[Len(stitched') + InHand' + i]
    BY <1>2, <1>3, <1>6, <1>7, <1>10
  <2>3. Sent' \in Nat
    BY <1>2, <1>7, <1>10 DEF Sent
  <2> QED
    BY <1>2, <1>5, <1>8, <1>10, <2>1, <2>2, <2>3 DEF OrderInv
<1> QED
  BY <1>2, <1>9, <1>10 DEF Offer, Wake

(* The frame that waited for room goes to the end of the queue.            *)
LEMMA RoomKeepsOrder ==
  ASSUME TypeOK, HeldInv, OrderInv, RoomFound
  PROVE  OrderInv'
<1> USE DEF TypeOK, StateType, QueueType
<1>1. held \in Frame /\ held = latest /\ Len(taken) = Sent + 1 /\ Offer
  BY HeldFrame DEF RoomFound, OrderInv
<1>2. UNCHANGED <<stitched, popped, latest, taken>>
  BY DEF RoomFound, loop, state, ends
<1>3. CASE frames' = Append(frames, held) /\ wpc' \in {"sleep", "notify"}
  <2>1. /\ Len(frames') = Len(frames) + 1
        /\ frames'[Len(frames) + 1] = held
        /\ \A i \in 1..Len(frames) : frames'[i] = frames[i]
    BY <1>1, <1>3
  <2>2. InHand' = InHand /\ InHand \in {0, 1}
    BY <1>2 DEF InHand
  <2>3. Len(taken') = Sent'
    BY <1>1, <1>2, <2>1, <2>2 DEF Sent
  <2>4. held = taken[Len(taken)]
    BY <1>1, NoFrameIsNone DEF OrderInv
  <2>5. \A i \in 1..Len(frames') : frames'[i] = taken'[Len(stitched') + InHand' + i]
    <3> SUFFICES ASSUME NEW i \in 1..Len(frames')
                 PROVE  frames'[i] = taken'[Len(stitched') + InHand' + i]
      OBVIOUS
    <3>1. CASE i = Len(frames) + 1
      BY <1>1, <1>2, <2>1, <2>2, <2>4, <3>1 DEF Sent
    <3>2. CASE i \in 1..Len(frames)
      BY <1>2, <2>1, <2>2, <3>2 DEF OrderInv
    <3> QED
      BY <2>1, <3>1, <3>2
  <2> QED
    BY <1>2, <1>3, <2>3, <2>5 DEF OrderInv
<1>4. CASE frames' = frames /\ (wpc' = "ended" \/ (wpc' = "room" /\ held' = held))
  <2>1. InHand' = InHand /\ Sent' = Sent /\ Sent \in Nat
    BY <1>2, <1>4 DEF InHand, Sent
  <2>2. wpc = "room"
    BY DEF RoomFound
  <2> QED
    BY <1>1, <1>2, <1>4, <2>1, <2>2 DEF OrderInv
<1> QED
  BY <1>1, <1>3, <1>4 DEF Offer, Wake

(* A frame leaves the queue for the main loop's hands.                     *)
LEMMA PopKeepsOrder ==
  ASSUME TypeOK, ControlInv, OrderInv, ConsumePop
  PROVE  OrderInv'
<1> USE DEF TypeOK, StateType, QueueType
<1>1. popped = NoFrame /\ InHand = 0
  BY DEF ConsumePop, ControlInv, InHand
<1>2. UNCHANGED <<stitched, latest, taken, wpc, held>>
  BY DEF ConsumePop, worker, state, ends
<1>3. CASE frames = <<>>
  BY <1>1, <1>2, <1>3 DEF ConsumePop, OrderInv, Sent, InHand
<1>4. CASE frames # <<>>
  <2>1. popped' = Head(frames) /\ frames' = Tail(frames)
    BY <1>4 DEF ConsumePop
  <2>2. /\ Len(frames) \in Nat \ {0} /\ Len(frames') = Len(frames) - 1
        /\ popped' = frames[1] /\ popped' \in Frame
        /\ \A i \in 1..Len(frames') : frames'[i] = frames[i + 1]
    BY <1>4, <2>1
  <2>3. InHand' = 1
    BY <2>2, NoFrameIsNone DEF InHand
  <2>4. Sent' = Sent /\ Sent \in Nat
    BY <1>1, <1>2, <2>2, <2>3 DEF Sent
  <2>5. popped' = taken'[Len(stitched') + 1]
    BY <1>1, <1>2, <2>2 DEF OrderInv
  <2>6. \A i \in 1..Len(frames') : frames'[i] = taken'[Len(stitched') + InHand' + i]
    <3> SUFFICES ASSUME NEW i \in 1..Len(frames')
                 PROVE  frames'[i] = taken'[Len(stitched') + InHand' + i]
      OBVIOUS
    <3>1. i + 1 \in 1..Len(frames) /\ frames'[i] = frames[i + 1]
      BY <2>2
    <3>2. frames[i + 1] = taken[Len(stitched) + 0 + (i + 1)]
      BY <1>1, <3>1 DEF OrderInv
    <3> QED
      BY <1>2, <2>2, <2>3, <3>1, <3>2
  <2> QED
    BY <1>2, <2>4, <2>5, <2>6 DEF OrderInv
<1> QED
  BY <1>3, <1>4

(* The next frame is stitched, from the main loop's hands or, while the    *)
(* queue is drained, from its head.                                        *)
LEMMA FeedKeepsOrder ==
  ASSUME TypeOK, OrderInv, NEW f \in Frame, Process(f),
         \/ popped # NoFrame /\ f = popped /\ frames' = frames
         \/ popped = NoFrame /\ frames # <<>> /\ f = Head(frames) /\ frames' = Tail(frames),
         popped' = NoFrame, UNCHANGED <<latest, taken, wpc, held>>
  PROVE  /\ OrderInv'
         /\ Len(stitched) < Len(taken)
         /\ stitched' = Append(stitched, taken[Len(stitched) + 1])
<1> USE DEF TypeOK, StateType, QueueType
<1>1. Len(stitched) < Len(taken) /\ f = taken[Len(stitched) + 1]
  <2>1. CASE popped # NoFrame
    BY <2>1 DEF OrderInv, Sent, InHand
  <2>2. CASE popped = NoFrame
    BY <2>2 DEF OrderInv, Sent, InHand
  <2> QED
    BY <2>1, <2>2
<1>2. stitched' = Append(stitched, f)
  BY <1>1, NextIsNewer DEF Process, Fed
<1>3. /\ Len(stitched') = Len(stitched) + 1
      /\ stitched'[Len(stitched) + 1] = f
      /\ \A i \in 1..Len(stitched) : stitched'[i] = stitched[i]
  BY <1>2
<1>4. \A i \in 1..Len(stitched') : stitched'[i] = taken'[i]
  <2> SUFFICES ASSUME NEW i \in 1..Len(stitched') PROVE stitched'[i] = taken'[i]
    OBVIOUS
  <2>1. CASE i = Len(stitched) + 1
    BY <1>1, <1>3, <2>1
  <2>2. CASE i \in 1..Len(stitched)
    BY <1>3, <2>2 DEF OrderInv
  <2> QED
    BY <1>3, <2>1, <2>2
<1>5. InHand' = 0
  BY DEF InHand
<1>6. CASE popped # NoFrame /\ frames' = frames
  <2>1. InHand = 1
    BY <1>6 DEF InHand
  <2>2. Sent' = Sent /\ Sent \in Nat
    BY <1>3, <1>5, <1>6, <2>1 DEF Sent
  <2> QED
    BY <1>1, <1>2, <1>3, <1>4, <1>5, <1>6, <2>1, <2>2 DEF OrderInv
<1>7. CASE popped = NoFrame /\ frames # <<>> /\ frames' = Tail(frames)
  <2>1. InHand = 0
    BY <1>7 DEF InHand
  <2>2. /\ Len(frames) \in Nat \ {0} /\ Len(frames') = Len(frames) - 1
        /\ \A i \in 1..Len(frames') : frames'[i] = frames[i + 1]
    BY <1>7
  <2>3. Sent' = Sent /\ Sent \in Nat
    BY <1>3, <1>5, <2>1, <2>2 DEF Sent
  <2>4. \A i \in 1..Len(frames') : frames'[i] = taken'[Len(stitched') + InHand' + i]
    <3> SUFFICES ASSUME NEW i \in 1..Len(frames')
                 PROVE  frames'[i] = taken'[Len(stitched') + InHand' + i]
      OBVIOUS
    <3>1. i + 1 \in 1..Len(frames) /\ frames'[i] = frames[i + 1]
      BY <2>2
    <3>2. frames[i + 1] = taken[Len(stitched) + 0 + (i + 1)]
      BY <2>1, <3>1 DEF OrderInv
    <3> QED
      BY <1>3, <1>5, <2>2, <3>1, <3>2
  <2> QED
    BY <1>1, <1>2, <1>4, <2>3, <2>4 DEF OrderInv
<1> QED
  BY <1>1, <1>2, <1>6, <1>7

LEMMA ProcessSteps ==
  ASSUME TypeOK, ControlInv, OrderInv, Consuming, ConsumeProcess
  PROVE  \/ Still /\ stitched' = stitched
         \/ /\ OrderInv'
            /\ Len(stitched) < Len(taken)
            /\ stitched' = Append(stitched, taken[Len(stitched) + 1])
<1>1. CASE popped # NoFrame
  <2>1. Process(popped)
    BY <1>1 DEF ConsumeProcess, ControlInv
  <2>2. popped \in Frame /\ popped' = NoFrame /\ frames' = frames
        /\ UNCHANGED <<latest, taken, wpc, held>>
    BY <1>1 DEF TypeOK, LoopType, ConsumeProcess, queue, worker, ends
  <2> QED
    BY <1>1, <2>1, <2>2, FeedKeepsOrder
<1>2. CASE popped = NoFrame
  BY <1>2 DEF ConsumeProcess, Still, queue, worker, ends
<1> QED
  BY <1>1, <1>2

LEMMA DrainSteps ==
  ASSUME TypeOK, ControlInv, OrderInv, Drain
  PROVE  /\ OrderInv'
         /\ Len(stitched) < Len(taken)
         /\ stitched' = Append(stitched, taken[Len(stitched) + 1])
<1>1. popped = NoFrame /\ popped' = NoFrame
  BY DEF Drain, ControlInv, loop
<1>2. Head(frames) \in Frame
  BY DEF Drain, TypeOK, QueueType
<1>3. /\ Process(Head(frames)) /\ frames # <<>> /\ frames' = Tail(frames)
      /\ UNCHANGED <<latest, taken, wpc, held>>
  BY DEF Drain, worker, ends
<1> QED
  BY <1>1, <1>2, <1>3, FeedKeepsOrder

(* All other steps leave the frames where they are.                        *)
LEMMA StillSteps ==
  ASSUME TypeOK, ControlInv, Next, outcome = "open",
         ~ConsumePop, ~ConsumeProcess, ~Drain, ~Deliver, ~RoomFound,
         Commit => Repeats(held.image)
  PROVE  Still
<1> USE DEF Still, session, queue, flags, worker, loop, state, ends
<1>1. CASE WorkerStarts \/ GrabFails \/ GrabCancelled \/ GrabOversize \/ StopOversize
           \/ Notify \/ WorkerWakes
  BY <1>1 DEF WorkerStarts, GrabFails, GrabCancelled, GrabOversize, StopOversize,
    Notify, WorkerWakes, Wake
<1>2. ASSUME NEW i \in Image, GrabSucceeds(i) PROVE Still
  BY <1>2 DEF GrabSucceeds
<1>3. CASE Commit
  BY <1>3 DEF Commit, Wake
<1>4. CASE ConsumeGone \/ ConsumeLimited \/ ConsumeMore
  BY <1>4 DEF ConsumeGone, ConsumeLimited, ConsumeMore
<1>5. CASE FinishWaits \/ WorkerJoined \/ FailDelivers
  BY <1>5 DEF FinishWaits, WorkerJoined, FailDelivers
<1>6. CASE SessionNext
  BY <1>6 DEF SessionNext, FinishSignal, ConfirmSelection, AbandonSelection, PollFinish,
    CreateRecorder, PanelMapped, PanelLost, HidePanel, StartCapture, MayStart,
    SpawnFails, UserConfirms, UserCancels, IdleFinish, ControlInv
<1> HIDE DEF Still
<1> QED
  BY <1>1, <1>2, <1>3, <1>4, <1>5, <1>6 DEF Next, WorkerNext, Grab, Consume, Ending

LEMMA OrderStep ==
  ASSUME TypeOK, ControlInv, HeldInv, OrderInv, Next, outcome = "open", ~Deliver
  PROVE  OrderInv'
<1>1. CASE ConsumePop
  BY <1>1, PopKeepsOrder
<1>2. CASE ConsumeProcess
  BY <1>2, ProcessSteps, StillKeepsOrder DEF ConsumeProcess, Consuming
<1>3. CASE Drain
  BY <1>3, DrainSteps
<1>4. CASE RoomFound
  BY <1>4, RoomKeepsOrder
<1>5. CASE Commit /\ ~Repeats(held.image)
  BY <1>5, TakeKeepsOrder
<1> QED
  BY <1>1, <1>2, <1>3, <1>4, <1>5, StillSteps, StillKeepsOrder

(* A grab that is no warm-up is on its way to being a frame.               *)
LEMMA CountStep ==
  ASSUME TypeOK, ControlInv, HeldInv, OrderInv, CountInv, Next, outcome = "open",
         ~Deliver
  PROVE  CountInv'
<1> USE DEF CountInv
<1>0. grabs \in Nat /\ taken \in Seq(Frame) /\ stitched \in Seq(Frame)
  BY DEF TypeOK, QueueType, StateType
<1>1. CASE WorkerStarts \/ GrabFails \/ GrabOversize \/ StopOversize \/ Notify
           \/ WorkerWakes
  BY <1>1 DEF WorkerStarts, GrabFails, GrabOversize, StopOversize, Notify, WorkerWakes,
    Wake, queue, state, ends
<1>2. ASSUME NEW i \in Image, GrabSucceeds(i) PROVE CountInv'
  <2>1. CASE wpc = "first" /\ discard
    BY <1>0, <1>2, <2>1 DEF GrabSucceeds, HeldInv, Repeats, state, ends
  <2>2. CASE ~(wpc = "first" /\ discard)
    BY <1>2, <2>2 DEF GrabSucceeds, state, ends
  <2> QED
    BY <2>1, <2>2
<1>3. CASE GrabCancelled
  BY <1>3 DEF GrabCancelled, queue, state, ends
<1>4. CASE Commit
  <2>1. CASE Repeats(held.image)
    BY <1>4, <2>1 DEF Commit, Repeats, OrderInv, state
  <2>2. CASE ~Repeats(held.image)
    <3>1. held \in Frame
      BY <1>4, HeldFrame DEF Commit
    <3>2. taken' = Append(taken, held) /\ UNCHANGED <<full, stitched>>
      BY <1>4, <2>2 DEF Commit, state
    <3>3. Append(taken, held) # <<>>
      BY <1>0, <3>1
    <3> QED
      BY <3>2, <3>3
  <2> QED
    BY <2>1, <2>2
<1>5. CASE RoomFound
  BY <1>5 DEF RoomFound, state, ends
<1>6. CASE ConsumePop \/ ConsumeGone \/ ConsumeLimited \/ ConsumeMore
  BY <1>6 DEF ConsumePop, ConsumeGone, ConsumeLimited, ConsumeMore, queue, worker, state,
    ends
<1>7. ASSUME NEW f \in Frame, Process(f), UNCHANGED <<grabs, warmups, taken, wpc>>
      PROVE  CountInv'
  <2>1. stitched' \in {stitched, Append(stitched, f)} /\ Append(stitched, f) # <<>>
    BY <1>0, <1>7 DEF Process, Fed
  <2>2. stitched' = stitched => full' = full \/ stitched # <<>>
    <3>1. CASE f.seq > LastSeq(stitched)
      BY <1>0, <1>7, <3>1 DEF Process, Fed
    <3>2. CASE ~(f.seq > LastSeq(stitched))
      BY <1>7, <3>2 DEF Process
    <3> QED
      BY <3>1, <3>2
  <2> QED
    BY <1>7, <2>1, <2>2
<1>8. CASE ConsumeProcess
  <2>1. CASE popped \in Frame /\ Process(popped)
    BY <1>7, <1>8, <2>1 DEF ConsumeProcess, queue, worker, ends
  <2>2. CASE UNCHANGED <<stitched, shown, full>>
    BY <1>8, <2>2 DEF ConsumeProcess, queue, worker, ends
  <2> QED
    BY <1>8, <2>1, <2>2 DEF ConsumeProcess, TypeOK, LoopType
<1>9. CASE Drain
  <2>1. Head(frames) \in Frame
    BY <1>9 DEF Drain, TypeOK, QueueType
  <2> QED
    BY <1>7, <1>9, <2>1 DEF Drain, worker, ends
<1>10. CASE FinishWaits \/ WorkerJoined \/ FailDelivers
  BY <1>10 DEF FinishWaits, WorkerJoined, FailDelivers, queue, worker, state, ends
<1>11. CASE SessionNext
  BY <1>11 DEF SessionNext, FinishSignal, ConfirmSelection, AbandonSelection, PollFinish,
    CreateRecorder, PanelMapped, PanelLost, HidePanel, StartCapture, MayStart, ControlInv,
    SpawnFails, UserConfirms, UserCancels, IdleFinish, queue, worker, state, ends
<1> HIDE DEF CountInv
<1> QED
  BY <1>1, <1>2, <1>3, <1>4, <1>5, <1>6, <1>8, <1>9, <1>10, <1>11
  DEF Next, WorkerNext, Grab, Consume, Ending

---------------------------------------------------------------------------
(* The inductive invariant                                                 *)

LEMMA DeliverCloses == ASSUME Deliver PROVE outcome' # "open"
  BY DEF Deliver, Done

LEMMA InitInv == Init => IndInv
<1> SUFFICES ASSUME Init PROVE IndInv
  OBVIOUS
<1> USE DEF Init
<1>1. TypeOK
  <2>1. <<>> \in Seq(Frame) /\ Len(<<>>) <= Capacity /\ 0 \in 0..MaxGrabs
    BY EmptySeq, CapacityAssumption, GrabsAssumption
  <2>2. SessionType /\ WorkerType /\ LoopType
    BY DEF SessionType, WorkerType, LoopType
  <2>3. QueueType
    <3>1. frames \in Seq(Frame) /\ Len(frames) <= Capacity
      BY <2>1, Zenon
    <3>2. grabs \in 0..MaxGrabs /\ warmups \in 0..1
      BY <2>1
    <3> QED
      BY <3>1, <3>2 DEF QueueType
  <2>4. StateType
    BY <2>1 DEF StateType
  <2> QED
    BY <2>2, <2>3, <2>4 DEF TypeOK
<1>2. ControlInv
  BY DEF ControlInv, Consuming, Closing, Joined, HasRecorder
<1>3. WakeInv /\ PanelInv /\ HeldInv
  BY DEF WakeInv, NoLostWakeup, PanelInv, Controllable, HeldInv
<1>4. OrderInv /\ CountInv
  BY DEF OrderInv, CountInv, Sent, InHand
<1> QED
  BY <1>1, <1>2, <1>3, <1>4 DEF IndInv

LEMMA NextInv == IndInv /\ [Next]_vars => IndInv'
<1> SUFFICES ASSUME IndInv, [Next]_vars PROVE IndInv'
  OBVIOUS
<1>1. CASE Next
  <2>1. TypeOK' /\ ControlInv' /\ WakeInv' /\ PanelInv' /\ HeldInv'
    BY <1>1, TypeStep, ControlStep, WakeStep, PanelStep, HeldStep DEF IndInv
  <2>2. outcome' = "open" => OrderInv' /\ CountInv'
    BY <1>1, StaysOver, DeliverCloses, OrderStep, CountStep DEF IndInv
  <2> QED
    BY <2>1, <2>2 DEF IndInv
<1>2. CASE UNCHANGED vars
  <2> USE <1>2 DEF vars, session, queue, flags, worker, loop, state, ends
  <2>1. TypeOK'
    BY DEF IndInv, TypeOK, SessionType, QueueType, WorkerType, LoopType, StateType
  <2>2. ControlInv'
    BY DEF IndInv, ControlInv, Consuming, Closing, Joined, HasRecorder
  <2>3. WakeInv' /\ PanelInv' /\ HeldInv'
    BY DEF IndInv, WakeInv, NoLostWakeup, Attended, PanelInv, Controllable, HeldInv,
      Repeats
  <2>4. outcome' = "open" => OrderInv' /\ CountInv'
    BY DEF IndInv, OrderInv, CountInv, Sent, InHand
  <2> QED
    BY <2>1, <2>2, <2>3, <2>4 DEF IndInv
<1> QED
  BY <1>1, <1>2

(* The invariant behind everything below.                                  *)
THEOREM Invariant == Spec => []IndInv
  BY InitInv, NextInv, PTL DEF Spec

(* Every variable keeps its type; the queue never outgrows its capacity.   *)
THEOREM TypeCorrect == Spec => []TypeOK
<1>1. IndInv => TypeOK
  BY DEF IndInv
<1> QED
  BY <1>1, Invariant, PTL

(* The two flags and the notice slot never lose a wake-up.                 *)
THEOREM WakeupKept == Spec => []NoLostWakeup
<1>1. IndInv => NoLostWakeup
  BY DEF IndInv, WakeInv
<1> QED
  BY <1>1, Invariant, PTL

(* No shot is recorded that nobody could finish.                           *)
THEOREM AlwaysControllable == Spec => []Controllable
<1>1. IndInv => Controllable
  BY DEF IndInv, PanelInv
<1> QED
  BY <1>1, Invariant, PTL

---------------------------------------------------------------------------
(* Delivering                                                              *)

(* What is flattened in the end is every frame taken.                      *)
LEMMA DeliversAll ==
  ASSUME TypeOK, ControlInv, OrderInv, Deliver
  PROVE  stitched' = taken
<1> USE DEF TypeOK, StateType
<1>1. frames = <<>> /\ popped = NoFrame /\ Sent = Len(stitched)
  BY DEF Deliver, ControlInv, Sent, InHand
<1>2. stitched \in Seq(Frame) /\ taken \in Seq(Frame)
      /\ Len(taken) \in {Len(stitched), Len(stitched) + 1}
  BY <1>1 DEF OrderInv
<1>3. CASE taken = <<>>
  <2>1. latest = NoFrame /\ Len(stitched) = 0
    BY <1>2, <1>3 DEF OrderInv
  <2>2. stitched = <<>>
    BY <2>1
  <2> QED
    BY <1>3, <2>1, <2>2 DEF Deliver
<1>4. CASE taken # <<>>
  <2>1. latest = taken[Len(taken)] /\ latest \in Frame
    BY <1>2, <1>4 DEF OrderInv
  <2>2. stitched' = Fed(stitched, latest)
    BY <2>1, NoFrameIsNone DEF Deliver, Process
  <2>3. CASE Len(taken) = Len(stitched)
    <3>1. stitched = taken
      BY <1>2, <2>3, SeqEqual DEF OrderInv
    <3>2. ~(latest.seq > LastSeq(stitched))
      BY <1>4, <2>1, <3>1 DEF LastSeq, Frame
    <3> QED
      BY <2>2, <3>1, <3>2 DEF Fed
  <2>4. CASE Len(taken) = Len(stitched) + 1
    <3>1. stitched' = Append(stitched, latest)
      BY <1>2, <2>1, <2>2, <2>4, NextIsNewer DEF Fed
    <3>2. stitched' \in Seq(Frame) /\ Len(stitched') = Len(stitched) + 1
          /\ stitched'[Len(stitched) + 1] = latest
          /\ \A i \in 1..Len(stitched) : stitched'[i] = stitched[i]
      BY <1>2, <2>1, <3>1
    <3>3. \A i \in 1..Len(stitched') : stitched'[i] = taken[i]
      BY <1>2, <2>1, <2>4, <3>2 DEF OrderInv
    <3> QED
      BY <1>2, <2>4, <3>2, <3>3, SeqEqual
  <2> QED
    BY <1>2, <2>3, <2>4
<1> QED
  BY <1>3, <1>4

(* The steps that settle what a shot comes to.                             *)
LEMMA OutcomeSteps ==
  ASSUME Next, outcome' # outcome
  PROVE  AbandonSelection \/ UserCancels \/ Deliver \/ FailDelivers
<1> USE DEF ends
<1>1. ~WorkerNext
  BY DEF WorkerNext, Grab, WorkerStarts, GrabSucceeds, GrabFails, GrabCancelled,
    GrabOversize, StopOversize, Commit, RoomFound, Notify, WorkerWakes
<1>2. ~Consume /\ ~FinishWaits /\ ~WorkerJoined /\ ~Drain
  BY DEF Consume, ConsumePop, ConsumeGone, ConsumeProcess, ConsumeLimited, ConsumeMore,
    FinishWaits, WorkerJoined, Drain
<1>3. CASE SessionNext
  BY <1>3 DEF SessionNext, FinishSignal, ConfirmSelection, PollFinish, CreateRecorder,
    PanelMapped, PanelLost, HidePanel, StartCapture, SpawnFails, UserConfirms, IdleFinish
<1> QED
  BY <1>1, <1>2, <1>3 DEF Next, Ending

LEMMA FinishStep == IndInv /\ [Next]_vars => [FinishResult]_vars
<1> SUFFICES ASSUME IndInv, Next, mpc = "drain", outcome' # outcome
             PROVE  FinishResult
  BY DEF FinishResult, vars, ends
<1>1. Deliver
  BY OutcomeSteps DEF AbandonSelection, UserCancels, FailDelivers
<1>2. TypeOK /\ ControlInv /\ OrderInv /\ CountInv /\ outcome = "open"
  BY DEF IndInv, ControlInv
<1>3. stitched' = taken
  BY <1>1, <1>2, DeliversAll
<1>4. CASE taken # <<>>
  BY <1>1, <1>3, <1>4 DEF Deliver, Done, FinishResult
<1>5. CASE taken = <<>>
  <2>1. ~full
    <3>1. Len(stitched) = 0
      BY <1>2, <1>5 DEF OrderInv, Sent, InHand, TypeOK, StateType, QueueType
    <3>2. stitched = <<>>
      BY <1>2, <3>1 DEF TypeOK, StateType
    <3> QED
      BY <1>2, <3>2 DEF CountInv
  <2>2. grabs = warmups
    BY <1>1, <1>2, <1>5 DEF CountInv, ControlInv, Joined, Deliver
  <2> QED
    BY <1>1, <1>3, <1>5, <2>1, <2>2 DEF Deliver, Done, EmptySession, FinishResult
<1> QED
  BY <1>4, <1>5

(* Finishing a shot delivers what was taken and is a failure only when     *)
(* something failed.                                                       *)
THEOREM FinishDelivers == Spec => FinishKeepsFrames
  BY Invariant, FinishStep, PTL DEF Spec, FinishKeepsFrames

---------------------------------------------------------------------------
(* The implementation of Recording                                         *)

(* Steps that neither take nor stitch a frame.                             *)
LEMMA FrameSteps ==
  ASSUME Next, ~Commit, ~ConsumeProcess, ~Drain, ~Deliver
  PROVE  UNCHANGED <<taken, stitched>>
<1> USE DEF state, ends
<1>1. CASE WorkerNext
  BY <1>1 DEF WorkerNext, Grab, WorkerStarts, GrabSucceeds, GrabFails, GrabCancelled,
    GrabOversize, StopOversize, RoomFound, Notify, WorkerWakes
<1>2. CASE Consume \/ Ending
  BY <1>2 DEF Consume, ConsumePop, ConsumeGone, ConsumeLimited, ConsumeMore, Ending,
    FinishWaits, WorkerJoined, FailDelivers
<1>3. CASE SessionNext
  BY <1>3 DEF SessionNext, FinishSignal, ConfirmSelection, AbandonSelection, PollFinish,
    CreateRecorder, PanelMapped, PanelLost, HidePanel, StartCapture, SpawnFails,
    UserConfirms, UserCancels, IdleFinish
<1> QED
  BY <1>1, <1>2, <1>3 DEF Next

LEMMA ImplementsStep ==
  ASSUME IndInv, [Next]_vars
  PROVE  [Promise!Next]_(Promise!vars)
<1> USE DEF Promise!vars
<1>0. TypeOK /\ ControlInv /\ HeldInv /\ (outcome = "open" => OrderInv)
  BY DEF IndInv
<1>1. CASE Commit
  <2>1. held \in Frame
    BY <1>0, <1>1, HeldFrame DEF Commit
  <2>2. outcome # "image" /\ UNCHANGED <<stitched, outcome>>
    BY <1>0, <1>1 DEF Commit, ControlInv, Joined, state
  <2>3. taken' = taken \/ taken' = Append(taken, held)
    BY <1>1 DEF Commit
  <2> QED
    BY <2>1, <2>2, <2>3 DEF Promise!Next, Promise!Take
<1>2. CASE ConsumeProcess \/ Drain
  <2>1. outcome = "open" /\ UNCHANGED <<taken, outcome>>
    BY <1>0, <1>2 DEF ConsumeProcess, Drain, ControlInv, ends
  <2>2. \/ stitched' = stitched
        \/ /\ Len(stitched) < Len(taken)
           /\ stitched' = Append(stitched, taken[Len(stitched) + 1])
    BY <1>0, <1>2, <2>1, ProcessSteps, DrainSteps DEF ConsumeProcess, Consuming
  <2> QED
    BY <2>1, <2>2 DEF Promise!Next, Promise!Stitch
<1>3. CASE Deliver
  <2>1. outcome = "open" /\ taken' = taken
    BY <1>0, <1>3 DEF Deliver, ControlInv
  <2>2. stitched' = taken
    BY <1>0, <1>3, <2>1, DeliversAll
  <2>3. CASE taken # <<>>
    BY <1>3, <2>1, <2>2, <2>3 DEF Deliver, Done, Promise!Next, Promise!Deliver
  <2>4. CASE taken = <<>>
    <3>1. Len(stitched) = 0
      BY <1>0, <2>1, <2>4 DEF OrderInv, Sent, InHand, TypeOK, StateType, QueueType
    <3>2. stitched = <<>>
      BY <1>0, <3>1 DEF TypeOK, StateType
    <3>3. outcome' \in {"cancelled", "failed"}
      BY <1>3, <2>2, <2>4 DEF Deliver, Done
    <3> QED
      BY <2>1, <2>2, <2>4, <3>2, <3>3 DEF Promise!Next, Promise!GiveUp
  <2> QED
    BY <2>3, <2>4
<1>4. CASE Next /\ ~Commit /\ ~ConsumeProcess /\ ~Drain /\ ~Deliver
  <2>1. UNCHANGED <<taken, stitched>>
    BY <1>4, FrameSteps
  <2>2. CASE outcome' = outcome
    BY <2>1, <2>2
  <2>3. CASE outcome' # outcome
    <3>1. AbandonSelection \/ UserCancels \/ FailDelivers
      BY <1>4, <2>3, OutcomeSteps
    <3>2. outcome = "open" /\ outcome' \in {"cancelled", "failed"}
      BY <1>0, <3>1 DEF AbandonSelection, UserCancels, FailDelivers, Done, ControlInv,
        HasRecorder
    <3> QED
      BY <2>1, <3>2 DEF Promise!Next, Promise!GiveUp
  <2> QED
    BY <2>2, <2>3
<1>5. CASE UNCHANGED vars
  BY <1>5 DEF vars, state, ends
<1> QED
  BY <1>1, <1>2, <1>3, <1>4, <1>5

(* The frames are stitched once each and in order, and an image has them   *)
(* all.                                                                    *)
THEOREM Implements == Spec => StitchedInOrder
<1>1. Init => Promise!Init
  BY DEF Init, Promise!Init
<1>2. IndInv /\ [Next]_vars => [Promise!Next]_(Promise!vars)
  BY ImplementsStep
<1> QED
  BY <1>1, <1>2, Invariant, PTL DEF Spec, StitchedInOrder, Promise!Spec
=============================================================================
