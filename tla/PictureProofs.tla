---------------------------- MODULE PictureProofs -----------------------------
(*****************************************************************************)
(* The windows that work on a picture, each by itself, for every bound. The  *)
(* text result first: one worker, true labels, no stage lost and no typed    *)
(* text replaced; all of it rests on the slot, for a request can begin only  *)
(* while no worker runs, so a worker that runs is the last one started, and  *)
(* a result that is still wanted is the only one of its request. Then no     *)
(* picture is lost: between two processes (Handoff), among the windows of    *)
(* one (ImageSession), and on its way to files, the clipboard and a window   *)
(* (Delivery). Then the pinned picture (PinWindow), the canvas of a long     *)
(* picture (Stitching), its preview (PreviewView), and the toolbar of the    *)
(* capture (ToolbarLayout).                                                  *)
(*****************************************************************************)
EXTENDS TextResult, Handoff, ImageSession, Delivery, PinWindow, Stitching, PreviewView, ToolbarLayout,
        FiniteSetTheorems, SequenceTheorems, WellFoundedInduction, TLAPS

(* The least and the greatest of numbers.                                  *)
LEMMA LargerOfTwo ==
    ASSUME NEW a \in Int, NEW b \in Int
    PROVE  Max({a, b}) \in {a, b} /\ Max({a, b}) >= a /\ Max({a, b}) >= b
<1>1. \E x \in {a, b} : \A y \in {a, b} : x >= y
  OBVIOUS
<1> QED
  BY <1>1 DEF Max

LEMMA LeastOfNats ==
    ASSUME NEW T \in SUBSET Nat, T # {}
    PROVE  \E x \in T : \A y \in T : x <= y
<1> DEFINE R == OpToRel(<, Nat)
<1>1. \A x, y \in Nat : x < y => <<x, y>> \in R
  BY DEF OpToRel
<1>2. IsWellFoundedOn(R, Nat)
  BY NatLessThanWellFounded
<1> HIDE DEF R
<1>3. PICK x \in T : \A y \in T : ~(<<y, x>> \in R)
  BY <1>2, WFMin
<1>4. \A y \in T : ~(y < x)
  BY <1>1, <1>3
<1> QED
  BY <1>4

LEMMA SmallerOfTwo ==
    ASSUME NEW a \in Int, NEW b \in Int
    PROVE  Min({a, b}) \in {a, b} /\ Min({a, b}) <= a /\ Min({a, b}) <= b
<1>1. \E x \in {a, b} : \A y \in {a, b} : x <= y
  OBVIOUS
<1> QED
  BY <1>1 DEF Min

-----------------------------------------------------------------------------
(* The text result.                                                        *)
Stages == {"Recognize", "Translate"}

(* The type invariant, with a request under way exactly in a stage.        *)
WindowTyped ==
    /\ txMode \in {"Ocr", "Translate"}
    /\ txImage \in 1 .. MaxVersion /\ txSeen \in 1 .. MaxVersion /\ txLabel \in 0 .. MaxVersion
    /\ txStage \in Stages \union {"none"} /\ txRetry \in Stages \union {"none"}
    /\ txJob \in [generation : 0 .. MaxTickets + 1, busy : BOOLEAN, closed : BOOLEAN]
    /\ txEdited \in BOOLEAN /\ txSlot \in BOOLEAN
    /\ txJob.busy => txStage # "none" /\ txRetry = "none"
    /\ txTyped \in 0 .. MaxTyped

(* Of each request there is at most one worker.                            *)
WorkersTyped ==
    \A w \in txWorkers :
        /\ w \in [ticket : 1 .. txJob.generation, stage : Stages, version : 1 .. MaxVersion,
                  source : {w.source}, phase : {"running", "ended", "sent"},
                  result : Results \union {"none"}]
        /\ w.stage = "Recognize" => w.ticket <= MaxTickets

TicketsDiffer == \A v, w \in txWorkers : v.ticket = w.ticket => v = w

(* The slot is held exactly while a worker runs, and it is the last one.   *)
SlotHeld ==
    /\ txSlot => \E w \in txWorkers : w.phase = "running"
    /\ \A w \in txWorkers : w.phase = "running" => txSlot /\ w.ticket = txJob.generation

(* A request that is still wanted is about the text that is still there.   *)
RequestTrue ==
    /\ txText.kind = "typed" => txEdited
    /\ txJob.busy => txBody = txText
    /\ \A w \in txWorkers :
        txJob.busy /\ w.ticket = txJob.generation /\ w.stage = "Translate" => w.source = txText

GateInv == WorkersTyped /\ TicketsDiffer /\ SlotHeld

TextInv == WindowTyped /\ GateInv /\ RequestTrue /\ LabelTrue /\ StageNotLost

-----------------------------------------------------------------------------
(* The gate: what the kinds of steps do to the workers, the slot and the   *)
(* number of requests.  First: results that are taken or dropped.          *)
LEMMA GateTakes ==
    ASSUME GateInv, NEW taken, txWorkers' = txWorkers \ taken, txSlot' = txSlot,
           \A w \in taken : w.phase # "running", txJob'.generation = txJob.generation
    PROVE  GateInv'
BY DEF GateInv, WorkersTyped, TicketsDiffer, SlotHeld

(* A request that ends as it begins counts, but has no worker.             *)
LEMMA GateFails ==
    ASSUME GateInv, WindowTyped, ~txSlot, NEW taken, txWorkers' = txWorkers \ taken,
           txSlot' = txSlot, txJob'.generation = txJob.generation + 1
    PROVE  GateInv'
<1>1. txJob.generation \in Nat
  BY TextAssumption DEF WindowTyped
<1>2. WorkersTyped'
  BY <1>1 DEF GateInv, WorkersTyped
<1>3. TicketsDiffer' /\ SlotHeld'
  BY DEF GateInv, TicketsDiffer, SlotHeld
<1> QED
  BY <1>2, <1>3 DEF GateInv

(* A request with a worker: the slot was free, so the worker is alone, and *)
(* its ticket is new.                                                      *)
LEMMA GateStarts ==
    ASSUME GateInv, WindowTyped, ~txSlot, NEW taken, NEW stage \in Stages,
           NEW version \in 1 .. MaxVersion, NEW source,
           stage = "Recognize" => txJob.generation < MaxTickets,
           txWorkers' = (txWorkers \ taken) \union {Worker(stage, version, source)},
           txSlot' = TRUE, txJob'.generation = txJob.generation + 1
    PROVE  GateInv'
<1> DEFINE new == Worker(stage, version, source)
<1>1. txJob.generation \in Nat /\ MaxTickets \in Nat
  BY TextAssumption DEF WindowTyped
<1>2. /\ new \in [ticket : 1 .. txJob'.generation, stage : Stages, version : 1 .. MaxVersion,
                  source : {new.source}, phase : {"running", "ended", "sent"},
                  result : Results \union {"none"}]
      /\ new.ticket = txJob.generation + 1 /\ new.phase = "running"
      /\ new.stage = "Recognize" => new.ticket <= MaxTickets
  BY <1>1 DEF Worker
<1>3. \A w \in txWorkers : w.ticket \in 1 .. txJob.generation
  BY DEF GateInv, WorkersTyped
<1>4. \A w \in txWorkers' : w = new \/ w \in txWorkers
  OBVIOUS
<1> HIDE DEF new
<1>5. WorkersTyped'
  BY <1>1, <1>2, <1>4 DEF GateInv, WorkersTyped
<1>6. TicketsDiffer'
  BY <1>1, <1>2, <1>3, <1>4 DEF GateInv, TicketsDiffer
<1>7. \A w \in txWorkers : w.phase # "running"
  BY DEF GateInv, SlotHeld
<1>8. new \in txWorkers'
  BY DEF new
<1>9. SlotHeld'
  BY <1>2, <1>4, <1>7, <1>8 DEF SlotHeld
<1> QED
  BY <1>5, <1>6, <1>9 DEF GateInv

(* A worker between its end and its result.                                *)
LEMMA GateWorks ==
    ASSUME GateInv, NEW w \in txWorkers, NEW v, txWorkers' = (txWorkers \ {w}) \union {v},
           v \in [ticket : {w.ticket}, stage : {w.stage}, version : {w.version},
                  source : {w.source}, phase : {"ended", "sent"}, result : Results \union {"none"}],
           txSlot' = (txSlot /\ w.phase # "running"), txJob' = txJob
    PROVE  GateInv'
<1>1. \A u \in txWorkers' : u = v \/ u \in txWorkers \ {w}
  OBVIOUS
<1>2. v.ticket = w.ticket /\ v.phase # "running"
  OBVIOUS
<1>3. WorkersTyped'
  BY <1>1 DEF GateInv, WorkersTyped
<1>4. TicketsDiffer'
  BY <1>1, <1>2 DEF GateInv, TicketsDiffer
<1>5. w.phase = "running" => \A u \in txWorkers \ {w} : u.phase # "running"
  BY DEF GateInv, SlotHeld, TicketsDiffer
<1>6. SlotHeld'
  BY <1>1, <1>2, <1>5 DEF GateInv, SlotHeld
<1> QED
  BY <1>3, <1>4, <1>6 DEF GateInv

(* A result that is still wanted is of the last request and the only one   *)
(* of it: no worker runs.                                                  *)
LEMMA WantedIsLast ==
    ASSUME WindowTyped, GateInv, NEW w \in txWorkers, w.phase = "sent", Wanted(w)
    PROVE  /\ txJob.busy /\ ~txJob.closed /\ ~Changed /\ Observed.job = txJob
           /\ w.ticket = txJob.generation /\ w.version = txImage
           /\ ~txSlot /\ \A v \in txWorkers : v.phase # "running"
<1>1. ~Changed
  BY DEF Wanted, IsCurrent, Observed, Ended, WindowTyped
<1>2. /\ txJob.busy /\ ~txJob.closed /\ Observed.job = txJob
      /\ w.ticket = txJob.generation /\ w.version = txImage
  BY <1>1 DEF Wanted, IsCurrent, Observed
<1>3. \A v \in txWorkers : v.phase # "running"
  BY <1>2 DEF GateInv, SlotHeld, TicketsDiffer
<1> QED
  BY <1>1, <1>2, <1>3 DEF GateInv, SlotHeld

-----------------------------------------------------------------------------
LEMMA Bounds == /\ MaxVersion \in Nat /\ MaxVersion >= 1
                /\ MaxTickets \in Nat /\ MaxTickets >= 1 /\ MaxTyped \in Nat
BY TextAssumption

LEMMA InitInv == TextInit => TextInv
<1> SUFFICES ASSUME TextInit PROVE TextInv
  OBVIOUS
<1> USE Bounds DEF TextInit
<1>1. WindowTyped
  <2>1. txJob \in [generation : 0 .. MaxTickets + 1, busy : BOOLEAN, closed : BOOLEAN]
    OBVIOUS
  <2>2. txSeen \in 1 .. MaxVersion /\ txImage \in 1 .. MaxVersion /\ txLabel \in 0 .. MaxVersion
    OBVIOUS
  <2>3. txEdited \in BOOLEAN /\ txSlot \in BOOLEAN /\ ~txJob.busy
    OBVIOUS
  <2> QED
    BY <2>1, <2>2, <2>3 DEF WindowTyped
<1>2. GateInv
  BY DEF GateInv, WorkersTyped, TicketsDiffer, SlotHeld
<1>3. RequestTrue /\ LabelTrue /\ StageNotLost
  BY DEF RequestTrue, LabelTrue, StageNotLost, NoText
<1> QED
  BY <1>1, <1>2, <1>3 DEF TextInv

(* What the user and other windows do to this one outside a request.       *)
LEMMA WindowSteps ==
    ASSUME TextInv,
           \/ Observe \/ CancelRequest \/ SyncTextState \/ CloseResult \/ ImageEdited
           \/ \E text \in {NoText, Typed(txTyped + 1)} : TypeInResult(text)
    PROVE  TextInv'
<1> USE Bounds DEF TextInv
<1>1. /\ txJob \in [generation : 0 .. MaxTickets + 1, busy : BOOLEAN, closed : BOOLEAN]
      /\ txImage \in 1 .. MaxVersion /\ txSeen \in 1 .. MaxVersion
  BY DEF WindowTyped
<1>2. /\ txWorkers' = txWorkers /\ txSlot' = txSlot
      /\ txJob' \in [generation : {txJob.generation}, busy : BOOLEAN, closed : BOOLEAN]
      /\ txJob'.busy => txJob.busy
  BY <1>1 DEF Observe, CancelRequest, SyncTextState, CloseResult, ImageEdited, TypeInResult,
              Observed, Ended
<1>3. GateInv'
  <2>1. /\ txWorkers' = txWorkers \ {} /\ txJob'.generation = txJob.generation
        /\ txSlot' = txSlot
    BY <1>2
  <2> DEFINE taken == {}
  <2>2. txWorkers' = txWorkers \ taken /\ \A w \in taken : w.phase # "running"
    BY <2>1
  <2> HIDE DEF taken
  <2> QED
    BY <2>1, <2>2, GateTakes
<1>4. WindowTyped'
  <2>1. txJob' \in [generation : 0 .. MaxTickets + 1, busy : BOOLEAN, closed : BOOLEAN]
    BY <1>1, <1>2
  <2>2. /\ txImage' \in 1 .. MaxVersion /\ txSeen' \in 1 .. MaxVersion
        /\ txLabel' \in 0 .. MaxVersion
    BY <1>1 DEF WindowTyped, Observe, CancelRequest, SyncTextState, CloseResult, ImageEdited,
       TypeInResult
  <2>3. txTyped' \in 0 .. MaxTyped
    BY DEF WindowTyped, Observe, CancelRequest, SyncTextState, CloseResult, ImageEdited,
       TypeInResult
  <2>4. txMode' = txMode /\ txEdited' \in BOOLEAN
    BY DEF WindowTyped, Observe, CancelRequest, SyncTextState, CloseResult, ImageEdited,
       TypeInResult
  <2>5. CASE Observe \/ CancelRequest \/ ImageEdited
    BY <1>1, <1>2, <2>1, <2>2, <2>3, <2>4, <2>5
    DEF WindowTyped, Observe, CancelRequest, ImageEdited, Observed, Ended, Stages
  <2>6. CASE SyncTextState \/ CloseResult
    BY <1>1, <1>2, <2>1, <2>2, <2>3, <2>4, <2>6 DEF WindowTyped, SyncTextState, CloseResult, Ended
  <2>7. ASSUME NEW text, TypeInResult(text) PROVE WindowTyped'
    <3>1. ~txJob'.busy
      BY <1>1, <2>7 DEF TypeInResult, Ended
    <3>2. txStage' \in Stages \union {"none"} /\ txRetry' \in Stages \union {"none"}
      BY <2>7 DEF TypeInResult, WindowTyped, Stages
    <3> QED
      BY <1>2, <2>1, <2>2, <2>3, <2>4, <3>1, <3>2 DEF WindowTyped
  <2> QED
    BY <2>5, <2>6, <2>7
<1>5. RequestTrue'
  BY <1>1, <1>2 DEF RequestTrue, Observe, CancelRequest, SyncTextState, CloseResult, ImageEdited,
     TypeInResult, Ended
<1>6. LabelTrue'
  BY <1>1 DEF LabelTrue, Observe, CancelRequest, SyncTextState, CloseResult, ImageEdited,
     TypeInResult
<1>7. StageNotLost'
  BY <1>1 DEF StageNotLost, WindowTyped, Observe, CancelRequest, SyncTextState, CloseResult,
     ImageEdited, TypeInResult, Observed, Ended
<1> QED
  BY <1>3, <1>4, <1>5, <1>6, <1>7


(* A request from the window: it has a worker, or ends as it begins.       *)
LEMMA RequestSteps ==
    ASSUME TextInv, Recognize \/ Translate PROVE TextInv'
<1> USE Bounds DEF TextInv
<1>1. /\ txJob \in [generation : 0 .. MaxTickets + 1, busy : BOOLEAN, closed : BOOLEAN]
      /\ txImage \in 1 .. MaxVersion
      /\ \A w \in txWorkers : w.ticket \in 1 .. txJob.generation
  BY DEF WindowTyped, GateInv, WorkersTyped
<1>2. PICK stage, source :
          /\ stage \in Stages /\ ~txSlot /\ txJob.generation < MaxTickets
          /\ \/ StartRequest(stage, txWorkers, Worker(stage, txImage, source))
             \/ StartFails(stage, txWorkers)
          /\ stage = "Translate" => source = txText
  BY DEF Recognize, Translate, CanRequest, Stages
<1>3. /\ txBody' = txText /\ txText' = txText /\ txLabel' = txLabel /\ txEdited' = txEdited
      /\ txMode' = txMode /\ txImage' = txImage /\ txTyped' = txTyped
      /\ txSeen' \in {txImage, txSeen}
  BY DEF Recognize, Translate
<1> HIDE DEF TextInv
<1>4. CASE StartRequest(stage, txWorkers, Worker(stage, txImage, source))
  <2> DEFINE taken == {}
             new == Worker(stage, txImage, source)
  <2>1. /\ txWorkers' = (txWorkers \ taken) \union {new} /\ txSlot' = TRUE
        /\ txJob' = [generation |-> txJob.generation + 1, busy |-> TRUE, closed |-> txJob.closed]
        /\ txStage' = stage /\ txRetry' = "none"
    BY <1>1, <1>4 DEF StartRequest, Begin
  <2>2. new.ticket = txJob.generation + 1 /\ new.stage = stage /\ new.source = source
    BY DEF Worker
  <2> HIDE DEF taken
  <2>3. GateInv'
    BY <1>1, <1>2, <2>1, GateStarts DEF TextInv
  <2>4. WindowTyped'
    <3>1. txJob' \in [generation : 0 .. MaxTickets + 1, busy : BOOLEAN, closed : BOOLEAN]
      BY <1>1, <1>2, <2>1
    <3> QED
      BY <1>1, <1>2, <1>3, <2>1, <3>1 DEF TextInv, WindowTyped, Stages
  <2>5. RequestTrue'
    <3>1. \A w \in txWorkers' : w.ticket = txJob'.generation => w = new
      BY <1>1, <2>1
    <3> QED
      BY <1>2, <1>3, <2>1, <2>2, <3>1 DEF TextInv, RequestTrue
  <2>6. LabelTrue' /\ StageNotLost'
    BY <1>2, <1>3, <2>1 DEF TextInv, LabelTrue, StageNotLost, Stages
  <2> QED
    BY <2>3, <2>4, <2>5, <2>6 DEF TextInv
<1>5. CASE StartFails(stage, txWorkers)
  <2> DEFINE taken == {}
  <2>1. /\ txWorkers' = txWorkers \ taken /\ txSlot' = txSlot
        /\ txJob' = [generation |-> txJob.generation + 1, busy |-> FALSE, closed |-> txJob.closed]
        /\ txStage' = "none" /\ txRetry' = stage
    BY <1>1, <1>5 DEF StartFails, Begin, Ended
  <2> HIDE DEF taken
  <2>2. GateInv'
    BY <1>2, <2>1, GateFails DEF TextInv
  <2>3. WindowTyped'
    <3>1. txJob' \in [generation : 0 .. MaxTickets + 1, busy : BOOLEAN, closed : BOOLEAN]
      BY <1>1, <1>2, <2>1
    <3> QED
      BY <1>1, <1>2, <1>3, <2>1, <3>1 DEF TextInv, WindowTyped, Stages
  <2>4. RequestTrue' /\ LabelTrue' /\ StageNotLost'
    BY <1>2, <1>3, <2>1 DEF TextInv, RequestTrue, LabelTrue, StageNotLost, Stages
  <2> QED
    BY <2>2, <2>3, <2>4 DEF TextInv
<1> QED
  BY <1>2, <1>4, <1>5

(* The worker beside the main loop changes nothing the window shows.       *)
LEMMA WorkerStep ==
    ASSUME TextInv, WorkerSteps PROVE TextInv'
<1> USE DEF TextInv
<1>1. PICK w, v :
          /\ w \in txWorkers /\ txWorkers' = (txWorkers \ {w}) \union {v} /\ txSlot' = (txSlot /\ w.phase # "running")
          /\ v \in [ticket : {w.ticket}, stage : {w.stage}, version : {w.version},
                    source : {w.source}, phase : {"ended", "sent"}, result : Results \union {"none"}]
          /\ UNCHANGED <<txMode, txImage, txSeen, txLabel, txText, txBody, txStage, txRetry,
                         txEdited, txJob, txTyped>>
  <2>1. PICK w \in txWorkers : WorkSent(w) \/ \E result \in Results : WorkEnds(w, result)
    BY DEF WorkerSteps
  <2>2. w \in [ticket : 1 .. txJob.generation, stage : Stages, version : 1 .. MaxVersion,
               source : {w.source}, phase : {"running", "ended", "sent"},
               result : Results \union {"none"}]
    BY DEF GateInv, WorkersTyped
  <2>3. CASE WorkSent(w)
    <3> DEFINE v == [w EXCEPT !.phase = "sent"]
    <3>1. v \in [ticket : {w.ticket}, stage : {w.stage}, version : {w.version},
                 source : {w.source}, phase : {"ended", "sent"}, result : Results \union {"none"}]
      BY <2>2
    <3> QED
      BY <2>3, <3>1 DEF WorkSent, WindowTyped
  <2>4. ASSUME NEW result \in Results, WorkEnds(w, result)
        PROVE  \E v :
          /\ txWorkers' = (txWorkers \ {w}) \union {v} /\ txSlot' = (txSlot /\ w.phase # "running")
          /\ v \in [ticket : {w.ticket}, stage : {w.stage}, version : {w.version},
                    source : {w.source}, phase : {"ended", "sent"}, result : Results \union {"none"}]
          /\ UNCHANGED <<txMode, txImage, txSeen, txLabel, txText, txBody, txStage, txRetry,
                         txEdited, txJob, txTyped>>
    <3> DEFINE v == [w EXCEPT !.phase = "ended", !.result = result]
    <3>1. v \in [ticket : {w.ticket}, stage : {w.stage}, version : {w.version},
                 source : {w.source}, phase : {"ended", "sent"}, result : Results \union {"none"}]
      BY <2>2
    <3> QED
      BY <2>4, <3>1 DEF WorkEnds
  <2> QED
    BY <2>1, <2>3, <2>4
<1>2. GateInv'
  BY <1>1, GateWorks
<1>3. WindowTyped'
  BY <1>1 DEF WindowTyped
<1>4. RequestTrue'
  <2>1. \A u \in txWorkers' : u = v \/ u \in txWorkers
    BY <1>1
  <2>2. v.ticket = w.ticket /\ v.stage = w.stage /\ v.source = w.source
    BY <1>1
  <2> QED
    BY <1>1, <2>1, <2>2 DEF RequestTrue
<1>5. LabelTrue' /\ StageNotLost'
  BY <1>1 DEF LabelTrue, StageNotLost
<1> QED
  BY <1>2, <1>3, <1>4, <1>5


(* A result nobody wants, and what its poll teaches the window.            *)
LEMMA DropStep ==
    ASSUME TextInv, NEW w \in txWorkers, DropResult(w) PROVE TextInv'
<1> USE Bounds DEF TextInv, DropResult
<1>1. /\ txJob \in [generation : 0 .. MaxTickets + 1, busy : BOOLEAN, closed : BOOLEAN]
      /\ txImage \in 1 .. MaxVersion
  BY DEF WindowTyped
<1>2. /\ txJob' \in [generation : {txJob.generation}, busy : BOOLEAN, closed : BOOLEAN]
      /\ txJob'.busy => txJob.busy
      /\ txWorkers' = txWorkers \ {w} /\ txSlot' = txSlot
      /\ txMode' = txMode /\ txImage' = txImage /\ txLabel' = txLabel /\ txText' = txText
      /\ txBody' = txBody /\ txEdited' = txEdited
  BY <1>1 DEF Observed, Ended
<1>3. GateInv'
  BY <1>2, GateTakes
<1>4. WindowTyped'
  <2>1. txJob' \in [generation : 0 .. MaxTickets + 1, busy : BOOLEAN, closed : BOOLEAN]
    BY <1>1, <1>2
  <2>2. txSeen' \in {txImage, txSeen}
    OBVIOUS
  <2>3. /\ txStage' \in Stages \union {"none"} /\ txRetry' \in Stages \union {"none"}
        /\ txJob'.busy => txStage' # "none" /\ txRetry' = "none"
    BY <1>1 DEF WindowTyped, Observed, Ended, Stages
  <2> QED
    BY <1>1, <1>2, <2>1, <2>2, <2>3 DEF WindowTyped
<1>5. RequestTrue' /\ LabelTrue'
  BY <1>2 DEF RequestTrue, LabelTrue
<1>6. StageNotLost'
  BY <1>1, <1>2 DEF StageNotLost, WindowTyped, Observed
<1> QED
  BY <1>3, <1>4, <1>5, <1>6

(* A result that is wanted and ends its request.                           *)
LEMMA AnswerSteps ==
    ASSUME TextInv, NEW w \in txWorkers,
           RequestFails(w) \/ RecognitionElsewhere(w) \/ TranslationDone(w)
    PROVE  TextInv'
<1> USE Bounds DEF TextInv
<1>1. /\ txJob \in [generation : 0 .. MaxTickets + 1, busy : BOOLEAN, closed : BOOLEAN]
      /\ txImage \in 1 .. MaxVersion /\ w.version \in 1 .. MaxVersion
  BY DEF WindowTyped, GateInv, WorkersTyped
<1>2. /\ w.phase = "sent" /\ Wanted(w)
      /\ txJob' = Ended(txJob) /\ txWorkers' = txWorkers \ {w} /\ txSlot' = txSlot
      /\ txMode' = txMode /\ txImage' = txImage /\ txSeen' = txSeen /\ txTyped' = txTyped
  BY DEF RequestFails, RecognitionElsewhere, TranslationDone
<1>3. txJob' = [generation |-> txJob.generation, busy |-> FALSE, closed |-> txJob.closed]
  BY <1>1, <1>2 DEF Ended
<1>4. txJob.busy /\ ~txJob.closed
  BY <1>2, WantedIsLast
<1>5. GateInv'
  <2> DEFINE taken == {w}
  <2>1. /\ txJob'.generation = txJob.generation /\ \A v \in taken : v.phase # "running"
        /\ txWorkers' = txWorkers \ taken /\ txSlot' = txSlot
    BY <1>2, <1>3
  <2> HIDE DEF taken
  <2> QED
    BY <2>1, GateTakes
<1>6. /\ txStage' = "none" /\ txRetry' \in {txStage, "none"}
      /\ txLabel' \in {w.version, txLabel} /\ txEdited' \in {txEdited, FALSE}
  BY DEF RequestFails, RecognitionElsewhere, TranslationDone, Show, WindowTyped
<1>7. WindowTyped'
  <2>1. txEdited' \in BOOLEAN
    BY <1>6 DEF WindowTyped
  <2>2. txJob' \in [generation : 0 .. MaxTickets + 1, busy : BOOLEAN, closed : BOOLEAN]
    BY <1>1, <1>3
  <2>3. ~txJob'.busy
    BY <1>3
  <2> QED
    BY <1>1, <1>2, <1>6, <2>1, <2>2, <2>3 DEF WindowTyped
<1>8. CASE txText' = txText /\ txEdited' = txEdited /\ txLabel' = txLabel
  <2>1. RequestTrue' /\ LabelTrue'
    BY <1>3, <1>8 DEF RequestTrue, LabelTrue
  <2>2. StageNotLost'
    BY <1>2, <1>4, <1>8
    DEF StageNotLost, WindowTyped, RequestFails, RecognitionElsewhere, TranslationDone, Show,
        KeepsTyped, Translated
  <2> QED
    BY <1>5, <1>7, <2>1, <2>2
<1>9. CASE Show(Translated(w.source, w.version), w.version)
  BY <1>3, <1>5, <1>7, <1>9 DEF RequestTrue, LabelTrue, StageNotLost, Show, Translated
<1> QED
  BY <1>8, <1>9 DEF RequestFails, RecognitionElsewhere, TranslationDone

(* Recognised text is shown.  A translation window goes on in the same     *)
(* handler: the slot is free, because this was the last worker.            *)
LEMMA ShownStep ==
    ASSUME TextInv, NEW w \in txWorkers, RecognitionShown(w) PROVE TextInv'
<1> USE Bounds DEF TextInv
<1>1. /\ txJob \in [generation : 0 .. MaxTickets + 1, busy : BOOLEAN, closed : BOOLEAN]
      /\ txImage \in 1 .. MaxVersion /\ w.version \in 1 .. MaxVersion
      /\ \A v \in txWorkers : v.ticket \in 1 .. txJob.generation
      /\ w.stage = "Recognize" => w.ticket <= MaxTickets
  BY DEF WindowTyped, GateInv, WorkersTyped
<1>2. w.phase = "sent" /\ Wanted(w) /\ w.stage = "Recognize"
  BY DEF RecognitionShown
<1>3. ~txSlot /\ w.ticket = txJob.generation /\ txJob.generation <= MaxTickets
  BY <1>1, <1>2, WantedIsLast
<1>4. /\ txText' = Recognized(w.version) /\ txBody' = txText' /\ txEdited' = FALSE
      /\ txText'.kind = "ocr" /\ txText'.of = w.version
      /\ txLabel' = w.version /\ txMode' = txMode /\ txImage' = txImage /\ txSeen' = txSeen
      /\ txTyped' = txTyped /\ txLabel' \in 0 .. MaxVersion
  BY <1>1 DEF RecognitionShown, Show, Recognized
<1>5. LabelTrue' /\ txEdited' \in BOOLEAN
  BY <1>4 DEF LabelTrue
<1> HIDE DEF TextInv
<1>6. CASE StartRequest("Translate", txWorkers \ {w},
                        Worker("Translate", w.version, Recognized(w.version)))
  <2> DEFINE new == Worker("Translate", w.version, Recognized(w.version))
  <2>1. /\ txWorkers' = (txWorkers \ {w}) \union {new} /\ txSlot' = TRUE
        /\ txJob' = [generation |-> txJob.generation + 1, busy |-> TRUE, closed |-> txJob.closed]
        /\ txStage' = "Translate" /\ txRetry' = "none"
    BY <1>1, <1>6 DEF StartRequest, Begin
  <2>2. new.ticket = txJob.generation + 1 /\ new.source = Recognized(w.version)
    BY DEF Worker
  <2>3. GateInv'
    BY <1>1, <1>3, <2>1, GateStarts DEF TextInv, Stages
  <2>4. WindowTyped'
    <3>1. txJob' \in [generation : 0 .. MaxTickets + 1, busy : BOOLEAN, closed : BOOLEAN]
      BY <1>1, <1>3, <2>1
    <3> QED
      BY <1>1, <1>4, <1>5, <2>1, <3>1 DEF TextInv, WindowTyped, Stages
  <2>5. RequestTrue'
    <3>1. \A v \in txWorkers' : v.ticket = txJob'.generation => v = new
      BY <1>1, <2>1
    <3> QED
      BY <1>4, <2>1, <2>2, <3>1 DEF RequestTrue
  <2>6. StageNotLost'
    BY <2>1 DEF StageNotLost
  <2> QED
    BY <1>5, <2>3, <2>4, <2>5, <2>6 DEF TextInv
<1>7. CASE StartFails("Translate", txWorkers \ {w})
  <2>1. /\ txWorkers' = txWorkers \ {w} /\ txSlot' = txSlot
        /\ txJob' = [generation |-> txJob.generation + 1, busy |-> FALSE, closed |-> txJob.closed]
        /\ txStage' = "none" /\ txRetry' = "Translate"
    BY <1>1, <1>7 DEF StartFails, Begin, Ended
  <2>2. GateInv'
    BY <1>3, <2>1, GateFails DEF TextInv
  <2>3. WindowTyped'
    <3>1. txJob' \in [generation : 0 .. MaxTickets + 1, busy : BOOLEAN, closed : BOOLEAN]
      BY <1>1, <1>3, <2>1
    <3> QED
      BY <1>1, <1>4, <1>5, <2>1, <3>1 DEF TextInv, WindowTyped, Stages
  <2>4. RequestTrue' /\ StageNotLost'
    BY <1>4, <2>1 DEF RequestTrue, StageNotLost
  <2> QED
    BY <1>5, <2>2, <2>3, <2>4 DEF TextInv
<1>8. CASE txMode # "Translate"
  <2>1. /\ txWorkers' = txWorkers \ {w} /\ txSlot' = txSlot
        /\ txJob' = [generation |-> txJob.generation, busy |-> FALSE, closed |-> txJob.closed]
        /\ txStage' = "none" /\ txRetry' = "none"
    BY <1>1, <1>8 DEF RecognitionShown, Ended
  <2>2. GateInv'
    <3> DEFINE taken == {w}
    <3>1. /\ txJob'.generation = txJob.generation /\ \A v \in taken : v.phase # "running"
          /\ txWorkers' = txWorkers \ taken /\ txSlot' = txSlot
      BY <1>2, <2>1
    <3> HIDE DEF taken
    <3> QED
      BY <3>1, GateTakes DEF TextInv
  <2>3. WindowTyped'
    <3>1. txJob' \in [generation : 0 .. MaxTickets + 1, busy : BOOLEAN, closed : BOOLEAN]
      BY <1>1, <2>1
    <3> QED
      BY <1>1, <1>4, <1>5, <2>1, <3>1 DEF TextInv, WindowTyped
  <2>4. RequestTrue' /\ StageNotLost'
    BY <1>4, <1>8, <2>1 DEF RequestTrue, StageNotLost
  <2> QED
    BY <1>5, <2>2, <2>3, <2>4 DEF TextInv
<1> QED
  BY <1>3, <1>6, <1>7, <1>8 DEF RecognitionShown

LEMMA NextInv == TextInv /\ [TextNext]_txVars => TextInv'
<1> SUFFICES ASSUME TextInv, [TextNext]_txVars PROVE TextInv'
  OBVIOUS
<1>1. CASE UNCHANGED txVars
  BY <1>1 DEF txVars, TextInv, WindowTyped, GateInv, WorkersTyped, TicketsDiffer, SlotHeld,
     RequestTrue, LabelTrue, StageNotLost
<1>2. CASE Polls
  BY <1>2, DropStep, AnswerSteps, ShownStep DEF Polls, Deliver
<1> QED
  BY <1>1, <1>2, WindowSteps, RequestSteps, WorkerStep DEF TextNext

-----------------------------------------------------------------------------
LEMMA WorkersAlone ==
    ASSUME TextInv PROVE OneWorker
<1> DEFINE running == {w \in txWorkers : w.phase = "running"}
<1>1. \A v, w \in running : v = w
  BY DEF TextInv, GateInv, SlotHeld, TicketsDiffer
<1>2. CASE running = {}
  <2>1. Cardinality(running) = 0
    BY <1>2, FS_EmptySet
  <2> QED
    BY <2>1 DEF OneWorker
<1>3. CASE running # {}
  <2>1. PICK w : running = {w}
    BY <1>1, <1>3
  <2>2. Cardinality(running) = 1
    BY <2>1, FS_Singleton
  <2> QED
    BY <2>2 DEF OneWorker
<1> QED
  BY <1>2, <1>3

(* The window's texts, versions, stages and requests keep their types, and *)
(* a request is under way exactly in a stage (result.rs, ui_job.rs).       *)
THEOREM TextTyped == TextSpec => []TextTypeOK
<1>1. TextInv => TextTypeOK
  BY Bounds DEF TextInv, WindowTyped, GateInv, WorkersTyped, TextTypeOK, Stages
<1> QED
  BY InitInv, NextInv, <1>1, PTL DEF TextSpec

(* However requests are cancelled, replaced, closed on or late, one worker *)
(* runs, the text is of the revision the window says, and a translation    *)
(* window with recognised text goes on or offers to (result.rs, ui_job.rs).*)
THEOREM TextSafe == TextSpec => []TextSound
<1>1. TextInv => TextSound
  BY WorkersAlone DEF TextInv, TextSound
<1> QED
  BY InitInv, NextInv, <1>1, PTL DEF TextSpec

(* A translation replaces only the text it was made from, and recognition  *)
(* never what somebody typed (result.rs recognize, translate).             *)
THEOREM TypedKept == TextSpec => TypedTextKept
<1>1. TextInv /\ [TextNext]_txVars =>
          (txText' # txText /\ txTyped' = txTyped =>
              \/ txText'.kind = "translation" /\ txText'.source = txText
              \/ txText'.kind = "ocr" /\ ~(txText.kind = "typed"))
  <2> SUFFICES ASSUME TextInv, [TextNext]_txVars, txText' # txText, txTyped' = txTyped
               PROVE  \/ txText'.kind = "translation" /\ txText'.source = txText
                      \/ txText'.kind = "ocr" /\ ~(txText.kind = "typed")
    OBVIOUS
  <2>1. PICK w \in txWorkers : RecognitionShown(w) \/ TranslationDone(w)
    <3>1. txTyped \in Nat
      BY Bounds DEF TextInv, WindowTyped
    <3>2. ASSUME NEW text, TypeInResult(text) PROVE FALSE
      BY <3>1, <3>2 DEF TypeInResult
    <3> QED
      BY <3>2 DEF TextNext, txVars, Observe, Recognize, Translate, CancelRequest, SyncTextState,
         CloseResult, ImageEdited, WorkerSteps, WorkEnds, WorkSent, Polls, Deliver, DropResult,
         RequestFails, RecognitionElsewhere
  <2>2. w.phase = "sent" /\ Wanted(w)
    BY <2>1 DEF RecognitionShown, TranslationDone
  <2>3. txJob.busy /\ w.ticket = txJob.generation
    BY <2>2, WantedIsLast DEF TextInv
  <2>4. CASE RecognitionShown(w)
    BY <2>3, <2>4 DEF RecognitionShown, KeepsTyped, Show, Recognized, TextInv, RequestTrue, NoText
  <2>5. CASE TranslationDone(w)
    BY <2>3, <2>5 DEF TranslationDone, Show, Translated, TextInv, RequestTrue
  <2> QED
    BY <2>1, <2>4, <2>5
<1> QED
  BY InitInv, NextInv, <1>1, PTL DEF TextSpec, TypedTextKept


-----------------------------------------------------------------------------
(* Handoff.  Nothing deletes the copy but the sender after a window was    *)
(* seen, and the user.                                                     *)
Seen ==
    /\ Visible \/ haReceipt = "ready" => haShown
    /\ haShown => Visible \/ haGone
    /\ haSender.outcome = "Unavailable" => haMemory \/ haGone
    /\ haSender.phase \in {"encode", "image", "request", "context", "spawn"} => haChild = "none"
    /\ haSender.phase \notin {"end", "dead"} => haSender.outcome = "none"

RemovalJustified ==
    /\ haRemoval["sender"] # <<>> => haShown /\ ~haRetain
    /\ haRemoval["user"] # <<>> => haDiscarded

HandoffInv == HandoffTypeOK /\ Seen /\ RemovalJustified /\ CopyKept

(* What is left to delete of a copy is an end of the order of deletion.    *)
Removals == {SubSeq(DeletionOrder, i, 4) : i \in 1 .. 5}

LEMMA RemovalShrinks ==
    ASSUME NEW left \in Removals, left # <<>> PROVE Tail(left) \in Removals
<1>1. PICK i \in 1 .. 5 : left = SubSeq(DeletionOrder, i, 4)
  BY DEF Removals
<1>2. DeletionOrder \in Seq({"ready", "context", "image", "request"}) /\ Len(DeletionOrder) = 4
  BY DEF DeletionOrder
<1>3. i # 5
  BY <1>1, <1>2
<1>4. Tail(left) = SubSeq(DeletionOrder, i + 1, 4)
  BY <1>1, <1>2, <1>3
<1> QED
  BY SMTT(25), <1>3, <1>4 DEF Removals

LEMMA RemovalsKnown == <<>> \in Removals /\ DeletionOrder \in Removals /\ DeletionOrder # <<>>
<1>1. DeletionOrder = SubSeq(DeletionOrder, 1, 4) /\ <<>> = SubSeq(DeletionOrder, 5, 4)
  BY DEF DeletionOrder
<1> QED
  BY <1>1 DEF Removals, DeletionOrder

LEMMA HandoffInitInv == HandoffInit => HandoffInv
<1> SUFFICES ASSUME HandoffInit PROVE HandoffInv
  OBVIOUS
<1> USE DEF HandoffInit
<1>1. haRemoval \in [Actors -> Removals]
  BY RemovalsKnown DEF Actors
<1>2. HandoffTypeOK
  BY <1>1 DEF HandoffTypeOK, HandoffPhases, Removals
<1>3. Seen /\ RemovalJustified /\ CopyKept
  BY DEF Seen, RemovalJustified, CopyKept, Visible, Actors
<1> QED
  BY <1>2, <1>3 DEF HandoffInv

(* The sender: before the copy is complete, after that, and its wait.      *)
LEMMA SenderSteps ==
    ASSUME HandoffInv,
           \/ EncodePicture \/ CreateAsset \/ WriteContext \/ SpawnReceiver
           \/ Expire \/ PollChild \/ PollReceipt
    PROVE  HandoffInv'
<1> USE DEF HandoffInv
<1>1. /\ haSender.phase \in HandoffPhases
      /\ haSender.outcome \in {"none", "Ready", "Retained", "Unavailable"}
      /\ haSender = [phase |-> haSender.phase, outcome |-> haSender.outcome]
  BY DEF HandoffTypeOK
<1>2. HandoffTypeOK'
  <2>1. haSender' \in [phase : HandoffPhases, outcome : {"none", "Ready", "Retained", "Unavailable"}]
    BY <1>1 DEF HandoffPhases, EncodePicture, CreateAsset, WriteContext, SpawnReceiver,
       Expire, PollChild, PollReceipt, At, Outcome, Unavailable
  <2>2. haFiles' \subseteq Copy \union {"context"}
    BY DEF HandoffTypeOK, EncodePicture, CreateAsset, WriteContext, SpawnReceiver,
       Expire, PollChild, PollReceipt, Copy
  <2>3. /\ haDraft' \in {"none", "carried", "lost"}
        /\ haChild' \in {"none", "starting", "loaded", "mapped", "answered", "exited"}
    BY DEF HandoffTypeOK, EncodePicture, CreateAsset, WriteContext, SpawnReceiver,
       Expire, PollChild, PollReceipt
  <2>4. /\ haMemory' \in {haMemory, TRUE} /\ haExpired' \in {haExpired, TRUE}
        /\ UNCHANGED <<haRetain, haReceipt, haRemoval, haEditable, haShown, haDiscarded, haGone>>
    BY DEF EncodePicture, CreateAsset, WriteContext, SpawnReceiver,
       Expire, PollChild, PollReceipt, Unavailable
  <2> QED
    BY <2>1, <2>2, <2>3, <2>4 DEF HandoffTypeOK
<1>3. Seen'
  <2>1. /\ UNCHANGED <<haReceipt, haShown, haGone>>
        /\ haSender'.outcome \in {haSender.outcome, "Retained"} \/ haMemory'
        /\ haMemory => haMemory'
        /\ haSender'.phase \notin {"end", "dead"} =>
             haSender'.outcome = haSender.outcome /\ haSender.phase \notin {"end", "dead"}
    BY <1>1 DEF EncodePicture, CreateAsset, WriteContext, SpawnReceiver,
       Expire, PollChild, PollReceipt, Unavailable, At, Outcome
  <2>2. /\ haChild' \in {haChild, "starting"} /\ (haChild' # haChild => haSender.phase = "spawn")
        /\ haSender'.phase \in {"encode", "image", "request", "context", "spawn"} =>
             /\ haChild' = haChild
             /\ haSender.phase \in {"encode", "image", "request", "context", "spawn"}
    BY <1>1 DEF EncodePicture, CreateAsset, WriteContext, SpawnReceiver,
       Expire, PollChild, PollReceipt, Unavailable, At, Outcome
  <2> QED
    BY <2>1, <2>2 DEF Seen, Visible
<1>4. RemovalJustified'
  BY DEF RemovalJustified, EncodePicture, CreateAsset, WriteContext, SpawnReceiver,
     Expire, PollChild, PollReceipt
<1>5. CopyKept'
  <2>1. CASE EncodePicture
    BY <1>1, <2>1 DEF CopyKept, EncodePicture, At, Outcome, Unavailable
  <2>2. CASE CreateAsset
    <3>1. \/ haSender'.outcome = "Unavailable" \/ haSender'.phase = "request"
          \/ haFiles' = Copy
      BY <1>1, <2>2 DEF CreateAsset, At, Outcome, Unavailable
    <3> QED
      BY <3>1 DEF CopyKept, Openable
  <2>3. CASE WriteContext
    <3>1. /\ haSender.phase = "context" /\ haFiles \subseteq haFiles'
          /\ haSender.outcome = "none"
      BY <1>1, <2>3 DEF WriteContext, Seen
    <3>2. UNCHANGED <<haDiscarded, haShown, haRetain, haGone>>
      BY <2>3 DEF WriteContext
    <3> QED
      BY <3>1, <3>2 DEF CopyKept, Openable
  <2>4. CASE SpawnReceiver \/ Expire \/ PollChild \/ PollReceipt
    <3>1. /\ haSender.phase \in {"spawn", "wait", "poll"} /\ haSender.outcome = "none"
          /\ UNCHANGED <<haFiles, haDiscarded, haShown, haRetain, haGone>>
      BY <2>4 DEF Seen, SpawnReceiver, Expire, PollChild, PollReceipt
    <3> QED
      BY <3>1 DEF CopyKept, Openable
  <2> QED
    BY <2>1, <2>2, <2>3, <2>4
<1> QED
  BY <1>2, <1>3, <1>4, <1>5

(* Deleting: with a reason, so that the copy is not asked for any more.    *)
LEMMA DeletionSteps ==
    ASSUME HandoffInv, BeginRemoval \/ UserDiscards \/ \E actor \in Actors : DeleteNext(actor)
    PROVE  HandoffInv'
<1> USE DEF HandoffInv
<1>1. haRemoval \in [Actors -> Removals]
  BY DEF HandoffTypeOK, Removals
<1>2. CASE BeginRemoval
  <2>1. haRemoval' \in [Actors -> Removals]
    BY <1>1, <1>2, RemovalsKnown DEF BeginRemoval, Actors
  <2>2. HandoffTypeOK'
    <3>1. haSender' \in [phase : HandoffPhases, outcome : {"none", "Ready", "Retained", "Unavailable"}]
      BY <1>2 DEF BeginRemoval, HandoffPhases, Outcome
    <3> QED
      BY <1>2, <2>1, <3>1 DEF BeginRemoval, HandoffTypeOK, Removals
  <2>3. Seen' /\ CopyKept'
    <3>1. /\ haSender.phase = "delete" /\ haSender' = [phase |-> "end", outcome |-> "Ready"]
          /\ UNCHANGED <<haRetain, haFiles, haReceipt, haChild, haMemory, haShown, haDiscarded, haGone>>
      BY <1>2 DEF BeginRemoval, Outcome
    <3>2. haSender.outcome # "Unavailable"
      BY <3>1 DEF Seen
    <3> QED
      BY <3>1, <3>2 DEF Seen, CopyKept, Visible, Openable
  <2>4. RemovalJustified'
    BY <1>1, <1>2 DEF BeginRemoval, RemovalJustified, Seen, IsReady, Actors
  <2> QED
    BY <2>2, <2>3, <2>4
<1>3. CASE UserDiscards
  <2>1. haRemoval' \in [Actors -> Removals]
    BY <1>1, <1>3, RemovalsKnown DEF UserDiscards, Actors
  <2>2. HandoffTypeOK'
    BY <1>3, <2>1 DEF UserDiscards, HandoffTypeOK, Removals
  <2>3. Seen' /\ CopyKept'
    BY <1>3 DEF UserDiscards, Seen, CopyKept, Visible, HandoffTypeOK
  <2>4. RemovalJustified'
    BY <1>1, <1>3 DEF UserDiscards, RemovalJustified, Actors
  <2> QED
    BY <2>2, <2>3, <2>4
<1>4. ASSUME NEW actor \in Actors, DeleteNext(actor) PROVE HandoffInv'
  <2>1. /\ haRemoval[actor] # <<>>
        /\ haRemoval' \in {[haRemoval EXCEPT ![actor] = Tail(@)], [haRemoval EXCEPT ![actor] = <<>>]}
        /\ haFiles' \subseteq haFiles /\ haReceipt' \in {haReceipt, "none"}
        /\ UNCHANGED <<haSender, haRetain, haDraft, haExpired, haChild, haEditable, haMemory,
                       haShown, haDiscarded, haGone>>
    BY <1>4 DEF DeleteNext
  <2>2. haRemoval' \in [Actors -> Removals]
    BY <1>1, <2>1, RemovalShrinks, RemovalsKnown
  <2>3. HandoffTypeOK'
    BY <2>1, <2>2 DEF HandoffTypeOK, Removals
  <2>4. Seen'
    BY <2>1 DEF Seen, Visible
  <2>5. RemovalJustified'
    BY <1>1, <2>1 DEF RemovalJustified, Actors
  <2>6. haDiscarded \/ (haShown /\ ~haRetain)
    BY <2>1 DEF RemovalJustified, Actors
  <2>7. CopyKept'
    BY <2>1, <2>6 DEF CopyKept
  <2> QED
    BY <2>3, <2>4, <2>5, <2>7
<1> QED
  BY <1>2, <1>3, <1>4

(* The receiver and its window, and the ends of the processes.             *)
LEMMA ReceiverSteps ==
    ASSUME HandoffInv,
           \/ ReceiverLoads \/ (\E reason \in {"dimensions", "window"} : ReceiverRefuses(reason))
           \/ ReceiverMaps \/ Acknowledge \/ ReceiverEnds
           \/ CloseMemoryWindow
    PROVE  HandoffInv'
<1> USE DEF HandoffInv
<1>1. UNCHANGED <<haSender, haRetain, haDraft, haFiles, haExpired, haRemoval, haDiscarded>>
  BY DEF ReceiverLoads, ReceiverRefuses, ReceiverMaps, Acknowledge, ReceiverEnds, CloseMemoryWindow
<1>2. HandoffTypeOK'
  <2>1. /\ haChild' \in {"none", "starting", "loaded", "mapped", "answered", "exited"}
        /\ haReceipt' \in {"none", "ready", "decode", "dimensions", "window"}
    BY DEF HandoffTypeOK, ReceiverLoads, ReceiverRefuses, ReceiverMaps, Acknowledge,
       ReceiverEnds, CloseMemoryWindow, Receipt
  <2>2. /\ haEditable' \in BOOLEAN /\ haShown' \in BOOLEAN /\ haGone' \in BOOLEAN
    BY DEF HandoffTypeOK, ReceiverLoads, ReceiverRefuses, ReceiverMaps, Acknowledge,
       ReceiverEnds, CloseMemoryWindow, Visible
  <2>3. haMemory' \in {haMemory, FALSE}
    BY DEF ReceiverLoads, ReceiverRefuses, ReceiverMaps, Acknowledge, ReceiverEnds, CloseMemoryWindow
  <2> QED
    BY <1>1, <2>1, <2>2, <2>3 DEF HandoffTypeOK
<1>3. Seen'
  <2>1. CASE ReceiverLoads \/ \E reason \in {"dimensions", "window"} : ReceiverRefuses(reason)
    <3>1. /\ haChild \in {"starting", "loaded"} /\ haChild' \in {"loaded", "exited"}
          /\ haReceipt' # "ready" \/ haReceipt' = haReceipt
          /\ UNCHANGED <<haShown, haMemory, haGone>>
      BY <2>1 DEF ReceiverLoads, ReceiverRefuses, Receipt
    <3> QED
      BY <1>1, <3>1 DEF Seen, Visible
  <2>2. CASE ReceiverMaps \/ Acknowledge
    <3>1. /\ haChild \in {"loaded", "mapped"} /\ haChild' \in {"mapped", "answered"}
          /\ UNCHANGED <<haMemory, haGone>>
          /\ haShown' = TRUE \/ (haChild = "mapped" /\ haShown' = haShown)
      BY <2>2 DEF ReceiverMaps, Acknowledge
    <3> QED
      BY <1>1, <3>1 DEF Seen, Visible
  <2>3. CASE ReceiverEnds
    <3>1. /\ haChild # "none" /\ haChild' = "exited"
          /\ UNCHANGED <<haReceipt, haMemory, haShown>>
          /\ Visible => haGone'
          /\ haGone => haGone'
      BY <2>3 DEF ReceiverEnds
    <3> QED
      BY <1>1, <3>1 DEF Seen, Visible
  <2>4. CASE CloseMemoryWindow
    BY <1>1, <2>4 DEF Seen, Visible, CloseMemoryWindow
  <2> QED
    BY <2>1, <2>2, <2>3, <2>4
<1>4. haShown => haShown'
  BY DEF ReceiverLoads, ReceiverRefuses, ReceiverMaps, Acknowledge, ReceiverEnds, CloseMemoryWindow
<1>5. RemovalJustified'
  BY <1>1, <1>4 DEF RemovalJustified
<1>6. haGone => haGone'
  BY DEF ReceiverLoads, ReceiverRefuses, ReceiverMaps, Acknowledge, ReceiverEnds, CloseMemoryWindow
<1>7. CopyKept'
  BY <1>1, <1>4, <1>6 DEF CopyKept, Openable
<1> QED
  BY <1>2, <1>3, <1>5, <1>7

LEMMA SenderCrashStep ==
    ASSUME HandoffInv, SenderCrashes PROVE HandoffInv'
<1> USE DEF HandoffInv, SenderCrashes
<1>1. haRemoval \in [Actors -> Removals]
  BY DEF HandoffTypeOK, Removals
<1>2. haRemoval' \in [Actors -> Removals]
  BY <1>1, RemovalsKnown
<1>3. HandoffTypeOK'
  BY <1>2 DEF HandoffTypeOK, HandoffPhases, At, Removals
<1>4. Seen'
  BY DEF Seen, Visible, At, HandoffTypeOK
<1>5. RemovalJustified'
  BY <1>1 DEF RemovalJustified, Actors
<1>6. CopyKept'
  BY DEF CopyKept, RemovalJustified, Openable, At, HandoffTypeOK
<1> QED
  BY <1>3, <1>4, <1>5, <1>6

LEMMA HandoffNextInv == HandoffInv /\ [HandoffNext]_haVars => HandoffInv'
<1> SUFFICES ASSUME HandoffInv, [HandoffNext]_haVars PROVE HandoffInv'
  OBVIOUS
<1>1. CASE UNCHANGED haVars
  BY <1>1 DEF haVars, HandoffInv, HandoffTypeOK, Seen, Visible, RemovalJustified, CopyKept, Openable
<1> QED
  BY <1>1, SenderSteps, DeletionSteps, ReceiverSteps, SenderCrashStep DEF HandoffNext

LEMMA HandoffInvSafe == HandoffInv => HandoffSafe
BY DEF HandoffInv, HandoffTypeOK, HandoffSafe, PictureHeld, CopyKept, Seen, Sending, HandoffPhases

(* However the wait, the answer, the deletions and the ends of the two     *)
(* processes interleave, the picture is held somewhere, and the copy as    *)
(* long as nobody has seen it (handoff.rs, session_transfer.rs).           *)
THEOREM HandoffKeeps == HandoffSpec => [](HandoffTypeOK /\ HandoffSafe)
<1>1. HandoffInv => HandoffTypeOK
  BY DEF HandoffInv
<1> QED
  BY HandoffInitInv, HandoffNextInv, HandoffInvSafe, <1>1, PTL DEF HandoffSpec

-----------------------------------------------------------------------------
(* ImageSession.  A mark is about a revision that was written, and who may *)
(* be the last to hold the image has it marked, or let go of, or asks.     *)
SessionTyped ==
    /\ imDoc \in [revision : 1 .. MaxRevision, saved : 0 .. MaxRevision, copied : 0 .. MaxRevision,
                  cache : {None}, state : {NewDocument(<<>>).state}]
    /\ imDoc.saved \in {0, imDoc.revision} /\ imDoc.copied \in {0, imDoc.revision}
    /\ imViewer \in [open : BOOLEAN, shown : 0 .. MaxRevision,
                     outputs : [save : States, copy : States],
                     busy : BOOLEAN, question : 0 .. MaxRevision, memory : BOOLEAN]
    /\ imExport \in {None} \union [kind : Kinds, revision : 1 .. MaxRevision, state : States]
    /\ imEditor \in BOOLEAN /\ imPinned \in BOOLEAN
    /\ imResult \in Routes \union {"none"}
    /\ imWritten \subseteq [kind : {"save", "copy"}, revision : 1 .. MaxRevision]
    /\ imLetGo \subseteq 1 .. MaxRevision

(* Only an open viewer exports or asks, and not both; an export that is    *)
(* said to be done was written; a text window that nobody asked to show    *)
(* its image is alone with it.                                             *)
SessionOrder ==
    /\ imViewer.busy <=> imExport # None
    /\ imViewer.busy => imViewer.open
    /\ imViewer.question # 0 => imViewer.open /\ ~imViewer.busy
    /\ imExport # None /\ imExport.state = "done" =>
         [kind |-> imExport.kind, revision |-> imExport.revision] \in imWritten
    /\ imResult = "StandaloneText" => imDoc.revision = 1 /\ ~imViewer.open /\ ~imEditor

SessionInv == SessionTyped /\ SessionOrder /\ ImageSafe

Viewers == [open : BOOLEAN, shown : 0 .. MaxRevision, outputs : [save : States, copy : States],
            busy : BOOLEAN, question : 0 .. MaxRevision, memory : BOOLEAN]

ViewerMarks(viewer) ==
    /\ viewer.outputs.save = "done" => [kind |-> "save", revision |-> viewer.shown] \in imWritten
    /\ viewer.outputs.copy = "done" => [kind |-> "copy", revision |-> viewer.shown] \in imWritten

LEMMA ExportIsNotNone ==
    ASSUME NEW export \in [kind : Kinds, revision : 1 .. MaxRevision, state : States]
    PROVE  export # None
<1>1. DOMAIN export = {"kind", "revision", "state"} /\ DOMAIN None = {"none"}
  BY DEF None
<1> QED
  BY <1>1

(* Outputs nobody asked for are shown as done where the document's marks   *)
(* say so of the revision it has.                                          *)
LEMMA SharedTrue ==
    ASSUME SessionTyped, MarksTrue, NEW outputs \in [save : States, copy : States]
    PROVE  /\ SharedOutputs(imDoc, outputs) \in [save : States, copy : States]
           /\ SharedOutputs(imDoc, outputs).save \in {outputs.save, "done"}
           /\ SharedOutputs(imDoc, outputs).copy \in {outputs.copy, "done"}
           /\ SharedOutputs(imDoc, outputs).save # outputs.save =>
                [kind |-> "save", revision |-> imDoc.revision] \in imWritten
           /\ SharedOutputs(imDoc, outputs).copy # outputs.copy =>
                [kind |-> "copy", revision |-> imDoc.revision] \in imWritten
<1>1. imDoc.revision \in 1 .. MaxRevision
  BY DEF SessionTyped
<1>2. imDoc.saved = imDoc.revision => [kind |-> "save", revision |-> imDoc.revision] \in imWritten
  BY <1>1 DEF MarksTrue
<1>3. imDoc.copied = imDoc.revision => [kind |-> "copy", revision |-> imDoc.revision] \in imWritten
  BY <1>1 DEF MarksTrue
<1> QED
  BY <1>2, <1>3 DEF SharedOutputs, States

(* What a viewer shows once it has looked at the document.                 *)
LEMMA RefreshedTrue ==
    ASSUME SessionTyped, MarksTrue
    PROVE  /\ Refreshed \in Viewers /\ ViewerMarks(Refreshed) /\ Refreshed.shown = imDoc.revision
           /\ Refreshed.open = imViewer.open /\ Refreshed.busy = imViewer.busy
           /\ Refreshed.question = imViewer.question /\ Refreshed.memory = imViewer.memory
<1>1. imViewer \in Viewers /\ imDoc.revision \in 0 .. MaxRevision
  BY RevisionAssumption DEF SessionTyped, Viewers
<1>2. imViewer.outputs \in [save : States, copy : States] /\ NoOutputs \in [save : States, copy : States]
  BY <1>1 DEF Viewers, NoOutputs, States
<1>3. CASE imViewer.shown = imDoc.revision
  <2> DEFINE outputs == SharedOutputs(imDoc, imViewer.outputs)
  <2>1. Refreshed = [imViewer EXCEPT !.outputs = outputs]
    BY <1>3 DEF Refreshed
  <2>2. /\ outputs \in [save : States, copy : States]
        /\ outputs.save # imViewer.outputs.save =>
             [kind |-> "save", revision |-> imDoc.revision] \in imWritten
        /\ outputs.copy # imViewer.outputs.copy =>
             [kind |-> "copy", revision |-> imDoc.revision] \in imWritten
    BY <1>2, SharedTrue
  <2> HIDE DEF outputs
  <2>3. Refreshed \in Viewers /\ Refreshed.outputs = outputs /\ Refreshed.shown = imDoc.revision
    BY <1>1, <1>3, <2>1, <2>2 DEF Viewers
  <2>4. ViewerMarks(Refreshed)
    BY <1>3, <2>2, <2>3 DEF ViewerMarks, MarksTrue
  <2> QED
    BY <1>1, <2>1, <2>3, <2>4 DEF Viewers
<1>4. CASE imViewer.shown # imDoc.revision
  <2> DEFINE outputs == SharedOutputs(imDoc, NoOutputs)
  <2>1. Refreshed = [imViewer EXCEPT !.shown = imDoc.revision, !.outputs = outputs]
    BY <1>4 DEF Refreshed
  <2>2. /\ outputs \in [save : States, copy : States]
        /\ outputs.save # "off" => [kind |-> "save", revision |-> imDoc.revision] \in imWritten
        /\ outputs.copy # "off" => [kind |-> "copy", revision |-> imDoc.revision] \in imWritten
    BY <1>2, SharedTrue DEF NoOutputs
  <2> HIDE DEF outputs
  <2>3. Refreshed \in Viewers /\ Refreshed.outputs = outputs /\ Refreshed.shown = imDoc.revision
    BY <1>1, <2>1, <2>2 DEF Viewers
  <2>4. ViewerMarks(Refreshed)
    BY <2>2, <2>3 DEF ViewerMarks
  <2> QED
    BY <1>1, <2>1, <2>3, <2>4 DEF Viewers
<1> QED
  BY <1>3, <1>4

LEMMA NewViewerTrue ==
    ASSUME SessionTyped, MarksTrue
    PROVE  /\ NewViewer(imDoc) \in Viewers /\ ViewerMarks(NewViewer(imDoc))
           /\ NewViewer(imDoc).open /\ ~NewViewer(imDoc).busy /\ NewViewer(imDoc).question = 0
<1> DEFINE outputs == SharedOutputs(imDoc, NoOutputs)
<1>1. NoOutputs \in [save : States, copy : States] /\ imDoc.revision \in 0 .. MaxRevision
      /\ 0 \in 0 .. MaxRevision
  BY RevisionAssumption DEF NoOutputs, States, SessionTyped
<1>2. /\ outputs \in [save : States, copy : States]
      /\ outputs.save # "off" => [kind |-> "save", revision |-> imDoc.revision] \in imWritten
      /\ outputs.copy # "off" => [kind |-> "copy", revision |-> imDoc.revision] \in imWritten
  BY <1>1, SharedTrue DEF NoOutputs
<1> HIDE DEF outputs
<1>3. NewViewer(imDoc) = [ClosedViewer EXCEPT !.open = TRUE, !.shown = imDoc.revision,
                                              !.outputs = outputs]
  BY DEF NewViewer, outputs
<1>4. ClosedViewer \in Viewers /\ ~ClosedViewer.busy /\ ClosedViewer.question = 0
  BY <1>1 DEF ClosedViewer, Viewers
<1>5. NewViewer(imDoc) \in Viewers
  BY <1>1, <1>2, <1>3, <1>4 DEF Viewers
<1>6. /\ NewViewer(imDoc).open /\ NewViewer(imDoc).shown = imDoc.revision
      /\ NewViewer(imDoc).outputs = outputs
      /\ ~NewViewer(imDoc).busy /\ NewViewer(imDoc).question = 0
  BY <1>3, <1>4 DEF Viewers
<1> QED
  BY <1>2, <1>5, <1>6 DEF ViewerMarks

LEMMA PresentedTrue ==
    ASSUME SessionInv
    PROVE  /\ Presented \in Viewers /\ ViewerMarks(Presented) /\ Presented.open
           /\ Presented.busy = imViewer.busy
           /\ Presented.question # 0 => imViewer.question # 0
<1>1. imViewer.open \/ ~imViewer.busy
  BY DEF SessionInv, SessionOrder
<1>2. imViewer \in Viewers
  BY DEF SessionInv, SessionTyped, Viewers
<1>3. CASE imViewer.open
  BY <1>2, <1>3, RefreshedTrue DEF SessionInv, ImageSafe, Presented, Viewers
<1>4. CASE ~imViewer.open
  BY <1>1, <1>2, <1>4, NewViewerTrue DEF SessionInv, ImageSafe, Presented, Viewers
<1> QED
  BY <1>3, <1>4

(* The open viewer looks at the document and opens another window or none. *)
LEMMA LookingSteps ==
    ASSUME SessionInv, Poll \/ ViewerEdits \/ ViewerRecognizes \/ PinInProcess PROVE SessionInv'
<1>1. SessionTyped /\ SessionOrder /\ MarksTrue
  BY DEF SessionInv, ImageSafe
<1>2. /\ imViewer.open /\ imViewer' = Refreshed
      /\ imEditor' \in {imEditor, TRUE} /\ imPinned' \in {imPinned, TRUE}
      /\ imResult' \in {imResult, "SharedImage"}
      /\ UNCHANGED <<imDoc, imExport, imWritten, imLetGo>>
  BY DEF Poll, ViewerEdits, ViewerRecognizes, PinInProcess, ViewerActs
<1>3. /\ imViewer' \in Viewers /\ imViewer'.open /\ imViewer'.busy = imViewer.busy
      /\ imViewer'.question = imViewer.question /\ ViewerMarks(imViewer')
  BY <1>1, <1>2, RefreshedTrue
<1>4. SessionTyped'
  BY <1>1, <1>2, <1>3 DEF SessionTyped, Viewers, Routes
<1>5. SessionOrder'
  BY <1>1, <1>2, <1>3 DEF SessionOrder
<1>6. ImageSafe'
  BY <1>1, <1>2, <1>3 DEF ImageSafe, SomeoneHoldsImage, MarksTrue, ViewerMarks
<1> QED
  BY <1>4, <1>5, <1>6 DEF SessionInv

LEMMA StartExportStep ==
    ASSUME SessionInv, NEW kind \in Kinds, StartExport(kind) PROVE SessionInv'
<1>1. SessionTyped /\ SessionOrder /\ MarksTrue
  BY DEF SessionInv, ImageSafe
<1>2. /\ imViewer.open /\ ~imViewer.busy /\ imViewer.question = 0
      /\ imViewer' = [Refreshed EXCEPT !.busy = TRUE]
      /\ imExport' = [kind |-> kind, revision |-> imDoc.revision, state |-> "off"]
      /\ UNCHANGED <<imDoc, imEditor, imResult, imPinned, imWritten, imLetGo>>
  BY DEF StartExport, ViewerActs
<1>3. /\ imExport' \in [kind : Kinds, revision : 1 .. MaxRevision, state : States]
      /\ imExport' # None /\ imExport'.state # "done"
  <2>1. imExport' \in [kind : Kinds, revision : 1 .. MaxRevision, state : States]
    BY <1>1, <1>2 DEF SessionTyped, States
  <2> QED
    BY <1>2, <2>1, ExportIsNotNone
<1>4. /\ Refreshed \in Viewers /\ Refreshed.open /\ Refreshed.question = 0 /\ ViewerMarks(Refreshed)
  BY <1>1, <1>2, RefreshedTrue
<1>5. /\ imViewer' \in Viewers /\ imViewer'.open /\ imViewer'.busy
      /\ imViewer'.question = 0 /\ imViewer'.shown = Refreshed.shown
      /\ imViewer'.outputs = Refreshed.outputs
  BY <1>2, <1>4 DEF Viewers
<1>6. SessionTyped'
  BY <1>1, <1>2, <1>3, <1>5 DEF SessionTyped, Viewers
<1>7. SessionOrder'
  BY <1>1, <1>2, <1>3, <1>5 DEF SessionOrder
<1>8. ImageSafe'
  BY <1>1, <1>2, <1>4, <1>5 DEF ImageSafe, SomeoneHoldsImage, MarksTrue, ViewerMarks
<1> QED
  BY <1>6, <1>7, <1>8 DEF SessionInv

(* What was written stays written, whatever becomes of the document.       *)
LEMMA ExportEndsStep ==
    ASSUME SessionInv, NEW state \in States \ {"off"}, ExportEnds(state) PROVE SessionInv'
<1> DEFINE record == [kind |-> imExport.kind, revision |-> imExport.revision]
<1>1. SessionTyped /\ SessionOrder /\ ImageSafe
  BY DEF SessionInv
<1>2. /\ imExport \in [kind : Kinds, revision : 1 .. MaxRevision, state : States]
      /\ imExport' = [imExport EXCEPT !.state = state]
      /\ imWritten' = IF state = "done" THEN imWritten \union {record} ELSE imWritten
      /\ UNCHANGED <<imDoc, imViewer, imEditor, imResult, imPinned, imLetGo>>
  BY <1>1 DEF ExportEnds, SessionTyped
<1>3. /\ imExport' \in [kind : Kinds, revision : 1 .. MaxRevision, state : States]
      /\ imExport'.kind = imExport.kind /\ imExport'.revision = imExport.revision
      /\ imExport'.state = state
  BY <1>2
<1>4. imExport' # None /\ imExport # None
  BY <1>3, ExportIsNotNone DEF ExportEnds
<1>5. /\ imWritten \subseteq imWritten' /\ (state = "done" => record \in imWritten')
      /\ imWritten' \subseteq [kind : {"save", "copy"}, revision : 1 .. MaxRevision]
  BY <1>1, <1>2 DEF SessionTyped, Kinds
<1> HIDE DEF record
<1>6. SessionTyped'
  BY <1>1, <1>2, <1>3, <1>5 DEF SessionTyped
<1>7. SessionOrder'
  BY <1>1, <1>2, <1>3, <1>4, <1>5 DEF SessionOrder, record
<1>8. ImageSafe'
  <2>1. SomeoneHoldsImage'
    BY <1>1, <1>2, <1>5 DEF ImageSafe, SomeoneHoldsImage
  <2>2. MarksTrue'
    BY <1>1, <1>2, <1>5 DEF ImageSafe, MarksTrue
  <2> QED
    BY <2>1, <2>2 DEF ImageSafe
<1> QED
  BY <1>6, <1>7, <1>8 DEF SessionInv

LEMMA NewDocumentIs ==
    NewDocument(<<>>) = [revision |-> 1, saved |-> 0, copied |-> 0, cache |-> None,
                         state |-> NewDocument(<<>>).state]
BY DEF NewDocument

(* However the image came, a viewer that opens on it tells what was saved. *)
LEMMA SessionInitInv == SessionInit => SessionInv
<1> SUFFICES ASSUME SessionInit PROVE SessionInv
  OBVIOUS
<1> DEFINE new == NewDocument(<<>>)
<1>1. /\ 1 \in 1 .. MaxRevision /\ 0 \in 0 .. MaxRevision /\ 1 \in 0 .. MaxRevision
  BY RevisionAssumption
<1>2. /\ imExport = None /\ imEditor = FALSE /\ imPinned = FALSE /\ imLetGo = {}
      /\ imDoc \in {new, MarkSaved(new, 1)}
  BY DEF SessionInit
<1>3. /\ MarkSaved(new, 1) = [revision |-> 1, saved |-> 1, copied |-> 0, cache |-> None,
                              state |-> new.state]
  BY NewDocumentIs DEF MarkSaved
<1>4. /\ imDoc \in [revision : 1 .. MaxRevision, saved : 0 .. MaxRevision, copied : 0 .. MaxRevision,
                    cache : {None}, state : {NewDocument(<<>>).state}]
      /\ imDoc.revision = 1 /\ imDoc.saved \in {0, 1} /\ imDoc.copied = 0
  <2> HIDE DEF new
  <2>1. new = [revision |-> 1, saved |-> 0, copied |-> 0, cache |-> None, state |-> new.state]
    BY NewDocumentIs DEF new
  <2> QED
    BY <1>1, <1>2, <1>3, <2>1 DEF new
<1>5. /\ imWritten \subseteq [kind : {"save", "copy"}, revision : 1 .. MaxRevision]
      /\ imDoc.saved # 0 => [kind |-> "save", revision |-> 1] \in imWritten
  <2>1. new.saved = 0
    BY NewDocumentIs
  <2> QED
    BY <1>1, <2>1 DEF SessionInit
<1>6. imResult \in {"none", "StandaloneText"} /\ (imResult = "none" => imViewer.open)
      /\ (imResult = "StandaloneText" => imViewer = ClosedViewer)
  <2>1. CASE imResult = "none"
    <3>1. \E memory \in BOOLEAN : imViewer \in {[NewViewer(imDoc) EXCEPT !.memory = memory], NewViewer(imDoc)}
      BY <2>1 DEF SessionInit
    <3> QED
      BY <2>1, <3>1 DEF NewViewer, ClosedViewer
  <2>2. CASE imResult # "none"
    BY <2>2 DEF SessionInit
  <2> QED
    BY <2>1, <2>2
<1>7. /\ imViewer \in Viewers /\ ViewerMarks(imViewer) /\ ~imViewer.busy /\ imViewer.question = 0
  <2>1. NoOutputs \in [save : States, copy : States]
    BY DEF NoOutputs, States
  <2>2. CASE imViewer = ClosedViewer
    BY <1>1, <2>1, <2>2 DEF ClosedViewer, Viewers, ViewerMarks, NoOutputs
  <2>3. CASE \E memory \in BOOLEAN :
               imViewer \in {[NewViewer(imDoc) EXCEPT !.memory = memory], NewViewer(imDoc)}
    <3> DEFINE outputs == SharedOutputs(imDoc, NoOutputs)
    <3>1. outputs \in [save : States, copy : States]
          /\ (outputs.save = "done" => imDoc.saved = 1) /\ outputs.copy # "done"
      BY <1>4, <2>1 DEF SharedOutputs, NoOutputs, States
    <3> HIDE DEF outputs
    <3>2. PICK memory \in BOOLEAN :
            imViewer = [open |-> TRUE, shown |-> 1, outputs |-> outputs, busy |-> FALSE,
                        question |-> 0, memory |-> memory]
      BY <1>4, <2>3 DEF NewViewer, ClosedViewer, outputs
    <3> QED
      BY <1>1, <1>5, <3>1, <3>2 DEF Viewers, ViewerMarks
  <2> QED
    BY <2>2, <2>3 DEF SessionInit
<1>8. SessionTyped
  BY <1>1, <1>2, <1>4, <1>5, <1>6, <1>7 DEF SessionTyped, Viewers, Routes
<1>9. SessionOrder
  BY <1>2, <1>4, <1>6, <1>7 DEF SessionOrder, ClosedViewer
<1>10. ImageSafe
  BY <1>2, <1>4, <1>5, <1>6, <1>7 DEF ImageSafe, SomeoneHoldsImage, MarksTrue, ViewerMarks
<1> QED
  BY <1>8, <1>9, <1>10 DEF SessionInv

(* The question is asked while no export runs; staying takes it back.      *)
LEMMA QuestionSteps == ASSUME SessionInv, AskClose \/ AnswerStay PROVE SessionInv'
<1>1. SessionTyped /\ SessionOrder /\ ImageSafe
  BY DEF SessionInv
<1>2. PICK question \in 0 .. MaxRevision :
        /\ imViewer' = [imViewer EXCEPT !.question = question]
        /\ question # 0 => imViewer.open /\ ~imViewer.busy
        /\ UNCHANGED <<imDoc, imExport, imEditor, imResult, imPinned, imWritten, imLetGo>>
  BY <1>1, RevisionAssumption DEF AskClose, AnswerStay, ViewerActs, SessionTyped
<1>3. /\ imViewer' \in Viewers /\ imViewer'.open = imViewer.open /\ imViewer'.busy = imViewer.busy
      /\ imViewer'.question = question /\ imViewer'.shown = imViewer.shown
      /\ imViewer'.outputs = imViewer.outputs
  BY <1>1, <1>2 DEF SessionTyped, Viewers
<1>4. SessionTyped'
  BY <1>1, <1>2, <1>3 DEF SessionTyped, Viewers
<1>5. SessionOrder'
  BY <1>1, <1>2, <1>3 DEF SessionOrder
<1>6. ImageSafe'
  BY <1>1, <1>2, <1>3 DEF ImageSafe, SomeoneHoldsImage, MarksTrue
<1> QED
  BY <1>4, <1>5, <1>6 DEF SessionInv

LEMMA ClosedIsTyped ==
    ClosedViewer \in Viewers /\ ViewerMarks(ClosedViewer) /\ ~ClosedViewer.open
    /\ ~ClosedViewer.busy /\ ClosedViewer.question = 0
<1>1. 0 \in 0 .. MaxRevision /\ NoOutputs \in [save : States, copy : States]
  BY RevisionAssumption DEF NoOutputs, States
<1> QED
  BY <1>1 DEF ClosedViewer, Viewers, ViewerMarks, NoOutputs

(* The viewer closes on the answer only if it was about this revision.     *)
LEMMA AnswerCloseStep == ASSUME SessionInv, AnswerClose PROVE SessionInv'
<1>1. SessionTyped /\ SessionOrder /\ ImageSafe
  BY DEF SessionInv
<1>2. /\ imViewer.question # 0 /\ imViewer.question \in 1 .. MaxRevision
      /\ imLetGo' = imLetGo \union {imViewer.question}
      /\ UNCHANGED <<imDoc, imExport, imEditor, imResult, imPinned, imWritten>>
      /\ imViewer.open /\ ~imViewer.busy /\ imExport = None
  BY <1>1 DEF AnswerClose, SessionTyped, SessionOrder
<1>3. /\ imViewer' \in Viewers /\ ~imViewer'.busy /\ imViewer'.question = 0
      /\ ViewerMarks(imViewer')
      /\ imViewer'.open \/ imDoc.revision \in imLetGo'
      /\ imViewer'.open => imViewer.open
  <2>1. CASE imDoc.revision = imViewer.question
    <3>1. imViewer' = ClosedViewer
      BY <2>1 DEF AnswerClose, ExportMatchesRevision
    <3> QED
      BY <1>2, <2>1, <3>1, ClosedIsTyped
  <2>2. CASE imDoc.revision # imViewer.question
    <3>1. imViewer' = [imViewer EXCEPT !.question = 0]
      BY <2>2 DEF AnswerClose, ExportMatchesRevision
    <3>2. 0 \in 0 .. MaxRevision /\ imViewer \in Viewers
      BY <1>1, RevisionAssumption DEF SessionTyped, Viewers
    <3>3. imViewer' \in Viewers /\ ~imViewer'.busy /\ imViewer'.question = 0 /\ imViewer'.open
          /\ imViewer'.outputs = imViewer.outputs /\ imViewer'.shown = imViewer.shown
      BY <1>2, <3>1, <3>2 DEF Viewers
    <3> QED
      BY <1>1, <1>2, <3>3 DEF ViewerMarks, ImageSafe, MarksTrue
  <2> QED
    BY <2>1, <2>2
<1>4. SessionTyped'
  BY <1>1, <1>2, <1>3 DEF SessionTyped, Viewers
<1>5. SessionOrder'
  BY <1>1, <1>2, <1>3 DEF SessionOrder
<1>6. ImageSafe'
  BY <1>1, <1>2, <1>3 DEF ImageSafe, SomeoneHoldsImage, MarksTrue, ViewerMarks
<1> QED
  BY <1>4, <1>5, <1>6 DEF SessionInv

(* A revision that needs no output was written: a mark says so.            *)
LEMMA OutputIsWritten ==
    ASSUME SessionTyped, MarksTrue, ~NeedsOutput(imDoc)
    PROVE  \E kind \in {"save", "copy"} : [kind |-> kind, revision |-> imDoc.revision] \in imWritten
<1>1. imDoc.revision # 0
  BY DEF SessionTyped
<1> QED
  BY <1>1 DEF NeedsOutput, MarksTrue

LEMMA CloseViewerStep == ASSUME SessionInv, CloseViewer PROVE SessionInv'
<1>1. SessionTyped /\ SessionOrder /\ ImageSafe
  BY DEF SessionInv
<1>2. /\ imViewer.open /\ ~imViewer.busy /\ imViewer' = ClosedViewer /\ ~NeedsOutput(imDoc)
      /\ UNCHANGED <<imDoc, imExport, imEditor, imResult, imPinned, imWritten, imLetGo>>
  BY DEF CloseViewer, ViewerActs, Unsaved
<1>3. SessionTyped'
  BY <1>1, <1>2, ClosedIsTyped DEF SessionTyped, Viewers
<1>4. SessionOrder'
  BY <1>1, <1>2, ClosedIsTyped DEF SessionOrder
<1>5. ImageSafe'
  BY <1>1, <1>2, ClosedIsTyped, OutputIsWritten DEF ImageSafe, SomeoneHoldsImage, MarksTrue, ViewerMarks
<1> QED
  BY <1>3, <1>4, <1>5 DEF SessionInv

(* Only an export that was written is marked, and only on the revision it  *)
(* was an export of.                                                       *)
LEMMA ReportTrue ==
    ASSUME NEW viewer \in Viewers, ViewerMarks(viewer), NEW kind \in Kinds, NEW state \in States,
           state = "done" => [kind |-> kind, revision |-> viewer.shown] \in imWritten
    PROVE  /\ Report(viewer, kind, state) \in Viewers /\ ViewerMarks(Report(viewer, kind, state))
           /\ Report(viewer, kind, state).open = viewer.open
           /\ Report(viewer, kind, state).question = viewer.question
<1>1. CASE kind = "save"
  <2>1. Report(viewer, kind, state) = [viewer EXCEPT !.outputs.save = state]
    BY <1>1 DEF Report
  <2> QED
    BY <1>1, <2>1 DEF Viewers, ViewerMarks
<1>2. CASE kind = "copy"
  <2>1. Report(viewer, kind, state) = [viewer EXCEPT !.outputs.copy = state]
    BY <1>2 DEF Report
  <2> QED
    BY <1>2, <2>1 DEF Viewers, ViewerMarks
<1> QED
  BY <1>1, <1>2 DEF Kinds

LEMMA MarkTrue ==
    ASSUME SessionTyped, MarksTrue, NEW kind \in Kinds, NEW state \in States,
           NEW revision \in 0 .. MaxRevision,
           state = "done" => [kind |-> kind, revision |-> revision] \in imWritten
    PROVE  LET doc == Mark(imDoc, kind, state, revision)
           IN  /\ doc \in [revision : 1 .. MaxRevision, saved : 0 .. MaxRevision,
                           copied : 0 .. MaxRevision, cache : {None}, state : {NewDocument(<<>>).state}]
               /\ doc.saved \in {0, doc.revision} /\ doc.copied \in {0, doc.revision}
               /\ doc.revision = imDoc.revision
               /\ doc.saved # 0 => [kind |-> "save", revision |-> doc.saved] \in imWritten
               /\ doc.copied # 0 => [kind |-> "copy", revision |-> doc.copied] \in imWritten
<1>1. imDoc.saved # 0 => [kind |-> "save", revision |-> imDoc.saved] \in imWritten
  BY DEF MarksTrue
<1>2. imDoc.copied # 0 => [kind |-> "copy", revision |-> imDoc.copied] \in imWritten
  BY DEF MarksTrue
<1>3. CASE kind = "save" /\ state = "done" /\ revision = imDoc.revision
  <2>1. Mark(imDoc, kind, state, revision) = [imDoc EXCEPT !.saved = revision]
    BY <1>3 DEF Mark, MarkSaved
  <2> QED
    BY <1>1, <1>2, <1>3, <2>1 DEF SessionTyped
<1>4. CASE kind = "copy" /\ state = "done" /\ revision = imDoc.revision
  <2>1. Mark(imDoc, kind, state, revision) = [imDoc EXCEPT !.copied = revision]
    BY <1>4 DEF Mark, MarkCopied
  <2> QED
    BY <1>1, <1>2, <1>4, <2>1 DEF SessionTyped
<1>5. CASE state # "done" \/ revision # imDoc.revision
  <2>1. Mark(imDoc, kind, state, revision) = imDoc
    BY <1>5 DEF Mark, MarkSaved, MarkCopied, Kinds
  <2> QED
    BY <1>1, <1>2, <2>1 DEF SessionTyped
<1> QED
  BY <1>3, <1>4, <1>5 DEF Kinds

LEMMA ExportReportedStep == ASSUME SessionInv, ExportReported PROVE SessionInv'
<1>1. SessionTyped /\ SessionOrder /\ ImageSafe /\ MarksTrue
  BY DEF SessionInv, ImageSafe
<1>2. PICK viewer \in {Refreshed, imViewer} :
        LET match == ExportMatchesRevision(viewer.shown, imExport.revision)
            told == IF match THEN Report(viewer, imExport.kind, imExport.state) ELSE viewer
        IN  /\ imViewer' = [told EXCEPT !.busy = FALSE]
            /\ imDoc' = IF match THEN Mark(imDoc, imExport.kind, imExport.state, viewer.shown)
                        ELSE imDoc
  BY DEF ExportReported
<1>3. /\ imExport # None /\ imExport' = None
      /\ UNCHANGED <<imEditor, imResult, imPinned, imWritten, imLetGo>>
  BY DEF ExportReported
<1>4. /\ imViewer.open /\ imViewer.busy /\ imViewer.question = 0 /\ imResult # "StandaloneText"
      /\ imExport \in [kind : Kinds, revision : 1 .. MaxRevision, state : States]
      /\ imExport.state = "done" =>
           [kind |-> imExport.kind, revision |-> imExport.revision] \in imWritten
  <2>1. imViewer.busy
    BY <1>1, <1>3 DEF SessionOrder
  <2>2. imViewer.open
    BY <1>1, <2>1 DEF SessionOrder
  <2> QED
    BY <1>1, <1>3, <2>1, <2>2 DEF SessionTyped, SessionOrder
<1>5. /\ viewer \in Viewers /\ ViewerMarks(viewer) /\ viewer.open /\ viewer.question = 0
  <2>1. imViewer \in Viewers /\ ViewerMarks(imViewer)
    BY <1>1 DEF SessionTyped, Viewers, MarksTrue, ViewerMarks
  <2> QED
    BY <1>1, <1>4, <2>1, RefreshedTrue
<1> DEFINE match == viewer.shown = imExport.revision
           told == IF match THEN Report(viewer, imExport.kind, imExport.state) ELSE viewer
<1>6. /\ imViewer' = [told EXCEPT !.busy = FALSE]
      /\ imDoc' = IF match THEN Mark(imDoc, imExport.kind, imExport.state, viewer.shown) ELSE imDoc
  BY <1>2 DEF ExportMatchesRevision
<1>7. /\ told \in Viewers /\ ViewerMarks(told) /\ told.open /\ told.question = 0
  <2>1. CASE match
    <3>1. told = Report(viewer, imExport.kind, imExport.state)
      BY <2>1
    <3>2. imExport.kind \in Kinds /\ imExport.state \in States
          /\ (imExport.state = "done" => [kind |-> imExport.kind, revision |-> viewer.shown] \in imWritten)
      BY <1>4, <2>1
    <3> HIDE DEF told
    <3> QED
      BY <1>5, <3>1, <3>2, ReportTrue
  <2>2. CASE ~match
    BY <1>5, <2>2
  <2> QED
    BY <2>1, <2>2
<1>8. /\ imDoc' \in [revision : 1 .. MaxRevision, saved : 0 .. MaxRevision,
                     copied : 0 .. MaxRevision, cache : {None}, state : {NewDocument(<<>>).state}]
      /\ imDoc'.saved \in {0, imDoc'.revision} /\ imDoc'.copied \in {0, imDoc'.revision}
      /\ imDoc'.revision = imDoc.revision
      /\ imDoc'.saved # 0 => [kind |-> "save", revision |-> imDoc'.saved] \in imWritten
      /\ imDoc'.copied # 0 => [kind |-> "copy", revision |-> imDoc'.copied] \in imWritten
  <2>1. CASE match
    <3>1. imDoc' = Mark(imDoc, imExport.kind, imExport.state, viewer.shown)
      BY <1>6, <2>1
    <3>2. imExport.kind \in Kinds /\ imExport.state \in States /\ viewer.shown \in 0 .. MaxRevision
          /\ (imExport.state = "done" => [kind |-> imExport.kind, revision |-> viewer.shown] \in imWritten)
      BY <1>4, <1>5, <2>1 DEF Viewers
    <3> QED
      BY <1>1, <3>1, <3>2, MarkTrue
  <2>2. CASE ~match
    <3>1. imDoc' = imDoc
      BY <1>6, <2>2
    <3> QED
      BY <1>1, <3>1 DEF SessionTyped, MarksTrue
  <2> QED
    BY <2>1, <2>2
<1> HIDE DEF told, match
<1>9. /\ imViewer' \in Viewers /\ ViewerMarks(imViewer') /\ imViewer'.open /\ imViewer'.question = 0
      /\ ~imViewer'.busy
  BY <1>6, <1>7 DEF Viewers, ViewerMarks
<1>10. SessionTyped'
  BY <1>1, <1>3, <1>8, <1>9 DEF SessionTyped, Viewers
<1>11. SessionOrder'
  BY <1>1, <1>3, <1>4, <1>8, <1>9 DEF SessionOrder
<1>12. ImageSafe'
  BY <1>3, <1>8, <1>9 DEF ImageSafe, SomeoneHoldsImage, MarksTrue, ViewerMarks
<1> QED
  BY <1>10, <1>11, <1>12 DEF SessionInv

(* An edit takes the marks back; the viewer shows it without any, opens on *)
(* it, or keeps what it shows.                                             *)
LEMMA EditorAppliesStep == ASSUME SessionInv, EditorApplies PROVE SessionInv'
<1>1. SessionTyped /\ SessionOrder /\ MarksTrue
  BY DEF SessionInv, ImageSafe
<1>2. /\ imEditor /\ imDoc.revision < MaxRevision /\ imDoc' = BumpRevision(imDoc)
      /\ UNCHANGED <<imExport, imEditor, imResult, imPinned, imWritten, imLetGo>>
      /\ \/ imViewer' = imViewer
         \/ imViewer.open /\ imViewer' = [imViewer EXCEPT !.shown = imDoc.revision + 1, !.outputs = NoOutputs]
         \/ ~imViewer.open /\ imViewer' = NewViewer(imDoc')
  BY DEF EditorApplies
<1>3. imDoc.revision + 1 \in 1 .. MaxRevision /\ imDoc.revision + 1 \in 0 .. MaxRevision
      /\ 0 \in 0 .. MaxRevision
  BY <1>1, <1>2, RevisionAssumption DEF SessionTyped
<1>4. /\ imDoc' \in [revision : 1 .. MaxRevision, saved : 0 .. MaxRevision,
                     copied : 0 .. MaxRevision, cache : {None}, state : {NewDocument(<<>>).state}]
      /\ imDoc'.revision = imDoc.revision + 1 /\ imDoc'.saved = 0 /\ imDoc'.copied = 0
  BY <1>1, <1>2, <1>3 DEF SessionTyped, BumpRevision
<1>5. NoOutputs \in [save : States, copy : States]
  BY DEF NoOutputs, States
<1>6. /\ imViewer' \in Viewers /\ ViewerMarks(imViewer')
      /\ imViewer'.busy = imViewer.busy /\ (imViewer.open => imViewer'.open)
      /\ (imViewer'.question # 0 => imViewer.question # 0)
  <2>0. imViewer \in Viewers
    BY <1>1 DEF SessionTyped, Viewers
  <2>1. CASE imViewer' = imViewer
    BY <1>1, <2>0, <2>1 DEF MarksTrue, ViewerMarks
  <2>2. CASE imViewer' = [imViewer EXCEPT !.shown = imDoc.revision + 1, !.outputs = NoOutputs]
    <3>1. /\ imViewer' \in Viewers /\ imViewer'.outputs = NoOutputs
          /\ imViewer'.busy = imViewer.busy /\ imViewer'.open = imViewer.open
          /\ imViewer'.question = imViewer.question
      BY <1>3, <1>5, <2>0, <2>2 DEF Viewers
    <3> QED
      BY <3>1 DEF ViewerMarks, NoOutputs
  <2>3. CASE ~imViewer.open /\ imViewer' = NewViewer(imDoc')
    <3>1. SharedOutputs(imDoc', NoOutputs) = NoOutputs
      BY <1>3, <1>4 DEF SharedOutputs, NoOutputs
    <3>2. imViewer' = [open |-> TRUE, shown |-> imDoc.revision + 1, outputs |-> NoOutputs,
                       busy |-> FALSE, question |-> 0, memory |-> FALSE]
      BY <1>4, <2>3, <3>1 DEF NewViewer, ClosedViewer
    <3>3. imViewer.busy = FALSE
      <4>1. ~imViewer.busy /\ imViewer.busy \in BOOLEAN
        BY <1>1, <2>0, <2>3 DEF SessionOrder, Viewers
      <4> QED
        BY <4>1
    <3>4. imViewer' \in Viewers
      BY <1>3, <1>5, <3>2 DEF Viewers
    <3>5. imViewer'.busy = FALSE /\ imViewer'.question = 0 /\ imViewer'.outputs = NoOutputs
      BY <3>2
    <3>6. ViewerMarks(imViewer')
      BY <3>5 DEF ViewerMarks, NoOutputs
    <3>7. imViewer'.busy = imViewer.busy
      BY <3>3, <3>5
    <3> QED
      BY <2>3, <3>4, <3>5, <3>6, <3>7
  <2> QED
    BY <1>2, <2>1, <2>2, <2>3
<1>7. SessionTyped'
  BY <1>1, <1>2, <1>4, <1>6 DEF SessionTyped, Viewers
<1>8. SessionOrder'
  BY <1>1, <1>2, <1>6 DEF SessionOrder
<1>9. ImageSafe'
  BY <1>2, <1>4, <1>6 DEF ImageSafe, SomeoneHoldsImage, MarksTrue, ViewerMarks
<1> QED
  BY <1>7, <1>8, <1>9 DEF SessionInv

(* The editor and a text window leave the image to the viewer, or close on *)
(* one that was written, or with the text it was taken for.                *)
LEMMA LeavingSteps ==
    ASSUME SessionInv, EditorCloses \/ ResultViews \/ ResultEdits \/ ResultCloses PROVE SessionInv'
<1>1. SessionTyped /\ SessionOrder /\ ImageSafe /\ MarksTrue
  BY DEF SessionInv, ImageSafe
<1>2. imViewer \in Viewers /\ ViewerMarks(imViewer)
  BY <1>1 DEF SessionTyped, Viewers, MarksTrue, ViewerMarks
<1>3. /\ imViewer' \in Viewers /\ ViewerMarks(imViewer')
      /\ imViewer'.busy = imViewer.busy /\ (imViewer.open => imViewer'.open)
      /\ (imViewer'.question # 0 => imViewer.question # 0)
  <2>1. imViewer' \in {Presented, imViewer}
    BY DEF EditorCloses, ResultViews, ResultEdits, ResultCloses
  <2> QED
    BY <1>2, <2>1, PresentedTrue
<1>4. UNCHANGED <<imDoc, imExport, imPinned, imWritten>>
  BY DEF EditorCloses, ResultViews, ResultEdits, ResultCloses
<1>5. /\ imEditor' \in BOOLEAN /\ imResult' \in {"none", "SharedImage", imResult}
      /\ imLetGo \subseteq imLetGo' /\ imLetGo' \subseteq 1 .. MaxRevision
      /\ (imResult' = "StandaloneText" => ~imEditor' /\ imViewer' = imViewer)
  <2>1. 1 \in 1 .. MaxRevision
    BY RevisionAssumption
  <2>2. CASE EditorCloses
    <3>1. imEditor /\ imResult # "StandaloneText"
      BY <1>1, <2>2 DEF EditorCloses, SessionOrder
    <3> QED
      BY <1>1, <2>2, <3>1 DEF EditorCloses, SessionTyped
  <2>3. CASE ResultViews
    BY <1>1, <2>3 DEF ResultViews, SessionTyped
  <2>4. CASE ResultEdits
    BY <1>1, <2>4 DEF ResultEdits, SessionTyped
  <2>5. CASE ResultCloses
    BY <1>1, <2>1, <2>5 DEF ResultCloses, SessionTyped
  <2> QED
    BY <2>2, <2>3, <2>4, <2>5
<1>6. SessionTyped'
  BY <1>1, <1>3, <1>4, <1>5 DEF SessionTyped, Viewers, Routes
<1>7. SessionOrder'
  BY <1>1, <1>3, <1>4, <1>5 DEF SessionOrder
<1>8. SomeoneHoldsImage'
  <2>1. CASE EditorCloses
    <3>1. NeedsOutput(imDoc) => imViewer'.open
      BY <2>1, PresentedTrue DEF EditorCloses
    <3> QED
      BY <1>1, <1>4, <3>1, OutputIsWritten DEF SomeoneHoldsImage
  <2>2. CASE ResultViews \/ ResultEdits
    BY <2>2 DEF ResultViews, ResultEdits, SomeoneHoldsImage
  <2>3. CASE ResultCloses
    <3>1. CASE imResult = "StandaloneText"
      <4>1. imDoc.revision \in imLetGo'
        BY <1>1, <2>3, <3>1 DEF ResultCloses, SessionOrder
      <4> QED
        BY <1>4, <4>1 DEF SomeoneHoldsImage
    <3>2. CASE imResult # "StandaloneText"
      <4>1. imResult = "SharedImage"
        BY <1>1, <2>3, <3>2 DEF ResultCloses, SessionTyped, Routes
      <4>2. NeedsOutput(imDoc) => imViewer'.open
        BY <2>3, <4>1, PresentedTrue DEF ResultCloses
      <4> QED
        BY <1>1, <1>4, <4>2, OutputIsWritten DEF SomeoneHoldsImage
    <3> QED
      BY <3>1, <3>2
  <2> QED
    BY <2>1, <2>2, <2>3
<1>9. MarksTrue'
  BY <1>1, <1>3, <1>4 DEF MarksTrue, ViewerMarks
<1> QED
  BY <1>6, <1>7, <1>8, <1>9 DEF SessionInv, ImageSafe

LEMMA SessionNextInv == SessionInv /\ [SessionNext]_imVars => SessionInv'
<1> SUFFICES ASSUME SessionInv, [SessionNext]_imVars PROVE SessionInv'
  OBVIOUS
<1>1. CASE UNCHANGED imVars
  BY <1>1 DEF imVars, SessionInv, SessionTyped, SessionOrder, ImageSafe, SomeoneHoldsImage, MarksTrue
<1> QED
  BY <1>1, LookingSteps, StartExportStep, ExportEndsStep, ExportReportedStep, QuestionSteps,
     AnswerCloseStep, CloseViewerStep, EditorAppliesStep, LeavingSteps DEF SessionNext

LEMMA SessionInvSafe == SessionInv => SessionTypeOK /\ ImageSafe
<1> SUFFICES ASSUME SessionInv PROVE SessionTypeOK /\ ImageSafe
  OBVIOUS
<1>1. imExport # None => imExport.kind \in Kinds /\ imExport.state \in States
  BY DEF SessionInv, SessionTyped
<1> QED
  BY <1>1 DEF SessionInv, SessionTyped, SessionOrder, SessionTypeOK

(* The image is never lost with its last window, whatever was edited while *)
(* a question was open, and no mark claims what did not happen (preview.rs, *)
(* editor.rs and result.rs close, document.rs mark_saved).                 *)
THEOREM SessionKeeps == SessionSpec => [](SessionTypeOK /\ ImageSafe)
<1> QED
  BY SessionInitInv, SessionNextInv, SessionInvSafe, PTL DEF SessionSpec

-----------------------------------------------------------------------------
(* Delivery.  What each step still knows of the steps before it.           *)
SaveOrder ==
    /\ dlStep = "link" => dlTemp = "whole"
    /\ dlStep = "sync" => dlNames[dlSave.name] = "whole"
    /\ dlStep \in {"start", "prefs", "write", "link", "sync"} => dlSave.state = "none"
    /\ dlStep \in {"copy", "preview"} /\ dlJob.save => dlSave.state # "none"
    /\ dlStep \in {"prefs", "write", "link", "sync"} \/ dlSave.state # "none" => dlJob.save

CopyOrder ==
    /\ dlTool.phase = "taken" => dlPut
    /\ dlTool.phase # "none" => dlStep = "copy"
    /\ dlCopy # "uncertain"
    /\ dlStep = "preview" /\ dlJob.copy => dlCopy # "none"

WindowOrder ==
    /\ dlStep \in {"start", "prefs", "write", "link", "sync", "copy", "preview"} =>
         dlWindow = "none" /\ dlTold = [save |-> "none", copy |-> "none"]
    /\ dlTold.save \in {"none", dlSave.state} /\ dlTold.copy \in {"none", dlCopy}
    /\ dlJob.action \in {"confirm", "preview", "long", "detached", "cancel"}
    /\ dlJob.action = "cancel" => ~dlJob.save /\ ~dlJob.copy
    /\ dlStep = "memory" => dlWindow = "Unavailable"
    /\ dlStep = "end" /\ dlWindow # "Unavailable" =>
         /\ dlJob.save => dlSave.state # "none"
         /\ dlJob.copy => dlCopy # "none"
         /\ dlJob.action # "cancel" /\ NeedsWindow => dlWindow # "none"

DeliveryInv == DeliveryTypeOK /\ SaveOrder /\ CopyOrder /\ WindowOrder /\ Delivered

LEMMA DeliveryInitInv == DeliveryInit => DeliveryInv
<1> SUFFICES ASSUME DeliveryInit PROVE DeliveryInv
  OBVIOUS
<1> USE DeliveryAssumption DEF DeliveryInit
<1>1. /\ dlNames \in [Names -> {"free", "other"}] /\ 0 \in Names
      /\ dlJob \in [action : {"confirm", "preview", "long", "detached", "cancel"}, save : BOOLEAN,
                    copy : BOOLEAN]
      /\ dlJob.action = "cancel" => ~dlJob.save /\ ~dlJob.copy
  BY DEF Names
<1>2. DeliveryTypeOK
  <2>1. dlNames \in [Names -> {"free", "other", "empty", "whole"}] /\ dlOthers \subseteq Names
    BY <1>1
  <2>2. /\ dlTool \in [phase : {"none", "fed", "closed", "taken"}, fed : 0 .. FeedChunks]
        /\ dlSave \in [state : Exports, name : Names] /\ dlTold \in [save : Exports, copy : Exports]
    BY <1>1 DEF Exports
  <2> QED
    BY <2>1, <2>2 DEF DeliveryTypeOK, Exports
<1>3. SaveOrder /\ CopyOrder
  BY DEF SaveOrder, CopyOrder
<1>4. WindowOrder
  BY <1>1 DEF WindowOrder
<1>5. Delivered
  BY <1>1 DEF Delivered, FilesWhole, ExportsTrue, NothingLost
<1> QED
  BY <1>2, <1>3, <1>4, <1>5 DEF DeliveryInv

(* Saving: a name is published only with the whole picture behind it, and *)
(* the outcome stands from then on.                                        *)
LEMMA SavingSteps ==
    ASSUME DeliveryInv, BeginDelivery \/ PrepareSave \/ WriteSave \/ SyncSave
    PROVE  DeliveryInv'
<1> USE DEF DeliveryInv, Delivering
<1>1. DeliveryTypeOK'
  BY DeliveryAssumption DEF DeliveryTypeOK, Names, Exports, BeginDelivery, PrepareSave, WriteSave,
     SyncSave, SaveEnds, Dropped, AfterSave, AfterCopy, FilesRest, ClipboardRests, WindowRests
<1>2. SaveOrder'
  BY DEF SaveOrder, CopyOrder, DeliveryTypeOK, Exports, BeginDelivery, PrepareSave, WriteSave,
     SyncSave, SaveEnds, Dropped, AfterSave, AfterCopy, FilesRest, ClipboardRests, WindowRests
<1>3. CopyOrder'
  BY DEF CopyOrder, DeliveryTypeOK, Exports, BeginDelivery, PrepareSave, WriteSave, SyncSave,
     SaveEnds, Dropped, AfterSave, AfterCopy, FilesRest, ClipboardRests, WindowRests
<1>4. WindowOrder'
  BY DEF SaveOrder, CopyOrder, WindowOrder, DeliveryTypeOK, Exports, NeedsWindow, ExportFailed,
     BeginDelivery, PrepareSave, WriteSave, SyncSave, SaveEnds, Dropped, AfterSave, AfterCopy,
     FilesRest, ClipboardRests, WindowRests
<1>5. FilesWhole'
  BY DEF FilesWhole, Delivered, SaveOrder, DeliveryTypeOK, BeginDelivery, PrepareSave, WriteSave,
     SyncSave, SaveEnds, Dropped, AfterSave, AfterCopy, FilesRest, ClipboardRests, WindowRests
<1>6. ExportsTrue'
  BY DEF ExportsTrue, Delivered, SaveOrder, CopyOrder, WindowOrder, DeliveryTypeOK, BeginDelivery,
     PrepareSave, WriteSave, SyncSave, SaveEnds, Dropped, AfterSave, AfterCopy, FilesRest,
     ClipboardRests, WindowRests
<1>7. NothingLost'
  BY DEF NothingLost, Delivered, SaveOrder, WindowOrder, NeedsWindow, ExportFailed,
     DeliveryTypeOK, Exports, BeginDelivery, PrepareSave, WriteSave, SyncSave, SaveEnds, Dropped,
     AfterSave, AfterCopy, FilesRest, ClipboardRests, WindowRests
<1> QED
  BY <1>1, <1>2, <1>3, <1>4, <1>5, <1>6, <1>7 DEF Delivered

(* The link takes a name only where none was.                              *)
LEMMA PublishStep ==
    ASSUME DeliveryInv, PublishSave PROVE DeliveryInv'
<1> USE DEF DeliveryInv, Delivering
<1>1. DeliveryTypeOK'
  <2>1. dlSave.name \in Names /\ dlSave \in [state : Exports, name : Names]
    BY DEF DeliveryTypeOK
  <2>2. dlSave' \in [state : Exports, name : Names]
    BY <2>1 DEF PublishSave, Linked, SaveEnds, Exports
  <2>3. dlTemp' \in {"none", dlTemp} /\ dlNames' \in {dlNames, [dlNames EXCEPT ![dlSave.name] = dlTemp]}
    BY DEF PublishSave, Linked, Dropped
  <2>4. dlNames' \in [Names -> {"free", "other", "empty", "whole"}]
    BY <2>1, <2>3 DEF DeliveryTypeOK, SaveOrder, PublishSave
  <2>5. dlStep' \in {"link", "sync", "copy", "preview", "end"}
    BY DEF PublishSave, Linked, SaveEnds, AfterSave, AfterCopy
  <2> QED
    BY <2>2, <2>3, <2>4, <2>5 DEF DeliveryTypeOK, PublishSave, ClipboardRests, WindowRests
<1>2. SaveOrder'
  BY DEF SaveOrder, CopyOrder, DeliveryTypeOK, Exports, PublishSave, Linked, SaveEnds, Dropped,
     AfterSave, AfterCopy, ClipboardRests, WindowRests
<1>3. CopyOrder'
  BY DEF CopyOrder, DeliveryTypeOK, Exports, PublishSave, Linked, SaveEnds, Dropped, AfterSave,
     AfterCopy, ClipboardRests, WindowRests
<1>4. WindowOrder'
  BY DEF SaveOrder, CopyOrder, WindowOrder, DeliveryTypeOK, Exports, NeedsWindow, ExportFailed,
     PublishSave, Linked, SaveEnds, Dropped, AfterSave, AfterCopy, ClipboardRests, WindowRests
<1>5. FilesWhole'
  BY DEF FilesWhole, Delivered, SaveOrder, DeliveryTypeOK, PublishSave, Linked, SaveEnds, Dropped,
     AfterSave, AfterCopy, ClipboardRests, WindowRests
<1>6. ExportsTrue'
  BY DEF ExportsTrue, Delivered, SaveOrder, CopyOrder, WindowOrder, DeliveryTypeOK, PublishSave,
     Linked, SaveEnds, Dropped, AfterSave, AfterCopy, ClipboardRests, WindowRests
<1>7. NothingLost'
  BY DEF NothingLost, Delivered, SaveOrder, WindowOrder, NeedsWindow, ExportFailed,
     DeliveryTypeOK, Exports, PublishSave, Linked, SaveEnds, Dropped, AfterSave, AfterCopy,
     ClipboardRests, WindowRests
<1> QED
  BY <1>1, <1>2, <1>3, <1>4, <1>5, <1>6, <1>7 DEF Delivered

(* The clipboard helper, which may take the selection after the process is *)
(* gone.                                                                   *)
LEMMA CopyingSteps ==
    ASSUME DeliveryInv, StartTool \/ FeedTool \/ ToolTakes \/ ToolSucceeds \/ ToolFails
    PROVE  DeliveryInv'
<1> USE DEF DeliveryInv, Delivering
<1>1. DeliveryTypeOK'
  <2>1. CASE StartTool
    BY DeliveryAssumption, <2>1 DEF DeliveryTypeOK, Names, Exports, StartTool, CopyEnds, AfterCopy,
       FilesRest, WindowRests
  <2>2. CASE FeedTool
    BY DeliveryAssumption, <2>2 DEF DeliveryTypeOK, Names, Exports, FeedTool, CopyEnds, AfterCopy,
       FilesRest, WindowRests
  <2>3. CASE ToolTakes
    BY DeliveryAssumption, <2>3 DEF DeliveryTypeOK, Names, Exports, ToolTakes, CopyEnds, AfterCopy,
       FilesRest, WindowRests
  <2>4. CASE ToolSucceeds
    BY DeliveryAssumption, <2>4 DEF DeliveryTypeOK, Names, Exports, ToolSucceeds, CopyEnds,
       AfterCopy, FilesRest, WindowRests
  <2>5. CASE ToolFails
    BY DeliveryAssumption, <2>5 DEF DeliveryTypeOK, Names, Exports, ToolFails, CopyEnds, AfterCopy,
       FilesRest, WindowRests
  <2> QED
    BY <2>1, <2>2, <2>3, <2>4, <2>5
<1>2. SaveOrder'
  BY DEF SaveOrder, CopyOrder, DeliveryTypeOK, Exports, StartTool, FeedTool, ToolTakes,
     ToolSucceeds, ToolFails, CopyEnds, AfterCopy, FilesRest, WindowRests
<1>3. CopyOrder'
  BY DEF CopyOrder, DeliveryTypeOK, Exports, StartTool, FeedTool, ToolTakes, ToolSucceeds,
     ToolFails, CopyEnds, AfterCopy, FilesRest, WindowRests
<1>4. WindowOrder'
  BY DEF SaveOrder, CopyOrder, WindowOrder, DeliveryTypeOK, Exports, NeedsWindow, ExportFailed,
     StartTool, FeedTool, ToolTakes, ToolSucceeds, ToolFails, CopyEnds, AfterCopy, FilesRest,
     WindowRests
<1>5. FilesWhole'
  BY DEF FilesWhole, Delivered, SaveOrder, DeliveryTypeOK, StartTool, FeedTool, ToolTakes,
     ToolSucceeds, ToolFails, CopyEnds, AfterCopy, FilesRest, WindowRests
<1>6. ExportsTrue'
  BY DEF ExportsTrue, Delivered, SaveOrder, CopyOrder, WindowOrder, DeliveryTypeOK, StartTool,
     FeedTool, ToolTakes, ToolSucceeds, ToolFails, CopyEnds, AfterCopy, FilesRest, WindowRests
<1>7. NothingLost'
  BY DEF NothingLost, Delivered, SaveOrder, WindowOrder, NeedsWindow, ExportFailed,
     DeliveryTypeOK, Exports, StartTool, FeedTool, ToolTakes, ToolSucceeds, ToolFails, CopyEnds,
     AfterCopy, FilesRest, WindowRests
<1> QED
  BY <1>1, <1>2, <1>3, <1>4, <1>5, <1>6, <1>7 DEF Delivered

(* The window and the end.  Whatever failed asked for a window.            *)
LEMMA EndingSteps ==
    ASSUME DeliveryInv, HandToWindow \/ MemoryWindowCloses \/ Exits \/ Killed
    PROVE  DeliveryInv'
<1> USE DEF DeliveryInv, Delivering
<1>1. DeliveryTypeOK'
  <2>1. CASE HandToWindow
    BY DeliveryAssumption, <2>1 DEF DeliveryTypeOK, Names, Exports, HandToWindow, ExitCode,
       FilesRest, ClipboardRests, WindowRests
  <2>2. CASE MemoryWindowCloses
    BY DeliveryAssumption, <2>2 DEF DeliveryTypeOK, Names, Exports, MemoryWindowCloses, ExitCode,
       FilesRest, ClipboardRests, WindowRests
  <2>3. CASE Exits
    BY DeliveryAssumption, <2>3 DEF DeliveryTypeOK, Names, Exports, Exits, ExitCode, FilesRest,
       ClipboardRests, WindowRests
  <2>4. CASE Killed
    BY DeliveryAssumption, <2>4 DEF DeliveryTypeOK, Names, Exports, Killed, ExitCode, FilesRest,
       ClipboardRests, WindowRests
  <2> QED
    BY <2>1, <2>2, <2>3, <2>4
<1>2. SaveOrder'
  BY DEF SaveOrder, CopyOrder, DeliveryTypeOK, Exports, HandToWindow, MemoryWindowCloses, Exits,
     Killed, ExitCode, FilesRest, ClipboardRests, WindowRests
<1>3. CopyOrder'
  BY DEF CopyOrder, DeliveryTypeOK, Exports, HandToWindow, MemoryWindowCloses, Exits, Killed,
     ExitCode, FilesRest, ClipboardRests, WindowRests
<1>4. WindowOrder'
  BY DEF SaveOrder, CopyOrder, WindowOrder, DeliveryTypeOK, Exports, NeedsWindow, ExportFailed,
     HandToWindow, MemoryWindowCloses, Exits, Killed, ExitCode, FilesRest, ClipboardRests,
     WindowRests
<1>5. FilesWhole'
  BY DEF FilesWhole, Delivered, SaveOrder, DeliveryTypeOK, HandToWindow, MemoryWindowCloses,
     Exits, Killed, ExitCode, FilesRest, ClipboardRests, WindowRests
<1>6. ExportsTrue'
  BY DEF ExportsTrue, Delivered, SaveOrder, CopyOrder, WindowOrder, DeliveryTypeOK, HandToWindow,
     MemoryWindowCloses, Exits, Killed, ExitCode, FilesRest, ClipboardRests, WindowRests
<1>7. NothingLost'
  <2>1. CASE HandToWindow \/ MemoryWindowCloses \/ Killed
    BY <2>1 DEF NothingLost, Delivered, HandToWindow, MemoryWindowCloses, Killed, FilesRest,
       ClipboardRests, WindowRests
  <2>2. CASE Exits
    <3>1. /\ dlStep = "end" /\ dlExit' = ExitCode
          /\ UNCHANGED <<dlJob, dlSave, dlCopy, dlWindow>>
      BY <2>2 DEF Exits, FilesRest, ClipboardRests, WindowRests
    <3>2. CASE dlExit' = "ok"
      <4>1. dlJob.action # "cancel" /\ ~ExportFailed /\ dlWindow \notin {"Retained", "Unavailable"}
        BY <3>1, <3>2 DEF ExitCode
      <4>2. /\ dlJob.save => dlSave.state = "done"
            /\ dlJob.copy => dlCopy = "done"
        BY <3>1, <4>1 DEF WindowOrder, ExportFailed, DeliveryTypeOK, Exports, CopyOrder
      <4>3. dlJob.action # "confirm" \/ ~(dlJob.save \/ dlJob.copy) => dlWindow = "Ready"
        BY <3>1, <4>1 DEF WindowOrder, NeedsWindow, DeliveryTypeOK
      <4> QED
        BY <3>1, <3>2, <4>2, <4>3 DEF NothingLost
    <3>3. CASE dlExit' = "failed"
      BY <3>1, <3>3 DEF NothingLost, ExitCode, WindowOrder, NeedsWindow
    <3> QED
      BY <3>2, <3>3 DEF NothingLost
  <2> QED
    BY <2>1, <2>2
<1> QED
  BY <1>1, <1>2, <1>3, <1>4, <1>5, <1>6, <1>7 DEF Delivered

(* Other programs take names that are free.                                *)
LEMMA OthersSteps ==
    ASSUME DeliveryInv, OtherSaves \/ OtherCopies PROVE DeliveryInv'
<1> USE DEF DeliveryInv, Delivering
<1>1. DeliveryTypeOK'
  <2>1. CASE OtherSaves
    BY DeliveryAssumption, <2>1 DEF DeliveryTypeOK, Names, Exports, OtherSaves, FilesRest,
       ClipboardRests, WindowRests
  <2>2. CASE OtherCopies
    BY DeliveryAssumption, <2>2 DEF DeliveryTypeOK, Names, Exports, OtherCopies, FilesRest,
       ClipboardRests, WindowRests
  <2> QED
    BY <2>1, <2>2
<1>2. SaveOrder'
  BY DEF SaveOrder, CopyOrder, DeliveryTypeOK, Exports, OtherSaves, OtherCopies, FilesRest,
     ClipboardRests, WindowRests
<1>3. CopyOrder'
  BY DEF CopyOrder, DeliveryTypeOK, Exports, OtherSaves, OtherCopies, FilesRest, ClipboardRests,
     WindowRests
<1>4. WindowOrder'
  BY DEF SaveOrder, CopyOrder, WindowOrder, DeliveryTypeOK, Exports, NeedsWindow, ExportFailed,
     OtherSaves, OtherCopies, FilesRest, ClipboardRests, WindowRests
<1>5. FilesWhole'
  BY DEF FilesWhole, Delivered, SaveOrder, DeliveryTypeOK, OtherSaves, OtherCopies, FilesRest,
     ClipboardRests, WindowRests
<1>6. ExportsTrue'
  BY DEF ExportsTrue, Delivered, SaveOrder, CopyOrder, WindowOrder, DeliveryTypeOK, OtherSaves,
     OtherCopies, FilesRest, ClipboardRests, WindowRests
<1>7. NothingLost'
  BY DEF NothingLost, Delivered, SaveOrder, WindowOrder, NeedsWindow, ExportFailed,
     DeliveryTypeOK, Exports, OtherSaves, OtherCopies, FilesRest, ClipboardRests, WindowRests
<1> QED
  BY <1>1, <1>2, <1>3, <1>4, <1>5, <1>6, <1>7 DEF Delivered

LEMMA DeliveryNextInv == DeliveryInv /\ [DeliveryNext]_dlVars => DeliveryInv'
<1> SUFFICES ASSUME DeliveryInv, [DeliveryNext]_dlVars PROVE DeliveryInv'
  OBVIOUS
<1>1. CASE UNCHANGED dlVars
  BY <1>1 DEF dlVars, DeliveryInv, DeliveryTypeOK, SaveOrder, CopyOrder, WindowOrder, Delivered,
     FilesWhole, ExportsTrue, NothingLost, NeedsWindow, ExportFailed
<1> QED
  BY <1>1, SavingSteps, PublishStep, CopyingSteps, EndingSteps, OthersSteps DEF DeliveryNext

(* Whatever fails, whoever else saves and copies and wherever the process  *)
(* is killed: files are whole and others' stay, what is said of the        *)
(* exports is true, and the picture reaches what was asked or is kept      *)
(* (main.rs handle, io.rs, atomic_file.rs, clipboard_process.rs).          *)
THEOREM DeliveryKeeps == DeliverySpec => [](DeliveryTypeOK /\ Delivered)
<1>1. DeliveryInv => DeliveryTypeOK /\ Delivered
  BY DEF DeliveryInv
<1> QED
  BY DeliveryInitInv, DeliveryNextInv, <1>1, PTL DEF DeliverySpec

-----------------------------------------------------------------------------
(* The pinned picture.                                                     *)

(* A view that nobody zoomed is the one that fits its window.              *)
FittedTrue == pnView.fitted => pnView = Fit(pnView)
DrawnSize == pnAlloc.drawn => pnAlloc.size = pnView.win
LeastSizes ==
    /\ pnView.win >= MinWindow /\ pnTarget >= MinWindow
    /\ pnAlloc.size = 0 \/ pnAlloc.size >= MinWindow
    /\ pnFloat.phase # "presented" => pnAlloc.size # 0
ViewInv == FittedTrue /\ DrawnSize /\ LeastSizes

HandleInv ==
    /\ pnHandle => pnAsked = pnTarget
    /\ pnPin = "none" => pnFloat.phase = "presented"
    /\ pnFloat.phase # "placed" => ~pnHandle

JobInv(output) ==
    LET job == pnJobs[output] IN
    /\ job.status = "kept" => output \in pnKept
    /\ job.worker = "kept" => output \in pnKept
    /\ pnPin # "closed" => (job.gate = "busy" <=> job.worker # "none")
JobsInv == \A output \in PinOutputs : JobInv(output)

ReaderInv ==
    /\ pnReader.open => /\ pnReader.gate = "busy" <=> pnReader.worker # "none"
                        /\ pnReader.retry = (pnReader.gate = "idle")
                        /\ pnReader.gate # "closed"
                        /\ pnPin = "none"
    /\ ~pnReader.open => pnReader.gate = "closed"
    /\ pnExit = "ok" => pnPin = "closed"

PinInv == PinTypeOK /\ ViewInv /\ HandleInv /\ JobsInv /\ ReaderInv

PinViews == [win : Nat \ {0}, scale : MinScale .. MaxScale, offset : Int, fitted : BOOLEAN]

FitScale(win) == Lesser(4, (4 * win) \div PictureWidth)

LEMMA FitScaleIs ==
    ASSUME NEW win \in Nat, win >= MinWindow
    PROVE  /\ FitScale(win) \in MinScale .. MaxScale
           /\ DrawnWidth(FitScale(win)) \in Int
           /\ DrawnWidth(FitScale(win)) <= win
<1>1. (4 * win) \div 8 \in Nat /\ (4 * win) \div 8 >= 2 /\ 2 * ((4 * win) \div 8) <= win
  BY DEF MinWindow
<1>2. FitScale(win) \in Nat /\ FitScale(win) >= 1 /\ FitScale(win) <= 4 /\ FitScale(win) <= (4 * win) \div 8
  BY <1>1 DEF FitScale, Lesser, PictureWidth
<1>3. (8 * FitScale(win)) \div 4 = 2 * FitScale(win)
  BY <1>2
<1> QED
  BY <1>1, <1>2, <1>3 DEF DrawnWidth, PictureWidth, MinScale, MaxScale

LEMMA FitFields ==
    ASSUME NEW view \in PinViews
    PROVE  Fit(view) = [win |-> view.win, scale |-> FitScale(view.win),
                        offset |-> 2 * (view.win - DrawnWidth(FitScale(view.win))),
                        fitted |-> view.fitted]
<1>1. view = [win |-> view.win, scale |-> view.scale, offset |-> view.offset, fitted |-> view.fitted]
  BY DEF PinViews
<1> DEFINE scaled == [view EXCEPT !.scale = Lesser(4, (4 * view.win) \div PictureWidth)]
<1>2. scaled = [win |-> view.win, scale |-> FitScale(view.win), offset |-> view.offset, fitted |-> view.fitted]
  BY <1>1 DEF FitScale
<1>3. Fit(view) = [scaled EXCEPT !.offset = 2 * (scaled.win - DrawnWidth(scaled.scale))]
  BY DEF Fit, Centred
<1> HIDE DEF scaled
<1> QED
  BY <1>2, <1>3

LEMMA FitTyped ==
    ASSUME NEW view \in PinViews, view.win >= MinWindow
    PROVE  Fit(view) \in PinViews /\ Fit(view).win = view.win /\ Fit(Fit(view)) = Fit(view)
<1>1. view.win \in Nat \ {0} /\ view.fitted \in BOOLEAN
  BY DEF PinViews
<1>2. Fit(view) \in PinViews
  BY <1>1, FitFields, FitScaleIs DEF PinViews
<1>3. Fit(view).win = view.win /\ Fit(view).fitted = view.fitted
  BY FitFields
<1> QED
  BY <1>2, <1>3, FitFields

LEMMA WithFitted ==
    ASSUME NEW w, NEW s, NEW o, NEW b, NEW f, NEW v, NEW u,
           v = [win |-> w, scale |-> s, offset |-> o, fitted |-> b],
           u = [v EXCEPT !.fitted = f]
    PROVE  u = [win |-> w, scale |-> s, offset |-> o, fitted |-> f]
  OBVIOUS

LEMMA Freed ==
    ASSUME NEW w, NEW s, NEW o, NEW b, NEW v,
           v = [win |-> w, scale |-> s, offset |-> o, fitted |-> b]
    PROVE  [v EXCEPT !.fitted = FALSE] = [win |-> w, scale |-> s, offset |-> o, fitted |-> FALSE]
<1> DEFINE u == [v EXCEPT !.fitted = FALSE]
<1>1. u = [v EXCEPT !.fitted = FALSE]
  OBVIOUS
<1> HIDE DEF u
<1>2. u = [win |-> w, scale |-> s, offset |-> o, fitted |-> FALSE]
  BY <1>1, WithFitted
<1> QED
  BY <1>2 DEF u

LEMMA ResizedIs ==
    ASSUME NEW view \in PinViews, view.win >= MinWindow, view.fitted => view = Fit(view),
           NEW size \in Nat, size >= MinWindow
    PROVE  /\ Resized(view, size) \in PinViews
           /\ Resized(view, size).win = size
           /\ Resized(view, size).fitted => Resized(view, size) = Fit(Resized(view, size))
<1>1. view = [win |-> view.win, scale |-> view.scale, offset |-> view.offset, fitted |-> view.fitted]
      /\ view.scale \in MinScale .. MaxScale /\ view.offset \in Int /\ view.fitted \in BOOLEAN /\ view.win \in Nat
  BY DEF PinViews
<1> DEFINE grown == [view EXCEPT !.win = size]
<1>2. grown = [win |-> size, scale |-> view.scale, offset |-> view.offset, fitted |-> view.fitted]
  BY <1>1
<1>3. grown \in PinViews /\ grown.win = size /\ grown.fitted = view.fitted
  BY <1>1, <1>2 DEF PinViews, MinWindow
<1>4. CASE size = view.win
  BY <1>4 DEF Resized
<1>5. CASE size # view.win /\ view.fitted
  <2>1. Resized(view, size) = Fit(grown)
    BY <1>5 DEF Resized
  <2> QED
    BY <1>3, <2>1, FitTyped
<1>6. CASE size # view.win /\ ~view.fitted
  <2>1. Resized(view, size) = [grown EXCEPT !.offset = @ + 2 * (size - view.win)]
    BY <1>6 DEF Resized
  <2> HIDE DEF grown
  <2>2. Resized(view, size) = [win |-> size, scale |-> view.scale,
                               offset |-> view.offset + 2 * (size - view.win), fitted |-> view.fitted]
    BY <1>2, <2>1
  <2> QED
    BY <1>1, <1>6, <2>2 DEF PinViews, MinWindow
<1> QED
  BY <1>4, <1>5, <1>6

LEMMA ClampedIs ==
    ASSUME NEW scale \in Int
    PROVE  Clamped(scale) \in MinScale .. MaxScale
  BY DEF Clamped, Greater, Lesser, MinScale, MaxScale

LEMMA QuotientIsInt ==
    ASSUME NEW a \in Int, NEW b \in Int, b > 0
    PROVE  a \div b \in Int
  OBVIOUS

LEMMA ZoomedAtIs ==
    ASSUME NEW view \in PinViews, NEW scale \in MinScale .. MaxScale, NEW pointer \in Nat,
           view.fitted => view = Fit(view)
    PROVE  /\ ZoomedAt(view, scale, pointer) \in PinViews
           /\ ZoomedAt(view, scale, pointer).win = view.win
           /\ ZoomedAt(view, scale, pointer).fitted
                  => ZoomedAt(view, scale, pointer) = Fit(ZoomedAt(view, scale, pointer))
<1>1. view = [win |-> view.win, scale |-> view.scale, offset |-> view.offset, fitted |-> view.fitted]
      /\ view.scale \in MinScale .. MaxScale /\ view.offset \in Int /\ view.win \in Nat \ {0}
  BY DEF PinViews
<1> DEFINE offset == 4 * pointer - ((4 * pointer - view.offset) * scale) \div view.scale
<1>2. offset \in Int
  <2>1. (4 * pointer - view.offset) * scale \in Int /\ view.scale \in Int /\ view.scale > 0
    BY <1>1 DEF MinScale, MaxScale
  <2>2. ((4 * pointer - view.offset) * scale) \div view.scale \in Int
    BY <2>1, QuotientIsInt
  <2> QED
    BY <2>2
<1>3. CASE scale = view.scale
  BY <1>3 DEF ZoomedAt
<1>4. CASE scale # view.scale
  <2>1. ZoomedAt(view, scale, pointer) = [view EXCEPT !.scale = scale, !.fitted = FALSE, !.offset = offset]
    BY <1>4 DEF ZoomedAt
  <2> HIDE DEF offset
  <2>2. ZoomedAt(view, scale, pointer) = [[[view EXCEPT !.scale = scale] EXCEPT !.fitted = FALSE] EXCEPT !.offset = offset]
    BY <2>1
  <2> DEFINE scaled == [view EXCEPT !.scale = scale]
  <2>3. scaled = [win |-> view.win, scale |-> scale, offset |-> view.offset, fitted |-> view.fitted]
    BY <1>1
  <2> HIDE DEF scaled
  <2> DEFINE free == [scaled EXCEPT !.fitted = FALSE]
  <2>4. free = [win |-> view.win, scale |-> scale, offset |-> view.offset, fitted |-> FALSE]
    BY <2>3, Freed
  <2>5. ZoomedAt(view, scale, pointer) = [free EXCEPT !.offset = offset]
    BY <2>2 DEF scaled
  <2> HIDE DEF free
  <2>6. ZoomedAt(view, scale, pointer) = [win |-> view.win, scale |-> scale, offset |-> offset, fitted |-> FALSE]
    BY <2>4, <2>5
  <2> QED
    BY <1>1, <1>2, <2>6 DEF PinViews
<1> QED
  BY <1>3, <1>4

LEMMA ResetIs ==
    ASSUME NEW view \in PinViews
    PROVE  ResetView(view) \in PinViews /\ ResetView(view).win = view.win /\ ~ResetView(view).fitted
<1>1. view = [win |-> view.win, scale |-> view.scale, offset |-> view.offset, fitted |-> view.fitted]
      /\ view.win \in Nat \ {0}
  BY DEF PinViews
<1> DEFINE scaled == [view EXCEPT !.scale = 4]
<1>a. scaled = [win |-> view.win, scale |-> 4, offset |-> view.offset, fitted |-> view.fitted]
  BY <1>1
<1> DEFINE whole == [view EXCEPT !.scale = 4, !.fitted = FALSE]
<1>b. whole = [scaled EXCEPT !.fitted = FALSE]
  OBVIOUS
<1> HIDE DEF scaled
<1>2. whole = [win |-> view.win, scale |-> 4, offset |-> view.offset, fitted |-> FALSE]
  BY <1>a, <1>b, Freed
<1>3. ResetView(view) = [whole EXCEPT !.offset = 2 * (whole.win - DrawnWidth(whole.scale))]
  BY DEF ResetView, Centred
<1> HIDE DEF whole
<1>4. ResetView(view) = [win |-> view.win, scale |-> 4, offset |-> 2 * (view.win - DrawnWidth(4)), fitted |-> FALSE]
  BY <1>2, <1>3
<1>5. DrawnWidth(4) \in Int
  BY DEF DrawnWidth, PictureWidth
<1> QED
  BY <1>1, <1>4, <1>5 DEF PinViews, MinScale, MaxScale

ViewType ==
    /\ pnView \in PinViews
    /\ pnAlloc \in [size : Nat, drawn : BOOLEAN]
    /\ pnFloat \in [phase : {"presented", "mapped", "floating", "placed"}, left : 0 .. FloatAttempts, resizable : BOOLEAN]
    /\ pnHandle \in BOOLEAN /\ pnTarget \in Nat \ {0} /\ pnAsked \in Nat
ViewPart == ViewType /\ ViewInv

JobsType ==
    /\ pnJobs \in [PinOutputs -> [gate : {"idle", "busy", "closed"}, worker : {"none", "running", "kept", "failed"},
                                  status : {"none", "working", "kept", "failed"}]]
    /\ pnKept \subseteq PinOutputs
JobsPart == JobsType /\ JobsInv

ReaderType ==
    /\ pnHow \in {"spawned", "viewer", "clipboard"}
    /\ pnReader \in [open : BOOLEAN, gate : {"idle", "busy", "closed"},
                     worker : {"none", "running", "image", "failed"}, retry : BOOLEAN]
    /\ pnExit \in {"running", "ok", "failed"}
ReaderPart == ReaderType /\ ReaderInv

RestType ==
    /\ pnPin \in {"none", "open", "closed"}
    /\ pnToast \in BOOLEAN /\ pnSurface \in {"pending", "drawn", "failed"}
    /\ pnActs \in 0 .. MaxPinActs

LEMMA PinParts == PinInv <=> ViewPart /\ HandleInv /\ JobsPart /\ ReaderPart /\ RestType
  BY DEF PinInv, PinTypeOK, ViewPart, ViewType, PinViews, JobsPart, JobsType, ReaderPart, ReaderType, RestType

LEMMA PinPartsNext == PinInv' <=> ViewPart' /\ HandleInv' /\ JobsPart' /\ ReaderPart' /\ RestType'
  BY DEF PinInv, PinTypeOK, ViewPart, ViewType, PinViews, JobsPart, JobsType, ReaderPart, ReaderType, RestType

LEMMA ViewKept == ViewPart /\ PinRests => ViewPart'
  BY DEF ViewPart, ViewType, ViewInv, FittedTrue, DrawnSize, LeastSizes, PinRests, Fit, Centred, Lesser, DrawnWidth, PinViews

LEMMA HandleKept == HandleInv /\ PinRests /\ (pnPin' = "none" => pnPin = "none") => HandleInv'
  BY DEF HandleInv, PinRests

LEMMA JobsKept == JobsPart /\ OutputsRest /\ (pnPin' # "closed" => pnPin # "closed") => JobsPart'
  BY DEF JobsPart, JobsType, JobsInv, JobInv, OutputsRest

LEMMA ReaderKept ==
    /\ ReaderPart /\ ReaderRests /\ UNCHANGED pnExit
    /\ pnPin' = pnPin \/ (pnPin = "open" /\ pnPin' = "closed")
    => ReaderPart'
  BY DEF ReaderPart, ReaderType, ReaderInv, ReaderRests

LEMMA ActsTyped == RestType /\ Acts => pnActs' \in 0 .. MaxPinActs
  BY PinAssumption DEF RestType, Acts

-----------------------------------------------------------------------------
LEMMA ReaderSteps ==
    ASSUME PinInv, PasteEnds \/ PasteDelivered \/ RetryPaste \/ CloseReader
    PROVE  PinInv'
<1> USE PinParts, PinPartsNext
<1>1. pnReader = [open |-> pnReader.open, gate |-> pnReader.gate, worker |-> pnReader.worker, retry |-> pnReader.retry]
  BY DEF ReaderPart, ReaderType
<1>2. /\ pnReader.open \in BOOLEAN /\ pnReader.gate \in {"idle", "busy", "closed"}
      /\ pnReader.worker \in {"none", "running", "image", "failed"} /\ pnReader.retry \in BOOLEAN
  BY DEF ReaderPart, ReaderType
<1>3. /\ PinRests /\ OutputsRest /\ ScreenRests /\ UNCHANGED <<pnHow, pnExit>>
      /\ pnPin' = pnPin \/ (pnPin' = "open" /\ pnPin = "none")
      /\ pnActs' \in 0 .. MaxPinActs
  BY ActsTyped DEF PasteEnds, PasteDelivered, RetryPaste, CloseReader, RestType, Acts, ReaderPart, ReaderInv, ReaderType
<1>4. ViewPart' /\ HandleInv' /\ JobsPart'
  BY <1>2, <1>3, ViewKept, HandleKept, JobsKept
<1>5. RestType'
  BY <1>3 DEF RestType, ScreenRests
<1>6. ReaderPart'
  <2>1. CASE PasteEnds
    <3>1. PICK end \in {"image", "failed"} : pnReader' = [pnReader EXCEPT !.worker = end]
      BY <2>1 DEF PasteEnds
    <3>2. pnReader' = [open |-> pnReader.open, gate |-> pnReader.gate, worker |-> end, retry |-> pnReader.retry]
      BY <1>1, <3>1
    <3> QED
      BY <1>2, <1>3, <2>1, <3>2 DEF PasteEnds, ReaderPart, ReaderType, ReaderInv
  <2>2. CASE PasteDelivered
    <3>1. CASE pnReader' = NoReader
      BY <1>2, <1>3, <2>2, <3>1 DEF PasteDelivered, ReaderPart, ReaderType, ReaderInv, NoReader
    <3>2. CASE pnReader.gate # "busy" /\ pnReader' = [pnReader EXCEPT !.worker = "none"] /\ UNCHANGED pnPin
      <4>1. pnReader' = [open |-> pnReader.open, gate |-> pnReader.gate, worker |-> "none", retry |-> pnReader.retry]
        BY <1>1, <3>2
      <4> QED
        BY <1>2, <1>3, <3>2, <4>1 DEF ReaderPart, ReaderType, ReaderInv
    <3>3. CASE /\ pnReader.gate = "busy" /\ UNCHANGED pnPin
               /\ pnReader' = [pnReader EXCEPT !.worker = "none", !.gate = "idle", !.retry = TRUE]
      <4>1. pnReader' = [open |-> pnReader.open, gate |-> "idle", worker |-> "none", retry |-> TRUE]
        BY <1>1, <3>3
      <4> QED
        BY <1>2, <1>3, <3>3, <4>1 DEF ReaderPart, ReaderType, ReaderInv
    <3> QED
      BY <2>2, <3>1, <3>2, <3>3 DEF PasteDelivered
  <2>3. CASE RetryPaste
    <3>1. pnReader' = [open |-> pnReader.open, gate |-> "busy", worker |-> "running", retry |-> FALSE]
      BY <1>1, <2>3 DEF RetryPaste
    <3> QED
      BY <1>2, <1>3, <2>3, <3>1 DEF RetryPaste, ReaderPart, ReaderType, ReaderInv
  <2>4. CASE CloseReader
    <3>1. pnReader' = [open |-> FALSE, gate |-> "closed", worker |-> pnReader.worker, retry |-> pnReader.retry]
      BY <1>1, <2>4 DEF CloseReader
    <3> QED
      BY <1>2, <1>3, <2>4, <3>1 DEF CloseReader, ReaderPart, ReaderType, ReaderInv
  <2> QED
    BY <2>1, <2>2, <2>3, <2>4
<1> QED
  BY <1>4, <1>5, <1>6

LEMMA SizesLeast == \A size \in PinSizes : size \in Nat /\ size >= MinWindow
<1> TAKE size \in PinSizes
<1>1. size \in Nat /\ size > 0 /\ size % 4 = 0
  BY PinAssumption
<1> QED
  BY <1>1 DEF MinWindow

LEMMA ViewFacts ==
    ASSUME ViewPart
    PROVE  /\ pnView \in PinViews /\ pnView.win \in Nat /\ pnView.win >= MinWindow
           /\ pnView.scale \in MinScale .. MaxScale /\ pnView.offset \in Int
           /\ pnView.fitted => pnView = Fit(pnView)
           /\ pnAlloc = [size |-> pnAlloc.size, drawn |-> pnAlloc.drawn]
           /\ pnAlloc.size \in Nat /\ pnAlloc.drawn \in BOOLEAN
           /\ pnAlloc.size = 0 \/ pnAlloc.size >= MinWindow
           /\ pnFloat = [phase |-> pnFloat.phase, left |-> pnFloat.left, resizable |-> pnFloat.resizable]
           /\ pnFloat.phase \in {"presented", "mapped", "floating", "placed"}
           /\ pnFloat.left \in 0 .. FloatAttempts /\ pnFloat.resizable \in BOOLEAN
           /\ pnFloat.phase # "presented" => pnAlloc.size # 0
           /\ pnTarget \in Nat /\ pnTarget >= MinWindow
           /\ pnHandle \in BOOLEAN /\ pnAsked \in Nat
<1>1. ViewType
  BY DEF ViewPart
<1>2. FittedTrue /\ LeastSizes
  BY DEF ViewPart, ViewInv
<1>3. pnAlloc = [size |-> pnAlloc.size, drawn |-> pnAlloc.drawn] /\ pnAlloc.size \in Nat /\ pnAlloc.drawn \in BOOLEAN
  BY <1>1 DEF ViewType
<1>4. pnFloat = [phase |-> pnFloat.phase, left |-> pnFloat.left, resizable |-> pnFloat.resizable]
           /\ pnFloat.phase \in {"presented", "mapped", "floating", "placed"}
           /\ pnFloat.left \in 0 .. FloatAttempts /\ pnFloat.resizable \in BOOLEAN
  BY <1>1 DEF ViewType
<1>5. pnView \in PinViews /\ pnView.win \in Nat /\ pnView.scale \in MinScale .. MaxScale /\ pnView.offset \in Int
  BY <1>1 DEF ViewType, PinViews
<1>6. pnHandle \in BOOLEAN /\ pnTarget \in Nat /\ pnAsked \in Nat
  BY <1>1 DEF ViewType
<1> QED
  BY <1>2, <1>3, <1>4, <1>5, <1>6 DEF FittedTrue, LeastSizes

(* What a step that moves the framing has to establish.                    *)
ViewNext ==
    /\ pnView' \in PinViews /\ pnView'.win >= MinWindow
    /\ pnView'.fitted => pnView' = Fit(pnView')
    /\ pnAlloc'.size \in Nat /\ pnAlloc'.drawn \in BOOLEAN
    /\ pnAlloc' = [size |-> pnAlloc'.size, drawn |-> pnAlloc'.drawn]
    /\ pnAlloc'.size = 0 \/ pnAlloc'.size >= MinWindow
    /\ pnAlloc'.drawn => pnAlloc'.size = pnView'.win
    /\ pnTarget' \in Nat /\ pnTarget' >= MinWindow

LEMMA ViewMoves ==
    ASSUME ViewPart, ViewNext, UNCHANGED <<pnFloat, pnHandle>>, pnAsked' \in Nat,
           pnFloat.phase # "presented" => pnAlloc'.size # 0
    PROVE  ViewPart'
<1>1. pnFloat' \in [phase : {"presented", "mapped", "floating", "placed"}, left : 0 .. FloatAttempts, resizable : BOOLEAN]
  BY DEF ViewPart, ViewType
<1>2. pnHandle' \in BOOLEAN
  BY DEF ViewPart, ViewType
<1>3. pnAlloc' \in [size : Nat, drawn : BOOLEAN]
  BY DEF ViewNext
<1>4. pnTarget' \in Nat \ {0}
  BY DEF ViewNext, MinWindow
<1>5. ViewType'
  BY <1>1, <1>2, <1>3, <1>4 DEF ViewType, ViewNext
<1>6. FittedTrue'
  BY DEF ViewNext, FittedTrue, Fit, Centred, DrawnWidth, Lesser, PictureWidth
<1> QED
  BY <1>5, <1>6 DEF ViewPart, ViewInv, DrawnSize, LeastSizes, ViewNext

LEMMA FloatMoves ==
    ASSUME ViewPart, UNCHANGED <<pnView, pnTarget>>, pnHandle' \in BOOLEAN, pnAsked' \in Nat,
           pnFloat' \in [phase : {"presented", "mapped", "floating", "placed"}, left : 0 .. FloatAttempts, resizable : BOOLEAN],
           \/ pnAlloc' = pnAlloc /\ pnFloat.phase # "presented"
           \/ \E size \in Nat : size >= MinWindow /\ pnAlloc' = [size |-> size, drawn |-> FALSE]
    PROVE  ViewPart'
<1>1. pnAlloc' \in [size : Nat, drawn : BOOLEAN] /\ (pnAlloc'.drawn => pnAlloc'.size = pnView.win)
      /\ (pnAlloc'.size = 0 \/ pnAlloc'.size >= MinWindow) /\ pnAlloc'.size # 0
  <2>1. CASE pnAlloc' = pnAlloc /\ pnFloat.phase # "presented"
    BY <2>1 DEF ViewPart, ViewType, ViewInv, DrawnSize, LeastSizes
  <2>2. CASE \E size \in Nat : size >= MinWindow /\ pnAlloc' = [size |-> size, drawn |-> FALSE]
    BY <2>2 DEF MinWindow
  <2> QED
    BY <2>1, <2>2
<1>2. ViewType'
  BY <1>1 DEF ViewPart, ViewType
<1>3. FittedTrue'
  BY DEF ViewPart, ViewInv, FittedTrue, Fit, Centred, DrawnWidth, Lesser, PictureWidth
<1>4. pnView'.win >= MinWindow /\ pnTarget' >= MinWindow
  BY DEF ViewPart, ViewInv, LeastSizes
<1> QED
  BY <1>1, <1>2, <1>3, <1>4 DEF ViewPart, ViewInv, DrawnSize, LeastSizes

-----------------------------------------------------------------------------
LEMMA PlacingSteps ==
    ASSUME PinInv, WindowMapped \/ PlacingStarts \/ Floated
    PROVE  PinInv'
<1> USE PinParts, PinPartsNext
<1>1. OutputsRest /\ ReaderRests /\ ScreenRests /\ UNCHANGED <<pnPin, pnExit, pnView, pnTarget, pnActs>>
  BY DEF WindowMapped, PlacingStarts, Floated
<1>2. JobsPart' /\ ReaderPart' /\ RestType'
  BY <1>1, JobsKept, ReaderKept DEF RestType, ScreenRests
<1>f. FloatAttempts \in Nat
  BY PinAssumption
<1>3. CASE WindowMapped
  <2>1. pnFloat.phase = "presented" /\ pnPin = "open" /\ ~pnHandle /\ UNCHANGED <<pnHandle, pnAsked>>
    BY <1>3, ViewFacts DEF WindowMapped, HandleInv
  <2>2. pnFloat' = [phase |-> "mapped", left |-> pnFloat.left, resizable |-> pnFloat.resizable]
    BY <1>3, ViewFacts DEF WindowMapped
  <2>3. PICK size \in PinSizes : pnAlloc' = [size |-> size, drawn |-> FALSE]
    BY <1>3 DEF WindowMapped
  <2>4. ViewPart'
    BY <1>1, <2>1, <2>2, <2>3, ViewFacts, SizesLeast, FloatMoves
  <2>5. HandleInv'
    BY <1>1, <2>1, <2>2 DEF HandleInv
  <2> QED
    BY <1>2, <2>4, <2>5
<1>4. CASE PlacingStarts
  <2>1. pnFloat.phase = "mapped" /\ UNCHANGED <<pnHandle, pnAsked, pnAlloc>> /\ ~pnHandle
    BY <1>4, ViewFacts DEF PlacingStarts, HandleInv
  <2>2. \/ /\ pnPin = "open" 
           /\ pnFloat' = [phase |-> "floating", left |-> FloatAttempts, resizable |-> pnFloat.resizable]
        \/ /\ pnPin # "open"
           /\ pnFloat' = [phase |-> "placed", left |-> pnFloat.left, resizable |-> pnFloat.resizable]
    <3>1. CASE pnPin = "open"
      <4>1. pnFloat' = [pnFloat EXCEPT !.phase = "floating", !.left = FloatAttempts]
        BY <1>4, <3>1 DEF PlacingStarts
      <4> QED
        BY <3>1, <4>1, ViewFacts
    <3>2. CASE pnPin # "open"
      <4>1. pnFloat' = [pnFloat EXCEPT !.phase = "placed"]
        BY <1>4, <3>2 DEF PlacingStarts
      <4> QED
        BY <3>2, <4>1, ViewFacts
    <3> QED
      BY <3>1, <3>2
  <2>3. pnFloat' \in [phase : {"presented", "mapped", "floating", "placed"}, left : 0 .. FloatAttempts, resizable : BOOLEAN]
    BY <1>f, <2>2, ViewFacts
  <2>4. ViewPart'
    BY <1>1, <2>1, <2>3, ViewFacts, FloatMoves
  <2>5. HandleInv'
    BY <1>1, <2>1, <2>2 DEF HandleInv
  <2> QED
    BY <1>2, <2>4, <2>5
<1>5. CASE Floated
  <2>1. pnFloat.phase = "floating" /\ ~pnHandle
    BY <1>5 DEF Floated, HandleInv
  <2>2. PICK floated \in BOOLEAN :
          IF ~floated /\ pnFloat.left > 1
          THEN pnFloat' = [pnFloat EXCEPT !.left = @ - 1] /\ UNCHANGED <<pnHandle, pnAsked, pnAlloc>>
          ELSE /\ pnFloat' = [pnFloat EXCEPT !.phase = "placed", !.left = 0, !.resizable = (pnPin = "open")]
               /\ pnHandle' \in IF pnPin = "open" THEN BOOLEAN ELSE {FALSE}
               /\ pnAsked' = IF pnHandle' THEN pnTarget ELSE pnAsked
               /\ pnAlloc' \in {pnAlloc} \cup (IF pnHandle' THEN {[size |-> pnTarget, drawn |-> FALSE]} ELSE {})
    BY <1>5 DEF Floated
  <2>3. CASE ~floated /\ pnFloat.left > 1
    <3>1. pnFloat' = [pnFloat EXCEPT !.left = pnFloat.left - 1] /\ UNCHANGED <<pnHandle, pnAsked, pnAlloc>>
      BY <2>2, <2>3
    <3>2. pnFloat' = [phase |-> pnFloat.phase, left |-> pnFloat.left - 1, resizable |-> pnFloat.resizable]
      BY <3>1, ViewFacts
    <3>3. pnFloat' \in [phase : {"presented", "mapped", "floating", "placed"}, left : 0 .. FloatAttempts, resizable : BOOLEAN]
      BY <1>f, <2>3, <3>2, ViewFacts
    <3>4. ViewPart'
      BY <1>1, <2>1, <3>1, <3>3, ViewFacts, FloatMoves
    <3>5. HandleInv'
      BY <1>1, <2>1, <3>1, <3>2 DEF HandleInv
    <3> QED
      BY <1>2, <3>4, <3>5
  <2>4. CASE ~(~floated /\ pnFloat.left > 1)
    <3>1. /\ pnFloat' = [pnFloat EXCEPT !.phase = "placed", !.left = 0, !.resizable = (pnPin = "open")]
          /\ pnHandle' \in IF pnPin = "open" THEN BOOLEAN ELSE {FALSE}
          /\ pnAsked' = IF pnHandle' THEN pnTarget ELSE pnAsked
          /\ pnAlloc' \in {pnAlloc} \cup (IF pnHandle' THEN {[size |-> pnTarget, drawn |-> FALSE]} ELSE {})
      BY <2>2, <2>4
    <3>2. pnHandle' \in BOOLEAN
      BY <3>1
    <3>3. pnAsked' \in Nat /\ (pnHandle' => pnAsked' = pnTarget)
      BY <3>1, ViewFacts
    <3>4. pnAlloc' = pnAlloc \/ pnAlloc' = [size |-> pnTarget, drawn |-> FALSE]
      BY <3>1
    <3>5. PICK able : able = (pnPin = "open")
      OBVIOUS
    <3>6. able \in BOOLEAN
      BY <3>5
    <3>7. pnFloat' = [pnFloat EXCEPT !.phase = "placed", !.left = 0, !.resizable = able]
      BY <3>1, <3>5
    <3>8. pnFloat' = [phase |-> "placed", left |-> 0, resizable |-> able]
      BY <3>7, ViewFacts
    <3>9. pnFloat' \in [phase : {"presented", "mapped", "floating", "placed"}, left : 0 .. FloatAttempts, resizable : BOOLEAN]
      BY <1>f, <3>6, <3>8
    <3>10. ViewPart'
      BY <1>1, <2>1, <3>2, <3>3, <3>4, <3>9, ViewFacts, FloatMoves
    <3>11. pnPin # "none"
      BY <2>1 DEF HandleInv
    <3>12. HandleInv'
      BY <1>1, <3>3, <3>8, <3>11 DEF HandleInv
    <3> QED
      BY <1>2, <3>10, <3>12
  <2> QED
    BY <2>3, <2>4
<1> QED
  BY <1>3, <1>4, <1>5

LEMMA AllocDrawn ==
    ASSUME ViewPart
    PROVE  /\ [pnAlloc EXCEPT !.drawn = TRUE] = [size |-> pnAlloc.size, drawn |-> TRUE]
           /\ [pnAlloc EXCEPT !.drawn = FALSE] = [size |-> pnAlloc.size, drawn |-> FALSE]
<1>1. PICK yes, no : yes = TRUE /\ no = FALSE
  OBVIOUS
<1>2. /\ [pnAlloc EXCEPT !.drawn = yes] = [size |-> pnAlloc.size, drawn |-> yes]
      /\ [pnAlloc EXCEPT !.drawn = no] = [size |-> pnAlloc.size, drawn |-> no]
  BY ViewFacts
<1> QED
  BY <1>1, <1>2, Zenon

LEMMA FramingSteps ==
    ASSUME PinInv, CompositorResizes \/ DrawPin \/ ZoomContent \/ ResetZoom \/ ZoomWindow
    PROVE  PinInv'
<1> USE PinParts, PinPartsNext
<1>1. /\ OutputsRest /\ ReaderRests /\ UNCHANGED <<pnPin, pnExit, pnFloat, pnHandle>>
      /\ pnPin = "open" /\ pnFloat.phase # "presented"
      /\ pnToast' \in BOOLEAN /\ pnSurface' \in {"pending", "drawn", "failed"}
  BY DEF CompositorResizes, DrawPin, ZoomContent, ResetZoom, ZoomWindow, PinUsable, RestType, ScreenRests, Toasts
<1>2. pnActs' \in 0 .. MaxPinActs
  BY ActsTyped DEF CompositorResizes, DrawPin, ZoomContent, ResetZoom, ZoomWindow, RestType
<1>3. JobsPart' /\ ReaderPart' /\ RestType'
  BY <1>1, <1>2, JobsKept, ReaderKept DEF RestType
<1>4. pnAlloc.size \in Nat /\ pnAlloc.size >= MinWindow
  BY <1>1, ViewFacts
<1>5. CASE CompositorResizes
  <2>1. UNCHANGED <<pnView, pnTarget, pnAsked>>
    BY <1>5 DEF CompositorResizes
  <2>2. PICK size \in PinSizes : pnAlloc' = [size |-> size, drawn |-> FALSE]
    BY <1>5 DEF CompositorResizes
  <2>3. pnFloat' \in [phase : {"presented", "mapped", "floating", "placed"}, left : 0 .. FloatAttempts, resizable : BOOLEAN]
    BY <1>1 DEF ViewPart, ViewType
  <2>4. ViewPart'
    BY <1>1, <2>1, <2>2, <2>3, ViewFacts, SizesLeast, FloatMoves
  <2>5. HandleInv'
    BY <1>1, <2>1 DEF HandleInv
  <2> QED
    BY <1>3, <2>4, <2>5
<1>6. CASE DrawPin
  <2>1. UNCHANGED <<pnTarget, pnAsked>> /\ pnView' = Resized(pnView, pnAlloc.size)
        /\ pnAlloc' = [size |-> pnAlloc.size, drawn |-> TRUE]
    BY <1>6, AllocDrawn DEF DrawPin
  <2>2. PICK new : new = Resized(pnView, pnAlloc.size)
    OBVIOUS
  <2>3. new \in PinViews /\ new.win = pnAlloc.size /\ (new.fitted => new = Fit(new))
    BY <1>4, <2>2, ViewFacts, ResizedIs
  <2>4. pnView' = new
    BY <2>1, <2>2
  <2>5. ViewNext
    BY <1>4, <2>1, <2>3, <2>4, ViewFacts DEF ViewNext, Fit, Centred, DrawnWidth, Lesser, PictureWidth
  <2>6. ViewPart'
    BY <1>1, <1>4, <2>1, <2>5, ViewFacts, ViewMoves DEF MinWindow
  <2>7. HandleInv'
    BY <1>1, <2>1 DEF HandleInv
  <2> QED
    BY <1>3, <2>6, <2>7
<1>7. CASE ZoomContent
  <2>1. UNCHANGED <<pnTarget, pnAsked>> /\ pnAlloc' = [size |-> pnAlloc.size, drawn |-> FALSE]
    BY <1>7, AllocDrawn DEF ZoomContent
  <2>2. PICK up \in BOOLEAN, pointer \in {0, pnView.win} :
          pnView' = ZoomedAt(pnView, Clamped(IF up THEN pnView.scale * 2 ELSE pnView.scale \div 2), pointer)
    BY <1>7 DEF ZoomContent
  <2>3. PICK scale : scale = Clamped(IF up THEN pnView.scale * 2 ELSE pnView.scale \div 2)
    OBVIOUS
  <2>4. (IF up THEN pnView.scale * 2 ELSE pnView.scale \div 2) \in Int
    BY ViewFacts DEF MinScale, MaxScale
  <2>5. scale \in MinScale .. MaxScale /\ pointer \in Nat
    BY <2>3, <2>4, ClampedIs, ViewFacts
  <2>6. PICK new : new = ZoomedAt(pnView, scale, pointer)
    OBVIOUS
  <2>7. new \in PinViews /\ new.win = pnView.win /\ (new.fitted => new = Fit(new))
    BY <2>5, <2>6, ViewFacts, ZoomedAtIs
  <2>8. pnView' = new
    BY <2>2, <2>3, <2>6
  <2>9. ViewNext
    BY <1>4, <2>1, <2>7, <2>8, ViewFacts DEF ViewNext, Fit, Centred, DrawnWidth, Lesser, PictureWidth
  <2>10. ViewPart'
    BY <1>1, <1>4, <2>1, <2>9, ViewFacts, ViewMoves DEF MinWindow
  <2>11. HandleInv'
    BY <1>1, <2>1 DEF HandleInv
  <2> QED
    BY <1>3, <2>10, <2>11
<1>8. CASE ResetZoom
  <2>1. /\ UNCHANGED <<pnTarget, pnAsked>> /\ pnAlloc' = [size |-> pnAlloc.size, drawn |-> FALSE]
        /\ pnView' = ResetView(pnView)
    BY <1>8, AllocDrawn DEF ResetZoom
  <2>2. PICK new : new = ResetView(pnView)
    OBVIOUS
  <2>3. new \in PinViews /\ new.win = pnView.win /\ ~new.fitted
    BY <2>2, ViewFacts, ResetIs
  <2>4. ViewNext
    BY <1>4, <2>1, <2>2, <2>3, ViewFacts DEF ViewNext
  <2>5. ViewPart'
    BY <1>1, <1>4, <2>1, <2>4, ViewFacts, ViewMoves DEF MinWindow
  <2>6. HandleInv'
    BY <1>1, <2>1 DEF HandleInv
  <2> QED
    BY <1>3, <2>5, <2>6
<1>9. CASE ZoomWindow
  <2>1. PICK up \in BOOLEAN, known \in BOOLEAN :
          LET now == IF pnHandle /\ known THEN pnAlloc.size ELSE pnView.win
              size == IF up THEN 2 * now ELSE Greater(MinWindow, now \div 2)
          IN /\ pnView' = [win |-> size, scale |-> Clamped((pnView.scale * size) \div now),
                           offset |-> (pnView.offset * size) \div now, fitted |-> FALSE]
             /\ pnTarget' = size /\ pnAsked' = IF pnHandle THEN size ELSE pnAsked
             /\ pnAlloc' \in {[pnAlloc EXCEPT !.drawn = FALSE], [size |-> size, drawn |-> FALSE]}
    BY <1>9 DEF ZoomWindow
  <2>2. PICK now : now = IF pnHandle /\ known THEN pnAlloc.size ELSE pnView.win
    OBVIOUS
  <2>3. PICK size : size = IF up THEN 2 * now ELSE Greater(MinWindow, now \div 2)
    OBVIOUS
  <2>4. now \in Nat /\ now >= MinWindow
    BY <1>4, <2>2, ViewFacts
  <2>5. size \in Nat /\ size >= MinWindow
    BY <2>3, <2>4 DEF Greater, MinWindow
  <2>6. /\ pnView' = [win |-> size, scale |-> Clamped((pnView.scale * size) \div now),
                      offset |-> (pnView.offset * size) \div now, fitted |-> FALSE]
        /\ pnTarget' = size /\ pnAsked' = (IF pnHandle THEN size ELSE pnAsked)
        /\ pnAlloc' \in {[pnAlloc EXCEPT !.drawn = FALSE], [size |-> size, drawn |-> FALSE]}
    BY <2>1, <2>2, <2>3
  <2>7. PICK scale, offset : scale = Clamped((pnView.scale * size) \div now) /\ offset = (pnView.offset * size) \div now
    OBVIOUS
  <2>8. pnView.scale * size \in Int /\ pnView.offset * size \in Int
    BY <2>5, ViewFacts DEF MinScale, MaxScale
  <2>9. now > 0 /\ now \in Int
    BY <2>4 DEF MinWindow
  <2>10. (pnView.scale * size) \div now \in Int /\ offset \in Int
    BY <2>7, <2>8, <2>9, QuotientIsInt
  <2>11. scale \in MinScale .. MaxScale
    BY <2>7, <2>10, ClampedIs
  <2>12. pnView' = [win |-> size, scale |-> scale, offset |-> offset, fitted |-> FALSE]
    BY <2>6, <2>7
  <2>13. pnView' \in PinViews /\ pnView'.win = size /\ ~pnView'.fitted
    BY <2>5, <2>10, <2>11, <2>12 DEF PinViews, MinWindow
  <2>14. pnAlloc' = [size |-> pnAlloc.size, drawn |-> FALSE] \/ pnAlloc' = [size |-> size, drawn |-> FALSE]
    BY <2>6, AllocDrawn
  <2>15. pnAlloc' = [size |-> pnAlloc'.size, drawn |-> pnAlloc'.drawn] /\ ~pnAlloc'.drawn /\ pnAlloc'.drawn \in BOOLEAN
         /\ pnAlloc'.size \in Nat /\ pnAlloc'.size >= MinWindow
    <3>1. PICK given \in Nat : given >= MinWindow /\ pnAlloc' = [size |-> given, drawn |-> FALSE]
      BY <1>4, <2>5, <2>14
    <3> QED
      BY <3>1
  <2>16. ViewNext
    BY <2>5, <2>6, <2>13, <2>15 DEF ViewNext
  <2>17. pnAsked' \in Nat /\ (pnHandle => pnAsked' = size)
    BY <2>5, <2>6, ViewFacts
  <2>18. ViewPart'
    BY <1>1, <2>15, <2>16, <2>17, ViewMoves DEF MinWindow
  <2>19. HandleInv'
    BY <1>1, <2>6, <2>17 DEF HandleInv
  <2> QED
    BY SMTT(25), <1>3, <2>18, <2>19
<1> QED
  BY <1>5, <1>6, <1>7, <1>8, <1>9

LEMMA JobFacts ==
    ASSUME JobsPart, NEW output \in PinOutputs
    PROVE  /\ pnJobs[output] = [gate |-> pnJobs[output].gate, worker |-> pnJobs[output].worker, status |-> pnJobs[output].status]
           /\ pnJobs[output].gate \in {"idle", "busy", "closed"}
           /\ pnJobs[output].worker \in {"none", "running", "kept", "failed"}
           /\ pnJobs[output].status \in {"none", "working", "kept", "failed"}
           /\ pnJobs[output].status = "kept" => output \in pnKept
           /\ pnJobs[output].worker = "kept" => output \in pnKept
           /\ pnPin # "closed" => (pnJobs[output].gate = "busy" <=> pnJobs[output].worker # "none")
<1>1. pnJobs[output] \in [gate : {"idle", "busy", "closed"}, worker : {"none", "running", "kept", "failed"},
                          status : {"none", "working", "kept", "failed"}]
  BY DEF JobsPart, JobsType
<1>2. JobInv(output)
  BY DEF JobsPart, JobsInv
<1> QED
  BY <1>1, <1>2 DEF JobInv

LEMMA JobSet ==
    ASSUME NEW gate, NEW worker, NEW status, NEW value, NEW job,
           job = [gate |-> gate, worker |-> worker, status |-> status]
    PROVE  /\ [job EXCEPT !.gate = value] = [gate |-> value, worker |-> worker, status |-> status]
           /\ [job EXCEPT !.worker = value] = [gate |-> gate, worker |-> value, status |-> status]
  OBVIOUS

(* One output's job becomes another; the rest stay.                        *)
LEMMA JobMoves ==
    ASSUME JobsPart, NEW output \in PinOutputs, NEW job,
           job \in [gate : {"idle", "busy", "closed"}, worker : {"none", "running", "kept", "failed"},
                    status : {"none", "working", "kept", "failed"}],
           pnJobs' = [pnJobs EXCEPT ![output] = job], UNCHANGED pnPin,
           pnKept \subseteq pnKept', pnKept' \subseteq PinOutputs,
           job.status = "kept" => output \in pnKept',
           job.worker = "kept" => output \in pnKept',
           pnPin # "closed" => (job.gate = "busy" <=> job.worker # "none")
    PROVE  JobsPart'
<1>1. JobsType'
  BY DEF JobsPart, JobsType
<1>2. ASSUME NEW other \in PinOutputs PROVE JobInv(other)'
  <2>1. CASE other = output
    <3>1. pnJobs'[other] = job
      BY <2>1 DEF JobsPart, JobsType
    <3> QED
      BY <2>1, <3>1 DEF JobInv
  <2>2. CASE other # output
    <3>1. pnJobs'[other] = pnJobs[other]
      BY <2>2 DEF JobsPart, JobsType
    <3> QED
      BY <3>1, JobFacts DEF JobInv
  <2> QED
    BY <2>1, <2>2
<1> QED
  BY <1>1, <1>2 DEF JobsPart, JobsInv

LEMMA OutputSteps ==
    ASSUME PinInv, StartOutput \/ OutputEnds \/ OutputDelivered
    PROVE  PinInv'
<1> USE PinParts, PinPartsNext
<1>1. ReaderRests /\ PinRests /\ ScreenRests /\ UNCHANGED <<pnPin, pnExit>>
  BY DEF StartOutput, OutputEnds, OutputDelivered
<1>2. pnActs' \in 0 .. MaxPinActs
  BY ActsTyped DEF StartOutput, OutputEnds, OutputDelivered, RestType
<1>3. ViewPart' /\ HandleInv' /\ ReaderPart' /\ RestType'
  BY <1>1, <1>2, ViewKept, HandleKept, ReaderKept DEF RestType, ScreenRests
<1>4. JobsPart'
  <2>1. CASE StartOutput
    <3>1. pnPin = "open" /\ UNCHANGED pnKept
      BY <2>1 DEF StartOutput, PinUsable
    <3>2. PICK output \in PinOutputs :
          pnJobs' = IF pnJobs[output].gate = "idle"
                    THEN [pnJobs EXCEPT ![output] = [gate |-> "busy", worker |-> "running", status |-> "working"]]
                    ELSE pnJobs
      BY <2>1 DEF StartOutput
    <3>3. CASE pnJobs[output].gate = "idle"
      <4>1. PICK job : job = [gate |-> "busy", worker |-> "running", status |-> "working"]
        OBVIOUS
      <4>2. pnJobs' = [pnJobs EXCEPT ![output] = job]
        BY <3>2, <3>3, <4>1
      <4>3. pnKept \subseteq pnKept' /\ pnKept' \subseteq PinOutputs
        BY <3>1 DEF JobsPart, JobsType
      <4>4. /\ job \in [gate : {"idle", "busy", "closed"}, worker : {"none", "running", "kept", "failed"},
                        status : {"none", "working", "kept", "failed"}]
            /\ job.status # "kept" /\ job.worker # "kept" /\ job.gate = "busy" /\ job.worker # "none"
        BY <4>1
      <4> QED
        BY <1>1, <4>2, <4>3, <4>4, JobMoves
    <3>4. CASE pnJobs[output].gate # "idle"
      BY <1>1, <3>1, <3>2, <3>4, JobsKept DEF OutputsRest
    <3> QED
      BY <3>3, <3>4
  <2>2. CASE OutputEnds
    <3>1. PICK output \in PinOutputs, end \in {"kept", "failed"} :
          /\ pnJobs[output].worker = "running" /\ pnJobs' = [pnJobs EXCEPT ![output].worker = end]
          /\ pnKept' = IF end = "kept" THEN pnKept \cup {output} ELSE pnKept
      BY <2>2 DEF OutputEnds
    <3>2. PICK job : job = [pnJobs[output] EXCEPT !.worker = end]
      OBVIOUS
    <3>3. job = [gate |-> pnJobs[output].gate, worker |-> end, status |-> pnJobs[output].status]
      <4>1. pnJobs[output] = [gate |-> pnJobs[output].gate, worker |-> pnJobs[output].worker, status |-> pnJobs[output].status]
        BY JobFacts
      <4> HIDE PinParts, PinPartsNext
      <4> QED
        BY <3>2, <4>1, JobSet
    <3>4. pnJobs' = [pnJobs EXCEPT ![output] = job]
      BY <3>1, <3>2
    <3>5. pnKept \subseteq pnKept' /\ pnKept' \subseteq PinOutputs /\ (end = "kept" => output \in pnKept')
      BY <3>1 DEF JobsPart, JobsType
    <3>6. /\ job \in [gate : {"idle", "busy", "closed"}, worker : {"none", "running", "kept", "failed"},
                      status : {"none", "working", "kept", "failed"}]
          /\ job.status = "kept" => output \in pnKept'
          /\ job.worker = "kept" => output \in pnKept'
          /\ pnPin # "closed" => (job.gate = "busy" <=> job.worker # "none")
      BY <3>1, <3>3, <3>5, JobFacts
    <3> QED
      BY <1>1, <3>4, <3>5, <3>6, JobMoves
  <2>3. CASE OutputDelivered
    <3>1. UNCHANGED pnKept
      BY <2>3 DEF OutputDelivered
    <3>2. PICK output \in PinOutputs :
          /\ pnJobs[output].worker \in {"kept", "failed"}
          /\ pnJobs' = [pnJobs EXCEPT ![output] =
                IF pnJobs[output].gate = "busy" THEN [gate |-> "idle", worker |-> "none", status |-> pnJobs[output].worker]
                                   ELSE [pnJobs[output] EXCEPT !.worker = "none"]]
      BY <2>3 DEF OutputDelivered
    <3>3. PICK job : job = IF pnJobs[output].gate = "busy"
                           THEN [gate |-> "idle", worker |-> "none", status |-> pnJobs[output].worker]
                           ELSE [pnJobs[output] EXCEPT !.worker = "none"]
      OBVIOUS
    <3>4. \/ /\ pnJobs[output].gate = "busy"
             /\ job = [gate |-> "idle", worker |-> "none", status |-> pnJobs[output].worker]
          \/ /\ pnJobs[output].gate # "busy"
             /\ job = [gate |-> pnJobs[output].gate, worker |-> "none", status |-> pnJobs[output].status]
      <4>0. pnJobs[output] = [gate |-> pnJobs[output].gate, worker |-> pnJobs[output].worker, status |-> pnJobs[output].status]
        BY JobFacts
      <4>1. [pnJobs[output] EXCEPT !.worker = "none"] = [gate |-> pnJobs[output].gate, worker |-> "none", status |-> pnJobs[output].status]
        BY <4>0, JobSet
      <4> QED
        BY <3>3, <4>1
    <3>5. pnJobs' = [pnJobs EXCEPT ![output] = job]
      BY <3>2, <3>3
    <3>6. /\ job \in [gate : {"idle", "busy", "closed"}, worker : {"none", "running", "kept", "failed"},
                      status : {"none", "working", "kept", "failed"}]
          /\ job.status = "kept" => output \in pnKept'
          /\ job.worker = "kept" => output \in pnKept'
          /\ pnPin # "closed" => (job.gate = "busy" <=> job.worker # "none")
      <4>1. /\ pnJobs[output].gate \in {"idle", "busy", "closed"}
            /\ pnJobs[output].worker \in {"kept", "failed"}
            /\ pnJobs[output].status \in {"none", "working", "kept", "failed"}
            /\ pnJobs[output].status = "kept" => output \in pnKept
            /\ pnJobs[output].worker = "kept" => output \in pnKept
            /\ pnPin # "closed" => pnJobs[output].gate = "busy"
            /\ pnKept' = pnKept
        BY <3>1, <3>2, JobFacts
      <4>2. CASE job = [gate |-> "idle", worker |-> "none", status |-> pnJobs[output].worker]
        <5>1. job.gate = "idle" /\ job.worker = "none" /\ job.status = pnJobs[output].worker
          BY <4>2
        <5> QED
          BY <4>1, <4>2, <5>1
      <4>3. CASE /\ pnJobs[output].gate # "busy"
                 /\ job = [gate |-> pnJobs[output].gate, worker |-> "none", status |-> pnJobs[output].status]
        <5>1. job.gate = pnJobs[output].gate /\ job.worker = "none" /\ job.status = pnJobs[output].status
          BY <4>3
        <5> QED
          BY <4>1, <4>3, <5>1
      <4> QED
        BY <3>4, <4>2, <4>3
    <3>7. pnKept \subseteq pnKept' /\ pnKept' \subseteq PinOutputs
      BY <3>1 DEF JobsPart, JobsType
    <3> QED
      BY <1>1, <3>5, <3>6, <3>7, JobMoves
  <2> QED
    BY <2>1, <2>2, <2>3
<1> QED
  BY <1>3, <1>4

LEMMA PinWindowSteps ==
    ASSUME PinInv, PixelsReady \/ ToastExpires \/ ClosePin \/ ProcessEnds
    PROVE  PinInv'
<1> USE PinParts, PinPartsNext
<1>1. ReaderRests /\ PinRests
  BY DEF PixelsReady, ToastExpires, ClosePin, ProcessEnds
<1>2. CASE PixelsReady \/ ToastExpires
  <2>1. OutputsRest /\ UNCHANGED <<pnPin, pnExit, pnActs>> /\ pnSurface' \in {"pending", "drawn", "failed"}
    BY <1>2 DEF PixelsReady, ToastExpires, RestType
  <2>2. pnToast' \in BOOLEAN
    <3>1. CASE PixelsReady
      <4>1. pnToast' = (pnToast \/ pnSurface' = "failed")
        BY <3>1 DEF PixelsReady
      <4> QED
        BY <4>1, Zenon
    <3>2. CASE ToastExpires
      BY <3>2 DEF ToastExpires
    <3> QED
      BY <1>2, <3>1, <3>2
  <2> QED
    BY <1>1, <2>1, <2>2, ViewKept, HandleKept, JobsKept, ReaderKept DEF RestType
<1>3. CASE ClosePin
  <2>1. /\ pnPin = "open" /\ pnPin' = "closed" /\ pnToast' = FALSE /\ UNCHANGED <<pnSurface, pnKept, pnExit, pnActs>>
        /\ pnJobs' = [output \in PinOutputs |-> [pnJobs[output] EXCEPT !.gate = "closed"]]
    BY <1>3 DEF ClosePin
  <2>2. ASSUME NEW output \in PinOutputs
        PROVE  pnJobs'[output] = [gate |-> "closed", worker |-> pnJobs[output].worker, status |-> pnJobs[output].status]
    <3>1. pnJobs'[output] = [pnJobs[output] EXCEPT !.gate = "closed"]
      BY <2>1
    <3>2. pnJobs[output] = [gate |-> pnJobs[output].gate, worker |-> pnJobs[output].worker, status |-> pnJobs[output].status]
      BY JobFacts
    <3> QED
      BY <3>1, <3>2, JobSet
  <2>3. JobsType'
    <3>1. ASSUME NEW output \in PinOutputs
          PROVE  pnJobs'[output] \in [gate : {"idle", "busy", "closed"}, worker : {"none", "running", "kept", "failed"},
                                      status : {"none", "working", "kept", "failed"}]
      <4>1. /\ pnJobs[output].worker \in {"none", "running", "kept", "failed"}
            /\ pnJobs[output].status \in {"none", "working", "kept", "failed"}
        BY JobFacts
      <4>2. pnJobs'[output] = [gate |-> "closed", worker |-> pnJobs[output].worker, status |-> pnJobs[output].status]
        BY <2>2
      <4> QED
        BY <4>1, <4>2
    <3>2. pnJobs' = [output \in PinOutputs |-> pnJobs'[output]]
      BY <2>1
    <3>3. pnKept' \subseteq PinOutputs
      BY <2>1 DEF JobsPart, JobsType
    <3> QED
      BY <3>1, <3>2, <3>3 DEF JobsType
  <2>4. ASSUME NEW output \in PinOutputs PROVE JobInv(output)'
    <3>1. /\ pnJobs[output].status = "kept" => output \in pnKept
          /\ pnJobs[output].worker = "kept" => output \in pnKept
      BY JobFacts
    <3>2. pnJobs'[output].worker = pnJobs[output].worker /\ pnJobs'[output].status = pnJobs[output].status
      <4>1. pnJobs'[output] = [gate |-> "closed", worker |-> pnJobs[output].worker, status |-> pnJobs[output].status]
        BY <2>2
      <4> QED
        BY <4>1
    <3> QED
      BY <2>1, <3>1, <3>2 DEF JobInv
  <2>5. JobsPart'
    BY <2>3, <2>4 DEF JobsPart, JobsInv
  <2> QED
    BY <1>1, <2>1, <2>5, ViewKept, HandleKept, ReaderKept DEF RestType
<1>4. CASE ProcessEnds
  <2>1. /\ OutputsRest /\ ScreenRests /\ UNCHANGED <<pnPin, pnActs>> /\ pnPin # "open"
        /\ pnExit' = IF pnPin = "none" THEN "failed" ELSE "ok"
    BY <1>4 DEF ProcessEnds
  <2>2. ReaderPart'
    BY <1>1, <2>1 DEF ReaderPart, ReaderType, ReaderInv, ReaderRests, RestType
  <2> QED
    BY <1>1, <2>1, <2>2, ViewKept, HandleKept, JobsKept DEF RestType, ScreenRests
<1> QED
  BY <1>2, <1>3, <1>4

-----------------------------------------------------------------------------
LEMMA PinStart == PinInit => PinInv
<1> SUFFICES ASSUME PinInit PROVE PinInv
  OBVIOUS
<1> USE PinParts
<1>1. pnTarget \in Nat /\ pnTarget >= MinWindow
  BY SizesLeast DEF PinInit
<1>2. PICK first : first = [win |-> pnTarget, scale |-> 4, offset |-> 0, fitted |-> TRUE]
  OBVIOUS
<1>3. first \in PinViews /\ first.win = pnTarget
  BY <1>1, <1>2 DEF PinViews, MinScale, MaxScale, MinWindow
<1>4. pnView = Fit(first)
  BY <1>2 DEF PinInit
<1>5. pnView \in PinViews /\ pnView.win = pnTarget /\ pnView = Fit(pnView)
  BY <1>1, <1>3, <1>4, FitTyped
<1>6. pnAlloc = [size |-> 0, drawn |-> FALSE] /\ pnFloat = [phase |-> "presented", left |-> 0, resizable |-> FALSE]
      /\ pnHandle = FALSE /\ pnAsked = 0
  BY DEF PinInit
<1>b. pnHandle \in BOOLEAN
  BY <1>6, Zenon
<1>a. FloatAttempts \in Nat /\ MaxPinActs \in Nat
  BY PinAssumption
<1>7. ViewPart
  <2>1. pnAlloc \in [size : Nat, drawn : BOOLEAN] /\ pnAlloc.size = 0 /\ ~pnAlloc.drawn
    BY <1>6
  <2>2. /\ pnFloat \in [phase : {"presented", "mapped", "floating", "placed"}, left : 0 .. FloatAttempts, resizable : BOOLEAN]
        /\ pnFloat.phase = "presented"
    BY <1>6, <1>a
  <2> QED
    BY <1>1, <1>5, <1>6, <1>b, <2>1, <2>2 DEF ViewPart, ViewType, ViewInv, FittedTrue, DrawnSize, LeastSizes, MinWindow
<1>8. HandleInv
  BY <1>6 DEF HandleInv
<1>9. JobsPart
  BY DEF PinInit, JobsPart, JobsType, JobsInv, JobInv, Rested
<1>10. ReaderPart
  BY DEF PinInit, ReaderPart, ReaderType, ReaderInv, NoReader
<1>11. RestType
  <2>1. pnPin \in {"none", "open", "closed"} /\ pnSurface = "pending" /\ pnActs = 0
    BY DEF PinInit
  <2>2. pnToast \in BOOLEAN
    BY Zenon DEF PinInit
  <2> QED
    BY <1>a, <2>1, <2>2 DEF RestType
<1> QED
  BY <1>7, <1>8, <1>9, <1>10, <1>11

LEMMA PinStep == PinInv /\ [PinNext]_pnVars => PinInv'
<1> SUFFICES ASSUME PinInv, [PinNext]_pnVars PROVE PinInv'
  OBVIOUS
<1>1. CASE UNCHANGED pnVars
  <2>1. PinRests /\ OutputsRest /\ ReaderRests /\ ScreenRests /\ UNCHANGED <<pnPin, pnExit, pnActs>>
    BY <1>1 DEF pnVars, PinRests, OutputsRest, ReaderRests, ScreenRests
  <2> QED
    BY <2>1, PinParts, PinPartsNext, ViewKept, HandleKept, JobsKept, ReaderKept DEF RestType, ScreenRests
<1> QED
  BY <1>1, ReaderSteps, PlacingSteps, FramingSteps, OutputSteps, PinWindowSteps DEF PinNext

LEMMA PinMeans == PinInv => PinSound
<1> SUFFICES ASSUME PinInv PROVE PinSound
  OBVIOUS
<1> USE PinParts
<1>1. FittedIsWhole
  <2> SUFFICES ASSUME pnPin = "open", pnAlloc.drawn, pnView.fitted
               PROVE  DrawnWidth(pnView.scale) <= pnAlloc.size /\ pnView.offset = 2 * (pnAlloc.size - DrawnWidth(pnView.scale))
    BY DEF FittedIsWhole
  <2>1. pnAlloc.size = pnView.win /\ pnView = Fit(pnView)
    BY DEF ViewPart, ViewInv, DrawnSize, FittedTrue
  <2>2. pnView.scale = FitScale(pnView.win) /\ pnView.offset = 2 * (pnView.win - DrawnWidth(FitScale(pnView.win)))
    BY <2>1, ViewFacts, FitFields
  <2> QED
    BY <2>1, <2>2, ViewFacts, FitScaleIs
<1>2. WantedSizeAsked
  BY DEF WantedSizeAsked, HandleInv
<1>3. OutputsTold
  BY JobFacts DEF OutputsTold
<1>4. ReaderTold
  BY DEF ReaderTold, ReaderPart, ReaderInv
<1> QED
  BY <1>1, <1>2, <1>3, <1>4 DEF PinSound

(* A pinned picture that nobody zoomed is whole in its window, is asked    *)
(* for the size it has, and what its outputs and its text window are told  *)
(* is so (pin.rs).                                                         *)
THEOREM PinTrue == PinSpec => [](PinTypeOK /\ PinSound)
<1>1. PinInv => PinTypeOK
  BY DEF PinInv
<1> QED
  BY <1>1, PinStart, PinStep, PinMeans, PTL DEF PinSpec

-----------------------------------------------------------------------------
(* The stitcher: how the canvas, as arithmetic, the views and the keyframes *)
(* that are kept for the delivery lie on the page (StitchInv).             *)

PageViews == 0 .. PageRows - ViewRows

(* An unbroken piece of the page, with room for a view if it has any.      *)
Piece(canvas) ==
    /\ canvas \in Seq(Int)
    /\ canvas # <<>> =>
        /\ Len(canvas) >= ViewRows /\ canvas[1] >= 0 /\ canvas[1] + Len(canvas) <= PageRows
        /\ \A i \in 1 .. Len(canvas) : canvas[i] = canvas[1] + i - 1

OnCanvas(canvas, row, position) ==
    /\ position \in Nat /\ position + ViewRows <= Len(canvas)
    /\ row = canvas[1] + position

LEMMA StitchBounds ==
    /\ PageRows \in Nat /\ ViewRows \in Nat /\ MinOverlap \in Nat /\ MinShift \in Nat
    /\ HistoryLen \in Nat /\ KeyLimit \in Nat /\ MaxViews \in Nat /\ Interval \in Nat
    /\ ViewRows > 0 /\ MinOverlap > 0 /\ MinShift > 0 /\ HistoryLen > 0 /\ KeyLimit >= 2
    /\ MinOverlap <= ViewRows /\ ViewRows <= PageRows
    /\ CanvasLimits \subseteq Nat
BY StitchAssumption

LEMMA RowsAre ==
    ASSUME NEW row \in Int
    PROVE  /\ Rows(row) \in Seq(Int) /\ Len(Rows(row)) = ViewRows
           /\ \A i \in 1 .. ViewRows : Rows(row)[i] = row + i - 1
<1>1. ViewRows \in Nat
  BY StitchBounds
<1>2. Rows(row) \in [1 .. ViewRows -> Int]
  BY <1>1 DEF Rows
<1>3. Rows(row) \in Seq(Int) /\ Len(Rows(row)) = ViewRows
  BY <1>1, <1>2
<1> QED
  BY <1>3 DEF Rows

(* What lies on the canvas by arithmetic is there row by row.              *)
LEMMA LiesThere ==
    ASSUME NEW canvas, Piece(canvas), NEW row \in Int, NEW position, OnCanvas(canvas, row, position)
    PROVE  SubSeq(canvas, position + 1, position + ViewRows) = Rows(row)
<1>1. /\ canvas \in Seq(Int) /\ position \in Nat /\ position + ViewRows <= Len(canvas)
      /\ Len(canvas) \in Nat /\ ViewRows \in Nat /\ ViewRows > 0
  BY StitchBounds, LenProperties DEF Piece, OnCanvas
<1>2. canvas # <<>>
  BY <1>1
<1>3. \A i \in 1 .. Len(canvas) : canvas[i] = canvas[1] + i - 1
  BY <1>2 DEF Piece
<1>4. canvas[1] \in Int
  BY <1>1, <1>2, ElementOfSeq
<1> DEFINE cut == SubSeq(canvas, position + 1, position + ViewRows)
<1>5. /\ cut \in Seq(Int) /\ Len(cut) = ViewRows
      /\ \A i \in 1 .. ViewRows : cut[i] = canvas[position + i]
  <2>1. /\ cut \in Seq(Int)
        /\ Len(cut) = IF position + 1 <= position + ViewRows
                      THEN position + ViewRows - (position + 1) + 1 ELSE 0
        /\ \A i \in 1 .. position + ViewRows - (position + 1) + 1 : cut[i] = canvas[(position + 1) + i - 1]
    BY <1>1, SubSeqProperties
  <2> HIDE DEF cut
  <2> QED
    BY <1>1, <2>1
<1>6. \A i \in 1 .. ViewRows : cut[i] = Rows(row)[i]
  <2> TAKE i \in 1 .. ViewRows
  <2>1. cut[i] = canvas[position + i]
    BY <1>5
  <2>2. canvas[position + i] = canvas[1] + (position + i) - 1
    BY <1>1, <1>3
  <2>3. Rows(row)[i] = row + i - 1
    BY RowsAre
  <2> QED
    BY SMTT(25), <1>1, <1>4, <2>1, <2>2, <2>3 DEF OnCanvas
<1> HIDE DEF cut
<1>7. Rows(row) \in Seq(Int) /\ Len(Rows(row)) = ViewRows
  BY RowsAre
<1>8. cut = Rows(row)
  BY <1>5, <1>6, <1>7, SeqEqual
<1> QED
  BY <1>8 DEF cut

(* A view is found where its first row is.                                 *)
LEMMA FoundThere ==
    ASSUME NEW canvas, Piece(canvas), NEW row \in Int,
           NEW position \in 0 .. Len(canvas) - ViewRows,
           SubSeq(canvas, position + 1, position + ViewRows) = Rows(row)
    PROVE  OnCanvas(canvas, row, position)
<1>1. canvas \in Seq(Int) /\ Len(canvas) \in Nat /\ ViewRows \in Nat /\ ViewRows > 0
  BY StitchBounds, LenProperties DEF Piece
<1>2. canvas # <<>>
  BY <1>1
<1>3. canvas[1] \in Int
  BY <1>1, <1>2, ElementOfSeq
<1>4. SubSeq(canvas, position + 1, position + ViewRows)[1] = canvas[position + 1]
  BY <1>1, SubSeqProperties
<1>5. Rows(row)[1] = row
  BY <1>1, RowsAre
<1>6. canvas[position + 1] = canvas[1] + (position + 1) - 1
  BY SMTT(25), <1>1, <1>2 DEF Piece
<1> QED
  BY <1>1, <1>3, <1>4, <1>5, <1>6 DEF OnCanvas

(* Two pieces of the page that meet are one.                               *)
LEMMA PiecesJoin ==
    ASSUME NEW a \in Seq(Int), NEW b \in Seq(Int), NEW first \in Int,
           \A i \in 1 .. Len(a) : a[i] = first + i - 1,
           \A i \in 1 .. Len(b) : b[i] = first + Len(a) + i - 1,
           Len(a) + Len(b) >= ViewRows, first >= 0, first + Len(a) + Len(b) <= PageRows
    PROVE  /\ Piece(a \o b) /\ Len(a \o b) = Len(a) + Len(b) /\ a \o b # <<>> /\ (a \o b)[1] = first
<1>1. Len(a) \in Nat /\ Len(b) \in Nat /\ ViewRows \in Nat /\ ViewRows > 0 /\ PageRows \in Nat
  BY StitchBounds, LenProperties
<1> DEFINE both == a \o b
<1>2. both \in Seq(Int) /\ Len(both) = Len(a) + Len(b)
  BY ConcatProperties
<1>3. \A i \in 1 .. Len(a) + Len(b) : both[i] = IF i <= Len(a) THEN a[i] ELSE b[i - Len(a)]
  BY ConcatProperties
<1>4. \A i \in 1 .. Len(a) + Len(b) : both[i] = first + i - 1
  <2> TAKE i \in 1 .. Len(a) + Len(b)
  <2>1. CASE i <= Len(a)
    BY <1>1, <1>3, <2>1
  <2>2. CASE i > Len(a)
    <3>1. i - Len(a) \in 1 .. Len(b)
      BY <1>1, <2>2
    <3>2. b[i - Len(a)] = first + Len(a) + (i - Len(a)) - 1
      BY <3>1
    <3> QED
      BY <1>1, <1>3, <2>2, <3>2
  <2> QED
    BY <1>1, <2>1, <2>2
<1> HIDE DEF both
<1>5. both # <<>>
  BY <1>1, <1>2
<1>6. both[1] = first
  <2>1. 1 \in 1 .. Len(a) + Len(b)
    BY <1>1
  <2>2. both[1] = first + 1 - 1
    BY <1>4, <2>1
  <2> QED
    BY <2>2
<1>7. Piece(both)
  BY <1>1, <1>2, <1>4, <1>6 DEF Piece
<1> QED
  BY <1>2, <1>5, <1>6, <1>7 DEF both


(* What hangs over the canvas, and how far.                                *)
LEMMA Overhang ==
    ASSUME NEW new \in Int
    PROVE  /\ OverTop(new) = IF new < 0 THEN -new ELSE 0
           /\ Len(siCanvas) \in Int =>
                OverBottom(new) = IF new + ViewRows > Len(siCanvas) THEN new + ViewRows - Len(siCanvas) ELSE 0
<1>1. OverTop(new) = IF new < 0 THEN -new ELSE 0
  <2>1. PICK x : x = -new
    OBVIOUS
  <2>2. Max({0, x}) \in {0, x} /\ Max({0, x}) >= 0 /\ Max({0, x}) >= x
    BY <2>1, LargerOfTwo
  <2>3. OverTop(new) = Max({0, x})
    BY <2>1 DEF OverTop
  <2> QED
    BY <2>1, <2>2, <2>3
<1>2. ASSUME Len(siCanvas) \in Int
      PROVE  OverBottom(new) = IF new + ViewRows > Len(siCanvas) THEN new + ViewRows - Len(siCanvas) ELSE 0
  <2>1. PICK x : x = new + ViewRows - Len(siCanvas)
    OBVIOUS
  <2>2. x \in Int
    BY <1>2, <2>1, StitchBounds
  <2>3. Max({0, x}) \in {0, x} /\ Max({0, x}) >= 0 /\ Max({0, x}) >= x
    BY <2>2, LargerOfTwo
  <2>4. OverBottom(new) = Max({0, x})
    BY <2>1 DEF OverBottom
  <2> QED
    BY <1>2, <2>1, <2>2, <2>3, <2>4, StitchBounds
<1> QED
  BY <1>1, <1>2

(* A view that overlaps the canvas makes it longer by what is new, at one  *)
(* of its ends, and what was on it is where it was or moved by that much.  *)
LEMMA CanvasGrows ==
    ASSUME Piece(siCanvas), siCanvas # <<>>, NEW row \in PageViews, NEW new \in Int,
           row = siCanvas[1] + new, new <= Len(siCanvas), new + ViewRows >= 0,
           NEW seam \in Seams(new), NEW canvas, canvas = Extended(Rows(row), new, seam)
    PROVE  /\ Piece(canvas) /\ canvas # <<>> /\ Len(canvas) = Len(siCanvas) + Added(new)
           /\ OverTop(new) \in Nat /\ canvas[1] = siCanvas[1] - OverTop(new)
<1> DEFINE L == Len(siCanvas)
           ob == OverBottom(new)
           ot == OverTop(new)
           first == siCanvas[1]
<1>1. /\ siCanvas \in Seq(Int) /\ L \in Nat /\ first \in Int /\ ViewRows \in Nat /\ ViewRows > 0 /\ L >= ViewRows
      /\ PageRows \in Nat
      /\ first >= 0 /\ first + L <= PageRows
  BY StitchBounds, LenProperties, ElementOfSeq DEF Piece
<1>12. \A i \in 1 .. L : siCanvas[i] = first + i - 1
  BY DEF Piece
<1>2. /\ row \in Int /\ row >= 0 /\ row + ViewRows <= PageRows /\ row = first + new
  BY <1>1 DEF PageViews
<1>3. /\ ot = IF new < 0 THEN -new ELSE 0
      /\ ob = IF new + ViewRows > L THEN new + ViewRows - L ELSE 0
  BY <1>1, Overhang
<1>4. Added(new) = ob + ot
  BY DEF Added
<1>5. /\ seam \in Nat /\ seam <= L /\ seam + Added(new) <= ViewRows
  <2>1. seam \in 0 .. Smallest(ViewRows - Added(new), L)
    BY DEF Seams
  <2>2. ViewRows - Added(new) \in Int
    BY <1>1, <1>3, <1>4
  <2> HIDE DEF L, ob, ot, first
  <2>3. PICK room : room = ViewRows - Added(new)
    OBVIOUS
  <2>4. seam \in 0 .. Smallest(room, L)
    BY <2>1, <2>3
  <2>5. seam \in Nat /\ seam <= L /\ seam <= room
    BY <1>1, <2>2, <2>3, <2>4 DEF Smallest
  <2>6. Added(new) \in Int
    BY <1>1, <1>3, <1>4
  <2> QED
    BY <1>1, <2>3, <2>5, <2>6
<1>6. /\ Rows(row) \in Seq(Int) /\ Len(Rows(row)) = ViewRows
      /\ \A i \in 1 .. ViewRows : Rows(row)[i] = row + i - 1
  BY <1>2, RowsAre
<1>7. ot \in Nat /\ ob \in Nat
  BY <1>1, <1>3
<1> HIDE DEF L, ob, ot, first
<1>13. /\ L \in Nat /\ first \in Nat /\ row \in Nat /\ ViewRows \in Nat /\ PageRows \in Nat /\ seam \in Nat
       /\ ot \in Nat /\ ob \in Nat /\ new \in Int
       /\ L >= ViewRows /\ first + L <= PageRows /\ row + ViewRows <= PageRows /\ row = first + new
  BY <1>1, <1>2, <1>5, <1>7
<1>8. CASE ob > 0
  <2>1. ot = 0 /\ ob = new + ViewRows - L
    BY <1>1, <1>3, <1>8
  <2> DEFINE a == SubSeq(siCanvas, 1, L - seam)
             b == SubSeq(Rows(row), ViewRows - (ob + seam) + 1, ViewRows)
  <2>2. canvas = a \o b
    <3>1. OverBottom(new) > 0 /\ ~(OverTop(new) > 0)
      BY <1>8, <2>1 DEF ob, ot
    <3> QED
      BY <3>1 DEF Extended, L, ob, ot
  <2>3. /\ a \in Seq(Int) /\ Len(a) = L - seam
        /\ \A i \in 1 .. L - seam : a[i] = siCanvas[i]
    <3>1. /\ a \in Seq(Int) /\ Len(a) = IF 1 <= L - seam THEN (L - seam) - 1 + 1 ELSE 0
          /\ \A i \in 1 .. (L - seam) - 1 + 1 : a[i] = siCanvas[1 + i - 1]
      BY SMTT(25), <1>1, <1>5, SubSeqProperties DEF L
    <3> HIDE DEF a
    <3> QED
      BY <1>1, <1>5, <3>1
  <2>4. /\ b \in Seq(Int) /\ Len(b) = ob + seam
        /\ \A i \in 1 .. ob + seam : b[i] = Rows(row)[ViewRows - (ob + seam) + i]
    <3> DEFINE from == ViewRows - (ob + seam) + 1
    <3>0. ob + seam <= ViewRows /\ ob + seam >= 1 /\ from \in Int /\ from >= 1
      BY <1>1, <1>4, <1>5, <1>7, <1>8, <2>1
    <3>1. /\ b \in Seq(Int) /\ Len(b) = IF from <= ViewRows THEN ViewRows - from + 1 ELSE 0
          /\ \A i \in 1 .. ViewRows - from + 1 : b[i] = Rows(row)[from + i - 1]
      <4>1. \A i \in 1 .. ViewRows : Rows(row)[i] \in Int
        BY <1>6, ElementOfSeq
      <4> HIDE DEF from
      <4>2. \A i \in from .. ViewRows : Rows(row)[i] \in Int
        BY <1>1, <3>0, <4>1
      <4>3. b = SubSeq(Rows(row), from, ViewRows)
        BY DEF from
      <4> HIDE DEF b
      <4> QED
        BY <1>1, <3>0, <4>2, <4>3, SubSeqProperties, SMTT(30)
    <3> HIDE DEF b
    <3> QED
      BY <1>1, <1>5, <1>7, <3>0, <3>1
  <2> HIDE DEF a, b
  <2>9. Len(a) = L - seam /\ Len(b) = ob + seam
    BY <2>3, <2>4
  <2>5. \A i \in 1 .. Len(a) : a[i] = first + i - 1
    BY <1>1, <1>12, <1>5, <2>3
  <2>6. \A i \in 1 .. Len(b) : b[i] = first + Len(a) + i - 1
    <3> TAKE i \in 1 .. Len(b)
    <3>1. ViewRows - (ob + seam) + i \in 1 .. ViewRows
      BY <1>1, <1>4, <1>5, <1>7, <2>1, <2>4
    <3>2. b[i] = row + (ViewRows - (ob + seam) + i) - 1
      BY <1>6, <2>4, <3>1
    <3> QED
      BY <1>1, <1>2, <1>5, <1>7, <2>1, <2>9, <3>2
  <2>7. /\ Len(a) + Len(b) = L + ob /\ Len(a) + Len(b) >= ViewRows /\ first + Len(a) + Len(b) <= PageRows
    <3>1. PICK la, lb : la = Len(a) /\ lb = Len(b)
      OBVIOUS
    <3>2. la = L - seam /\ lb = ob + seam
      BY <2>9, <3>1
    <3>3. la + lb = L + ob /\ la + lb >= ViewRows /\ first + la + lb <= PageRows
      BY <1>13, <2>1, <3>2
    <3> QED
      BY <3>1, <3>3
  <2>8. /\ Piece(a \o b) /\ Len(a \o b) = Len(a) + Len(b) /\ a \o b # <<>> /\ (a \o b)[1] = first
    BY ZenonT(60), <1>1, <2>3, <2>4, <2>5, <2>6, <2>7, PiecesJoin
  <2>10. /\ Piece(canvas) /\ canvas # <<>> /\ Len(canvas) = L + Added(new) /\ canvas[1] = first - ot
    <3>1. Piece(canvas) /\ canvas # <<>>
      BY <2>2, <2>8
    <3>2. Len(canvas) = L + ob /\ canvas[1] = first
      BY <2>2, <2>7, <2>8
    <3> QED
      BY <1>1, <1>4, <1>7, <2>1, <3>1, <3>2
  <2> QED
    BY <1>7, <2>10 DEF L, ot, first
<1>9. CASE ob = 0 /\ ot > 0
  <2>1. ot = -new
    BY <1>1, <1>3, <1>9
  <2> DEFINE a == SubSeq(Rows(row), 1, ot + seam)
             b == SubSeq(siCanvas, seam + 1, L)
  <2>2. canvas = a \o b
    <3>1. ~(OverBottom(new) > 0) /\ OverTop(new) > 0
      BY <1>9 DEF ob, ot
    <3> QED
      BY <3>1 DEF Extended, L, ob, ot
  <2>0. ot + seam <= ViewRows /\ ot + seam >= 1
    BY <1>1, <1>4, <1>5, <1>7, <1>9
  <2>3. /\ a \in Seq(Int) /\ Len(a) = ot + seam
        /\ \A i \in 1 .. ot + seam : a[i] = Rows(row)[i]
    <3>1. /\ a \in Seq(Int) /\ Len(a) = IF 1 <= ot + seam THEN (ot + seam) - 1 + 1 ELSE 0
          /\ \A i \in 1 .. (ot + seam) - 1 + 1 : a[i] = Rows(row)[1 + i - 1]
      BY SMTT(25), <1>1, <1>5, <1>6, <1>7, <2>0, SubSeqProperties
    <3> HIDE DEF a
    <3> QED
      BY <1>1, <1>5, <1>7, <2>0, <3>1
  <2>4. /\ b \in Seq(Int) /\ Len(b) = L - seam
        /\ \A i \in 1 .. L - seam : b[i] = siCanvas[seam + i]
    <3>1. /\ b \in Seq(Int) /\ Len(b) = IF seam + 1 <= L THEN L - (seam + 1) + 1 ELSE 0
          /\ \A i \in 1 .. L - (seam + 1) + 1 : b[i] = siCanvas[(seam + 1) + i - 1]
      BY <1>1, <1>5, SubSeqProperties DEF L
    <3> HIDE DEF b
    <3> QED
      BY <1>1, <1>5, <3>1
  <2> HIDE DEF a, b
  <2>9. Len(a) = ot + seam /\ Len(b) = L - seam
    BY <2>3, <2>4
  <2>5. \A i \in 1 .. Len(a) : a[i] = row + i - 1
    <3> TAKE i \in 1 .. Len(a)
    <3>1. i \in 1 .. ViewRows /\ i \in 1 .. ot + seam
      BY <1>1, <1>5, <1>7, <2>0, <2>9
    <3> QED
      BY <1>6, <2>3, <3>1
  <2>6. \A i \in 1 .. Len(b) : b[i] = row + Len(a) + i - 1
    <3> TAKE i \in 1 .. Len(b)
    <3>1. b[i] = first + (seam + i) - 1
      <4>1. i \in 1 .. L - seam /\ seam + i \in 1 .. L
        BY <1>1, <1>5, <2>9
      <4> QED
        BY <1>12, <2>4, <4>1
    <3> QED
      BY SMTT(25), <1>1, <1>2, <1>5, <1>7, <2>1, <2>9, <3>1
  <2>7. /\ Len(a) + Len(b) = L + ot /\ Len(a) + Len(b) >= ViewRows /\ row + Len(a) + Len(b) <= PageRows
    <3>1. PICK la, lb : la = Len(a) /\ lb = Len(b)
      OBVIOUS
    <3>2. la = ot + seam /\ lb = L - seam
      BY <2>9, <3>1
    <3>3. la + lb = L + ot /\ la + lb >= ViewRows /\ row + la + lb <= PageRows
      BY <1>13, <2>1, <3>2
    <3> QED
      BY <3>1, <3>3
  <2>8. /\ Piece(a \o b) /\ Len(a \o b) = Len(a) + Len(b) /\ a \o b # <<>> /\ (a \o b)[1] = row
    BY <1>1, <1>2, <2>3, <2>4, <2>5, <2>6, <2>7, PiecesJoin
  <2>10. /\ Piece(canvas) /\ canvas # <<>> /\ Len(canvas) = L + Added(new) /\ canvas[1] = first - ot
    <3>1. Piece(canvas) /\ canvas # <<>>
      BY <2>2, <2>8
    <3>2. Len(canvas) = L + ot /\ canvas[1] = row
      BY <2>2, <2>7, <2>8
    <3> QED
      BY <1>1, <1>2, <1>4, <1>7, <1>9, <2>1, <3>1, <3>2
  <2> QED
    BY <1>7, <2>10 DEF L, ot, first
<1>10. CASE ob = 0 /\ ot = 0
  <2>1. canvas = siCanvas
    BY <1>10 DEF Extended, ob, ot
  <2> QED
    BY <1>1, <1>4, <1>10, <2>1 DEF L, ot, first
<1> QED
  BY <1>7, <1>8, <1>9, <1>10


-----------------------------------------------------------------------------
(* What the stitcher knows of the views that are on its canvas.            *)

StitchViews == [row : PageViews, position : Nat]

Reasons == {"Motion", "Tail", "Recovered", "Seed", "Turn", "Failure"}
Keyframes == [sequence : Nat, row : PageViews, position : Int, reason : Reasons]

KeyframeLies(canvas, f) == f.position = NoPosition \/ OnCanvas(canvas, f.row, f.position)

HistoryLies(canvas, history) ==
    /\ history \in Seq(StitchViews) /\ Len(history) <= HistoryLen
    /\ \A i \in 1 .. Len(history) : OnCanvas(canvas, history[i].row, history[i].position)

InSequence(frames) == \A i, j \in 1 .. Len(frames) : i < j => frames[i].sequence < frames[j].sequence

KeepLies(canvas, keep) ==
    /\ keep \in [frames : Seq(Keyframes), pending : Keyframes \union {NoKeyframe}, disabled : BOOLEAN]
    /\ Len(keep.frames) <= KeyLimit /\ InSequence(keep.frames)
    /\ \A i \in 1 .. Len(keep.frames) : KeyframeLies(canvas, keep.frames[i])
    /\ keep.pending # NoKeyframe => OnCanvas(canvas, keep.pending.row, keep.pending.position)
    /\ keep.disabled => keep = Discarded

(* The canvas grew upward by so many rows, and perhaps at its other end.   *)
Raised(canvas, canvas2, up) ==
    /\ up \in Nat /\ Len(canvas2) >= Len(canvas) + up /\ canvas2[1] = canvas[1] - up
    /\ Len(canvas) \in Nat /\ Len(canvas2) \in Nat /\ canvas[1] \in Int

LEMMA LiesRaised ==
    ASSUME NEW canvas, NEW canvas2, NEW up, Raised(canvas, canvas2, up),
           NEW row, NEW position, OnCanvas(canvas, row, position)
    PROVE  OnCanvas(canvas2, row, position + up)
BY StitchBounds DEF Raised, OnCanvas

LEMMA NotKeyframe ==
    /\ \A view \in StitchViews : view # NoKeyframe /\ view.position # NoPosition
    /\ \A f \in Keyframes : f # NoKeyframe
<1>1. ASSUME NEW view \in StitchViews PROVE view # NoKeyframe
  <2>1. "row" \in DOMAIN view
    BY DEF StitchViews
  <2>2. "row" \notin DOMAIN NoKeyframe
    BY DEF NoKeyframe
  <2> QED
    BY <2>1, <2>2
<1>2. ASSUME NEW f \in Keyframes PROVE f # NoKeyframe
  <2>1. "row" \in DOMAIN f
    BY DEF Keyframes
  <2>2. "row" \notin DOMAIN NoKeyframe
    BY DEF NoKeyframe
  <2> QED
    BY <2>1, <2>2
<1>3. ASSUME NEW view \in StitchViews PROVE view.position # NoPosition
  BY DEF StitchViews, NoPosition
<1> QED
  BY <1>1, <1>2, <1>3

LEMMA HistoryRaised ==
    ASSUME NEW canvas, NEW canvas2, NEW up, Raised(canvas, canvas2, up),
           NEW history, HistoryLies(canvas, history)
    PROVE  HistoryLies(canvas2, LiftedAll(history, up))
<1> DEFINE raised == LiftedAll(history, up)
<1>1. /\ history \in Seq(StitchViews) /\ Len(history) \in Nat /\ up \in Nat
      /\ DOMAIN history = 1 .. Len(history)
      /\ \A i \in 1 .. Len(history) : history[i] \in StitchViews
  BY LenProperties, ElementOfSeq DEF HistoryLies, Raised
<1>2. ASSUME NEW i \in 1 .. Len(history)
      PROVE  /\ raised[i] = [row |-> history[i].row, position |-> history[i].position + up]
             /\ raised[i] \in StitchViews
             /\ OnCanvas(canvas2, raised[i].row, raised[i].position)
  <2>1. PICK view \in StitchViews : view = history[i]
    BY <1>1
  <2>2. view # NoKeyframe /\ view.position # NoPosition
    BY NotKeyframe
  <2>3. raised[i] = Lifted(view, up)
    BY <1>1, <2>1 DEF LiftedAll
  <2>4. view = [row |-> view.row, position |-> view.position] /\ view.row \in PageViews /\ view.position \in Nat
    BY DEF StitchViews
  <2>5. raised[i] = [view EXCEPT !.position = @ + up]
    BY <2>2, <2>3 DEF Lifted
  <2>6. raised[i] = [row |-> view.row, position |-> view.position + up]
    BY <2>4, <2>5
  <2>7. raised[i] \in StitchViews
    BY <1>1, <2>4, <2>6 DEF StitchViews
  <2>8. OnCanvas(canvas, view.row, view.position)
    BY <2>1 DEF HistoryLies
  <2>9. OnCanvas(canvas2, view.row, view.position + up)
    BY <2>8, LiesRaised
  <2> QED
    BY <2>1, <2>6, <2>7, <2>9
<1>3. raised = [i \in 1 .. Len(history) |-> Lifted(history[i], up)]
  BY <1>1 DEF LiftedAll
<1>4. raised \in [1 .. Len(history) -> StitchViews]
  BY <1>2, <1>3
<1>5. raised \in Seq(StitchViews) /\ Len(raised) = Len(history)
  BY <1>1, <1>4
<1> HIDE DEF raised
<1>6. HistoryLies(canvas2, raised)
  BY <1>2, <1>5 DEF HistoryLies
<1> QED
  BY <1>6 DEF raised

LEMMA HistoryPushed ==
    ASSUME NEW canvas, NEW history, HistoryLies(canvas, history),
           NEW row \in PageViews, NEW position, OnCanvas(canvas, row, position)
    PROVE  /\ HistoryLies(canvas, PushHistory(history, row, position))
           /\ PushHistory(history, row, position) # <<>>
           /\ Last(PushHistory(history, row, position)).position = position
<1> DEFINE kept == IF Len(history) = HistoryLen THEN Tail(history) ELSE history
           view == [row |-> row, position |-> position]
           pushed == Append(kept, view)
<1>1. /\ history \in Seq(StitchViews) /\ Len(history) \in Nat /\ HistoryLen \in Nat /\ HistoryLen > 0
      /\ Len(history) <= HistoryLen
      /\ \A i \in 1 .. Len(history) : OnCanvas(canvas, history[i].row, history[i].position)
  BY LenProperties, StitchBounds DEF HistoryLies
<1>2. view \in StitchViews /\ position \in Nat
  BY DEF StitchViews, OnCanvas
<1>3. /\ kept \in Seq(StitchViews) /\ Len(kept) \in Nat /\ Len(kept) < HistoryLen
      /\ \A i \in 1 .. Len(kept) : OnCanvas(canvas, kept[i].row, kept[i].position)
  <2>1. CASE Len(history) = HistoryLen
    <3>1. history # <<>>
      BY <1>1, <2>1
    <3>2. /\ Tail(history) \in Seq(StitchViews) /\ Len(Tail(history)) = Len(history) - 1
          /\ \A i \in 1 .. Len(Tail(history)) : Tail(history)[i] = history[i + 1]
      BY <1>1, <3>1, HeadTailProperties
    <3> QED
      BY <1>1, <2>1, <3>2
  <2>2. CASE Len(history) # HistoryLen
    BY <1>1, <2>2
  <2> QED
    BY <2>1, <2>2
<1>4. PushHistory(history, row, position) = pushed
  BY DEF PushHistory
<1> HIDE DEF kept, view
<1>5. /\ pushed \in Seq(StitchViews) /\ Len(pushed) = Len(kept) + 1
      /\ \A i \in 1 .. Len(kept) : pushed[i] = kept[i]
      /\ pushed[Len(kept) + 1] = view
  BY <1>2, <1>3, AppendProperties
<1> HIDE DEF pushed
<1>6. view.row = row /\ view.position = position
  BY DEF view
<1>7. HistoryLies(canvas, pushed)
  <2>1. ASSUME NEW i \in 1 .. Len(pushed) PROVE OnCanvas(canvas, pushed[i].row, pushed[i].position)
    <3>1. i \in 1 .. Len(kept) \/ i = Len(kept) + 1
      BY <1>3, <1>5
    <3> QED
      BY <1>3, <1>5, <1>6, <3>1
  <2> QED
    BY <1>1, <1>3, <1>5, <2>1 DEF HistoryLies
<1>8. pushed # <<>> /\ Last(pushed).position = position
  BY <1>3, <1>5, <1>6 DEF Last
<1> QED
  BY <1>4, <1>7, <1>8


(* A set of numbers up to a bound has a largest one, and Max is it.        *)
LEMMA MaxUpTo ==
    ASSUME NEW n \in Nat, NEW S \in SUBSET (0 .. n), S # {}
    PROVE  Max(S) \in S /\ \A y \in S : Max(S) >= y
<1> DEFINE T == {n - x : x \in S}
<1>1. T \in SUBSET Nat /\ T # {}
  <2>1. \A x \in S : n - x \in Nat
    OBVIOUS
  <2> QED
    BY <2>1
<1>2. PICK t \in T : \A u \in T : t <= u
  <2> HIDE DEF T
  <2> QED
    BY <1>1, LeastOfNats
<1>3. PICK x \in S : t = n - x
  BY <1>2
<1>4. \A y \in S : x >= y
  <2> TAKE y \in S
  <2>1. n - y \in T
    OBVIOUS
  <2>2. t <= n - y
    BY <1>2, <2>1
  <2> QED
    BY <1>3, <2>2
<1>5. \E z \in S : \A y \in S : z >= y
  BY <1>4
<1> QED
  BY <1>5 DEF Max

LEMMA MinOfNat ==
    ASSUME NEW S \in SUBSET Nat, S # {}
    PROVE  Min(S) \in S /\ \A y \in S : Min(S) <= y
<1>1. \E z \in S : \A y \in S : z <= y
  BY LeastOfNats
<1> QED
  BY <1>1 DEF Min

LEMMA FramesRaised ==
    ASSUME NEW canvas, NEW canvas2, NEW up, Raised(canvas, canvas2, up), NEW f \in Keyframes
    PROVE  /\ Lifted(f, up) \in Keyframes /\ Lifted(f, up).sequence = f.sequence
           /\ KeyframeLies(canvas, f) => KeyframeLies(canvas2, Lifted(f, up))
           /\ OnCanvas(canvas, f.row, f.position) =>
                OnCanvas(canvas2, Lifted(f, up).row, Lifted(f, up).position)
<1>1. f # NoKeyframe
  BY NotKeyframe
<1>2. CASE f.position = NoPosition
  <2>1. Lifted(f, up) = f
    BY <1>2 DEF Lifted
  <2>2. ~OnCanvas(canvas, f.row, f.position)
    BY <1>2 DEF OnCanvas, NoPosition
  <2> QED
    BY <1>2, <2>1, <2>2 DEF KeyframeLies
<1>3. CASE f.position # NoPosition
  <2>1. Lifted(f, up) = [f EXCEPT !.position = @ + up]
    BY <1>1, <1>3 DEF Lifted
  <2>2. up \in Nat
    BY DEF Raised
  <2>3. PICK g : g = [f EXCEPT !.position = @ + up]
    OBVIOUS
  <2>4. /\ g \in Keyframes /\ g.sequence = f.sequence /\ g.row = f.row
        /\ g.position = f.position + up
    BY <2>2, <2>3 DEF Keyframes
  <2>5. OnCanvas(canvas, f.row, f.position) => OnCanvas(canvas2, f.row, f.position + up)
    BY LiesRaised
  <2> QED
    BY <1>3, <2>1, <2>3, <2>4, <2>5 DEF KeyframeLies
<1> QED
  BY <1>2, <1>3

LEMMA KeepRaised ==
    ASSUME NEW canvas, NEW canvas2, NEW up, Raised(canvas, canvas2, up),
           NEW keep, KeepLies(canvas, keep)
    PROVE  KeepLies(canvas2, LiftedKeep(keep, up))
<1> DEFINE raised == LiftedAll(keep.frames, up)
           held == Lifted(keep.pending, up)
<1>1. /\ keep \in [frames : Seq(Keyframes), pending : Keyframes \union {NoKeyframe}, disabled : BOOLEAN]
      /\ keep.frames \in Seq(Keyframes) /\ Len(keep.frames) \in Nat /\ Len(keep.frames) <= KeyLimit
      /\ keep.pending \in Keyframes \union {NoKeyframe} /\ keep.disabled \in BOOLEAN
      /\ DOMAIN keep.frames = 1 .. Len(keep.frames)
      /\ \A i \in 1 .. Len(keep.frames) : keep.frames[i] \in Keyframes
  BY LenProperties, ElementOfSeq DEF KeepLies
<1>2. \A i \in 1 .. Len(keep.frames) :
        /\ raised[i] = Lifted(keep.frames[i], up)
        /\ raised[i] \in Keyframes /\ raised[i].sequence = keep.frames[i].sequence
        /\ KeyframeLies(canvas2, raised[i])
  <2> TAKE i \in 1 .. Len(keep.frames)
  <2>1. raised[i] = Lifted(keep.frames[i], up)
    BY <1>1 DEF LiftedAll
  <2>2. KeyframeLies(canvas, keep.frames[i]) /\ keep.frames[i] \in Keyframes
    BY <1>1 DEF KeepLies
  <2> QED
    BY <2>1, <2>2, FramesRaised
<1>3. raised \in [1 .. Len(keep.frames) -> Keyframes]
  BY <1>1, <1>2 DEF LiftedAll
<1>4. raised \in Seq(Keyframes) /\ Len(raised) = Len(keep.frames)
  BY <1>1, <1>3
<1>5. held \in Keyframes \union {NoKeyframe} /\ (held # NoKeyframe => OnCanvas(canvas2, held.row, held.position))
  <2>1. CASE keep.pending = NoKeyframe
    BY <2>1 DEF Lifted
  <2>2. CASE keep.pending \in Keyframes
    <3>1. OnCanvas(canvas, keep.pending.row, keep.pending.position)
      BY <2>2, NotKeyframe DEF KeepLies
    <3> QED
      BY <2>2, <3>1, FramesRaised
  <2> QED
    BY <1>1, <2>1, <2>2
<1>6. LiftedKeep(keep, up) = [frames |-> raised, pending |-> held, disabled |-> keep.disabled]
  <2> HIDE DEF raised, held
  <2>1. LiftedKeep(keep, up) = [keep EXCEPT !.frames = raised, !.pending = held]
    BY DEF LiftedKeep, raised, held
  <2> QED
    BY <1>1, <2>1
<1>7. keep.disabled => LiftedKeep(keep, up) = Discarded
  <2> SUFFICES ASSUME keep.disabled PROVE LiftedKeep(keep, up) = Discarded
    OBVIOUS
  <2>1. keep.frames = <<>> /\ keep.pending = NoKeyframe /\ keep.disabled = TRUE
    BY DEF KeepLies, Discarded
  <2>2. held = NoKeyframe
    BY <2>1 DEF Lifted
  <2>3. raised = <<>>
    BY <1>4, <2>1, EmptySeq
  <2> QED
    BY <1>6, <2>1, <2>2, <2>3 DEF Discarded
<1> HIDE DEF raised, held
<1>8. InSequence(keep.frames)
  BY DEF KeepLies
<1>9. PICK k : k = LiftedKeep(keep, up)
  OBVIOUS
<1>10. k.frames = raised /\ k.pending = held /\ k.disabled = keep.disabled
  BY <1>6, <1>9
<1>11. k \in [frames : Seq(Keyframes), pending : Keyframes \union {NoKeyframe}, disabled : BOOLEAN]
  BY <1>1, <1>4, <1>5, <1>6, <1>9
<1>12. InSequence(raised)
  BY <1>2, <1>4, <1>8 DEF InSequence
<1>13. \A i \in 1 .. Len(raised) : KeyframeLies(canvas2, raised[i])
  BY <1>2, <1>4
<1>14. KeepLies(canvas2, k)
  BY <1>1, <1>4, <1>5, <1>7, <1>9, <1>10, <1>11, <1>12, <1>13 DEF KeepLies
<1> QED
  BY <1>9, <1>14


LEMMA PriorityIs == \A reason \in Reasons : Priority[reason] \in Nat
BY DEF Reasons, Priority

(* Of the keyframes between the ends one is the first to go: of those with *)
(* the least rank, of those with the least gap, the first.                 *)
LEMMA OneIsEvicted ==
    ASSUME NEW frames \in Seq(Keyframes), Len(frames) >= 3, InSequence(frames)
    PROVE  Evicted(frames) \in 2 .. Len(frames) - 1
<1> DEFINE interior == 2 .. Len(frames) - 1
           ordinary == {i \in interior : frames[i].reason \in {"Motion", "Tail"}}
           pool == IF ordinary = {} THEN interior ELSE ordinary
           Rank(i) == Priority[frames[i].reason]
           Gap(i) == frames[i + 1].sequence - frames[i - 1].sequence
           Before(i, j) == \/ Rank(i) < Rank(j)
                           \/ Rank(i) = Rank(j) /\ (Gap(i) < Gap(j) \/ (Gap(i) = Gap(j) /\ i <= j))
<1>1. Len(frames) \in Nat /\ \A i \in 1 .. Len(frames) : frames[i] \in Keyframes
  BY LenProperties, ElementOfSeq
<1>2. pool \subseteq interior /\ pool # {} /\ pool \subseteq Nat
  <2>1. 2 \in interior
    BY <1>1
  <2> QED
    BY <1>1, <2>1
<1>3. \A i \in interior : Rank(i) \in Nat /\ Gap(i) \in Nat
  <2> TAKE i \in interior
  <2>1. i \in 1 .. Len(frames) /\ i - 1 \in 1 .. Len(frames) /\ i + 1 \in 1 .. Len(frames) /\ i - 1 < i + 1
    BY <1>1
  <2>2. frames[i].reason \in Reasons
    BY <1>1, <2>1 DEF Keyframes
  <2>3. frames[i - 1].sequence \in Nat /\ frames[i + 1].sequence \in Nat
    BY <1>1, <2>1 DEF Keyframes
  <2>4. frames[i - 1].sequence < frames[i + 1].sequence
    BY <2>1 DEF InSequence
  <2> QED
    BY <2>2, <2>3, <2>4, PriorityIs
<1>4. Evicted(frames) = CHOOSE i \in pool : \A j \in pool : Before(i, j)
  BY DEF Evicted
<1> HIDE DEF interior, pool, Rank, Gap
<1>5. PICK a \in pool : \A j \in pool : Rank(a) <= Rank(j)
  <2> DEFINE T == {Rank(i) : i \in pool}
  <2>1. T \in SUBSET Nat /\ T # {}
    BY <1>2, <1>3
  <2> HIDE DEF T
  <2>2. PICK t \in T : \A u \in T : t <= u
    BY <2>1, LeastOfNats
  <2> QED
    BY <2>2 DEF T
<1> DEFINE low == {i \in pool : Rank(i) = Rank(a)}
<1>6. PICK b \in low : \A j \in low : Gap(b) <= Gap(j)
  <2> DEFINE T == {Gap(i) : i \in low}
  <2>1. T \in SUBSET Nat /\ T # {}
    BY <1>2, <1>3
  <2> HIDE DEF T
  <2>2. PICK t \in T : \A u \in T : t <= u
    BY <2>1, LeastOfNats
  <2> QED
    BY <2>2 DEF T
<1> DEFINE near == {i \in low : Gap(i) = Gap(b)}
<1>7. PICK c \in near : \A j \in near : c <= j
  <2>1. near \in SUBSET Nat /\ near # {}
    BY <1>2
  <2> HIDE DEF near
  <2> QED
    BY <2>1, LeastOfNats
<1>8. \A j \in pool : Before(c, j)
  <2> TAKE j \in pool
  <2>1. /\ Rank(c) \in Nat /\ Rank(j) \in Nat /\ Rank(a) \in Nat /\ Gap(c) \in Nat /\ Gap(j) \in Nat
        /\ Gap(b) \in Nat /\ c \in Nat /\ j \in Nat
    BY <1>2, <1>3
  <2>2. Rank(c) = Rank(a) /\ Rank(a) <= Rank(j) /\ Gap(c) = Gap(b)
    BY <1>5
  <2>3. Rank(j) = Rank(a) => Gap(b) <= Gap(j)
    BY <1>6
  <2>4. Rank(j) = Rank(a) /\ Gap(j) = Gap(b) => c <= j
    BY <1>7
  <2> HIDE DEF low, near
  <2> QED
    BY <2>1, <2>2, <2>3, <2>4
<1>9. c \in pool
  OBVIOUS
<1> HIDE DEF Before, low, near
<1>10. Evicted(frames) \in pool
  BY <1>4, <1>8, <1>9
<1> QED
  BY <1>2, <1>10 DEF interior

(* What is known of keyframes, as a step changes them.                     *)
FramesLie(canvas, frames) ==
    /\ frames \in Seq(Keyframes) /\ InSequence(frames)
    /\ \A i \in 1 .. Len(frames) : KeyframeLies(canvas, frames[i])

LEMMA FramesTrimmed ==
    ASSUME NEW canvas, NEW frames, FramesLie(canvas, frames), Len(frames) <= KeyLimit + 1
    PROVE  FramesLie(canvas, Trim(frames)) /\ Len(Trim(frames)) <= KeyLimit
<1>1. frames \in Seq(Keyframes) /\ Len(frames) \in Nat /\ KeyLimit \in Nat /\ KeyLimit >= 2
  BY LenProperties, StitchBounds DEF FramesLie
<1>4. \A i \in 1 .. Len(frames) : frames[i] \in Keyframes
  BY <1>1, ElementOfSeq
<1>5. \A i \in 1 .. Len(frames) : KeyframeLies(canvas, frames[i])
  BY DEF FramesLie
<1>2. CASE Len(frames) <= KeyLimit
  BY <1>1, <1>2 DEF Trim
<1>3. CASE Len(frames) > KeyLimit
  <2>1. PICK e : e = Evicted(frames)
    OBVIOUS
  <2>2. e \in 2 .. Len(frames) - 1 /\ Len(frames) = KeyLimit + 1
    <3>1. Len(frames) >= 3
      BY <1>1, <1>3
    <3> QED
      BY <1>1, <1>3, <2>1, <3>1, OneIsEvicted DEF FramesLie
  <2> DEFINE a == SubSeq(frames, 1, e - 1)
             b == SubSeq(frames, e + 1, Len(frames))
             left == a \o b
  <2>3. Trim(frames) = left
    BY <1>3, <2>1 DEF Trim, RemoveAt
  <2>4. a \in Seq(Keyframes) /\ Len(a) = e - 1 /\ \A i \in 1 .. e - 1 : a[i] = frames[i]
    <3>1. /\ a \in Seq(Keyframes) /\ Len(a) = IF 1 <= e - 1 THEN (e - 1) - 1 + 1 ELSE 0
          /\ \A i \in 1 .. (e - 1) - 1 + 1 : a[i] = frames[1 + i - 1]
      BY <1>1, <1>4, <2>2, SubSeqProperties
    <3> HIDE DEF a
    <3> QED
      BY <1>1, <2>2, <3>1
  <2>5. b \in Seq(Keyframes) /\ Len(b) = Len(frames) - e /\ \A i \in 1 .. Len(frames) - e : b[i] = frames[e + i]
    <3>1. /\ b \in Seq(Keyframes) /\ Len(b) = IF e + 1 <= Len(frames) THEN Len(frames) - (e + 1) + 1 ELSE 0
          /\ \A i \in 1 .. Len(frames) - (e + 1) + 1 : b[i] = frames[(e + 1) + i - 1]
      BY <1>1, <1>4, <2>2, SubSeqProperties
    <3> HIDE DEF b
    <3> QED
      BY <1>1, <2>2, <3>1
  <2> HIDE DEF a, b
  <2>6. left \in Seq(Keyframes) /\ Len(left) = Len(frames) - 1
    <3>1. left \in Seq(Keyframes) /\ Len(left) = Len(a) + Len(b)
      BY <2>4, <2>5, ConcatProperties
    <3> HIDE DEF left
    <3> QED
      BY SMTT(25), <1>1, <2>2, <2>4, <2>5, <3>1
  <2>7. \A i \in 1 .. Len(a) + Len(b) : left[i] = IF i <= Len(a) THEN a[i] ELSE b[i - Len(a)]
    BY <2>4, <2>5, ConcatProperties
  <2> HIDE DEF left
  <2> DEFINE From(i) == IF i < e THEN i ELSE i + 1
  <2>8. \A i \in 1 .. Len(frames) - 1 : From(i) \in 1 .. Len(frames) /\ left[i] = frames[From(i)]
    <3> TAKE i \in 1 .. Len(frames) - 1
    <3>1. CASE i < e
      <4>1. i \in 1 .. Len(a) + Len(b) /\ i <= Len(a) /\ i \in 1 .. e - 1
        BY <1>1, <2>2, <2>4, <2>5, <3>1
      <4> QED
        BY <1>1, <2>4, <2>7, <3>1, <4>1
    <3>2. CASE i >= e
      <4>1. i \in 1 .. Len(a) + Len(b) /\ ~(i <= Len(a)) /\ i - Len(a) \in 1 .. Len(frames) - e
            /\ e + (i - Len(a)) = i + 1 /\ ~(i < e)
        BY <1>1, <2>2, <2>4, <2>5, <3>2
      <4>2. left[i] = frames[e + (i - Len(a))]
        BY <2>5, <2>7, <4>1
      <4> QED
        BY <1>1, <2>2, <4>1, <4>2
    <3> QED
      BY <1>1, <2>2, <3>1, <3>2
  <2>9. \A i, j \in 1 .. Len(left) : i < j => From(i) < From(j)
    BY <1>1, <2>2, <2>6
  <2> HIDE DEF From
  <2>10. InSequence(left)
    BY <2>6, <2>8, <2>9 DEF InSequence, FramesLie
  <2>11. \A i \in 1 .. Len(left) : KeyframeLies(canvas, left[i])
    BY <1>1, <1>5, <2>6, <2>8
  <2> QED
    BY <1>1, <2>2, <2>3, <2>6, <2>10, <2>11 DEF FramesLie
<1> QED
  BY <1>1, <1>2, <1>3

(* A keyframe goes where the older ones end.                               *)
LEMMA OlderEnd ==
    ASSUME NEW canvas, NEW frames, FramesLie(canvas, frames), NEW f \in Keyframes,
           \A i \in 1 .. Len(frames) : frames[i].sequence # f.sequence, NEW n,
           n = Max({i \in DOMAIN frames : frames[i].sequence < f.sequence} \union {0})
    PROVE  /\ n \in 0 .. Len(frames)
           /\ \A i \in 1 .. Len(frames) :
                IF i <= n THEN frames[i].sequence < f.sequence ELSE f.sequence < frames[i].sequence
<1> DEFINE older == {i \in DOMAIN frames : frames[i].sequence < f.sequence}
<1>1. /\ frames \in Seq(Keyframes) /\ Len(frames) \in Nat /\ DOMAIN frames = 1 .. Len(frames)
      /\ \A i \in 1 .. Len(frames) : frames[i] \in Keyframes /\ KeyframeLies(canvas, frames[i])
  BY LenProperties, ElementOfSeq DEF FramesLie
<1>2. f.sequence \in Nat /\ \A i \in 1 .. Len(frames) : frames[i].sequence \in Nat
  BY <1>1 DEF Keyframes
<1>3. n \in older \union {0} /\ \A y \in older \union {0} : n >= y
  <2>1. older \union {0} \in SUBSET (0 .. Len(frames)) /\ older \union {0} # {}
    BY <1>1
  <2> HIDE DEF older
  <2>2. n = Max(older \union {0})
    BY DEF older
  <2> QED
    BY <1>1, <2>1, <2>2, MaxUpTo
<1>4. n \in 0 .. Len(frames)
  BY <1>1, <1>3
<1>5. \A i \in 1 .. Len(frames) : IF i <= n THEN frames[i].sequence < f.sequence ELSE f.sequence < frames[i].sequence
  <2> TAKE i \in 1 .. Len(frames)
  <2>1. CASE i <= n
    <3>1. n \in older /\ n \in 1 .. Len(frames)
      BY <1>3, <1>4, <2>1
    <3>2. frames[n].sequence < f.sequence
      BY <3>1
    <3>3. i < n => frames[i].sequence < frames[n].sequence
      BY <3>1 DEF FramesLie, InSequence
    <3>4. i < n \/ i = n
      BY <1>4, <2>1
    <3> QED
      BY <1>2, <2>1, <3>1, <3>2, <3>3, <3>4
  <2>2. CASE ~(i <= n)
    <3>1. ~(frames[i].sequence < f.sequence)
      BY <1>1, <1>3, <2>2
    <3>2. frames[i].sequence # f.sequence
      OBVIOUS
    <3> QED
      BY <1>2, <2>2, <3>1, <3>2
  <2> QED
    BY <2>1, <2>2
<1> QED
  BY <1>4, <1>5

LEMMA FramesInserted ==
    ASSUME NEW canvas, NEW frames, FramesLie(canvas, frames), NEW f \in Keyframes, KeyframeLies(canvas, f),
           NEW n \in 0 .. Len(frames),
           \A i \in 1 .. Len(frames) :
             IF i <= n THEN frames[i].sequence < f.sequence ELSE f.sequence < frames[i].sequence
    PROVE  /\ FramesLie(canvas, InsertAt(frames, n + 1, f))
           /\ Len(InsertAt(frames, n + 1, f)) = Len(frames) + 1
<1>1. frames \in Seq(Keyframes) /\ Len(frames) \in Nat /\ n \in Nat /\ n <= Len(frames)
  BY LenProperties DEF FramesLie
<1>15. \A i \in 1 .. Len(frames) : frames[i] \in Keyframes
  BY <1>1, ElementOfSeq
<1>16. \A i \in 1 .. Len(frames) : KeyframeLies(canvas, frames[i])
  BY DEF FramesLie
<1>5. \A i \in 1 .. Len(frames) : IF i <= n THEN frames[i].sequence < f.sequence ELSE f.sequence < frames[i].sequence
  OBVIOUS
<1> DEFINE a == SubSeq(frames, 1, n)
           b == SubSeq(frames, n + 1, Len(frames))
           more == a \o <<f>> \o b
<1>6. InsertAt(frames, n + 1, f) = more
  <2>1. PICK m : m = n + 1
    OBVIOUS
  <2>2. m - 1 = n
    BY <1>1, <2>1
  <2>3. InsertAt(frames, m, f) = SubSeq(frames, 1, m - 1) \o <<f>> \o SubSeq(frames, m, Len(frames))
    BY DEF InsertAt
  <2> QED
    BY <2>1, <2>2, <2>3
<1>7. a \in Seq(Keyframes) /\ Len(a) = n /\ \A i \in 1 .. n : a[i] = frames[i]
  <2>1. /\ a \in Seq(Keyframes) /\ Len(a) = IF 1 <= n THEN n - 1 + 1 ELSE 0
        /\ \A i \in 1 .. n - 1 + 1 : a[i] = frames[1 + i - 1]
    BY <1>1, <1>15, SubSeqProperties
  <2> HIDE DEF a
  <2> QED
    BY <1>1, <2>1
<1>8. b \in Seq(Keyframes) /\ Len(b) = Len(frames) - n /\ \A i \in 1 .. Len(frames) - n : b[i] = frames[n + i]
  <2>1. /\ b \in Seq(Keyframes) /\ Len(b) = IF n + 1 <= Len(frames) THEN Len(frames) - (n + 1) + 1 ELSE 0
        /\ \A i \in 1 .. Len(frames) - (n + 1) + 1 : b[i] = frames[(n + 1) + i - 1]
    BY <1>1, <1>15, SubSeqProperties
  <2> HIDE DEF b
  <2> QED
    BY <1>1, <2>1
<1> HIDE DEF a, b
<1>9. /\ a \o <<f>> \in Seq(Keyframes) /\ Len(a \o <<f>>) = n + 1
      /\ \A i \in 1 .. n + 1 : (a \o <<f>>)[i] = IF i <= n THEN frames[i] ELSE f
  <2>1. <<f>> \in Seq(Keyframes) /\ Len(<<f>>) = 1 /\ <<f>>[1] = f
    OBVIOUS
  <2>2. /\ a \o <<f>> \in Seq(Keyframes) /\ Len(a \o <<f>>) = Len(a) + 1
        /\ \A i \in 1 .. Len(a) + 1 : (a \o <<f>>)[i] = IF i <= Len(a) THEN a[i] ELSE <<f>>[i - Len(a)]
    BY <1>7, <2>1, ConcatProperties
  <2>3. ASSUME NEW i \in 1 .. n + 1 PROVE (a \o <<f>>)[i] = IF i <= n THEN frames[i] ELSE f
    <3>1. CASE i <= n
      BY <1>1, <1>7, <2>2, <3>1
    <3>2. CASE i = n + 1
      BY <1>1, <1>7, <2>1, <2>2, <3>2
    <3>3. i <= n \/ i = n + 1
      BY <1>1
    <3> QED
      BY <3>1, <3>2, <3>3
  <2> QED
    BY <1>1, <1>7, <2>2, <2>3
<1> DEFINE c == a \o <<f>>
<1> HIDE DEF c
<1>10. /\ c \in Seq(Keyframes) /\ Len(c) = n + 1 /\ more = c \o b
       /\ \A i \in 1 .. n + 1 : c[i] = IF i <= n THEN frames[i] ELSE f
  BY <1>9 DEF c
<1> HIDE DEF more
<1>11. /\ more \in Seq(Keyframes) /\ Len(more) = Len(frames) + 1
       /\ \A i \in 1 .. Len(c) + Len(b) : more[i] = IF i <= Len(c) THEN c[i] ELSE b[i - Len(c)]
  <2>1. /\ c \o b \in Seq(Keyframes) /\ Len(c \o b) = Len(c) + Len(b)
        /\ \A i \in 1 .. Len(c) + Len(b) : (c \o b)[i] = IF i <= Len(c) THEN c[i] ELSE b[i - Len(c)]
    BY <1>8, <1>10, ConcatProperties
  <2> QED
    BY <1>1, <1>8, <1>10, <2>1
<1>12. \A i \in 1 .. Len(frames) + 1 :
         more[i] = IF i <= n THEN frames[i] ELSE IF i = n + 1 THEN f ELSE frames[i - 1]
  <2> TAKE i \in 1 .. Len(frames) + 1
  <2>0. i \in 1 .. Len(c) + Len(b)
    BY <1>1, <1>8, <1>10
  <2>1. CASE i <= n + 1
    BY <1>1, <1>10, <1>11, <2>0, <2>1
  <2>2. CASE i > n + 1
    <3>1. i - Len(c) \in 1 .. Len(frames) - n /\ ~(i <= Len(c)) /\ n + (i - Len(c)) = i - 1
      BY <1>1, <1>10, <2>2
    <3>2. more[i] = frames[n + (i - Len(c))]
      BY <1>8, <1>11, <2>0, <3>1
    <3> QED
      BY <1>1, <2>2, <3>1, <3>2
  <2> QED
    BY <1>1, <2>1, <2>2
<1>13. \A i \in 1 .. Len(frames) + 1 : KeyframeLies(canvas, more[i])
  <2> TAKE i \in 1 .. Len(frames) + 1
  <2>1. i <= n => i \in 1 .. Len(frames)
    BY <1>1
  <2>2. i > n + 1 => i - 1 \in 1 .. Len(frames)
    BY <1>1
  <2> QED
    BY <1>1, <1>12, <1>16, <2>1, <2>2
<1>14. InSequence(more)
  <2> SUFFICES ASSUME NEW i \in 1 .. Len(frames) + 1, NEW j \in 1 .. Len(frames) + 1, i < j
               PROVE  more[i].sequence < more[j].sequence
    BY <1>11 DEF InSequence
  <2>0. \A x, y \in 1 .. Len(frames) : x < y => frames[x].sequence < frames[y].sequence
    BY DEF FramesLie, InSequence
  <2>1. CASE j <= n
    <3>1. i \in 1 .. Len(frames) /\ j \in 1 .. Len(frames) /\ i <= n
      BY <1>1, <2>1
    <3>2. more[i] = frames[i] /\ more[j] = frames[j]
      BY <1>12, <2>1, <3>1
    <3> QED
      BY <2>0, <3>1, <3>2
  <2>2. CASE j = n + 1
    <3>1. i \in 1 .. Len(frames) /\ i <= n /\ ~(j <= n)
      BY <1>1, <2>2
    <3>2. more[i] = frames[i] /\ more[j] = f
      BY <1>12, <2>2, <3>1
    <3> QED
      BY <1>5, <3>1, <3>2
  <2>3. CASE j > n + 1
    <3>1. j - 1 \in 1 .. Len(frames) /\ ~(j <= n) /\ j # n + 1 /\ ~(j - 1 <= n)
      BY <1>1, <2>3
    <3>2. more[j] = frames[j - 1]
      BY <1>12, <3>1
    <3>3. f.sequence < frames[j - 1].sequence
      BY <1>5, <3>1
    <3>4. CASE i <= n
      <4>1. i \in 1 .. Len(frames) /\ i < j - 1
        BY <1>1, <2>3, <3>4
      <4>2. more[i] = frames[i]
        BY <1>12, <3>4
      <4> QED
        BY <2>0, <3>1, <3>2, <4>1, <4>2
    <3>5. CASE i = n + 1
      <4>1. more[i] = f
        BY <1>1, <1>12, <3>5
      <4> QED
        BY <3>2, <3>3, <4>1
    <3>6. CASE i > n + 1
      <4>1. i - 1 \in 1 .. Len(frames) /\ ~(i <= n) /\ i # n + 1 /\ i - 1 < j - 1
        BY <1>1, <3>6
      <4>2. more[i] = frames[i - 1]
        BY <1>12, <4>1
      <4> QED
        BY <2>0, <3>1, <3>2, <4>1, <4>2
    <3> QED
      BY <1>1, <3>4, <3>5, <3>6
  <2> QED
    BY <1>1, <2>1, <2>2, <2>3
<1> QED
  BY <1>6, <1>11, <1>13, <1>14 DEF FramesLie


LEMMA KeepIs ==
    ASSUME NEW canvas, NEW keep, KeepLies(canvas, keep)
    PROVE  /\ keep = [frames |-> keep.frames, pending |-> keep.pending, disabled |-> keep.disabled]
           /\ keep.disabled \in BOOLEAN /\ keep.pending \in Keyframes \union {NoKeyframe}
           /\ FramesLie(canvas, keep.frames) /\ Len(keep.frames) <= KeyLimit
           /\ keep.pending # NoKeyframe => OnCanvas(canvas, keep.pending.row, keep.pending.position)
BY DEF KeepLies, FramesLie

LEMMA KeepMade ==
    ASSUME NEW canvas, NEW frames, FramesLie(canvas, frames), Len(frames) <= KeyLimit,
           NEW pending \in Keyframes \union {NoKeyframe},
           pending # NoKeyframe => OnCanvas(canvas, pending.row, pending.position)
    PROVE  KeepLies(canvas, [frames |-> frames, pending |-> pending, disabled |-> FALSE])
BY DEF KeepLies, FramesLie

LEMMA DiscardedLies == ASSUME NEW canvas PROVE KeepLies(canvas, Discarded)
<1>1. /\ Discarded.frames = <<>> /\ Discarded.pending = NoKeyframe /\ Discarded.disabled = TRUE
      /\ Discarded \in [frames : Seq(Keyframes), pending : Keyframes \union {NoKeyframe}, disabled : BOOLEAN]
  BY DEF Discarded
<1>2. Len(Discarded.frames) = 0
  BY <1>1
<1> QED
  BY <1>1, <1>2, StitchBounds DEF KeepLies, InSequence

(* A frame that is remembered is new, gains in rank, or ends the rebuild.  *)
LEMMA RememberLies ==
    ASSUME NEW canvas, NEW keep, KeepLies(canvas, keep), NEW f \in Keyframes, KeyframeLies(canvas, f), NEW huge
    PROVE  /\ KeepLies(canvas, Remember(keep, f, huge))
           /\ Remember(keep, f, huge).disabled \/ Remember(keep, f, huge).pending = keep.pending
<1> DEFINE known == {i \in DOMAIN keep.frames : keep.frames[i].sequence = f.sequence}
           older == {i \in DOMAIN keep.frames : keep.frames[i].sequence < f.sequence}
           made == Remember(keep, f, huge)
<1>1. /\ keep = [frames |-> keep.frames, pending |-> keep.pending, disabled |-> keep.disabled]
      /\ keep.disabled \in BOOLEAN /\ keep.pending \in Keyframes \union {NoKeyframe}
      /\ FramesLie(canvas, keep.frames) /\ Len(keep.frames) <= KeyLimit
      /\ keep.pending # NoKeyframe => OnCanvas(canvas, keep.pending.row, keep.pending.position)
  BY KeepIs
<1>2. /\ keep.frames \in Seq(Keyframes) /\ Len(keep.frames) \in Nat /\ DOMAIN keep.frames = 1 .. Len(keep.frames)
      /\ KeyLimit \in Nat
  BY <1>1, LenProperties, StitchBounds DEF FramesLie
<1>3. CASE keep.disabled
  <2>1. made = keep
    BY <1>3 DEF Remember
  <2> QED
    BY <1>3, <2>1
<1>4. CASE ~keep.disabled /\ known # {}
  <2> DEFINE ranked == [i \in DOMAIN keep.frames |->
                    IF i \in known /\ Priority[f.reason] > Priority[keep.frames[i].reason]
                    THEN [keep.frames[i] EXCEPT !.reason = f.reason] ELSE keep.frames[i]]
  <2>1. made = [keep EXCEPT !.frames = ranked]
    BY <1>4 DEF Remember
  <2>2. made = [frames |-> ranked, pending |-> keep.pending, disabled |-> FALSE]
    <3> HIDE DEF ranked, made
    <3> QED
      BY <1>1, <1>4, <2>1
  <2>3. ASSUME NEW i \in 1 .. Len(keep.frames)
        PROVE  /\ ranked[i] \in Keyframes /\ ranked[i].sequence = keep.frames[i].sequence
               /\ KeyframeLies(canvas, ranked[i])
    <3>1. PICK g \in Keyframes : g = keep.frames[i]
      BY <1>2, ElementOfSeq
    <3>2. KeyframeLies(canvas, g)
      BY <1>1, <3>1 DEF FramesLie
    <3>3. ranked[i] = g \/ ranked[i] = [g EXCEPT !.reason = f.reason]
      BY <1>2, <3>1
    <3>4. PICK h : h = [g EXCEPT !.reason = f.reason]
      OBVIOUS
    <3>5. h \in Keyframes /\ h.sequence = g.sequence /\ h.row = g.row /\ h.position = g.position
      BY <3>4 DEF Keyframes
    <3>6. KeyframeLies(canvas, h)
      BY <3>2, <3>5 DEF KeyframeLies
    <3> HIDE DEF ranked
    <3> QED
      BY <3>1, <3>2, <3>3, <3>4, <3>5, <3>6
  <2>4. ranked \in [1 .. Len(keep.frames) -> Keyframes]
    <3>1. DOMAIN ranked = 1 .. Len(keep.frames) /\ ranked = [i \in 1 .. Len(keep.frames) |-> ranked[i]]
      BY <1>2
    <3> HIDE DEF ranked
    <3> QED
      BY <2>3, <3>1
  <2>5. ranked \in Seq(Keyframes) /\ Len(ranked) = Len(keep.frames)
    <3> HIDE DEF ranked
    <3> QED
      BY <1>2, <2>4
  <2> HIDE DEF ranked
  <2>6. InSequence(ranked)
    BY <1>1, <2>3, <2>5 DEF InSequence, FramesLie
  <2>7. FramesLie(canvas, ranked) /\ Len(ranked) <= KeyLimit
    BY <1>1, <2>3, <2>5, <2>6 DEF FramesLie
  <2> HIDE DEF made
  <2>8. KeepLies(canvas, made)
    BY <1>1, <2>2, <2>7, KeepMade
  <2> QED
    BY <2>2, <2>8 DEF made
<1>5. CASE ~keep.disabled /\ known = {} /\ huge
  <2>1. made = Discarded
    BY <1>5 DEF Remember
  <2>2. Discarded.disabled = TRUE
    BY DEF Discarded
  <2> QED
    BY <2>1, <2>2, DiscardedLies
<1>6. CASE ~keep.disabled /\ known = {} /\ ~huge
  <2>1. PICK n : n = Max(older \union {0})
    OBVIOUS
  <2> DEFINE more == InsertAt(keep.frames, n + 1, f)
  <2>2. made = [keep EXCEPT !.frames = Trim(more)]
    BY <1>6, <2>1 DEF Remember
  <2>3. \A i \in 1 .. Len(keep.frames) : keep.frames[i].sequence # f.sequence
    BY <1>2, <1>6
  <2>4. /\ n \in 0 .. Len(keep.frames)
        /\ \A i \in 1 .. Len(keep.frames) :
             IF i <= n THEN keep.frames[i].sequence < f.sequence ELSE f.sequence < keep.frames[i].sequence
    BY <1>1, <2>1, <2>3, OlderEnd
  <2>5. FramesLie(canvas, more) /\ Len(more) = Len(keep.frames) + 1
    BY <1>1, <2>4, FramesInserted
  <2> HIDE DEF more, made
  <2>6. FramesLie(canvas, Trim(more)) /\ Len(Trim(more)) <= KeyLimit
    BY <1>1, <1>2, <2>5, FramesTrimmed
  <2>7. made = [frames |-> Trim(more), pending |-> keep.pending, disabled |-> FALSE]
    BY <1>1, <1>6, <2>2
  <2>8. KeepLies(canvas, made)
    BY <1>1, <2>6, <2>7, KeepMade
  <2> QED
    BY <2>7, <2>8 DEF made
<1> QED
  BY <1>1, <1>3, <1>4, <1>5, <1>6

LEMMA HoldLies ==
    ASSUME NEW canvas, NEW keep, KeepLies(canvas, keep), NEW f \in Keyframes, OnCanvas(canvas, f.row, f.position)
    PROVE  KeepLies(canvas, Hold(keep, f))
<1>1. /\ keep = [frames |-> keep.frames, pending |-> keep.pending, disabled |-> keep.disabled]
      /\ keep.disabled \in BOOLEAN
      /\ FramesLie(canvas, keep.frames) /\ Len(keep.frames) <= KeyLimit
  BY KeepIs
<1>2. CASE keep.disabled
  BY <1>2 DEF Hold
<1>3. CASE ~keep.disabled
  <2>1. Hold(keep, f) = [keep EXCEPT !.pending = f]
    BY <1>3 DEF Hold
  <2>2. Hold(keep, f) = [frames |-> keep.frames, pending |-> f, disabled |-> FALSE]
    BY <1>1, <1>3, <2>1
  <2> QED
    BY <1>1, <2>2, KeepMade
<1> QED
  BY <1>1, <1>2, <1>3

LEMMA PromoteLies ==
    ASSUME NEW canvas, NEW keep, KeepLies(canvas, keep), NEW reason \in Reasons, NEW huge
    PROVE  KeepLies(canvas, Promote(keep, reason, huge))
<1>1. /\ keep = [frames |-> keep.frames, pending |-> keep.pending, disabled |-> keep.disabled]
      /\ keep.disabled \in BOOLEAN /\ keep.pending \in Keyframes \union {NoKeyframe}
      /\ FramesLie(canvas, keep.frames) /\ Len(keep.frames) <= KeyLimit
      /\ keep.pending # NoKeyframe => OnCanvas(canvas, keep.pending.row, keep.pending.position)
  BY KeepIs
<1>2. CASE keep.pending = NoKeyframe
  BY <1>2 DEF Promote
<1>3. CASE keep.pending # NoKeyframe
  <2>1. keep.pending \in Keyframes /\ ~keep.disabled
    <3>1. Discarded.pending = NoKeyframe
      BY DEF Discarded
    <3>2. keep.disabled => keep = Discarded
      BY DEF KeepLies
    <3> QED
      BY <1>1, <1>3, <3>1, <3>2
  <2>2. PICK k : k = [keep EXCEPT !.pending = NoKeyframe]
    OBVIOUS
  <2>3. k = [frames |-> keep.frames, pending |-> NoKeyframe, disabled |-> FALSE]
    BY <1>1, <2>1, <2>2
  <2>4. KeepLies(canvas, k)
    BY <1>1, <2>3, KeepMade
  <2>5. PICK f : f = [keep.pending EXCEPT !.reason = reason]
    OBVIOUS
  <2>6. PICK g \in Keyframes : g = keep.pending
    BY <2>1
  <2>7. f = [g EXCEPT !.reason = reason]
    BY <2>5, <2>6
  <2>8. f \in Keyframes /\ f.row = g.row /\ f.position = g.position
    BY <2>7 DEF Keyframes
  <2>9. KeyframeLies(canvas, f)
    BY <1>1, <1>3, <2>6, <2>8 DEF KeyframeLies
  <2>10. KeepLies(canvas, Remember(k, f, huge))
    BY <2>4, <2>8, <2>9, RememberLies
  <2>11. Promote(keep, reason, huge) = Remember(k, f, huge)
    BY <1>3, <2>2, <2>5 DEF Promote
  <2> QED
    BY <2>10, <2>11
<1> QED
  BY <1>2, <1>3

LEMMA KeyframeIs ==
    ASSUME siSequence \in Nat, NEW row \in PageViews, NEW position \in Int, NEW reason \in Reasons
    PROVE  /\ Keyframe(row, position, reason) \in Keyframes
           /\ Keyframe(row, position, reason).row = row
           /\ Keyframe(row, position, reason).position = position
BY DEF Keyframe, Keyframes

LEMMA MotionNoted ==
    ASSUME siSequence \in Nat, NEW canvas, NEW keep, KeepLies(canvas, keep), NEW row \in PageViews, NEW position,
           OnCanvas(canvas, row, position), NEW shift \in Int, NEW recovered, NEW huge,
           NoteMotion(keep, row, position, shift, recovered, huge)
    PROVE  KeepLies(canvas, siKeep') /\ siDirection' \in {-1, 1} /\ siFailures' = 0
<1> DEFINE direction == IF shift > 0 THEN 1 ELSE -1
           turned == siDirection # 0 /\ direction # siDirection
           before == IF turned THEN Promote(keep, "Turn", huge) ELSE keep
           placed == Placed(before.frames)
           far == placed = {} \/ Abs(position - before.frames[Max(placed)].position) >= Interval
           reason == CASE turned -> "Turn" [] ~turned /\ recovered -> "Recovered" [] OTHER -> "Motion"
           frame == Keyframe(row, position, reason)
           kept == IF turned \/ recovered \/ far THEN Remember(before, frame, huge) ELSE before
<1>1. siKeep' = Hold(kept, frame) /\ siDirection' = direction /\ siFailures' = 0
  BY DEF NoteMotion
<1>2. reason \in Reasons
  BY DEF Reasons
<1>3. KeepLies(canvas, before)
  <2>1. "Turn" \in Reasons
    BY DEF Reasons
  <2> QED
    BY <2>1, PromoteLies
<1> HIDE DEF before, far, reason, turned
<1>4. frame \in Keyframes /\ OnCanvas(canvas, frame.row, frame.position)
  <2>1. position \in Int
    BY DEF OnCanvas
  <2> QED
    BY <1>2, <2>1, KeyframeIs
<1> HIDE DEF frame
<1>5. KeyframeLies(canvas, frame)
  BY <1>4 DEF KeyframeLies
<1>6. KeepLies(canvas, kept)
  BY <1>3, <1>4, <1>5, RememberLies
<1> HIDE DEF kept
<1>7. KeepLies(canvas, siKeep')
  BY <1>1, <1>4, <1>6, HoldLies
<1> QED
  BY <1>1, <1>7

LEMMA FailureNoted ==
    ASSUME siSequence \in Nat, NEW canvas, KeepLies(canvas, siKeep), NEW row \in PageViews, NEW huge,
           NoteFailure(row, huge)
    PROVE  KeepLies(canvas, siKeep') /\ siDirection' = siDirection /\ siFailures' = siFailures + 1
<1>1. NoPosition \in Int /\ "Failure" \in Reasons
  BY DEF NoPosition, Reasons
<1> DEFINE f == Keyframe(row, NoPosition, "Failure")
<1>2. f \in Keyframes /\ f.position = NoPosition
  BY <1>1, KeyframeIs
<1>3. siKeep' \in {siKeep, Remember(siKeep, f, huge)} /\ siDirection' = siDirection /\ siFailures' = siFailures + 1
  BY DEF NoteFailure
<1> HIDE DEF f
<1>4. KeyframeLies(canvas, f)
  BY <1>2 DEF KeyframeLies
<1>5. KeepLies(canvas, Remember(siKeep, f, huge))
  BY <1>2, <1>4, RememberLies
<1> QED
  BY <1>3, <1>5


-----------------------------------------------------------------------------
(* The stitcher: a view that is known lies on the canvas, and so does the  *)
(* last one that was fed, unless the decision says otherwise.              *)

StitchValues ==
    /\ siLimit \in CanvasLimits /\ siDirection \in {-1, 0, 1} /\ siSequence \in 0 .. MaxViews
    /\ siFailures \in 0 .. siSequence /\ siView \in PageViews /\ siOffset \in -PageRows .. PageRows
    /\ siJumped \in BOOLEAN /\ siLimited \in BOOLEAN
    /\ siDecision \in {"none", "Seed", "Stationary", "Accepted", "Revisit", "Reanchored", "Rejected"}

CanvasKnown ==
    /\ Piece(siCanvas) /\ Len(siCanvas) <= siLimit /\ siAnchor \in Nat
    /\ HistoryLies(siCanvas, siHistory) /\ KeepLies(siCanvas, siKeep)
    /\ siCanvas = <<>> => siAnchor = 0 /\ siHistory = <<>>
    /\ siCanvas # <<>> => siHistory # <<>> /\ Last(siHistory).position = siAnchor

(* The view fed last is where the last view was put, but for little.       *)
LastNear ==
    siPicture = NoPicture =>
        /\ siDecision = "none" => siCanvas = <<>>
        /\ siLimited => siDecision = "Rejected"
        /\ siDecision \in {"Seed", "Stationary", "Accepted", "Revisit", "Reanchored"} =>
              /\ siCanvas # <<>>
              /\ Abs(siView - (siCanvas[1] + siAnchor)) < MinShift

StitchInv == StitchValues /\ CanvasKnown /\ LastNear /\ NothingCutOff

(* Where the last view was put is on the canvas.                           *)
LEMMA AnchorLies ==
    ASSUME CanvasKnown, siCanvas # <<>>
    PROVE  /\ siAnchor \in Nat /\ siAnchor + ViewRows <= Len(siCanvas)
           /\ Len(siCanvas) \in Nat /\ siCanvas[1] \in Nat /\ siCanvas[1] + Len(siCanvas) <= PageRows
           /\ Len(siCanvas) >= ViewRows
<1>1. siHistory \in Seq(StitchViews) /\ siHistory # <<>> /\ siHistory[Len(siHistory)].position = siAnchor
  BY DEF CanvasKnown, HistoryLies, Last
<1>2. Len(siHistory) \in 1 .. Len(siHistory)
  BY <1>1, LenProperties
<1>3. OnCanvas(siCanvas, siHistory[Len(siHistory)].row, siHistory[Len(siHistory)].position)
  BY <1>2 DEF CanvasKnown, HistoryLies
<1>4. /\ siCanvas \in Seq(Int) /\ Len(siCanvas) >= ViewRows /\ siCanvas[1] >= 0
      /\ siCanvas[1] + Len(siCanvas) <= PageRows
  BY DEF CanvasKnown, Piece
<1>5. Len(siCanvas) \in Nat /\ siCanvas[1] \in Int
  BY <1>4, LenProperties, ElementOfSeq
<1> QED
  BY <1>1, <1>3, <1>4, <1>5 DEF OnCanvas

LEMMA StitchStart == StitchInit => StitchInv
<1> SUFFICES ASSUME StitchInit PROVE StitchInv
  OBVIOUS
<1>1. StitchValues
  <2>1. 0 \in PageViews /\ 0 \in -PageRows .. PageRows /\ 0 \in 0 .. MaxViews /\ 0 \in 0 .. 0 /\ 0 \in {-1, 0, 1}
    BY StitchBounds DEF PageViews
  <2> QED
    BY <2>1 DEF StitchInit, StitchValues
<1>2. siCanvas = <<>> /\ siHistory = <<>> /\ siAnchor = 0 /\ Len(siCanvas) = 0 /\ siLimit \in Nat
  BY StitchBounds DEF StitchInit
<1>3. Piece(siCanvas) /\ HistoryLies(siCanvas, siHistory)
  BY <1>2, StitchBounds DEF Piece, HistoryLies
<1>4. KeepLies(siCanvas, siKeep)
  <2>1. siKeep = [frames |-> <<>>, pending |-> NoKeyframe, disabled |-> FALSE]
    BY DEF StitchInit, Discarded
  <2>2. FramesLie(siCanvas, <<>>) /\ Len(<<>>) <= KeyLimit
    BY StitchBounds DEF FramesLie, InSequence
  <2> QED
    BY <2>1, <2>2, KeepMade
<1>5. CanvasKnown
  BY <1>2, <1>3, <1>4, StitchBounds DEF CanvasKnown
<1>6. LastNear
  BY DEF StitchInit, LastNear
<1>7. NothingCutOff
  BY DEF StitchInit, NothingCutOff
<1> QED
  BY <1>1, <1>5, <1>6, <1>7 DEF StitchInv

LEMMA FedValues ==
    ASSUME StitchInv, NEW row \in PageViews, Fed(row)
    PROVE  /\ siSequence' \in 0 .. MaxViews /\ siView' \in PageViews /\ siView' = row
           /\ siSequence \in Nat /\ siSequence' = siSequence + 1 /\ siLimit' = siLimit
           /\ siPicture = NoPicture /\ siPicture' = siPicture /\ ~siLimited
           /\ NothingCutOff'
<1>1. siSequence \in Nat /\ MaxViews \in Nat
  BY StitchBounds DEF StitchInv, StitchValues
<1>2. siSequence' \in 0 .. MaxViews
  BY <1>1 DEF Fed
<1>3. siPicture' = NoPicture
  BY DEF Fed
<1> QED
  BY <1>1, <1>2, <1>3 DEF Fed, NothingCutOff

LEMMA Stopping ==
    ASSUME StitchInv, StopAtLimit, siLimit' = siLimit, siSequence' \in siSequence .. MaxViews,
           siView' \in PageViews, siPicture = NoPicture, siPicture' = NoPicture
    PROVE  StitchInv'
<1>1. StitchValues'
  <2>1. siFailures \in Nat /\ siFailures <= siSequence /\ siSequence \in Nat /\ MaxViews \in Nat
    BY StitchBounds DEF StitchInv, StitchValues
  <2>2. siFailures' \in 0 .. siSequence' /\ siSequence' \in 0 .. MaxViews
    BY <2>1 DEF StopAtLimit
  <2> QED
    BY <2>2 DEF StitchInv, StitchValues, StopAtLimit
<1>2. CanvasKnown'
  <2>1. KeepLies(siCanvas, Discarded)
    BY DiscardedLies
  <2> QED
    BY <2>1 DEF StitchInv, CanvasKnown, StopAtLimit
<1>3. LastNear'
  BY DEF LastNear, StopAtLimit
<1>4. NothingCutOff'
  BY DEF NothingCutOff
<1> QED
  BY <1>1, <1>2, <1>3, <1>4 DEF StitchInv

LEMMA OversizeKeeps == StitchInv /\ Oversize => StitchInv'
<1> SUFFICES ASSUME StitchInv, Oversize PROVE StitchInv'
  OBVIOUS
<1>1. siSequence \in 0 .. MaxViews /\ MaxViews \in Nat /\ siView \in PageViews
  BY StitchBounds DEF StitchInv, StitchValues
<1>2. siSequence' \in siSequence .. MaxViews
  BY <1>1 DEF Oversize
<1> QED
  BY <1>1, <1>2, Stopping DEF Oversize

LEMMA SeedKeeps ==
    ASSUME StitchInv, NEW row \in PageViews, NEW huge, Seed(row, huge)
    PROVE  StitchInv'
<1>1. /\ siSequence' \in 0 .. MaxViews /\ siView' \in PageViews /\ siView' = row
      /\ siSequence \in Nat /\ siSequence' = siSequence + 1 /\ siLimit' = siLimit
      /\ siPicture = NoPicture /\ siPicture' = siPicture /\ NothingCutOff'
  BY FedValues DEF Seed
<1>2. row \in Nat /\ row + ViewRows <= PageRows /\ ViewRows \in Nat /\ ViewRows > 0 /\ PageRows \in Nat
  BY StitchBounds DEF PageViews
<1>3. /\ Rows(row) \in Seq(Int) /\ Len(Rows(row)) = ViewRows
      /\ \A i \in 1 .. ViewRows : Rows(row)[i] = row + i - 1
  BY <1>2, RowsAre
<1>4. PICK canvas : canvas = Rows(row)
  OBVIOUS
<1>5. canvas # <<>> /\ canvas[1] = row
  <2>1. 1 \in 1 .. ViewRows
    BY <1>2
  <2>2. canvas[1] = row + 1 - 1
    BY <1>3, <1>4, <2>1
  <2> QED
    BY <1>2, <1>3, <1>4, <2>2
<1>6. Piece(canvas) /\ OnCanvas(canvas, row, 0)
  BY <1>2, <1>3, <1>4, <1>5 DEF Piece, OnCanvas
<1>7. siCanvas' = canvas /\ siCanvas = <<>> /\ siHistory = <<>> /\ siAnchor' = 0 /\ siOffset' = 0
  BY <1>4 DEF Seed, StitchInv, CanvasKnown
<1>8. HistoryLies(canvas, <<>>)
  BY StitchBounds DEF HistoryLies
<1>9. HistoryLies(canvas, siHistory') /\ siHistory' # <<>> /\ Last(siHistory').position = 0
  BY <1>6, <1>7, <1>8, HistoryPushed DEF Seed
<1>10. KeepLies(canvas, siKeep')
  <2>1. KeepLies(canvas, siKeep)
    <3>1. KeepLies(siCanvas, siKeep)
      BY DEF StitchInv, CanvasKnown
    <3>2. \A r, p : ~OnCanvas(siCanvas, r, p)
      <4>1. Len(siCanvas) = 0
        BY <1>7
      <4> QED
        BY <1>2, <4>1 DEF OnCanvas
    <3> QED
      BY <3>1, <3>2 DEF KeepLies, KeyframeLies
  <2> DEFINE f == Keyframe(row, 0, "Seed")
  <2>2. f \in Keyframes /\ f.row = row /\ f.position = 0
    <3>1. "Seed" \in Reasons
      BY DEF Reasons
    <3> QED
      BY <1>1, <3>1, KeyframeIs
  <2>3. siKeep' = Hold(Remember(siKeep, f, huge), f)
    BY DEF Seed
  <2> HIDE DEF f
  <2>4. KeyframeLies(canvas, f) /\ OnCanvas(canvas, f.row, f.position)
    BY <1>6, <2>2 DEF KeyframeLies
  <2>5. KeepLies(canvas, Remember(siKeep, f, huge))
    BY <2>1, <2>2, <2>4, RememberLies
  <2> QED
    BY <2>2, <2>3, <2>4, <2>5, HoldLies
<1>11. Len(canvas) <= siLimit
  <2>1. Len(siCanvas) = 0
    BY <1>7
  <2> QED
    BY <1>2, <1>3, <1>4, <2>1 DEF Seed, Fits
<1>12. CanvasKnown'
  BY <1>1, <1>5, <1>6, <1>7, <1>9, <1>10, <1>11 DEF CanvasKnown
<1>13. StitchValues'
  <2>1. siFailures \in Nat /\ siFailures <= siSequence
    BY <1>1 DEF StitchInv, StitchValues
  <2>2. siFailures' \in 0 .. siSequence'
    BY <1>1, <2>1 DEF Seed
  <2> QED
    BY <1>1, <1>2, <1>7, <2>2 DEF Seed, StitchInv, StitchValues
<1>14. LastNear'
  <2>1. Abs(siView' - (canvas[1] + 0)) = 0
    BY <1>1, <1>2, <1>5 DEF Abs
  <2>2. siDecision' = "Seed" /\ ~siLimited'
    BY FedValues DEF Seed
  <2> QED
    BY <1>5, <1>7, <2>1, <2>2, StitchBounds DEF LastNear
<1> QED
  BY <1>1, <1>12, <1>13, <1>14 DEF StitchInv


(* A tracked view says where a view that matches it would lie.             *)
LEMMA MatchLies ==
    ASSUME StitchInv, NEW row \in PageViews, NEW i \in Matches(row)
    PROVE  /\ siCanvas # <<>> /\ Found(row, i) \in Int /\ row = siCanvas[1] + Found(row, i)
           /\ Found(row, i) <= Len(siCanvas) /\ Found(row, i) + ViewRows >= 0
<1>1. siHistory \in Seq(StitchViews) /\ DOMAIN siHistory = 1 .. Len(siHistory) /\ i \in DOMAIN siHistory
      /\ Abs(row - siHistory[i].row) <= Reach
  <2>1. siHistory \in Seq(StitchViews)
    BY DEF StitchInv, CanvasKnown, HistoryLies
  <2> QED
    BY <2>1, LenProperties DEF Matches
<1>2. siHistory[i] \in StitchViews /\ OnCanvas(siCanvas, siHistory[i].row, siHistory[i].position)
  BY <1>1, ElementOfSeq DEF StitchInv, CanvasKnown, HistoryLies
<1>3. siCanvas # <<>>
  <2>1. siHistory # <<>>
    BY <1>1
  <2> QED
    BY <2>1 DEF StitchInv, CanvasKnown
<1>4. /\ Len(siCanvas) \in Nat /\ siCanvas[1] \in Nat /\ Len(siCanvas) >= ViewRows
  BY <1>3, AnchorLies DEF StitchInv
<1>5. PICK r, p : r = siHistory[i].row /\ p = siHistory[i].position
  OBVIOUS
<1>6. r \in Int /\ p \in Nat /\ p + ViewRows <= Len(siCanvas) /\ r = siCanvas[1] + p
  BY <1>2, <1>5 DEF StitchViews, PageViews, OnCanvas
<1>7. /\ ViewRows \in Nat /\ MinOverlap \in Nat /\ MinOverlap > 0 /\ PageRows \in Nat /\ row \in Int
  BY StitchBounds DEF PageViews
<1>8. row - r <= ViewRows - MinOverlap /\ r - row <= ViewRows - MinOverlap
  BY SMTT(25), <1>1, <1>5, <1>6, <1>7 DEF Abs, Reach
<1>9. PICK found : found = Found(row, i)
  OBVIOUS
<1>10. found = p + row - r
  BY <1>5, <1>9 DEF Found
<1>11. PICK L, first : L = Len(siCanvas) /\ first = siCanvas[1]
  OBVIOUS
<1>12. p + ViewRows <= L /\ r = first + p /\ L \in Nat /\ first \in Nat
  BY <1>4, <1>6, <1>11
<1>13. found \in Int /\ row = first + found
  BY SMTT(25), <1>6, <1>7, <1>10, <1>12
<1>14. found <= L /\ found + ViewRows >= 0
  BY SMTT(25), <1>6, <1>7, <1>8, <1>10, <1>12
<1> QED
  BY <1>3, <1>9, <1>11, <1>13, <1>14

LEMMA StationaryKeeps ==
    ASSUME StitchInv, NEW row \in PageViews, Stationary(row)
    PROVE  StitchInv'
<1>1. /\ siSequence' \in 0 .. MaxViews /\ siView' \in PageViews /\ siView' = row
      /\ siSequence \in Nat /\ siSequence' = siSequence + 1 /\ siLimit' = siLimit
      /\ siPicture = NoPicture /\ siPicture' = siPicture /\ ~siLimited /\ NothingCutOff'
  BY FedValues DEF Stationary
<1>2. PICK i \in Matches(row) : Abs(Found(row, i) - siAnchor) < MinShift
  BY DEF Stationary
<1>3. siCanvas # <<>> /\ Found(row, i) \in Int /\ row = siCanvas[1] + Found(row, i)
  BY MatchLies
<1>4. siAnchor \in Nat /\ siCanvas[1] \in Nat
  BY <1>3, AnchorLies DEF StitchInv
<1>5. Abs(row - (siCanvas[1] + siAnchor)) < MinShift
  <2>1. row - (siCanvas[1] + siAnchor) = Found(row, i) - siAnchor
    BY <1>3, <1>4
  <2> QED
    BY <1>2, <2>1
<1>6. StitchValues'
  <2>1. siFailures \in Nat /\ siFailures <= siSequence
    BY <1>1 DEF StitchInv, StitchValues
  <2>2. siFailures' \in 0 .. siSequence'
    BY <1>1, <2>1 DEF Stationary
  <2> QED
    BY <1>1, <2>2 DEF Stationary, StitchInv, StitchValues
<1>7. CanvasKnown'
  BY <1>1 DEF StitchInv, CanvasKnown, Stationary
<1>8. LastNear'
  BY <1>1, <1>3, <1>5 DEF LastNear, Stationary
<1> QED
  BY <1>1, <1>6, <1>7, <1>8 DEF StitchInv

LEMMA RejectedKeeps ==
    ASSUME StitchInv, NEW row \in PageViews, NEW huge, Rejected(row, huge)
    PROVE  StitchInv'
<1>1. /\ siSequence' \in 0 .. MaxViews /\ siView' \in PageViews /\ siView' = row
      /\ siSequence \in Nat /\ siSequence' = siSequence + 1 /\ siLimit' = siLimit
      /\ siPicture = NoPicture /\ siPicture' = siPicture /\ ~siLimited /\ NothingCutOff'
  BY FedValues DEF Rejected
<1>2. KeepLies(siCanvas, siKeep') /\ siDirection' = siDirection /\ siFailures' = siFailures + 1
  BY <1>1, FailureNoted DEF Rejected, StitchInv, CanvasKnown
<1>3. StitchValues'
  <2>1. siFailures \in Nat /\ siFailures <= siSequence
    BY <1>1 DEF StitchInv, StitchValues
  <2>2. siFailures' \in 0 .. siSequence'
    BY <1>1, <1>2, <2>1
  <2> QED
    BY <1>1, <1>2, <2>2 DEF Rejected, StitchInv, StitchValues
<1>4. CanvasKnown'
  BY <1>1, <1>2 DEF StitchInv, CanvasKnown, Rejected
<1>5. LastNear'
  BY <1>1 DEF LastNear, Rejected
<1> QED
  BY <1>1, <1>3, <1>4, <1>5 DEF StitchInv

LEMMA ReanchoredKeeps ==
    ASSUME StitchInv, NEW row \in PageViews, NEW position \in 0 .. Len(siCanvas) - ViewRows, NEW huge,
           Reanchored(row, position, huge)
    PROVE  StitchInv'
<1>1. /\ siSequence' \in 0 .. MaxViews /\ siView' \in PageViews /\ siView' = row
      /\ siSequence \in Nat /\ siSequence' = siSequence + 1 /\ siLimit' = siLimit
      /\ siPicture = NoPicture /\ siPicture' = siPicture /\ ~siLimited /\ NothingCutOff'
  BY FedValues DEF Reanchored
<1>2. Piece(siCanvas) /\ HistoryLies(siCanvas, siHistory) /\ KeepLies(siCanvas, siKeep)
  BY DEF StitchInv, CanvasKnown
<1>3. row \in Int
  BY DEF PageViews
<1>4. OnCanvas(siCanvas, row, position)
  BY <1>2, <1>3, FoundThere DEF Reanchored
<1>5. siCanvas # <<>>
  <2>1. Len(siCanvas) > 0
    BY <1>2, <1>4, StitchBounds, LenProperties DEF OnCanvas, Piece
  <2> QED
    BY <2>1
<1>6. siAnchor \in Nat /\ siCanvas[1] \in Nat /\ Len(siCanvas) \in Nat
  BY <1>5, AnchorLies DEF StitchInv
<1>7. position \in Nat /\ position - siAnchor \in Int
  BY <1>4, <1>6 DEF OnCanvas
<1>8. KeepLies(siCanvas, siKeep') /\ siDirection' \in {-1, 1} /\ siFailures' = 0
  BY <1>1, <1>2, <1>4, <1>7, MotionNoted DEF Reanchored
<1>9. HistoryLies(siCanvas, siHistory') /\ siHistory' # <<>> /\ Last(siHistory').position = position
  BY <1>2, <1>4, HistoryPushed DEF Reanchored
<1>10. siCanvas' = siCanvas /\ siAnchor' = position /\ siOffset' = 0 /\ siJumped' = TRUE /\ siDecision' = "Reanchored"
  BY DEF Reanchored
<1>11. siLimited' = siLimited
  BY DEF Reanchored, Fed, NoteMotion
<1>12. StitchValues'
  <2>1. 0 \in -PageRows .. PageRows /\ 0 \in 0 .. siSequence'
    BY <1>1, StitchBounds
  <2> QED
    BY <1>1, <1>8, <1>10, <1>11, <2>1 DEF StitchInv, StitchValues
<1>13. CanvasKnown'
  BY <1>1, <1>2, <1>5, <1>7, <1>8, <1>9, <1>10 DEF StitchInv, CanvasKnown
<1>14. LastNear'
  <2>1. Abs(row - (siCanvas[1] + position)) = 0
    BY <1>3, <1>4, <1>6 DEF OnCanvas, Abs
  <2> QED
    BY <1>1, <1>5, <1>10, <1>11, <2>1, StitchBounds DEF LastNear
<1> QED
  BY <1>1, <1>12, <1>13, <1>14 DEF StitchInv

LEMMA AcceptedKeeps ==
    ASSUME StitchInv, NEW row \in PageViews, NEW i \in DOMAIN siHistory, NEW robust, NEW huge,
           Accepted(row, i, robust, huge)
    PROVE  StitchInv'
<1>1. /\ siSequence' \in 0 .. MaxViews /\ siView' \in PageViews /\ siView' = row
      /\ siSequence \in Nat /\ siSequence' = siSequence + 1 /\ siLimit' = siLimit
      /\ siPicture = NoPicture /\ siPicture' = siPicture /\ ~siLimited /\ NothingCutOff'
  BY FedValues DEF Accepted
<1>2. PICK new : new = Found(row, i)
  OBVIOUS
<1>3. i \in Matches(row) /\ Abs(new - siAnchor) >= MinShift
  BY <1>2 DEF Accepted
<1>4. /\ siCanvas # <<>> /\ new \in Int /\ row = siCanvas[1] + new
      /\ new <= Len(siCanvas) /\ new + ViewRows >= 0
  BY <1>2, <1>3, MatchLies
<1>5. /\ siAnchor \in Nat /\ siAnchor + ViewRows <= Len(siCanvas)
      /\ Len(siCanvas) \in Nat /\ siCanvas[1] \in Nat /\ siCanvas[1] + Len(siCanvas) <= PageRows
      /\ Len(siCanvas) >= ViewRows
  BY <1>4, AnchorLies DEF StitchInv
<1>6. Piece(siCanvas) /\ HistoryLies(siCanvas, siHistory) /\ KeepLies(siCanvas, siKeep)
  BY DEF StitchInv, CanvasKnown
<1>7. siJumped' \in BOOLEAN
  <2>1. siJumped \in BOOLEAN
    BY DEF StitchInv, StitchValues
  <2> DEFINE jump == Abs((Found(row, i) - siAnchor) - siOffset) >= MinOverlap
  <2>2. siJumped' \in {siJumped, siJumped \/ jump}
    BY DEF Accepted
  <2> HIDE DEF jump
  <2>3. (siJumped \/ jump) \in BOOLEAN
    OBVIOUS
  <2> QED
    BY <2>1, <2>2, <2>3
<1>8. siFailures \in Nat /\ siFailures <= siSequence
  BY <1>1 DEF StitchInv, StitchValues
<1>9. ASSUME ~Fits(Added(new)), siLimited' = TRUE, siDecision' = "Rejected", siKeep' = Discarded,
             UNCHANGED <<siCanvas, siAnchor, siOffset, siHistory, siDirection, siFailures>>
      PROVE  StitchInv'
  <2>1. siFailures' \in 0 .. siSequence'
    BY <1>1, <1>8, <1>9
  <2>2. StitchValues'
    BY <1>1, <1>7, <1>9, <2>1 DEF StitchInv, StitchValues
  <2>3. KeepLies(siCanvas, Discarded)
    BY DiscardedLies
  <2>4. CanvasKnown'
    BY <1>1, <1>9, <2>3 DEF StitchInv, CanvasKnown
  <2>5. LastNear'
    BY <1>9 DEF LastNear
  <2> QED
    BY <1>1, <2>2, <2>4, <2>5 DEF StitchInv
<1>10. PICK up : up = OverTop(new)
  OBVIOUS
<1>11. ASSUME Fits(Added(new)),
              siCanvas' \in {Extended(Rows(row), new, seam) : seam \in Seams(new)},
              siAnchor' = new + up, siOffset' = new - siAnchor,
              siHistory' = PushHistory(LiftedAll(siHistory, up), row, new + up),
              NoteMotion(LiftedKeep(siKeep, up), row, new + up, new - siAnchor,
                         robust \/ i # Len(siHistory), huge),
              siDecision' = IF Added(new) = 0 THEN "Revisit" ELSE "Accepted",
              siLimited' = siLimited
       PROVE  StitchInv'
  <2>1. PICK seam \in Seams(new) : siCanvas' = Extended(Rows(row), new, seam)
    BY <1>11
  <2>2. PICK canvas : canvas = siCanvas'
    OBVIOUS
  <2>3. /\ Piece(canvas) /\ canvas # <<>> /\ Len(canvas) = Len(siCanvas) + Added(new)
        /\ up \in Nat /\ canvas[1] = siCanvas[1] - up
    BY <1>4, <1>6, <1>10, <2>1, <2>2, CanvasGrows
  <2>4. /\ up = IF new < 0 THEN -new ELSE 0
        /\ Added(new) = (IF new + ViewRows > Len(siCanvas) THEN new + ViewRows - Len(siCanvas) ELSE 0) + up
    BY <1>4, <1>5, <1>10, Overhang DEF Added
  <2>18. ViewRows \in Nat
    BY StitchBounds
  <2>19. PICK L, L2, first : L = Len(siCanvas) /\ L2 = Len(canvas) /\ first = siCanvas[1]
    OBVIOUS
  <2>20. L \in Nat /\ L >= ViewRows /\ first \in Nat
    BY <1>5, <2>19
  <2>21. Added(new) = (IF new + ViewRows > L THEN new + ViewRows - L ELSE 0) + up
    BY <2>4, <2>19
  <2>22. PICK over : over = (IF new + ViewRows > L THEN new + ViewRows - L ELSE 0)
    OBVIOUS
  <2>23. over \in Nat /\ over >= new + ViewRows - L
    BY <1>4, <2>18, <2>20, <2>22
  <2>24. L2 = L + (over + up) /\ Added(new) = over + up
    BY <2>3, <2>19, <2>21, <2>22
  <2>5. Added(new) \in Nat /\ Added(new) >= up /\ Len(canvas) \in Nat
    BY <2>3, <2>19, <2>20, <2>23, <2>24
  <2>6. Raised(siCanvas, canvas, up)
    BY <1>5, <2>3, <2>5 DEF Raised
  <2>7. OnCanvas(canvas, row, new + up)
    <3>1. new + up \in Nat
      BY <1>4, <2>4
    <3>2. (new + up) + ViewRows <= L2
      BY <1>4, <2>3, <2>18, <2>20, <2>23, <2>24
    <3>3. row = canvas[1] + (new + up)
      BY <1>4, <1>5, <2>3
    <3> QED
      BY <2>19, <3>1, <3>2, <3>3 DEF OnCanvas
  <2>8. HistoryLies(canvas, LiftedAll(siHistory, up)) /\ KeepLies(canvas, LiftedKeep(siKeep, up))
    BY <1>6, <2>6, HistoryRaised, KeepRaised
  <2>9. /\ HistoryLies(canvas, siHistory') /\ siHistory' # <<>> /\ Last(siHistory').position = new + up
    BY <1>11, <2>7, <2>8, HistoryPushed
  <2>10. new - siAnchor \in Int
    BY <1>4, <1>5
  <2>11. KeepLies(canvas, siKeep') /\ siDirection' \in {-1, 1} /\ siFailures' = 0
    BY <1>1, <1>11, <2>7, <2>8, <2>10, MotionNoted
  <2>12. new + up \in Nat
    BY <2>7 DEF OnCanvas
  <2>13. Len(canvas) <= siLimit
    BY <1>11, <2>3 DEF Fits
  <2>14. CanvasKnown'
    BY <1>1, <1>11, <2>2, <2>3, <2>9, <2>11, <2>12, <2>13 DEF CanvasKnown
  <2>15. siOffset' \in -PageRows .. PageRows
    <3>1. row \in Nat /\ row + ViewRows <= PageRows
      BY StitchBounds DEF PageViews
    <3>2. /\ new - siAnchor = row - (siCanvas[1] + siAnchor)
          /\ siCanvas[1] + siAnchor + ViewRows <= PageRows
      BY SMTT(25), <1>4, <1>5, <3>1, StitchBounds
    <3>4. PICK shift, place : shift = new - siAnchor /\ place = siCanvas[1] + siAnchor
      OBVIOUS
    <3>5. shift = row - place /\ place + ViewRows <= PageRows /\ place \in Nat /\ PageRows \in Nat
      BY <1>5, <3>2, <3>4, StitchBounds
    <3>3. new - siAnchor <= PageRows /\ -PageRows <= new - siAnchor
      BY <2>18, <3>1, <3>4, <3>5
    <3> QED
      BY <1>11, <2>10, <3>3, StitchBounds
  <2>16. StitchValues'
    <3>1. 0 \in 0 .. siSequence' /\ siDirection' \in {-1, 0, 1}
      BY <1>1, <2>11
    <3>2. siDecision' \in {"Revisit", "Accepted"}
      BY <1>11
    <3> QED
      BY <1>1, <1>7, <1>11, <2>11, <2>15, <3>1, <3>2 DEF StitchInv, StitchValues
  <2>17. LastNear'
    <3>1. Abs(row - (canvas[1] + (new + up))) = 0
      BY <1>4, <1>5, <2>3 DEF Abs
    <3>2. siDecision' \in {"Revisit", "Accepted"}
      BY <1>11
    <3> QED
      BY <1>1, <1>11, <2>2, <2>3, <3>1, <3>2, StitchBounds DEF LastNear
  <2> QED
    BY <1>1, <2>14, <2>16, <2>17 DEF StitchInv
<1> QED
  BY <1>2, <1>9, <1>10, <1>11 DEF Accepted


(* The rows of a path reach both ends of the canvas, and so the picture.   *)
LEMMA PathReaches ==
    ASSUME CanvasKnown, siCanvas # <<>>, NEW frames, FramesLie(siCanvas, frames),
           Span(frames, DOMAIN frames) = <<0, Len(siCanvas)>>, NEW path \in Paths(frames)
    PROVE  /\ Fused(frames, path).from <= siCanvas[1]
           /\ siCanvas[1] + Len(siCanvas) <= Fused(frames, path).to
           /\ Fused(frames, path).rebuilt = TRUE
<1> DEFINE chosen == path \intersect Placed(frames)
           at == {frames[i].position : i \in chosen}
           rows == {frames[i].row : i \in path}
<1>1. frames \in Seq(Keyframes) /\ DOMAIN frames = 1 .. Len(frames)
  BY LenProperties DEF FramesLie
<1>2. path \subseteq DOMAIN frames /\ Span(frames, path) = <<0, Len(siCanvas)>>
  BY DEF Paths
<1>3. \A i \in DOMAIN frames : frames[i] \in Keyframes /\ KeyframeLies(siCanvas, frames[i])
  BY <1>1, ElementOfSeq DEF FramesLie
<1>4. /\ Len(siCanvas) \in Nat /\ siCanvas[1] \in Nat /\ ViewRows \in Nat /\ ViewRows > 0
      /\ siCanvas[1] + Len(siCanvas) <= PageRows /\ PageRows \in Nat
  BY AnchorLies, StitchBounds
<1>5. at # {} /\ Min(at) = 0 /\ Max(at) + ViewRows = Len(siCanvas)
  <2>1. Span(frames, path) = IF at = {} THEN <<>> ELSE <<Min(at), Max(at) + ViewRows>>
    BY DEF Span
  <2> HIDE DEF at
  <2>2. PICK a, b, c : a = Min(at) /\ b = Max(at) + ViewRows /\ c = Len(siCanvas)
    OBVIOUS
  <2>3. at # {}
    <3>1. <<0, Len(siCanvas)>> # <<>>
      OBVIOUS
    <3> QED
      BY <1>2, <2>1, <3>1
  <2>4. <<a, b>> = <<0, c>>
    BY <1>2, <2>1, <2>2, <2>3
  <2> QED
    BY <2>2, <2>3, <2>4
<1>6. \A i \in chosen : /\ frames[i].position \in Nat /\ frames[i].position + ViewRows <= Len(siCanvas)
                        /\ frames[i].row = siCanvas[1] + frames[i].position
  <2> TAKE i \in chosen
  <2>1. OnCanvas(siCanvas, frames[i].row, frames[i].position)
    BY <1>2, <1>3 DEF Placed, KeyframeLies
  <2> QED
    BY <2>1 DEF OnCanvas
<1>7. at \in SUBSET (0 .. Len(siCanvas))
  BY <1>4, <1>6
<1>8. PICK first \in chosen : frames[first].position = 0
  <2>1. at \in SUBSET Nat
    BY <1>6
  <2> HIDE DEF at
  <2>2. Min(at) \in at
    BY <1>5, <2>1, MinOfNat
  <2>3. 0 \in at
    BY <1>5, <2>2
  <2> QED
    BY <2>3 DEF at
<1>9. PICK last \in chosen : frames[last].position + ViewRows = Len(siCanvas)
  <2> HIDE DEF at
  <2>1. Max(at) \in at
    BY <1>4, <1>5, <1>7, MaxUpTo
  <2>2. PICK last \in chosen : frames[last].position = Max(at)
    BY <2>1 DEF at
  <2> QED
    BY <1>5, <2>2
<1>10. rows \in SUBSET (0 .. PageRows) /\ rows \in SUBSET Nat /\ rows # {}
  <2>1. \A i \in path : frames[i].row \in 0 .. PageRows
    BY SMTT(25), <1>2, <1>3, <1>4 DEF Keyframes, PageViews
  <2> QED
    BY <1>8, <2>1
<1>11. frames[first].row \in rows /\ frames[last].row \in rows
  BY <1>8, <1>9
<1>12. frames[first].row = siCanvas[1] /\ frames[last].row + ViewRows = siCanvas[1] + Len(siCanvas)
  <2>1. PICK L, start, r, p : L = Len(siCanvas) /\ start = siCanvas[1] /\ r = frames[last].row
                              /\ p = frames[last].position
    OBVIOUS
  <2>2. r = start + p /\ p \in Nat /\ p + ViewRows = L /\ start \in Nat /\ L \in Nat
    BY <1>4, <1>6, <1>9, <2>1
  <2>3. r + ViewRows = start + L
    BY <1>4, <2>2
  <2>4. frames[first].row = start + 0
    BY <1>6, <1>8, <2>1
  <2>5. frames[first].row = start
    BY <2>2, <2>4
  <2> QED
    BY <2>1, <2>3, <2>5
<1>13. /\ Fused(frames, path).from = Min(rows) /\ Fused(frames, path).to = Max(rows) + ViewRows
       /\ Fused(frames, path).rebuilt = TRUE
  BY DEF Fused
<1> HIDE DEF rows, chosen, at
<1>14. Min(rows) \in Nat /\ Min(rows) <= frames[first].row
  BY <1>10, <1>11, MinOfNat
<1>15. Max(rows) \in Nat /\ Max(rows) >= frames[last].row
  BY <1>4, <1>10, <1>11, MaxUpTo
<1>16. frames[last].row \in Nat
  BY <1>10, <1>11
<1> QED
  BY SMTT(25), <1>4, <1>12, <1>13, <1>14, <1>15, <1>16

LEMMA DeliverKeeps ==
    ASSUME StitchInv, NEW huge, DeliverPicture(huge)
    PROVE  StitchInv'
<1>1. /\ siPicture = NoPicture /\ siCanvas # <<>>
      /\ UNCHANGED <<siLimit, siCanvas, siAnchor, siOffset, siHistory, siDirection, siFailures,
                     siJumped, siLimited, siDecision, siSequence, siView>>
  BY DEF DeliverPicture
<1>2. KeepLies(siCanvas, siKeep')
  <2>1. "Tail" \in Reasons
    BY DEF Reasons
  <2> QED
    BY <2>1, PromoteLies DEF DeliverPicture, StitchInv, CanvasKnown
<1>3. StitchValues'
  BY <1>1 DEF StitchInv, StitchValues
<1>4. CanvasKnown'
  BY <1>1, <1>2 DEF StitchInv, CanvasKnown
<1>5. LastNear'
  BY <1>1 DEF StitchInv, LastNear
<1>6. /\ siAnchor \in Nat /\ siAnchor + ViewRows <= Len(siCanvas)
      /\ Len(siCanvas) \in Nat /\ siCanvas[1] \in Nat /\ Len(siCanvas) >= ViewRows
  BY <1>1, AnchorLies DEF StitchInv
<1>7. Last(siCanvas) = siCanvas[1] + Len(siCanvas) - 1
  <2>1. Len(siCanvas) \in 1 .. Len(siCanvas)
    BY <1>6, StitchBounds
  <2> QED
    BY <1>1, <2>1 DEF StitchInv, CanvasKnown, Piece, Last
<1>8. ASSUME MayRebuild(siKeep'), NEW path \in Paths(siKeep'.frames), siPicture' = Fused(siKeep'.frames, path)
      PROVE  NothingCutOff'
  <2>1. FramesLie(siCanvas, siKeep'.frames)
    BY <1>2, KeepIs
  <2>2. Span(siKeep'.frames, DOMAIN siKeep'.frames) = <<0, Len(siCanvas)>>
    BY <1>8 DEF MayRebuild
  <2>3. /\ Fused(siKeep'.frames, path).from <= siCanvas[1]
        /\ siCanvas[1] + Len(siCanvas) <= Fused(siKeep'.frames, path).to
        /\ Fused(siKeep'.frames, path).rebuilt = TRUE
    BY <1>1, <1>8, <2>1, <2>2, PathReaches DEF StitchInv
  <2>4. /\ siPicture'.from <= siCanvas[1] /\ siCanvas[1] + Len(siCanvas) <= siPicture'.to
        /\ siPicture'.rebuilt = TRUE
    BY <1>8, <2>3
  <2>5. siCanvas'[1] = siCanvas[1] /\ Last(siCanvas') = Last(siCanvas)
    BY <1>1
  <2>6. siPicture'.to \in Int
    <3> DEFINE frames == siKeep'.frames
               rows == {frames[i].row : i \in path}
    <3>1. siPicture'.to = Max(rows) + ViewRows
      BY <1>8 DEF Fused
    <3>2. path \subseteq DOMAIN frames /\ 1 \in path
      BY <1>8 DEF Paths
    <3>3. \A i \in DOMAIN frames : frames[i] \in Keyframes
      BY <2>1, ElementOfSeq, LenProperties DEF FramesLie
    <3>4. rows \in SUBSET (0 .. PageRows) /\ rows # {}
      BY <3>2, <3>3, StitchBounds DEF Keyframes, PageViews
    <3> HIDE DEF rows
    <3>5. PageRows \in Nat
      BY StitchBounds
    <3>6. Max(rows) \in Nat
      <4>1. Max(rows) \in rows
        BY <3>4, <3>5, MaxUpTo
      <4>2. \A r \in rows : r \in Nat
        BY <3>4, <3>5
      <4> QED
        BY <4>1, <4>2
    <3> QED
      BY <3>1, <3>6, StitchBounds
  <2>7. Last(siCanvas) < siPicture'.to
    BY <1>6, <1>7, <2>4, <2>6
  <2> QED
    BY <2>4, <2>5, <2>7 DEF NothingCutOff
<1>9. ASSUME siPicture' = Flattened PROVE NothingCutOff'
  <2>1. /\ siPicture'.from = siCanvas[1] /\ siPicture'.to = siCanvas[1] + Len(siCanvas)
        /\ siPicture'.warned = (siLimited \/ siDecision = "Rejected")
    BY <1>6, <1>7, <1>9 DEF Flattened
  <2>2. Last(siCanvas) < siPicture'.to
    BY <1>6, <1>7, <2>1
  <2>3. CASE siLimited \/ siDecision = "Rejected"
    <3>1. siPicture'.warned = TRUE
      BY <2>1, <2>3
    <3>2. siPicture'.from = siCanvas'[1] /\ siCanvas'[1] \in Nat /\ Last(siCanvas') = Last(siCanvas)
      BY <1>1, <1>6, <2>1
    <3>3. siPicture'.from <= siCanvas'[1] /\ Last(siCanvas') < siPicture'.to
      BY <2>2, <3>2
    <3> QED
      BY <3>1, <3>3 DEF NothingCutOff
  <2>4. CASE ~siLimited /\ siDecision # "Rejected"
    <3>1. Abs(siView - (siCanvas[1] + siAnchor)) < MinShift
      BY <1>1, <2>4 DEF StitchInv, LastNear, StitchValues
    <3>2. PICK L, first : L = Len(siCanvas) /\ first = siCanvas[1]
      OBVIOUS
    <3>3. /\ L \in Nat /\ first \in Nat /\ siAnchor \in Nat /\ siAnchor + ViewRows <= L
          /\ siView \in Int /\ MinShift \in Nat /\ ViewRows \in Nat
      BY <1>6, <3>2, StitchBounds DEF StitchInv, StitchValues, PageViews
    <3>4. Abs(siView - (first + siAnchor)) < MinShift
      BY <3>1, <3>2
    <3>5. first + siAnchor < siView + MinShift /\ siView < first + siAnchor + MinShift
      BY <3>3, <3>4 DEF Abs
    <3>6. first < siView + MinShift /\ siView + ViewRows < first + L + MinShift
      BY <3>3, <3>5
    <3>7. siPicture'.from < siView' + MinShift /\ siView' + ViewRows < siPicture'.to + MinShift
      BY <1>1, <2>1, <3>2, <3>6
    <3>8. siPicture'.from <= siCanvas'[1] /\ Last(siCanvas') < siPicture'.to
      BY <1>1, <1>6, <2>1, <2>2
    <3> QED
      BY <3>7, <3>8 DEF NothingCutOff
  <2> QED
    BY <2>3, <2>4
<1>10. NothingCutOff'
  BY <1>8, <1>9 DEF DeliverPicture
<1> QED
  BY <1>3, <1>4, <1>5, <1>10 DEF StitchInv

LEMMA StitchStep == StitchInv /\ [StitchNext]_siVars => StitchInv'
<1> SUFFICES ASSUME StitchInv, [StitchNext]_siVars PROVE StitchInv'
  OBVIOUS
<1>1. CASE UNCHANGED siVars
  <2>1. StitchValues' /\ CanvasKnown' /\ LastNear' /\ NothingCutOff'
    BY <1>1 DEF StitchInv, StitchValues, CanvasKnown, LastNear, NothingCutOff, siVars
  <2> QED
    BY <2>1 DEF StitchInv
<1>2. CASE Oversize
  BY <1>2, OversizeKeeps
<1>3. ASSUME NEW huge \in BOOLEAN, DeliverPicture(huge) PROVE StitchInv'
  BY <1>3, DeliverKeeps
<1>4. ASSUME NEW row \in PageViews, NEW huge \in BOOLEAN, Seed(row, huge) PROVE StitchInv'
  BY <1>4, SeedKeeps
<1>5. ASSUME NEW row \in PageViews, NEW huge \in BOOLEAN, Rejected(row, huge) PROVE StitchInv'
  BY <1>5, RejectedKeeps
<1>6. ASSUME NEW row \in PageViews, NEW huge \in BOOLEAN, NEW i \in DOMAIN siHistory,
             NEW robust \in BOOLEAN, Accepted(row, i, robust, huge)
      PROVE  StitchInv'
  BY <1>6, AcceptedKeeps
<1>7. ASSUME NEW row \in PageViews, NEW huge \in BOOLEAN, NEW position \in 0 .. Len(siCanvas) - ViewRows,
             Reanchored(row, position, huge)
      PROVE  StitchInv'
  BY <1>7, ReanchoredKeeps
<1>8. ASSUME NEW row \in PageViews, Stationary(row) PROVE StitchInv'
  BY <1>8, StationaryKeeps
<1> QED
  BY <1>1, <1>2, <1>3, <1>4, <1>5, <1>6, <1>7, <1>8 DEF StitchNext, PageViews

LEMMA StitchMeans == StitchInv => StitchTypeOK /\ StitchSound
<1> SUFFICES ASSUME StitchInv PROVE StitchTypeOK /\ StitchSound
  OBVIOUS
<1>1. /\ Piece(siCanvas) /\ Len(siCanvas) <= siLimit /\ siAnchor \in Nat
      /\ HistoryLies(siCanvas, siHistory) /\ KeepLies(siCanvas, siKeep)
  BY DEF StitchInv, CanvasKnown
<1>2. siCanvas \in Seq(Int) /\ DOMAIN siCanvas = 1 .. Len(siCanvas) /\ Len(siCanvas) \in Nat
  BY <1>1, LenProperties DEF Piece
<1>3. siHistory \in Seq(StitchViews) /\ DOMAIN siHistory = 1 .. Len(siHistory)
  BY <1>1, LenProperties DEF HistoryLies
<1>4. /\ siKeep.frames \in Seq(Keyframes) /\ DOMAIN siKeep.frames = 1 .. Len(siKeep.frames)
      /\ Len(siKeep.frames) \in Nat
      /\ siKeep.disabled \in BOOLEAN /\ siKeep.pending \in Keyframes \union {NoKeyframe}
  BY <1>1, LenProperties DEF KeepLies
<1>5. siAnchor \in 0 .. Len(siCanvas)
  <2>1. CASE siCanvas = <<>>
    BY <1>2, <2>1 DEF StitchInv, CanvasKnown
  <2>2. CASE siCanvas # <<>>
    BY <2>2, AnchorLies, StitchBounds DEF StitchInv
  <2> QED
    BY <2>1, <2>2
<1>6. StitchTypeOK
  <2>1. siFailures \in 0 .. MaxViews
    BY StitchBounds DEF StitchInv, StitchValues
  <2>2. \A i \in 1 .. Len(siKeep.frames) - 1 : siKeep.frames[i].sequence < siKeep.frames[i + 1].sequence
    <3> TAKE i \in 1 .. Len(siKeep.frames) - 1
    <3>1. i \in 1 .. Len(siKeep.frames) /\ i + 1 \in 1 .. Len(siKeep.frames) /\ i < i + 1
      BY <1>4
    <3> QED
      BY <1>1, <3>1 DEF KeepLies, InSequence
  <2>3. /\ siDirection \in {-1, 0, 1} /\ siSequence \in 0 .. MaxViews /\ siView \in 0 .. PageRows - ViewRows
        /\ siOffset \in -PageRows .. PageRows /\ siJumped \in BOOLEAN /\ siLimited \in BOOLEAN
        /\ siDecision \in {"none", "Seed", "Stationary", "Accepted", "Revisit", "Reanchored", "Rejected"}
    BY DEF StitchInv, StitchValues, PageViews
  <2>4. /\ Len(siHistory) <= HistoryLen /\ Len(siKeep.frames) <= KeyLimit
        /\ siKeep.disabled => siKeep = Discarded
    BY <1>1 DEF HistoryLies, KeepLies
  <2> QED
    BY <1>1, <1>4, <1>5, <2>1, <2>2, <2>3, <2>4 DEF StitchTypeOK
<1>7. \A row \in PageViews : \A position : OnCanvas(siCanvas, row, position) =>
        SubSeq(siCanvas, position + 1, position + ViewRows) = Rows(row)
  <2> TAKE row \in PageViews
  <2> TAKE position
  <2>1. row \in Int
    BY DEF PageViews
  <2> QED
    BY <1>1, <2>1, LiesThere
<1>8. \A i \in DOMAIN siCanvas : siCanvas[i] = siCanvas[1] + i - 1
  <2>1. siCanvas = <<>> => DOMAIN siCanvas = {}
    OBVIOUS
  <2> QED
    BY <1>1, <1>2, <2>1 DEF Piece
<1>9. \A i \in DOMAIN siHistory : Lies(siHistory[i])
  <2> TAKE i \in DOMAIN siHistory
  <2>1. siHistory[i] \in StitchViews /\ OnCanvas(siCanvas, siHistory[i].row, siHistory[i].position)
    BY <1>1, <1>3, ElementOfSeq DEF HistoryLies
  <2>2. siHistory[i].row \in PageViews
    BY <2>1 DEF StitchViews
  <2> QED
    BY <1>7, <2>1, <2>2 DEF Lies
<1>10. siHistory # <<>> => Last(siHistory).position = siAnchor
  BY DEF StitchInv, CanvasKnown
<1>11. siKeep.pending # NoKeyframe => Lies(siKeep.pending)
  <2> SUFFICES ASSUME siKeep.pending # NoKeyframe PROVE Lies(siKeep.pending)
    OBVIOUS
  <2>1. siKeep.pending.row \in PageViews
    BY <1>4 DEF Keyframes
  <2>2. OnCanvas(siCanvas, siKeep.pending.row, siKeep.pending.position)
    BY <1>1 DEF KeepLies
  <2> QED
    BY <1>7, <2>1, <2>2 DEF Lies
<1>12. \A i \in DOMAIN siKeep.frames :
         siKeep.frames[i].position # NoPosition => Lies(siKeep.frames[i])
  <2> SUFFICES ASSUME NEW i \in DOMAIN siKeep.frames, siKeep.frames[i].position # NoPosition
               PROVE  Lies(siKeep.frames[i])
    OBVIOUS
  <2>1. siKeep.frames[i] \in Keyframes /\ OnCanvas(siCanvas, siKeep.frames[i].row, siKeep.frames[i].position)
    BY <1>1, <1>4, ElementOfSeq DEF KeepLies, KeyframeLies
  <2>2. siKeep.frames[i].row \in PageViews
    BY <2>1 DEF Keyframes
  <2> QED
    BY <1>7, <2>1, <2>2 DEF Lies
<1>13. CanvasTrue
  BY <1>8, <1>9, <1>10, <1>11, <1>12 DEF CanvasTrue
<1>14. NothingCutOff
  BY DEF StitchInv
<1> QED
  BY <1>6, <1>13, <1>14 DEF StitchSound

(* The canvas of a long picture is one unbroken piece of the page, every   *)
(* view that is kept lies where its position says, however often the       *)
(* canvas grew upward since, and what is delivered has all of it           *)
(* (stitcher.rs extend_canvas, note_motion, result; offline.rs trim).      *)
THEOREM StitchTrue == StitchSpec => [](StitchTypeOK /\ StitchSound)
<1> QED
  BY StitchStart, StitchStep, StitchMeans, PTL DEF StitchSpec
-----------------------------------------------------------------------------
(* What holds at 0 and goes on from each number to the next holds up to n. *)
LEMMA Steps ==
    ASSUME NEW n \in Nat, NEW S, 0 \in S, \A k \in 1 .. n : k - 1 \in S => k \in S
    PROVE  \A k \in 0 .. n : k \in S
<1> DEFINE T == {k \in 0 .. n : k \notin S}
<1>1. T \in SUBSET Nat
  OBVIOUS
<1>2. ASSUME T # {} PROVE FALSE
  <2> HIDE DEF T
  <2>1. PICK k \in T : \A y \in T : k <= y
    BY <1>1, <1>2, LeastOfNats
  <2> USE DEF T
  <2>2. k \in 1 .. n /\ k - 1 \in 0 .. n
    BY <2>1
  <2>3. k - 1 \in S
    BY <2>1, <2>2
  <2> QED
    BY <2>1, <2>2, <2>3
<1> QED
  BY <1>2

(* A value that is made in n steps, each from the one before, exists.      *)
IsStep(step, n, V) == step \in [1 .. n -> [V -> V]]
IsRun(f, n, V, start, step) ==
    f \in [0 .. n -> V] /\ f[0] = start /\ \A k \in 1 .. n : f[k] = step[k][f[k - 1]]

LEMMA Iterates ==
    ASSUME NEW n \in Nat, NEW V, NEW start \in V, NEW step, IsStep(step, n, V)
    PROVE  \E f : IsRun(f, n, V, start, step)
<1> DEFINE Made(f, m) == f \in [0 .. m -> V] /\ f[0] = start /\ \A k \in 1 .. m : f[k] = step[k][f[k - 1]]
           S == {m \in 0 .. n : \E f : Made(f, m)}
<1>0. step \in [1 .. n -> [V -> V]]
  BY DEF IsStep
<1>1. 0 \in S
  <2>1. Made([k \in 0 .. 0 |-> start], 0)
    OBVIOUS
  <2> HIDE DEF Made
  <2> QED
    BY <2>1
<1>2. ASSUME NEW m \in 1 .. n, m - 1 \in S PROVE m \in S
  <2>1. PICK f : Made(f, m - 1)
    BY <1>2
  <2> DEFINE g == [k \in 0 .. m |-> IF k = m THEN step[m][f[m - 1]] ELSE f[k]]
  <2>2. f[m - 1] \in V /\ step[m][f[m - 1]] \in V
    BY <1>0, <2>1
  <2>3. g \in [0 .. m -> V]
    BY <2>1, <2>2
  <2>4. g[0] = start
    BY <2>1
  <2>5. ASSUME NEW k \in 1 .. m PROVE g[k] = step[k][g[k - 1]]
    <3>1. CASE k = m
      BY <3>1
    <3>2. CASE k # m
      BY <2>1, <3>2
    <3> QED
      BY <3>1, <3>2
  <2>6. Made(g, m)
    BY <2>3, <2>4, <2>5
  <2> HIDE DEF Made
  <2> QED
    BY <2>6
<1> HIDE DEF Made
<1>3. n \in S
  <2> HIDE DEF S
  <2>1. \A k \in 1 .. n : k - 1 \in S => k \in S
    BY <1>2
  <2>2. \A k \in 0 .. n : k \in S
    BY <1>1, <2>1, Steps
  <2> QED
    BY <2>2
<1> QED
  BY <1>3 DEF Made, IsRun

-----------------------------------------------------------------------------
(* The bytes of the cache.                                                 *)
CachedTiles == [row : Nat, revision : Nat, bytes : Nat]

BytesAre(tiles) ==
    /\ BytesOf(tiles) \in [0 .. Len(tiles) -> Nat] /\ BytesOf(tiles)[0] = 0
    /\ \A n \in 1 .. Len(tiles) : BytesOf(tiles)[n] = BytesOf(tiles)[n - 1] + tiles[n].bytes

LEMMA TileFacts ==
    ASSUME NEW tiles \in Seq(CachedTiles)
    PROVE  /\ Len(tiles) \in Nat /\ DOMAIN tiles = 1 .. Len(tiles)
           /\ \A n \in 1 .. Len(tiles) : tiles[n] \in CachedTiles /\ tiles[n].bytes \in Nat /\ tiles[n].row \in Nat
<1>1. Len(tiles) \in Nat /\ DOMAIN tiles = 1 .. Len(tiles)
  BY LenProperties
<1>2. \A n \in 1 .. Len(tiles) : tiles[n] \in CachedTiles
  BY ElementOfSeq
<1>3. \A tile \in CachedTiles : tile.bytes \in Nat /\ tile.row \in Nat
  BY DEF CachedTiles
<1> QED
  BY <1>1, <1>2, <1>3

LEMMA BytesAdd == ASSUME NEW tiles \in Seq(CachedTiles) PROVE BytesAre(tiles)
<1>1. Len(tiles) \in Nat /\ \A n \in 1 .. Len(tiles) : tiles[n].bytes \in Nat
  BY TileFacts
<1> DEFINE step == [n \in 1 .. Len(tiles) |-> [sum \in Nat |-> sum + tiles[n].bytes]]
           Sums(f) == [n \in 0 .. Len(tiles) |-> IF n = 0 THEN 0 ELSE f[n - 1] + tiles[n].bytes]
<1>2. IsStep(step, Len(tiles), Nat)
  BY <1>1 DEF IsStep
<1>3. PICK f : IsRun(f, Len(tiles), Nat, 0, step)
  <2> HIDE DEF step
  <2>1. Len(tiles) \in Nat /\ 0 \in Nat
    BY <1>1
  <2> QED
    BY <2>1, <1>2, Iterates
<1>4. f = Sums(f)
  <2>1. ASSUME NEW n \in 0 .. Len(tiles) PROVE f[n] = Sums(f)[n]
    <3>1. CASE n = 0
      BY <1>3, <3>1 DEF IsRun
    <3>2. CASE n # 0
      <4>0. n \in 1 .. Len(tiles) /\ n - 1 \in 0 .. Len(tiles)
        BY <1>1, <3>2
      <4>1. n \in 1 .. Len(tiles) /\ f[n - 1] \in Nat
        BY <1>3, <4>0 DEF IsRun
      <4>2. f[n] = f[n - 1] + tiles[n].bytes
        BY <1>3, <4>1 DEF IsRun
      <4> QED
        BY <3>2, <4>2
    <3> QED
      BY <3>1, <3>2
  <2> QED
    BY <1>3, <2>1 DEF IsRun
<1>5. BytesOf(tiles) = CHOOSE g : g = Sums(g)
  BY DEF BytesOf
<1> DEFINE sum == BytesOf(tiles)
<1>6. sum = Sums(sum)
  BY <1>4, <1>5
<1> HIDE DEF sum
<1>7. sum[0] = 0 /\ \A n \in 1 .. Len(tiles) : sum[n] = sum[n - 1] + tiles[n].bytes
  BY <1>1, <1>6
<1>8. DOMAIN sum = 0 .. Len(tiles) /\ sum = [n \in 0 .. Len(tiles) |-> sum[n]]
  BY <1>6
<1>9. \A n \in 0 .. Len(tiles) : sum[n] \in Nat
  <2> DEFINE S == {n \in 0 .. Len(tiles) : sum[n] \in Nat}
  <2>1. 0 \in S
    BY <1>1, <1>7
  <2>2. \A n \in 1 .. Len(tiles) : n - 1 \in S => n \in S
    <3> TAKE n \in 1 .. Len(tiles)
    <3>1. sum[n] = sum[n - 1] + tiles[n].bytes /\ tiles[n].bytes \in Nat /\ n \in 0 .. Len(tiles)
      BY <1>1, <1>7
    <3> QED
      BY <3>1
  <2>3. \A n \in 0 .. Len(tiles) : n \in S
    <3> HIDE DEF S
    <3> QED
      BY <1>1, <2>1, <2>2, Steps
  <2> QED
    BY <2>3
<1> QED
  BY <1>7, <1>8, <1>9 DEF sum, BytesAre

(* Sums do not fall.                                                       *)
LEMMA BytesRise ==
    ASSUME NEW tiles \in Seq(CachedTiles), NEW m \in 0 .. Len(tiles)
    PROVE  BytesOf(tiles)[m] <= TotalBytes(tiles)
<1> DEFINE sum == BytesOf(tiles)
           S == {n \in 0 .. Len(tiles) : n >= m => sum[m] <= sum[n]}
<1>1. /\ Len(tiles) \in Nat /\ sum \in [0 .. Len(tiles) -> Nat]
      /\ \A n \in 1 .. Len(tiles) : sum[n] = sum[n - 1] + tiles[n].bytes /\ tiles[n].bytes \in Nat
  BY BytesAdd, TileFacts DEF BytesAre
<1> HIDE DEF sum
<1>2. 0 \in S
  BY <1>1
<1>3. \A n \in 1 .. Len(tiles) : n - 1 \in S => n \in S
  <2> TAKE n \in 1 .. Len(tiles)
  <2>1. n - 1 \in 0 .. Len(tiles) /\ n \in 0 .. Len(tiles)
    BY <1>1
  <2>2. sum[n] = sum[n - 1] + tiles[n].bytes /\ tiles[n].bytes \in Nat /\ sum[n - 1] \in Nat /\ sum[m] \in Nat
    BY <1>1, <2>1
  <2> QED
    BY <1>1, <2>1, <2>2
<1>4. Len(tiles) \in S
  <2>1. \A n \in 0 .. Len(tiles) : n \in S
    <3> HIDE DEF S
    <3> QED
      BY <1>1, <1>2, <1>3, Steps
  <2> QED
    BY <1>1, <2>1
<1> QED
  BY <1>1, <1>4 DEF sum, TotalBytes

(* What is left when the first tiles have gone.                            *)
LEMMA BytesLeft ==
    ASSUME NEW tiles \in Seq(CachedTiles), NEW m \in 0 .. Len(tiles), NEW rest \in Seq(CachedTiles),
           Len(rest) = Len(tiles) - m, \A i \in 1 .. Len(rest) : rest[i] = tiles[m + i]
    PROVE  TotalBytes(rest) = TotalBytes(tiles) - BytesOf(tiles)[m]
<1> DEFINE sum == BytesOf(tiles)
           left == BytesOf(rest)
           S == {n \in 0 .. Len(rest) : left[n] = sum[m + n] - sum[m]}
<1>1. /\ Len(tiles) \in Nat /\ sum \in [0 .. Len(tiles) -> Nat]
      /\ \A n \in 1 .. Len(tiles) : sum[n] = sum[n - 1] + tiles[n].bytes /\ tiles[n].bytes \in Nat
  BY BytesAdd, TileFacts DEF BytesAre
<1>2. /\ Len(rest) \in Nat /\ left \in [0 .. Len(rest) -> Nat] /\ left[0] = 0
      /\ \A n \in 1 .. Len(rest) : left[n] = left[n - 1] + rest[n].bytes
  BY BytesAdd, LenProperties DEF BytesAre
<1> HIDE DEF sum, left
<1>3. 0 \in S
  <2>1. m + 0 = m /\ sum[m] \in Nat /\ 0 \in 0 .. Len(rest)
    BY <1>1, <1>2
  <2>2. sum[m + 0] - sum[m] = 0
    BY <2>1
  <2> QED
    BY <1>2, <2>1, <2>2
<1>4. ASSUME NEW n \in 1 .. Len(rest), n - 1 \in S PROVE n \in S
  <2>1. m + n \in 1 .. Len(tiles) /\ m + (n - 1) = m + n - 1 /\ m + n - 1 \in 0 .. Len(tiles)
    BY <1>1, <1>2
  <2>2. sum[m + n] = sum[m + n - 1] + tiles[m + n].bytes /\ sum[m + n - 1] \in Nat /\ sum[m] \in Nat
        /\ tiles[m + n].bytes \in Nat
    <3>1. \A k \in 1 .. Len(tiles) : sum[k] = sum[k - 1] + tiles[k].bytes /\ tiles[k].bytes \in Nat
      BY <1>1
    <3>2. m + n \in 0 .. Len(tiles) /\ m \in 0 .. Len(tiles)
      BY <1>1, <2>1
    <3>3. PICK k : k = m + n
      OBVIOUS
    <3>4. sum[k] = sum[k - 1] + tiles[k].bytes /\ tiles[k].bytes \in Nat
      BY <2>1, <3>1, <3>3
    <3>5. sum[k - 1] \in Nat /\ sum[m] \in Nat
      <4>1. \A i \in 0 .. Len(tiles) : sum[i] \in Nat
        BY <1>1
      <4> QED
        BY <2>1, <3>2, <3>3, <4>1
    <3> QED
      BY <3>3, <3>4, <3>5
  <2>3. left[n] = left[n - 1] + tiles[m + n].bytes
    BY <1>2
  <2>4. left[n - 1] = sum[m + n - 1] - sum[m]
    BY <1>4, <2>1
  <2> QED
    BY <2>2, <2>3, <2>4
<1>5. Len(rest) \in S
  <2>1. \A n \in 1 .. Len(rest) : n - 1 \in S => n \in S
    BY <1>4
  <2>2. \A n \in 0 .. Len(rest) : n \in S
    <3> HIDE DEF S
    <3> QED
      BY <1>2, <1>3, <2>1, Steps
  <2> QED
    BY <1>2, <2>2
<1>6. m + Len(rest) = Len(tiles)
  BY <1>1, <1>2
<1> QED
  BY <1>5, <1>6 DEF sum, left, TotalBytes

(* Tiles that begin alike have the same sums so far, and a tile at the end *)
(* adds its bytes.                                                         *)
LEMMA BytesAgree ==
    ASSUME NEW tiles \in Seq(CachedTiles), NEW more \in Seq(CachedTiles), NEW m \in Nat,
           m <= Len(tiles), m <= Len(more), \A i \in 1 .. m : more[i] = tiles[i]
    PROVE  \A n \in 0 .. m : BytesOf(more)[n] = BytesOf(tiles)[n]
<1> DEFINE sum == BytesOf(tiles)
           other == BytesOf(more)
           S == {n \in 0 .. m : other[n] = sum[n]}
<1>1. /\ Len(tiles) \in Nat /\ sum[0] = 0
      /\ \A n \in 1 .. Len(tiles) : sum[n] = sum[n - 1] + tiles[n].bytes
  BY BytesAdd, TileFacts DEF BytesAre
<1>2. /\ Len(more) \in Nat /\ other[0] = 0
      /\ \A n \in 1 .. Len(more) : other[n] = other[n - 1] + more[n].bytes
  BY BytesAdd, TileFacts DEF BytesAre
<1> HIDE DEF sum, other
<1>3. 0 \in S
  BY <1>1, <1>2
<1>4. \A n \in 1 .. m : n - 1 \in S => n \in S
  <2> TAKE n \in 1 .. m
  <2>1. n \in 1 .. Len(tiles) /\ n \in 1 .. Len(more) /\ n \in 0 .. m
    BY <1>1, <1>2
  <2>2. sum[n] = sum[n - 1] + tiles[n].bytes /\ other[n] = other[n - 1] + tiles[n].bytes
    BY <1>1, <1>2, <2>1
  <2> QED
    BY <2>1, <2>2
<1>5. \A n \in 0 .. m : n \in S
  <2> HIDE DEF S
  <2> QED
    BY <1>3, <1>4, Steps
<1> QED
  BY <1>5 DEF sum, other

LEMMA BytesAppended ==
    ASSUME NEW tiles \in Seq(CachedTiles), NEW tile \in CachedTiles
    PROVE  TotalBytes(Append(tiles, tile)) = TotalBytes(tiles) + tile.bytes
<1> DEFINE more == Append(tiles, tile)
<1>1. /\ more \in Seq(CachedTiles) /\ Len(more) = Len(tiles) + 1 /\ more[Len(tiles) + 1] = tile
      /\ \A i \in 1 .. Len(tiles) : more[i] = tiles[i]
  BY AppendProperties
<1> HIDE DEF more
<1>2. Len(tiles) \in Nat /\ Len(tiles) <= Len(more)
  BY <1>1, TileFacts
<1>3. BytesOf(more)[Len(tiles)] = BytesOf(tiles)[Len(tiles)]
  BY <1>1, <1>2, BytesAgree
<1>4. \A n \in 1 .. Len(more) : BytesOf(more)[n] = BytesOf(more)[n - 1] + more[n].bytes
  BY <1>1, BytesAdd DEF BytesAre
<1>5. PICK len \in Nat : len = Len(tiles)
  BY <1>2
<1>6. len + 1 \in 1 .. Len(more) /\ (len + 1) - 1 = len
  BY <1>1, <1>5
<1>7. BytesOf(more)[len + 1] = BytesOf(more)[len] + tile.bytes
  BY <1>1, <1>4, <1>5, <1>6
<1>8. TotalBytes(more) = TotalBytes(tiles) + tile.bytes
  BY <1>1, <1>3, <1>5, <1>7 DEF TotalBytes
<1> QED
  BY <1>8 DEF more

(* A tile that is used again goes to the end.                              *)
MovedLast(tiles, i) == Append(RemoveAt(tiles, i), tiles[i])

MovedTo(tiles, i, k) == IF k < i THEN k ELSE IF k < Len(tiles) THEN k + 1 ELSE i

LEMMA MovedIs ==
    ASSUME NEW V, NEW tiles \in Seq(V), NEW i \in 1 .. Len(tiles)
    PROVE  /\ MovedLast(tiles, i) \in Seq(V) /\ Len(MovedLast(tiles, i)) = Len(tiles)
           /\ \A k \in 1 .. Len(tiles) : MovedLast(tiles, i)[k] = tiles[MovedTo(tiles, i, k)]
<1> DEFINE a == SubSeq(tiles, 1, i - 1)
           b == SubSeq(tiles, i + 1, Len(tiles))
           rest == RemoveAt(tiles, i)
<1>1. Len(tiles) \in Nat /\ \A k \in 1 .. Len(tiles) : tiles[k] \in V
  BY LenProperties, ElementOfSeq
<1>2. /\ a \in Seq(V) /\ Len(a) = i - 1
      /\ \A k \in 1 .. i - 1 : a[k] = tiles[k]
  <2>1. \A k \in 1 .. i - 1 : tiles[k] \in V
    BY <1>1
  <2>2. /\ a \in Seq(V) /\ Len(a) = IF 1 <= i - 1 THEN (i - 1) - 1 + 1 ELSE 0
        /\ \A k \in 1 .. (i - 1) - 1 + 1 : a[k] = tiles[1 + k - 1]
    BY <1>1, <2>1, SubSeqProperties
  <2> HIDE DEF a
  <2> QED
    BY <1>1, <2>2
<1>3. /\ b \in Seq(V) /\ Len(b) = Len(tiles) - i
      /\ \A k \in 1 .. Len(tiles) - i : b[k] = tiles[i + k]
  <2>1. \A k \in i + 1 .. Len(tiles) : tiles[k] \in V
    BY <1>1
  <2>2. /\ b \in Seq(V) /\ Len(b) = IF i + 1 <= Len(tiles) THEN Len(tiles) - (i + 1) + 1 ELSE 0
        /\ \A k \in 1 .. Len(tiles) - (i + 1) + 1 : b[k] = tiles[i + 1 + k - 1]
    BY <1>1, <2>1, SubSeqProperties
  <2> HIDE DEF b
  <2> QED
    BY <1>1, <2>2
<1>4. rest = a \o b
  BY DEF RemoveAt
<1> HIDE DEF a, b
<1>5. /\ rest \in Seq(V) /\ Len(rest) = Len(a) + Len(b)
      /\ \A k \in 1 .. Len(a) + Len(b) : rest[k] = IF k <= Len(a) THEN a[k] ELSE b[k - Len(a)]
  <2>1. a \in Seq(V) /\ b \in Seq(V)
    BY <1>2, <1>3
  <2>2. /\ a \o b \in Seq(V) /\ Len(a \o b) = Len(a) + Len(b)
        /\ \A k \in 1 .. Len(a) + Len(b) : (a \o b)[k] = IF k <= Len(a) THEN a[k] ELSE b[k - Len(a)]
    BY <2>1, ConcatProperties
  <2> QED
    BY <1>4, <2>2
<1> HIDE DEF rest
<1>6. Len(rest) = Len(tiles) - 1
  BY <1>1, <1>2, <1>3, <1>5
<1>7. ASSUME NEW k \in 1 .. Len(tiles) - 1 PROVE rest[k] = tiles[IF k < i THEN k ELSE k + 1]
  <2>1. k \in 1 .. Len(a) + Len(b)
    BY <1>1, <1>2, <1>3
  <2>2. rest[k] = IF k <= Len(a) THEN a[k] ELSE b[k - Len(a)]
    BY <1>5, <2>1
  <2>3. CASE k < i
    <3>1. k <= Len(a) /\ k \in 1 .. i - 1
      BY <1>1, <1>2, <2>3
    <3> QED
      BY <1>2, <2>2, <2>3, <3>1
  <2>4. CASE ~(k < i)
    <3>1. ~(k <= Len(a)) /\ k - Len(a) \in 1 .. Len(tiles) - i /\ i + (k - Len(a)) = k + 1
      BY <1>1, <1>2, <2>4
    <3> QED
      BY <1>3, <2>2, <2>4, <3>1
  <2> QED
    BY <2>3, <2>4
<1> DEFINE moved == Append(rest, tiles[i])
<1>8. tiles[i] \in V
  BY <1>1
<1>9. /\ moved \in Seq(V) /\ Len(moved) = Len(rest) + 1 /\ moved[Len(rest) + 1] = tiles[i]
      /\ \A k \in 1 .. Len(rest) : moved[k] = rest[k]
  BY <1>5, <1>8, AppendProperties
<1>10. MovedLast(tiles, i) = moved
  BY DEF MovedLast, rest
<1> HIDE DEF moved
<1>11. Len(moved) = Len(tiles) /\ moved[Len(tiles)] = tiles[i]
  BY <1>1, <1>6, <1>9
<1>12. ASSUME NEW k \in 1 .. Len(tiles) PROVE moved[k] = tiles[MovedTo(tiles, i, k)]
  <2>1. CASE k = Len(tiles)
    <3>1. MovedTo(tiles, i, k) = i
      BY <1>1, <2>1 DEF MovedTo
    <3> QED
      BY <1>11, <2>1, <3>1
  <2>2. CASE k # Len(tiles)
    <3>1. k \in 1 .. Len(tiles) - 1 /\ k \in 1 .. Len(rest) /\ k < Len(tiles)
      BY <1>1, <1>6, <2>2
    <3>2. moved[k] = tiles[IF k < i THEN k ELSE k + 1]
      BY <1>7, <1>9, <3>1
    <3> QED
      BY <3>1, <3>2 DEF MovedTo
  <2> QED
    BY <2>1, <2>2
<1> QED
  BY <1>9, <1>10, <1>11, <1>12

LEMMA BytesMoved ==
    ASSUME NEW tiles \in Seq(CachedTiles), NEW i \in 1 .. Len(tiles)
    PROVE  TotalBytes(MovedLast(tiles, i)) = TotalBytes(tiles)
<1> DEFINE sum == BytesOf(tiles)
           moved == MovedLast(tiles, i)
           other == BytesOf(moved)
           S == {n \in 0 .. Len(tiles) :
                    other[n] = IF n < i THEN sum[n]
                               ELSE IF n < Len(tiles) THEN sum[n + 1] - tiles[i].bytes ELSE sum[n]}
<1>1. /\ Len(tiles) \in Nat /\ sum \in [0 .. Len(tiles) -> Nat] /\ sum[0] = 0
      /\ \A n \in 1 .. Len(tiles) : sum[n] = sum[n - 1] + tiles[n].bytes /\ tiles[n].bytes \in Nat
  BY BytesAdd, TileFacts DEF BytesAre
<1>2. /\ moved \in Seq(CachedTiles) /\ Len(moved) = Len(tiles)
      /\ \A k \in 1 .. Len(tiles) : moved[k] = tiles[MovedTo(tiles, i, k)]
  BY MovedIs
<1> HIDE DEF moved
<1>3. other[0] = 0 /\ \A n \in 1 .. Len(tiles) : other[n] = other[n - 1] + moved[n].bytes
  BY <1>2, BytesAdd DEF BytesAre
<1> HIDE DEF sum, other
<1>4. 0 \in S
  BY <1>1, <1>3
<1>5. ASSUME NEW n \in 1 .. Len(tiles), n - 1 \in S PROVE n \in S
  <2>0. PICK len \in Nat : len = Len(tiles)
    BY <1>1
  <2>1. other[n] = other[n - 1] + tiles[MovedTo(tiles, i, n)].bytes
    BY <1>2, <1>3
  <2>2. other[n - 1] = IF n - 1 < i THEN sum[n - 1]
                       ELSE IF n - 1 < len THEN sum[(n - 1) + 1] - tiles[i].bytes ELSE sum[n - 1]
    BY <1>5, <2>0
  <2>3. /\ sum[n] = sum[n - 1] + tiles[n].bytes /\ tiles[n].bytes \in Nat /\ sum[n - 1] \in Nat /\ sum[n] \in Nat
        /\ sum[i] = sum[i - 1] + tiles[i].bytes /\ tiles[i].bytes \in Nat /\ sum[i - 1] \in Nat
        /\ (n - 1) + 1 = n /\ n \in 0 .. len /\ n <= len /\ i <= len
    <3>1. n - 1 \in 0 .. Len(tiles) /\ n \in 0 .. Len(tiles) /\ i - 1 \in 0 .. Len(tiles)
      BY <1>1
    <3>2. sum[n - 1] \in Nat /\ sum[n] \in Nat /\ sum[i - 1] \in Nat
      BY <1>1, <3>1
    <3> QED
      BY <1>1, <2>0, <3>1, <3>2
  <2>4. CASE n < i
    <3>1. MovedTo(tiles, i, n) = n /\ n - 1 < i
      BY <2>4 DEF MovedTo
    <3> QED
      BY <2>0, <2>1, <2>2, <2>3, <2>4, <3>1
  <2>5. CASE n >= i /\ n < len
    <3>1. MovedTo(tiles, i, n) = n + 1
      BY <2>0, <2>5 DEF MovedTo
    <3>2. n + 1 \in 1 .. Len(tiles) /\ (n + 1) - 1 = n
      BY <2>0, <2>5
    <3>3. sum[n + 1] = sum[n] + tiles[n + 1].bytes /\ tiles[n + 1].bytes \in Nat
      BY <1>1, <3>2
    <3>4. other[n - 1] = sum[n] - tiles[i].bytes
      <4>1. CASE n = i
        <5>1. other[n - 1] = sum[i - 1]
          BY <2>2, <4>1
        <5> QED
          BY <2>3, <4>1, <5>1
      <4>2. CASE n # i
        <5>1. ~(n - 1 < i) /\ n - 1 < len
          BY <2>5, <4>2
        <5> QED
          BY <2>2, <2>3, <5>1
      <4> QED
        BY <4>1, <4>2
    <3>5. other[n] = sum[n + 1] - tiles[i].bytes
      <4>1. PICK x, y, z : x = sum[n] /\ y = tiles[n + 1].bytes /\ z = tiles[i].bytes
        OBVIOUS
      <4>2. x \in Nat /\ y \in Nat /\ z \in Nat /\ sum[n + 1] = x + y
        BY <2>3, <3>3, <4>1
      <4>3. other[n] = (x - z) + y
        BY <2>1, <3>1, <3>4, <4>1
      <4>4. (x - z) + y = (x + y) - z
        BY <4>2
      <4> QED
        BY <4>1, <4>2, <4>3, <4>4
    <3> QED
      BY <2>0, <2>3, <2>5, <3>5
  <2>6. CASE n = len
    <3>1. MovedTo(tiles, i, n) = i /\ ~(n < i)
      BY <2>0, <2>6 DEF MovedTo
    <3>2. other[n] = other[n - 1] + tiles[i].bytes
      BY <2>1, <3>1
    <3>3. other[n] = sum[n]
      <4>1. CASE n = i
        <5>1. other[n - 1] = sum[i - 1]
          BY <2>2, <4>1
        <5> QED
          BY <2>3, <3>2, <4>1, <5>1
      <4>2. CASE n # i
        <5>1. ~(n - 1 < i) /\ n - 1 < len
          BY <2>6, <3>1, <4>2
        <5>2. other[n - 1] = sum[n] - tiles[i].bytes
          BY <2>2, <2>3, <5>1
        <5> QED
          BY <2>3, <3>2, <5>2
      <4> QED
        BY <4>1, <4>2
    <3> QED
      BY <2>0, <2>3, <2>6, <3>1, <3>3
  <2> QED
    BY <2>0, <2>4, <2>5, <2>6
<1>6. Len(tiles) \in S
  <2>1. \A n \in 1 .. Len(tiles) : n - 1 \in S => n \in S
    BY <1>5
  <2>2. \A n \in 0 .. Len(tiles) : n \in S
    <3> HIDE DEF S
    <3> QED
      BY <1>1, <1>4, <2>1, Steps
  <2> QED
    BY <1>1, <2>2
<1>7. other[Len(tiles)] = sum[Len(tiles)]
  BY <1>1, <1>6
<1>8. TotalBytes(moved) = TotalBytes(tiles)
  BY <1>2, <1>7 DEF other, sum, TotalBytes
<1> QED
  BY <1>8 DEF moved

-----------------------------------------------------------------------------
(* The cache: tiles of the picture that is shown, no row twice, and within *)
(* the limit, whatever is taken from it.                                   *)
Revisions == [revision : Nat \ {0}, size : PictureSizes]

LEMMA PreviewBounds ==
    /\ ViewPad \in Nat /\ ScaleUnit \in Nat /\ LeastScale \in Nat /\ MostScale \in Nat
    /\ TileRows \in Nat /\ CacheLimit \in Nat /\ MaxRevisions \in Nat
    /\ 0 < LeastScale /\ LeastScale <= ScaleUnit /\ ScaleUnit <= MostScale /\ TileRows > 0 /\ ViewPad > 0
    /\ \A size \in PictureSizes : size[1] \in Nat /\ size[2] \in Nat /\ size[1] > 0 /\ size[2] > 0
    /\ \A area \in WindowSizes : /\ area[1] \in Nat /\ area[2] \in Nat /\ area[1] > 0 /\ area[2] > 0
                                 /\ area = <<area[1], area[2]>>
<1>1. \A pair \in (Nat \ {0}) \X (Nat \ {0}) :
        /\ pair[1] \in Nat /\ pair[2] \in Nat /\ pair[1] > 0 /\ pair[2] > 0 /\ pair = <<pair[1], pair[2]>>
  OBVIOUS
<1>2. \A pair \in PictureSizes \union WindowSizes : pair \in (Nat \ {0}) \X (Nat \ {0})
  BY PreviewAssumption
<1> QED
  BY <1>1, <1>2, PreviewAssumption

LEMMA TileIs ==
    ASSUME pvShown \in Revisions, NEW row \in Nat, row < pvShown.size[2]
    PROVE  TileAt(row) \in CachedTiles /\ TileAt(row).row = row /\ TileAt(row).revision = pvShown.revision
<1>1. PICK w, h : w = pvShown.size[1] /\ h = pvShown.size[2]
  OBVIOUS
<1>2. w \in Nat /\ h \in Nat /\ row < h /\ TileRows \in Nat /\ TileRows > 0
  BY <1>1, PreviewBounds DEF Revisions
<1>3. PICK end : end = Min({row + TileRows, h})
  OBVIOUS
<1>4. end \in {row + TileRows, h}
  <2>1. row + TileRows \in Int /\ h \in Int
    BY <1>2
  <2>2. Min({row + TileRows, h}) \in {row + TileRows, h}
    BY <2>1, SmallerOfTwo
  <2> QED
    BY <1>3, <2>2
<1>5. end - row \in Nat
  BY <1>2, <1>4
<1>6. w * (end - row) \in Nat
  BY <1>2, <1>5
<1>7. TileAt(row) = [row |-> row, revision |-> pvShown.revision, bytes |-> w * (end - row)]
  BY <1>1, <1>3 DEF TileAt
<1> QED
  BY <1>6, <1>7 DEF CachedTiles, Revisions

CacheHolds(tiles) ==
    /\ tiles \in Seq(CachedTiles) /\ TotalBytes(tiles) <= CacheLimit
    /\ \A i \in 1 .. Len(tiles) : tiles[i] = TileAt(tiles[i].row)
    /\ \A i, j \in 1 .. Len(tiles) : tiles[i].row = tiles[j].row => i = j

LEMMA NoTiles == <<>> \in Seq(CachedTiles) /\ TotalBytes(<<>>) = 0
<1> DEFINE none == <<>>
<1>1. none \in Seq(CachedTiles) /\ Len(none) = 0
  OBVIOUS
<1> HIDE DEF none
<1>2. BytesOf(none)[0] = 0
  BY <1>1, BytesAdd DEF BytesAre
<1>3. none \in Seq(CachedTiles) /\ TotalBytes(none) = 0
  BY <1>1, <1>2 DEF TotalBytes
<1> QED
  BY <1>3 DEF none

(* The room for a tile is a part of the cache that leaves room for it, if  *)
(* the limit does at all.                                                  *)
LEMMA RoomMade ==
    ASSUME NEW tiles, CacheHolds(tiles), NEW bytes \in Nat
    PROVE  LET kept == RoomFor(tiles, bytes) IN
           /\ CacheHolds(kept) /\ (bytes <= CacheLimit => TotalBytes(kept) + bytes <= CacheLimit)
           /\ \E m \in 0 .. Len(tiles) : /\ Len(kept) = Len(tiles) - m
                                         /\ \A i \in 1 .. Len(kept) : kept[i] = tiles[m + i]
<1> DEFINE fits == {n \in 0 .. Len(tiles) : TotalBytes(tiles) - BytesOf(tiles)[n] + bytes <= CacheLimit}
           gone == Min(fits \union {Len(tiles)})
           kept == RoomFor(tiles, bytes)
<1>1. /\ tiles \in Seq(CachedTiles) /\ Len(tiles) \in Nat /\ TotalBytes(tiles) \in Nat /\ CacheLimit \in Nat
      /\ TotalBytes(tiles) <= CacheLimit
      /\ \A n \in 0 .. Len(tiles) : BytesOf(tiles)[n] \in Nat
  BY BytesAdd, TileFacts, PreviewBounds DEF CacheHolds, BytesAre, TotalBytes
<1>2. gone \in 0 .. Len(tiles) /\ (gone \in fits \/ gone = Len(tiles))
  <2>1. fits \union {Len(tiles)} \in SUBSET Nat /\ fits \union {Len(tiles)} \subseteq 0 .. Len(tiles)
    BY <1>1
  <2> DEFINE T == fits \union {Len(tiles)}
  <2>2. T # {} /\ T \in SUBSET Nat /\ T \subseteq 0 .. Len(tiles)
    BY <2>1
  <2> HIDE DEF T
  <2>3. \E x \in T : \A y \in T : x <= y
    BY <2>2, LeastOfNats
  <2>4. Min(T) \in T
    BY <2>3 DEF Min
  <2> QED
    BY <2>2, <2>4 DEF T
<1>3. kept = SubSeq(tiles, gone + 1, Len(tiles))
  BY DEF RoomFor
<1> HIDE DEF gone, kept
<1>4. /\ kept \in Seq(CachedTiles) /\ Len(kept) = Len(tiles) - gone
      /\ \A i \in 1 .. Len(tiles) - gone : kept[i] = tiles[gone + i]
  <2>1. \A k \in gone + 1 .. Len(tiles) : tiles[k] \in CachedTiles
    BY <1>1, <1>2, TileFacts
  <2>2. /\ kept \in Seq(CachedTiles)
        /\ Len(kept) = IF gone + 1 <= Len(tiles) THEN Len(tiles) - (gone + 1) + 1 ELSE 0
        /\ \A k \in 1 .. Len(tiles) - (gone + 1) + 1 : kept[k] = tiles[gone + 1 + k - 1]
    BY <1>1, <1>2, <1>3, <2>1, SubSeqProperties
  <2> QED
    BY <1>1, <1>2, <2>2
<1>5. TotalBytes(kept) = TotalBytes(tiles) - BytesOf(tiles)[gone]
  BY <1>1, <1>2, <1>4, BytesLeft
<1>6. TotalBytes(kept) <= CacheLimit
  <2>1. BytesOf(tiles)[gone] \in Nat
    BY <1>1, <1>2
  <2> QED
    BY <1>1, <1>5, <2>1
<1>7. bytes <= CacheLimit => TotalBytes(kept) + bytes <= CacheLimit
  <2>1. CASE gone \in fits
    BY <1>5, <2>1
  <2>2. CASE gone = Len(tiles)
    <3>1. TotalBytes(kept) = 0
      BY <1>1, <1>5, <2>2 DEF TotalBytes
    <3> QED
      BY <1>1, <3>1
  <2> QED
    BY <1>2, <2>1, <2>2
<1>8. \A i \in 1 .. Len(kept) : gone + i \in 1 .. Len(tiles) /\ kept[i] = tiles[gone + i]
  BY <1>1, <1>2, <1>4
<1>9. \A i \in 1 .. Len(kept) : kept[i] = TileAt(kept[i].row)
  BY <1>8 DEF CacheHolds
<1>10. \A i, j \in 1 .. Len(kept) : kept[i].row = kept[j].row => i = j
  <2> TAKE i, j \in 1 .. Len(kept)
  <2> HAVE kept[i].row = kept[j].row
  <2>1. tiles[gone + i].row = tiles[gone + j].row
    BY <1>8
  <2>2. gone + i = gone + j
    BY <1>8, <2>1 DEF CacheHolds
  <2> QED
    BY <1>1, <1>2, <1>4, <2>2
<1>11. CacheHolds(kept)
  BY <1>4, <1>6, <1>9, <1>10 DEF CacheHolds
<1>12. \E m \in 0 .. Len(tiles) : /\ Len(kept) = Len(tiles) - m
                                 /\ \A i \in 1 .. Len(kept) : kept[i] = tiles[m + i]
  BY <1>2, <1>4, <1>8
<1> QED
  BY <1>7, <1>11, <1>12 DEF kept

LEMMA TileGot ==
    ASSUME pvShown \in Revisions, NEW tiles, CacheHolds(tiles), NEW row \in Nat, row < pvShown.size[2]
    PROVE  GetTile(tiles, row).tile = TileAt(row) /\ CacheHolds(GetTile(tiles, row).tiles)
<1> DEFINE known == {i \in DOMAIN tiles : tiles[i].row = row}
           new == TileAt(row)
<1>1. /\ tiles \in Seq(CachedTiles) /\ Len(tiles) \in Nat /\ DOMAIN tiles = 1 .. Len(tiles)
      /\ \A i \in 1 .. Len(tiles) : tiles[i] \in CachedTiles /\ tiles[i] = TileAt(tiles[i].row)
      /\ \A i, j \in 1 .. Len(tiles) : tiles[i].row = tiles[j].row => i = j
      /\ TotalBytes(tiles) <= CacheLimit
  BY TileFacts DEF CacheHolds
<1>2. CASE known # {}
  <2> DEFINE i == Min(known)
  <2>1. known \in SUBSET Nat
    BY <1>1
  <2>2. i \in known
    <3> HIDE DEF known
    <3>1. \E x \in known : \A y \in known : x <= y
      BY <1>2, <2>1, LeastOfNats
    <3> QED
      BY <3>1 DEF Min
  <2>3. i \in 1 .. Len(tiles) /\ tiles[i].row = row
    BY <1>1, <2>2
  <2>4. GetTile(tiles, row) = [tile |-> tiles[i], tiles |-> MovedLast(tiles, i)]
    BY <1>2 DEF GetTile, MovedLast
  <2> HIDE DEF known, i
  <2>5. tiles[i] = TileAt(row)
    BY <1>1, <2>3
  <2> DEFINE moved == MovedLast(tiles, i)
  <2>6. /\ moved \in Seq(CachedTiles) /\ Len(moved) = Len(tiles)
        /\ \A k \in 1 .. Len(tiles) : moved[k] = tiles[MovedTo(tiles, i, k)]
    BY <1>1, <2>3, MovedIs
  <2>7. TotalBytes(moved) <= CacheLimit
    BY <1>1, <2>3, BytesMoved
  <2> HIDE DEF moved
  <2>8. /\ \A k \in 1 .. Len(tiles) : MovedTo(tiles, i, k) \in 1 .. Len(tiles)
        /\ \A k, l \in 1 .. Len(tiles) : MovedTo(tiles, i, k) = MovedTo(tiles, i, l) => k = l
    BY <1>1, <2>3 DEF MovedTo
  <2>9. \A k \in 1 .. Len(moved) : moved[k] = TileAt(moved[k].row)
    BY <1>1, <2>6, <2>8
  <2>10. \A k, l \in 1 .. Len(moved) : moved[k].row = moved[l].row => k = l
    BY SMTT(25), <1>1, <2>6, <2>8
  <2>11. CacheHolds(moved)
    BY <2>6, <2>7, <2>9, <2>10 DEF CacheHolds
  <2> QED
    BY <2>4, <2>5, <2>11 DEF moved
<1>3. CASE known = {}
  <2> DEFINE kept == RoomFor(tiles, new.bytes)
             more == Append(kept, new)
  <2>1. new \in CachedTiles /\ new.row = row
    BY TileIs
  <2>2. new.bytes \in Nat
    BY <2>1 DEF CachedTiles
  <2>3. GetTile(tiles, row) = [tile |-> new, tiles |-> IF new.bytes <= CacheLimit THEN more ELSE kept]
    BY <1>3 DEF GetTile
  <2>4. \A i \in 1 .. Len(tiles) : tiles[i].row # row
    BY <1>1, <1>3
  <2> HIDE DEF known
  <2>5. /\ CacheHolds(kept) /\ (new.bytes <= CacheLimit => TotalBytes(kept) + new.bytes <= CacheLimit)
        /\ \E m \in 0 .. Len(tiles) : /\ Len(kept) = Len(tiles) - m
                                      /\ \A i \in 1 .. Len(kept) : kept[i] = tiles[m + i]
    <3> HIDE DEF new
    <3> QED
      BY <2>2, RoomMade
  <2> HIDE DEF kept
  <2>6. ASSUME new.bytes <= CacheLimit PROVE CacheHolds(more)
    <3>1. kept \in Seq(CachedTiles) /\ Len(kept) \in Nat
      BY <2>5, TileFacts DEF CacheHolds
    <3>2. TotalBytes(more) = TotalBytes(kept) + new.bytes
      BY <2>1, <3>1, BytesAppended
    <3>3. /\ more \in Seq(CachedTiles) /\ Len(more) = Len(kept) + 1 /\ more[Len(kept) + 1] = new
          /\ \A i \in 1 .. Len(kept) : more[i] = kept[i]
      BY <2>1, <3>1, AppendProperties
    <3>4. \A i \in 1 .. Len(kept) : kept[i].row # row
      <4>1. PICK m \in 0 .. Len(tiles) : /\ Len(kept) = Len(tiles) - m
                                         /\ \A i \in 1 .. Len(kept) : kept[i] = tiles[m + i]
        BY <2>5
      <4>2. \A i \in 1 .. Len(kept) : m + i \in 1 .. Len(tiles)
        BY <1>1, <4>1
      <4> QED
        BY <2>4, <4>1, <4>2
    <3> HIDE DEF more
    <3>5. \A i \in 1 .. Len(more) : i \in 1 .. Len(kept) \/ i = Len(kept) + 1
      BY <3>1, <3>3
    <3>6. \A i \in 1 .. Len(more) : more[i] = TileAt(more[i].row)
      <4> TAKE i \in 1 .. Len(more)
      <4>1. CASE i \in 1 .. Len(kept)
        BY <2>5, <3>3, <4>1 DEF CacheHolds
      <4>2. CASE i = Len(kept) + 1
        <5>1. more[i] = new /\ more[i].row = row
          BY <2>1, <3>3, <4>2
        <5> QED
          BY <5>1
      <4> QED
        BY <3>5, <4>1, <4>2
    <3>7. \A i, j \in 1 .. Len(more) : more[i].row = more[j].row => i = j
      <4>1. \A i \in 1 .. Len(kept) : more[i].row # row
        BY <3>3, <3>4
      <4>2. more[Len(kept) + 1].row = row
        BY <2>1, <3>3
      <4>3. \A i, j \in 1 .. Len(kept) : more[i].row = more[j].row => i = j
        BY <2>5, <3>3 DEF CacheHolds
      <4> QED
        BY <3>5, <4>1, <4>2, <4>3
    <3>8. TotalBytes(more) <= CacheLimit
      BY <2>5, <2>6, <3>2
    <3> QED
      BY <3>3, <3>6, <3>7, <3>8 DEF CacheHolds
  <2> HIDE DEF more, new
  <2>7. GetTile(tiles, row).tile = new
    BY <2>3
  <2>8. CASE new.bytes <= CacheLimit
    BY <2>3, <2>6, <2>7, <2>8 DEF new
  <2>9. CASE ~(new.bytes <= CacheLimit)
    BY <2>3, <2>5, <2>7, <2>9 DEF new
  <2> QED
    BY <2>8, <2>9
<1> QED
  BY <1>2, <1>3

(* The rows of tiles that are drawn, and the cache after them.             *)
RowAt(first, n) == (first + n - 1) * TileRows

DrawnTo(first, n) == {TileAt(RowAt(first, i)) : i \in 1 .. n}

DrawStep(state, row) ==
    [tiles |-> GetTile(state.tiles, row).tiles, drawn |-> state.drawn \union {GetTile(state.tiles, row).tile}]

DrawStart(tiles) == [tiles |-> tiles, drawn |-> {}]

LEMMA RowsDrawn ==
    ASSUME pvShown \in Revisions, NEW tiles, CacheHolds(tiles), NEW first \in Nat, NEW count \in Nat,
           \A n \in 1 .. count : RowAt(first, n) \in Nat /\ RowAt(first, n) < pvShown.size[2]
    PROVE  /\ CacheHolds(DrawnRows(tiles, first, count)[count].tiles)
           /\ DrawnRows(tiles, first, count)[count].drawn = DrawnTo(first, count)
<1> DEFINE Caches == {some \in Seq(CachedTiles) : CacheHolds(some)}
           V == [tiles : Caches, drawn : SUBSET CachedTiles]
           step == [n \in 1 .. count |-> [state \in V |-> DrawStep(state, RowAt(first, n))]]
           start == DrawStart(tiles)
           Draws(f) == [n \in 0 .. count |-> IF n = 0 THEN DrawStart(tiles)
                                             ELSE DrawStep(f[n - 1], RowAt(first, n))]
<1>1. start \in V
  BY DEF CacheHolds, DrawStart
<1>2. ASSUME NEW n \in 1 .. count, NEW state \in V PROVE DrawStep(state, RowAt(first, n)) \in V
  <2>1. CacheHolds(state.tiles) /\ state.drawn \in SUBSET CachedTiles
    OBVIOUS
  <2>2. /\ GetTile(state.tiles, RowAt(first, n)).tile = TileAt(RowAt(first, n))
        /\ CacheHolds(GetTile(state.tiles, RowAt(first, n)).tiles)
    BY <2>1, TileGot
  <2>3. TileAt(RowAt(first, n)) \in CachedTiles
    BY TileIs
  <2>4. GetTile(state.tiles, RowAt(first, n)).tiles \in Caches
    BY <2>2 DEF CacheHolds
  <2> HIDE DEF Caches
  <2> QED
    BY <2>1, <2>2, <2>3, <2>4 DEF DrawStep
<1>3. IsStep(step, count, V)
  <2> HIDE DEF V
  <2> QED
    BY <1>2 DEF IsStep
<1>4. PICK f : IsRun(f, count, V, start, step)
  <2> HIDE DEF V, step, start
  <2> QED
    BY <1>1, <1>3, Iterates
<1>5. f = Draws(f)
  <2> HIDE DEF V
  <2>1. ASSUME NEW n \in 0 .. count PROVE f[n] = Draws(f)[n]
    <3>1. CASE n = 0
      BY <1>4, <3>1 DEF IsRun
    <3>2. CASE n # 0
      <4>1. n \in 1 .. count /\ n - 1 \in 0 .. count
        BY <3>2
      <4>2. f[n - 1] \in V /\ f[n] = step[n][f[n - 1]]
        BY <1>4, <4>1 DEF IsRun
      <4>3. step[n][f[n - 1]] = DrawStep(f[n - 1], RowAt(first, n))
        BY <4>1, <4>2
      <4> QED
        BY <3>2, <4>2, <4>3
    <3> QED
      BY <3>1, <3>2
  <2> QED
    BY <1>4, <2>1 DEF IsRun
<1> DEFINE got == DrawnRows(tiles, first, count)
<1>6. got = CHOOSE g : g = Draws(g)
  BY DEF DrawnRows, DrawStep, RowAt, DrawStart
<1>7. got = Draws(got)
  BY <1>5, <1>6
<1> HIDE DEF got
<1> DEFINE S == {n \in 0 .. count : CacheHolds(got[n].tiles) /\ got[n].drawn = DrawnTo(first, n)}
<1>8. 0 \in S
  <2>1. got[0] = DrawStart(tiles)
    BY <1>7
  <2>2. DrawnTo(first, 0) = {}
    BY DEF DrawnTo
  <2> QED
    BY <2>1, <2>2 DEF DrawStart
<1>9. ASSUME NEW n \in 1 .. count, n - 1 \in S PROVE n \in S
  <2> DEFINE row == RowAt(first, n)
  <2>1. got[n] = DrawStep(got[n - 1], row)
    BY <1>7
  <2>2. CacheHolds(got[n - 1].tiles) /\ got[n - 1].drawn = DrawnTo(first, n - 1)
    BY <1>9
  <2>3. row \in Nat /\ row < pvShown.size[2]
    OBVIOUS
  <2> HIDE DEF row
  <2>4. GetTile(got[n - 1].tiles, row).tile = TileAt(row) /\ CacheHolds(GetTile(got[n - 1].tiles, row).tiles)
    BY <2>2, <2>3, TileGot
  <2>5. CacheHolds(got[n].tiles)
    BY <2>1, <2>4 DEF DrawStep
  <2>6. got[n].drawn = DrawnTo(first, n - 1) \union {TileAt(row)}
    BY <2>1, <2>2, <2>4 DEF DrawStep
  <2>7. 1 .. n = (1 .. n - 1) \union {n}
    OBVIOUS
  <2>8. DrawnTo(first, n) = DrawnTo(first, n - 1) \union {TileAt(row)}
    BY <2>7 DEF DrawnTo, row
  <2>9. n \in 0 .. count /\ got[n].drawn = DrawnTo(first, n)
    BY <2>6, <2>8
  <2> QED
    BY <2>5, <2>9
<1>10. count \in S
  <2>1. \A n \in 1 .. count : n - 1 \in S => n \in S
    BY <1>9
  <2>2. \A n \in 0 .. count : n \in S
    <3> HIDE DEF S
    <3> QED
      BY <1>8, <2>1, Steps
  <2> QED
    BY <2>2
<1> QED
  BY <1>10 DEF got

-----------------------------------------------------------------------------
(* The arithmetic of the view.                                             *)
LEMMA Quotient ==
    ASSUME NEW a \in Nat, NEW d \in Nat, d > 0
    PROVE  /\ a \div d \in Nat /\ d * (a \div d) <= a /\ a < d * (a \div d) + d
OBVIOUS

LEMMA Products ==
    ASSUME NEW a \in Int, NEW b \in Int, NEW d \in Nat, d > 0
    PROVE  /\ a * d \in Int /\ (a * d < b * d => a < b) /\ (a <= b => a * d <= b * d) /\ (a < b => a * d + d <= b * d)
OBVIOUS

Views == [vw : Nat, vh : Nat, scale : LeastScale .. MostScale, x : Int, y : Int, fit : BOOLEAN]

(* A view of a window, within its limits.                                  *)
OfWindow(view) == view \in Views /\ <<view.vw, view.vh>> \in WindowSizes
Inside(size, view) ==
    OfWindow(view) /\ view.x \in 0 .. Limits(size, view).x /\ view.y \in 0 .. Limits(size, view).y

LEMMA ScaledIs ==
    ASSUME NEW length \in Nat, NEW scale \in Nat
    PROVE  /\ Scaled(length, scale) \in Nat /\ length * scale \in Nat
           /\ length * scale < ScaleUnit * Scaled(length, scale) + ScaleUnit
<1>1. PICK product : product = length * scale
  OBVIOUS
<1>2. product \in Nat
  BY <1>1
<1>3. ScaleUnit \in Nat /\ ScaleUnit > 0
  BY PreviewBounds
<1>4. product \div ScaleUnit \in Nat /\ product < ScaleUnit * (product \div ScaleUnit) + ScaleUnit
  BY <1>2, <1>3, Quotient
<1> QED
  BY <1>1, <1>2, <1>4 DEF Scaled

LEMMA LimitsAre ==
    ASSUME NEW size \in PictureSizes, NEW view \in Views
    PROVE  /\ Limits(size, view).x \in Nat /\ Limits(size, view).y \in Nat
           /\ Limits(size, view).y >= Scaled(size[2], view.scale) + 2 * ViewPad - view.vh
<1>1. size[1] \in Nat /\ size[2] \in Nat /\ view.scale \in Nat /\ view.vw \in Nat /\ view.vh \in Nat /\ ViewPad \in Nat
  BY PreviewBounds DEF Views
<1>2. PICK w, h : w = Scaled(size[1], view.scale) + 2 * ViewPad - view.vw
                  /\ h = Scaled(size[2], view.scale) + 2 * ViewPad - view.vh
  OBVIOUS
<1>3. w \in Int /\ h \in Int
  <2>1. Scaled(size[1], view.scale) \in Nat /\ Scaled(size[2], view.scale) \in Nat
    BY <1>1, ScaledIs
  <2> QED
    BY <1>1, <1>2, <2>1
<1>4. Max({w, 0}) \in {w, 0} /\ Max({w, 0}) >= 0 /\ Max({h, 0}) \in {h, 0} /\ Max({h, 0}) >= 0 /\ Max({h, 0}) >= h
  BY <1>3, LargerOfTwo
<1>5. Limits(size, view).x = Max({w, 0}) /\ Limits(size, view).y = Max({h, 0})
  BY <1>2 DEF Limits
<1> QED
  BY <1>2, <1>3, <1>4, <1>5

LEMMA BetweenIs ==
    ASSUME NEW low \in Int, NEW high \in Int, low <= high, NEW value \in Int
    PROVE  Between(low, value, high) \in low .. high
<1>1. PICK least : least = Min({value, high})
  OBVIOUS
<1>2. least \in Int /\ least <= high
  BY <1>1, SmallerOfTwo
<1>3. Max({low, least}) \in {low, least} /\ Max({low, least}) >= low
  BY <1>2, LargerOfTwo
<1>4. Between(low, value, high) = Max({low, least})
  BY <1>1 DEF Between
<1> QED
  BY <1>2, <1>3, <1>4

LEMMA LimitsKeep ==
    ASSUME NEW size \in PictureSizes, NEW view, OfWindow(view)
    PROVE  /\ Inside(size, ToLimits(size, view)) /\ ToLimits(size, view).scale = view.scale
           /\ ToLimits(size, view).vw = view.vw /\ ToLimits(size, view).vh = view.vh
<1>1. view \in Views /\ view.x \in Int /\ view.y \in Int
  BY DEF OfWindow, Views
<1>2. PICK limits : limits = Limits(size, view)
  OBVIOUS
<1>3. limits.x \in Nat /\ limits.y \in Nat
  BY <1>1, <1>2, LimitsAre
<1>4. PICK x, y : x = Between(0, view.x, limits.x) /\ y = Between(0, view.y, limits.y)
  OBVIOUS
<1>5. x \in 0 .. limits.x /\ y \in 0 .. limits.y
  <2>1. /\ 0 \in Int /\ limits.x \in Int /\ limits.y \in Int /\ 0 <= limits.x /\ 0 <= limits.y
        /\ view.x \in Int /\ view.y \in Int
    BY <1>1, <1>3
  <2>2. Between(0, view.x, limits.x) \in 0 .. limits.x
    BY <2>1, BetweenIs
  <2>3. Between(0, view.y, limits.y) \in 0 .. limits.y
    BY <2>1, BetweenIs
  <2> QED
    BY <1>4, <2>2, <2>3
<1>6. ToLimits(size, view) = [view EXCEPT !.x = x, !.y = y]
  BY <1>2, <1>4 DEF ToLimits, Between
<1> DEFINE new == [view EXCEPT !.x = x, !.y = y]
<1>7. /\ new.vw = view.vw /\ new.vh = view.vh /\ new.scale = view.scale /\ new.fit = view.fit
      /\ new.x = x /\ new.y = y /\ new \in Views
  <2>1. x \in Int /\ y \in Int
    BY <1>3, <1>5
  <2> QED
    BY <1>1, <2>1 DEF Views
<1> HIDE DEF new
<1>8. Limits(size, new) = limits
  BY <1>2, <1>7 DEF Limits
<1>9. Inside(size, new)
  BY <1>5, <1>7, <1>8 DEF Inside, OfWindow
<1> QED
  BY <1>6, <1>7, <1>9 DEF new

LEMMA ResizedInside ==
    ASSUME NEW size \in PictureSizes, NEW view \in Views, NEW area \in WindowSizes
    PROVE  Inside(size, ResizedTo(size, view, area))
<1>1. /\ size[1] \in Nat /\ size[1] > 0 /\ area[1] \in Nat /\ area[2] \in Nat /\ area = <<area[1], area[2]>>
      /\ ViewPad \in Nat /\ ScaleUnit \in Nat /\ LeastScale \in Nat /\ LeastScale > 0 /\ LeastScale <= ScaleUnit
      /\ ScaleUnit <= MostScale /\ MostScale \in Nat
  BY PreviewBounds
<1> DEFINE room == Max({area[1] - 2 * ViewPad, 0})
           wanted == (ScaleUnit * room) \div size[1]
           fitted == Between(LeastScale, wanted, ScaleUnit)
           sized == [view EXCEPT !.vw = area[1], !.vh = area[2]]
           scaled == [sized EXCEPT !.scale = fitted, !.y = (@ * fitted) \div view.scale]
           new == IF view.fit THEN scaled ELSE sized
<1>2. fitted \in LeastScale .. ScaleUnit
  <2>1. area[1] - 2 * ViewPad \in Int
    BY <1>1
  <2>2. room \in Nat
    <3>1. PICK d : d = area[1] - 2 * ViewPad
      OBVIOUS
    <3>2. Max({d, 0}) \in {d, 0} /\ Max({d, 0}) >= 0
      <4>1. d \in Int /\ 0 \in Int
        BY <2>1, <3>1
      <4> QED
        BY <4>1, LargerOfTwo
    <3> QED
      BY <2>1, <3>1, <3>2
  <2> HIDE DEF room
  <2>3. PICK product : product = ScaleUnit * room
    OBVIOUS
  <2>4. product \in Nat
    BY <1>1, <2>2, <2>3
  <2>5. wanted \in Nat
    BY <1>1, <2>3, <2>4, Quotient
  <2> HIDE DEF wanted
  <2> QED
    BY <1>1, <2>5, BetweenIs
<1> HIDE DEF fitted
<1>3. /\ sized \in Views /\ sized.vw = area[1] /\ sized.vh = area[2] /\ sized.y = view.y
  BY <1>1 DEF Views
<1>4. scaled \in Views /\ scaled.vw = area[1] /\ scaled.vh = area[2]
  <2>1. PICK y : y = (view.y * fitted) \div view.scale
    OBVIOUS
  <2>2. view.y \in Int /\ view.scale \in Nat /\ view.scale > 0 /\ fitted \in Int
    BY <1>1, <1>2 DEF Views
  <2>3. y \in Int
    BY <2>1, <2>2
  <2>4. scaled = [sized EXCEPT !.scale = fitted, !.y = y]
    BY <1>3, <2>1
  <2>5. fitted \in LeastScale .. MostScale
    BY <1>1, <1>2
  <2> HIDE DEF sized, scaled
  <2>6. [sized EXCEPT !.scale = fitted, !.y = y] \in Views
    BY <1>3, <2>3, <2>5 DEF Views
  <2>7. [sized EXCEPT !.scale = fitted, !.y = y].vw = sized.vw /\ [sized EXCEPT !.scale = fitted, !.y = y].vh = sized.vh
    BY <1>3 DEF Views
  <2> QED
    BY <1>3, <2>4, <2>6, <2>7
<1>5. ResizedTo(size, view, area) = ToLimits(size, new)
  BY DEF ResizedTo, fitted
<1> HIDE DEF sized, scaled
<1>6. OfWindow(new)
  BY <1>1, <1>3, <1>4 DEF OfWindow
<1> HIDE DEF new
<1> QED
  BY <1>5, <1>6, LimitsKeep

LEMMA FitInside ==
    ASSUME NEW size \in PictureSizes, NEW view, OfWindow(view)
    PROVE  Inside(size, FitWidth(size, view))
<1> DEFINE fit == [view EXCEPT !.fit = TRUE]
           resized == ResizedTo(size, fit, <<view.vw, view.vh>>)
           new == [resized EXCEPT !.x = 0]
<1>1. fit \in Views /\ <<view.vw, view.vh>> \in WindowSizes
  BY DEF OfWindow, Views
<1> HIDE DEF fit
<1>2. Inside(size, resized)
  BY <1>1, ResizedInside
<1>3. FitWidth(size, view) = new
  BY DEF FitWidth, fit
<1> HIDE DEF resized
<1>4. resized \in Views /\ OfWindow(resized)
  BY <1>2 DEF Inside, OfWindow
<1>5. /\ new \in Views /\ new.vw = resized.vw /\ new.vh = resized.vh /\ new.scale = resized.scale
      /\ new.y = resized.y /\ new.x = 0
  BY <1>4 DEF Views
<1> HIDE DEF new
<1>6. Limits(size, new) = Limits(size, resized)
  BY <1>5 DEF Limits
<1>7. Limits(size, resized).x \in Nat
  BY <1>4, LimitsAre
<1> QED
  BY <1>2, <1>3, <1>4, <1>5, <1>6, <1>7 DEF Inside, OfWindow

LEMMA BaseXIs == ASSUME NEW size \in PictureSizes, NEW view \in Views PROVE BaseX(size, view) \in Int
<1>1. size[1] \in Nat /\ view.scale \in Nat /\ view.vw \in Nat /\ ViewPad \in Nat
  BY PreviewBounds DEF Views
<1>2. PICK half : half = (view.vw - Scaled(size[1], view.scale)) \div 2
  OBVIOUS
<1>3. half \in Int
  BY <1>1, <1>2, ScaledIs
<1>4. Max({half, ViewPad}) \in {half, ViewPad}
  <2>1. half \in Int /\ ViewPad \in Int
    BY <1>1, <1>3
  <2> QED
    BY <2>1, LargerOfTwo
<1> QED
  BY <1>1, <1>2, <1>3, <1>4 DEF BaseX

LEMMA ZoomedInside ==
    ASSUME NEW size \in PictureSizes, NEW view, OfWindow(view), NEW scale \in Int,
           NEW px \in Int, NEW py \in Int
    PROVE  Inside(size, Zoomed(size, view, scale, <<px, py>>))
<1> DEFINE bounded == Between(LeastScale, scale, MostScale)
           new == [view EXCEPT !.scale = bounded, !.fit = FALSE]
           qx == px - (BaseX(size, view) - view.x)
           qy == py - (ViewPad - view.y)
           x == BaseX(size, new) + (qx * bounded) \div view.scale - px
           y == ViewPad + (qy * bounded) \div view.scale - py
           last == [new EXCEPT !.x = x, !.y = y]
<1>1. /\ view \in Views /\ view.x \in Int /\ view.y \in Int /\ view.scale \in Nat /\ view.scale > 0
      /\ LeastScale \in Int /\ MostScale \in Int /\ LeastScale <= MostScale /\ ViewPad \in Nat
  BY PreviewBounds DEF OfWindow, Views
<1>2. bounded \in LeastScale .. MostScale /\ bounded \in Int
  BY <1>1, BetweenIs
<1> HIDE DEF bounded
<1>3. new \in Views /\ new.scale = bounded /\ new.vw = view.vw /\ new.vh = view.vh
  BY <1>1, <1>2 DEF Views
<1> HIDE DEF new
<1>4. qx \in Int /\ qy \in Int
  BY <1>1, BaseXIs
<1> HIDE DEF qx, qy
<1>5. x \in Int /\ y \in Int
  <2>1. PICK a, b : a = qx * bounded /\ b = qy * bounded
    OBVIOUS
  <2>2. a \in Int /\ b \in Int
    BY <1>2, <1>4, <2>1
  <2>3. a \div view.scale \in Int /\ b \div view.scale \in Int
    BY <1>1, <2>2
  <2>4. BaseX(size, new) \in Int
    BY <1>3, BaseXIs
  <2> QED
    BY <1>1, <2>1, <2>3, <2>4
<1>6. Zoomed(size, view, scale, <<px, py>>) = ToLimits(size, last)
  <2>1. new.scale = bounded
    BY <1>3
  <2> QED
    BY <2>1 DEF Zoomed, new, bounded, qx, qy
<1> HIDE DEF x, y
<1>7. last \in Views /\ last.vw = view.vw /\ last.vh = view.vh
  BY <1>3, <1>5 DEF Views
<1> HIDE DEF last
<1>8. OfWindow(last)
  BY <1>7 DEF OfWindow
<1> QED
  BY <1>6, <1>8, LimitsKeep

LEMMA Times == ASSUME NEW a \in Nat, NEW b \in Nat PROVE a * b \in Nat /\ (b > 0 => a * b >= a) /\ a * b = b * a
OBVIOUS

LEMMA WindowFacts ==
    ASSUME NEW view, OfWindow(view)
    PROVE  /\ view.scale \in Nat /\ view.scale > 0 /\ view.scale <= MostScale /\ view.scale >= LeastScale
           /\ view.vh \in Nat /\ view.vw \in Nat /\ view.x \in Int /\ view.y \in Int /\ view \in Views
BY PreviewBounds DEF OfWindow, Views

(* The first row in view, and the one after the last.                      *)
LEMMA TopIs ==
    ASSUME NEW size \in PictureSizes, NEW view, OfWindow(view)
    PROVE  /\ VisibleTop(size, view) \in 0 .. size[2]
           /\ view.y = 0 => VisibleTop(size, view) = 0
           /\ \A row \in 0 .. size[2] - 1 :
                ScaleUnit * (ViewPad - view.y) + row * view.scale + view.scale > 0 => VisibleTop(size, view) <= row
<1>1. PICK s, y, h, S, pad : s = view.scale /\ y = view.y /\ h = size[2] /\ S = ScaleUnit /\ pad = ViewPad
  OBVIOUS
<1>2. s \in Nat /\ s > 0 /\ y \in Int /\ h \in Nat /\ S \in Nat /\ S > 0 /\ pad \in Nat
  BY <1>1, WindowFacts, PreviewBounds
<1>3. PICK m : m = Max({y - pad, 0})
  OBVIOUS
<1>4. m \in Nat /\ (m = 0 \/ m = y - pad)
  <2>1. y - pad \in Int /\ 0 \in Int
    BY <1>2
  <2>2. Max({y - pad, 0}) \in {y - pad, 0} /\ Max({y - pad, 0}) >= 0
    BY <2>1, LargerOfTwo
  <2> QED
    BY <1>3, <2>1, <2>2
<1>5. PICK a : a = m * S
  OBVIOUS
<1>6. a \in Nat
  BY <1>2, <1>4, <1>5, Times
<1>7. PICK q : q = a \div s
  OBVIOUS
<1>8. q \in Nat /\ s * q <= a /\ s * q \in Nat /\ q * s = s * q
  BY <1>2, <1>6, <1>7, Quotient, Times
<1>9. Min({q, h}) \in {q, h} /\ Min({q, h}) <= q /\ Min({q, h}) <= h
  <2>1. q \in Int /\ h \in Int
    BY <1>2, <1>8
  <2> QED
    BY <2>1, SmallerOfTwo
<1>10. VisibleTop(size, view) = Min({q, h})
  BY <1>1, <1>3, <1>5, <1>7 DEF VisibleTop
<1>11. ASSUME y = 0 PROVE Min({q, h}) = 0
  <2>1. m = 0
    BY <1>2, <1>4, <1>11
  <2>2. a = 0
    BY <1>2, <1>5, <2>1
  <2>3. q = 0
    BY <1>2, <1>8, <2>2, Times
  <2> QED
    BY <1>2, <1>9, <2>3
<1>12. ASSUME NEW row \in 0 .. h - 1, S * (pad - y) + row * s + s > 0 PROVE Min({q, h}) <= row
  <2>1. q <= row
    <3>1. CASE m = 0
      <4>1. a = 0
        BY <1>2, <1>5, <3>1
      <4>2. q = 0
        BY <1>2, <1>8, <4>1, Times
      <4> QED
        BY <1>2, <4>2
    <3>2. CASE m = y - pad
      <4>1. a = S * (y - pad)
        BY <1>2, <1>4, <1>5, <3>2
      <4>2. S * (pad - y) = 0 - S * (y - pad)
        BY <1>2
      <4>3. row \in Int /\ row * s \in Int /\ (row + 1) * s = row * s + s
        BY <1>2
      <4>4. (row + 1) * s > a
        BY <1>2, <1>6, <1>12, <4>1, <4>2, <4>3
      <4>5. q * s < (row + 1) * s
        BY <1>2, <1>6, <1>8, <4>3, <4>4
      <4>6. q < row + 1
        BY <1>2, <1>8, <4>3, <4>5, Products
      <4> QED
        BY <1>8, <4>3, <4>6
    <3> QED
      BY <1>4, <3>1, <3>2
  <2> QED
    BY <1>2, <1>8, <1>9, <2>1
<1>13. Min({q, h}) \in 0 .. h
  BY <1>2, <1>8, <1>9
<1>14. \A row \in 0 .. h - 1 : S * (pad - y) + row * s + s > 0 => Min({q, h}) <= row
  BY <1>12
<1> QED
  BY <1>1, <1>10, <1>11, <1>13, <1>14

LEMMA BottomIs ==
    ASSUME NEW size \in PictureSizes, NEW view, OfWindow(view)
    PROVE  /\ VisibleBottom(size, view) \in 0 .. size[2]
           /\ view.y = Limits(size, view).y => VisibleBottom(size, view) = size[2]
           /\ \A row \in 0 .. size[2] - 1 :
                ScaleUnit * (ViewPad - view.y) + row * view.scale < ScaleUnit * view.vh =>
                    row < VisibleBottom(size, view)
<1>1. PICK s, y, h, S, pad, vh :
        s = view.scale /\ y = view.y /\ h = size[2] /\ S = ScaleUnit /\ pad = ViewPad /\ vh = view.vh
  OBVIOUS
<1>2. s \in Nat /\ s > 0 /\ y \in Int /\ h \in Nat /\ S \in Nat /\ S > 0 /\ pad \in Nat /\ pad > 0 /\ vh \in Nat
  BY <1>1, WindowFacts, PreviewBounds
<1>3. PICK m, t : t = y + vh - pad /\ m = Max({t, 0})
  OBVIOUS
<1>4. t \in Int /\ m \in Nat /\ m >= t /\ (m = t \/ m = 0)
  <2>1. t \in Int /\ 0 \in Int
    BY <1>2, <1>3
  <2>2. Max({t, 0}) \in {t, 0} /\ Max({t, 0}) >= 0 /\ Max({t, 0}) >= t
    BY <2>1, LargerOfTwo
  <2> QED
    BY <1>3, <2>1, <2>2
<1>5. PICK a : a = m * S
  OBVIOUS
<1>6. a \in Nat
  BY <1>2, <1>4, <1>5, Times
<1>7. PICK q : q = (a + s - 1) \div s
  OBVIOUS
<1>8. q \in Nat /\ a <= q * s /\ q * s \in Nat
  <2>1. PICK b : b = a + s - 1
    OBVIOUS
  <2>2. b \in Nat
    BY <1>2, <1>6, <2>1
  <2>3. b \div s \in Nat /\ b < s * (b \div s) + s
    BY <1>2, <2>2, Quotient
  <2>4. q \in Nat /\ b < s * q + s /\ s * q \in Nat /\ q * s = s * q
    BY <1>2, <1>7, <2>1, <2>3, Times
  <2> QED
    BY <1>2, <1>6, <2>1, <2>4
<1>9. Min({q, h}) \in {q, h} /\ Min({q, h}) <= q /\ Min({q, h}) <= h
  <2>1. q \in Int /\ h \in Int
    BY <1>2, <1>8
  <2> QED
    BY <2>1, SmallerOfTwo
<1>10. VisibleBottom(size, view) = Min({q, h})
  BY <1>1, <1>3, <1>5, <1>7 DEF VisibleBottom
<1>11. ASSUME y = Limits(size, view).y PROVE Min({q, h}) = h
  <2>1. PICK high : high = Scaled(h, s)
    OBVIOUS
  <2>2. high \in Nat /\ h * s \in Nat /\ h * s < S * high + S
    BY <1>1, <1>2, <2>1, ScaledIs
  <2>3. y >= high + 2 * pad - vh
    BY <1>1, <1>11, <2>1, LimitsAre, WindowFacts
  <2>4. m >= high + 1
    BY <1>2, <1>3, <1>4, <2>2, <2>3
  <2>5. (high + 1) * S <= m * S /\ (high + 1) * S = S * high + S
    BY <1>2, <1>4, <2>2, <2>4, Products
  <2>6. h * s < a /\ S * high \in Nat
    BY <1>2, <1>5, <1>6, <2>2, <2>5, Times
  <2>7. h * s < q * s
    BY <1>6, <1>8, <2>2, <2>6
  <2>8. h < q
    BY <1>2, <1>8, <2>7, Products
  <2> QED
    BY <1>2, <1>8, <1>9, <2>8
<1>12. ASSUME NEW row \in 0 .. h - 1, S * (pad - y) + row * s < S * vh PROVE row < Min({q, h})
  <2>1. S * vh - S * (pad - y) = t * S
    BY <1>2, <1>3
  <2>2. row \in Nat /\ row * s \in Nat /\ row < h
    BY <1>2, Times
  <2>3. row * s < t * S
    BY <1>2, <1>12, <2>1, <2>2
  <2>4. m = t
    <3>1. t > 0
      <4>1. t * S > 0 * S
        BY <1>2, <1>4, <2>2, <2>3
      <4> QED
        BY <1>2, <1>4, <4>1, Products
    <3> QED
      BY <1>4, <3>1
  <2>5. row * s < q * s
    BY <1>5, <1>6, <1>8, <2>2, <2>3, <2>4
  <2>6. row < q
    BY <1>2, <1>8, <2>2, <2>5, Products
  <2> QED
    BY <1>2, <1>8, <1>9, <2>2, <2>6
<1>13. Min({q, h}) \in 0 .. h
  BY <1>2, <1>8, <1>9
<1>14. \A row \in 0 .. h - 1 : S * (pad - y) + row * s < S * vh => row < Min({q, h})
  BY <1>12
<1> QED
  BY <1>1, <1>10, <1>11, <1>13, <1>14

-----------------------------------------------------------------------------
(* The rows of tiles that are drawn are rows of the picture, and hold every *)
(* row of it that is in view.                                              *)
LEMMA QuotientOfInt ==
    ASSUME NEW a \in Int, NEW d \in Nat, d > 0
    PROVE  /\ a \div d \in Int /\ d * (a \div d) <= a /\ a < d * (a \div d) + d
OBVIOUS

TilesFor(first, bottom) == Max({0, (bottom - first * TileRows + TileRows - 1) \div TileRows})

LEMMA RowsCovered ==
    ASSUME NEW top \in Nat, NEW bottom \in Nat
    PROVE  LET first == top \div TileRows
               count == TilesFor(first, bottom)
           IN /\ first \in Nat /\ count \in Nat
              /\ \A n \in 1 .. count : RowAt(first, n) \in Nat /\ RowAt(first, n) < bottom
              /\ \A row \in Nat : top <= row /\ row < bottom =>
                    \E n \in 1 .. count : RowAt(first, n) <= row /\ row < RowAt(first, n) + TileRows
<1>1. PICK T, f, q, c :
        /\ T = TileRows /\ f = top \div TileRows /\ c = TilesFor(f, bottom)
        /\ q = (bottom - f * TileRows + TileRows - 1) \div TileRows
  OBVIOUS
<1>2. T \in Nat /\ T > 0
  BY <1>1, PreviewBounds
<1>3. f \in Nat /\ T * f <= top /\ top < T * f + T
  BY <1>1, <1>2, Quotient
<1>4. PICK ft : ft = f * T
  OBVIOUS
<1>5. ft \in Nat /\ ft <= top /\ ft = T * f
  BY <1>2, <1>3, <1>4
<1>6. PICK k : k = bottom - ft + T - 1
  OBVIOUS
<1>7. k \in Int
  BY <1>2, <1>5, <1>6
<1>8. q \in Int /\ T * q <= k /\ k < T * q + T
  <2>1. q = k \div T
    BY <1>1, <1>4, <1>6
  <2> QED
    BY <1>2, <1>7, <2>1, QuotientOfInt
<1>9. c \in Nat /\ (c = 0 \/ c = q) /\ c >= q
  <2>1. c = Max({0, q})
    BY <1>1 DEF TilesFor
  <2>2. 0 \in Int /\ q \in Int
    BY <1>8
  <2>3. Max({0, q}) \in {0, q} /\ Max({0, q}) >= 0 /\ Max({0, q}) >= q
    BY <2>2, LargerOfTwo
  <2> QED
    BY <1>8, <2>1, <2>3
<1>10. ASSUME NEW n \in 1 .. c PROVE RowAt(f, n) \in Nat /\ RowAt(f, n) < bottom
  <2>1. c = q /\ n \in Nat /\ n >= 1 /\ n <= q
    BY <1>8, <1>9
  <2>2. PICK at, to : at = f + n - 1 /\ to = f + q - 1
    OBVIOUS
  <2>3. at \in Nat /\ to \in Nat /\ at <= to
    BY <1>3, <1>8, <2>1, <2>2
  <2>4. at * T \in Nat /\ at * T <= to * T
    BY <1>2, <2>3, Products
  <2>5. to * T = ft + T * q - T
    BY <1>2, <1>3, <1>4, <1>8, <2>2
  <2>6. T * q \in Int
    BY <1>2, <1>8
  <2>7. to * T < bottom
    BY <1>2, <1>5, <1>6, <1>8, <2>5, <2>6
  <2>8. RowAt(f, n) = at * T
    BY <1>1, <2>2 DEF RowAt
  <2> QED
    BY <2>3, <2>4, <2>7, <2>8, <1>2
<1>11. ASSUME NEW row \in Nat, top <= row, row < bottom
       PROVE  \E n \in 1 .. c : RowAt(f, n) <= row /\ row < RowAt(f, n) + T
  <2>1. PICK m : m = row \div T
    OBVIOUS
  <2>2. m \in Nat /\ T * m <= row /\ row < T * m + T
    BY <1>2, <2>1, Quotient
  <2>3. m * T = T * m /\ (m + 1) * T = T * m + T /\ T * m \in Nat /\ (q + 1) * T = T * q + T /\ T * q \in Int
    BY <1>2, <1>8, <2>2
  <2>4. f < m + 1
    <3>1. f * T < (m + 1) * T
      BY <1>3, <1>4, <1>5, <1>11, <2>2, <2>3, <1>2
    <3> QED
      BY <1>2, <1>3, <2>2, <3>1, Products
  <2>5. PICK n : n = m - f + 1
    OBVIOUS
  <2>6. n \in Nat /\ n >= 1
    BY <1>3, <2>2, <2>4, <2>5
  <2>7. n <= q
    <3>1. n * T = T * m - ft + T
      BY <1>2, <1>3, <1>5, <2>2, <2>5
    <3>2. n * T < (q + 1) * T
      BY <1>2, <1>5, <1>6, <1>8, <1>11, <2>2, <2>3, <3>1
    <3>3. n \in Int /\ q + 1 \in Int
      BY <1>8, <2>6
    <3>4. n < q + 1
      BY <1>2, <3>2, <3>3, Products
    <3> QED
      BY <1>8, <2>6, <3>4
  <2>8. n \in 1 .. c
    BY <1>8, <1>9, <2>6, <2>7
  <2>9. RowAt(f, n) = m * T
    <3>1. f + n - 1 = m
      BY <1>3, <2>2, <2>5
    <3> QED
      BY <1>1, <3>1 DEF RowAt
  <2>10. RowAt(f, n) <= row /\ row < RowAt(f, n) + T
    BY <2>2, <2>3, <2>9
  <2> QED
    BY <2>8, <2>10
<1>12. f = top \div TileRows /\ c = TilesFor(top \div TileRows, bottom)
  BY <1>1
<1> QED
  BY <1>1, <1>3, <1>9, <1>10, <1>11, <1>12

-----------------------------------------------------------------------------
(* The preview.                                                            *)
PreviewInv ==
    /\ pvDocument \in Revisions /\ pvShown \in Revisions /\ pvShown.revision <= pvDocument.revision
    /\ Inside(pvShown.size, pvView)
    /\ CacheHolds(pvTiles)
    /\ DrawnTrue

LEMMA NewViewIs == NewView \in Views
BY PreviewBounds DEF Views, NewView

LEMMA PreviewStarts == PreviewInit => PreviewInv
<1> SUFFICES ASSUME PreviewInit PROVE PreviewInv
  OBVIOUS
<1>1. PICK size \in PictureSizes, area \in WindowSizes :
        /\ pvDocument = [revision |-> 1, size |-> size] /\ pvShown = pvDocument
        /\ pvView = ResizedTo(size, NewView, area)
  BY DEF PreviewInit
<1>2. pvTiles = <<>> /\ pvDrawn = ToDraw
  BY DEF PreviewInit
<1>3. pvShown \in Revisions /\ pvDocument \in Revisions /\ pvShown.size = size
  BY <1>1 DEF Revisions
<1>4. Inside(pvShown.size, pvView)
  BY <1>1, <1>3, NewViewIs, ResizedInside
<1>5. CacheHolds(pvTiles)
  <2>1. Len(pvTiles) = 0 /\ pvTiles \in Seq(CachedTiles) /\ TotalBytes(pvTiles) <= CacheLimit
    BY <1>2, NoTiles, PreviewBounds
  <2> QED
    BY <2>1 DEF CacheHolds
<1> QED
  BY <1>1, <1>2, <1>3, <1>4, <1>5 DEF PreviewInv, DrawnTrue, Revisions

LEMMA ViewChanges ==
    ASSUME PreviewInv, NEW view, Inside(pvShown.size, view), Present(view),
           UNCHANGED <<pvDocument, pvShown, pvTiles>>
    PROVE  PreviewInv'
<1>1. Inside(pvShown.size, pvView)'
  BY DEF Present, Inside, OfWindow, Views, Limits, Scaled
<1>2. CacheHolds(pvTiles)'
  BY DEF PreviewInv, CacheHolds, TileAt
<1>3. DrawnTrue'
  BY DEF Present, DrawnTrue
<1> QED
  BY <1>1, <1>2, <1>3 DEF PreviewInv

LEMMA ScrollKeeps == ASSUME PreviewInv, ScrollView PROVE PreviewInv'
<1> DEFINE size == pvShown.size
           L == Limits(size, pvView)
<1>1. size \in PictureSizes /\ OfWindow(pvView) /\ Inside(size, pvView)
  BY DEF PreviewInv, Revisions, Inside
<1>2. L.x \in Nat /\ L.y \in Nat /\ ViewLimits = L
  BY <1>1, LimitsAre DEF OfWindow, ViewLimits
<1>3. UNCHANGED <<pvDocument, pvShown, pvTiles>>
  BY DEF ScrollView
<1>4. pvView \in Views /\ pvView.x \in 0 .. L.x /\ pvView.y \in 0 .. L.y
  BY <1>1 DEF Inside, OfWindow
<1>5. ASSUME NEW dx \in {-3, 0, 3}, NEW dy \in {-3, 0, 3},
             Present(ToLimits(size, [pvView EXCEPT !.x = @ + dx, !.y = @ + dy]))
      PROVE  PreviewInv'
  <2> DEFINE moved == [pvView EXCEPT !.x = @ + dx, !.y = @ + dy]
  <2>1. OfWindow(moved)
    <3>1. pvView.x + dx \in Int /\ pvView.y + dy \in Int
      BY <1>2, <1>4
    <3>2. moved.vw = pvView.vw /\ moved.vh = pvView.vh /\ moved \in Views
      BY <1>4, <3>1 DEF Views
    <3> QED
      BY <1>1, <3>2 DEF OfWindow
  <2> HIDE DEF moved
  <2>2. Inside(size, ToLimits(size, moved))
    BY <1>1, <2>1, LimitsKeep
  <2> QED
    BY <1>3, <1>5, <2>2, ViewChanges DEF moved
<1>6. ASSUME NEW to \in 0 .. L.y, Present([pvView EXCEPT !.y = to]) PROVE PreviewInv'
  <2> DEFINE moved == [pvView EXCEPT !.y = to]
  <2>1. OfWindow(moved) /\ moved.x = pvView.x /\ moved.y = to
    BY <1>1, <1>2, <1>4 DEF OfWindow, Views
  <2>2. Limits(size, moved) = L
    BY <1>4 DEF Limits, Views
  <2>3. Inside(size, moved)
    BY <1>4, <2>1, <2>2 DEF Inside
  <2> QED
    BY <1>3, <1>6, <2>3, ViewChanges
<1>7. ASSUME NEW to \in 0 .. L.x, Present([pvView EXCEPT !.x = to]) PROVE PreviewInv'
  <2> DEFINE moved == [pvView EXCEPT !.x = to]
  <2>1. OfWindow(moved) /\ moved.y = pvView.y /\ moved.x = to
    BY <1>1, <1>2, <1>4 DEF OfWindow, Views
  <2>2. Limits(size, moved) = L
    BY <1>4 DEF Limits, Views
  <2>3. Inside(size, moved)
    BY <1>4, <2>1, <2>2 DEF Inside
  <2> QED
    BY <1>3, <1>7, <2>3, ViewChanges
<1>8. {0, L.y \div 2, L.y} \subseteq 0 .. L.y /\ {0, L.x} \subseteq 0 .. L.x
  <2>1. L.y \div 2 \in 0 .. L.y
    BY <1>2
  <2> QED
    BY <1>2, <2>1
<1> HIDE DEF L
<1> QED
  BY <1>2, <1>5, <1>6, <1>7, <1>8 DEF ScrollView

LEMMA ZoomKeeps == ASSUME PreviewInv, ZoomView PROVE PreviewInv'
<1> DEFINE size == pvShown.size
           px == pvView.vw \div 2
           py == pvView.vh \div 2
           scales == {pvView.scale * 2, pvView.scale \div 2, ScaleUnit}
<1>1. size \in PictureSizes /\ OfWindow(pvView)
  BY DEF PreviewInv, Revisions, Inside
<1>2. UNCHANGED <<pvDocument, pvShown, pvTiles>>
  BY DEF ZoomView
<1>3. pvView.vw \in Nat /\ pvView.vh \in Nat /\ pvView.scale \in Nat
  BY <1>1, WindowFacts
<1>4. px \in Int /\ py \in Int /\ scales \subseteq Int
  BY <1>3, PreviewBounds
<1>5. \/ \E scale \in scales : Present(Zoomed(size, pvView, scale, <<px, py>>))
      \/ Present(FitWidth(size, pvView))
  BY DEF ZoomView
<1> HIDE DEF px, py, scales
<1>6. ASSUME NEW scale \in scales, Present(Zoomed(size, pvView, scale, <<px, py>>)) PROVE PreviewInv'
  <2>1. Inside(size, Zoomed(size, pvView, scale, <<px, py>>))
    BY <1>1, <1>4, ZoomedInside
  <2> QED
    BY <1>2, <1>6, <2>1, ViewChanges
<1>7. CASE Present(FitWidth(size, pvView))
  <2>1. Inside(size, FitWidth(size, pvView))
    BY <1>1, FitInside
  <2> QED
    BY <1>2, <1>7, <2>1, ViewChanges
<1> QED
  BY <1>5, <1>6, <1>7

LEMMA RevisionKeeps == ASSUME PreviewInv, TakeRevision PROVE PreviewInv'
<1> DEFINE view == ResizedTo(pvDocument.size, NewView, <<pvView.vw, pvView.vh>>)
<1>1. pvShown' = pvDocument /\ pvDocument' = pvDocument /\ Present(view) /\ pvTiles' = <<>>
  BY DEF TakeRevision, FreshTiles
<1>2. pvDocument \in Revisions /\ pvDocument.size \in PictureSizes /\ <<pvView.vw, pvView.vh>> \in WindowSizes
  BY DEF PreviewInv, Revisions, Inside, OfWindow
<1>3. Inside(pvDocument.size, view)
  BY <1>2, NewViewIs, ResizedInside
<1> HIDE DEF view
<1>4. Inside(pvShown.size, pvView)'
  BY <1>1, <1>3 DEF Present, Inside, OfWindow, Views, Limits, Scaled
<1>5. CacheHolds(pvTiles)'
  <2>1. Len(pvTiles') = 0 /\ pvTiles' \in Seq(CachedTiles) /\ TotalBytes(pvTiles') <= CacheLimit
    BY <1>1, NoTiles, PreviewBounds
  <2> QED
    BY <2>1 DEF CacheHolds
<1>6. DrawnTrue'
  BY <1>1 DEF Present, DrawnTrue
<1>7. (pvDocument \in Revisions /\ pvShown \in Revisions /\ pvShown.revision <= pvDocument.revision)'
  BY <1>1, <1>2 DEF Revisions
<1> QED
  BY <1>4, <1>5, <1>6, <1>7 DEF PreviewInv

LEMMA DrawKeeps == ASSUME PreviewInv, DrawTiles PROVE PreviewInv'
<1> DEFINE size == pvShown.size
           top == VisibleTop(size, pvView)
           bottom == VisibleBottom(size, pvView)
           first == top \div TileRows
           count == TilesFor(first, bottom)
           all == DrawnRows(pvTiles, first, count)[count]
<1>1. size \in PictureSizes /\ OfWindow(pvView) /\ size[2] \in Nat /\ pvShown \in Revisions
  BY PreviewBounds DEF PreviewInv, Revisions, Inside
<1>2. /\ pvTiles' = all.tiles /\ pvDrawn' = <<all.drawn>>
      /\ pvDocument' = pvDocument /\ pvShown' = pvShown /\ pvView' = pvView
  BY DEF DrawTiles, TilesFor
<1>3. /\ top \in 0 .. size[2] /\ bottom \in 0 .. size[2]
      /\ \A row \in 0 .. size[2] - 1 : RowShows(row) => top <= row /\ row < bottom
  <2>1. \A row \in 0 .. size[2] - 1 : row \in Nat
    BY <1>1
  <2>2. ASSUME NEW row \in 0 .. size[2] - 1, RowShows(row) PROVE top <= row /\ row < bottom
    <3>1. /\ ScaleUnit * (ViewPad - pvView.y) + row * pvView.scale < ScaleUnit * pvView.vh
          /\ ScaleUnit * (ViewPad - pvView.y) + row * pvView.scale + pvView.scale > 0
      BY <2>2 DEF RowShows
    <3>2. top <= row
      BY <1>1, <3>1, TopIs
    <3>3. row < bottom
      BY <1>1, <3>1, BottomIs
    <3> QED
      BY <3>2, <3>3
  <2>3. top \in 0 .. size[2] /\ bottom \in 0 .. size[2]
    BY <1>1, TopIs, BottomIs
  <2> QED
    BY <2>2, <2>3
<1> HIDE DEF top, bottom
<1>4. top \in Nat /\ bottom \in Nat /\ bottom <= size[2]
  BY <1>1, <1>3
<1>5. /\ first \in Nat /\ count \in Nat
      /\ \A n \in 1 .. count : RowAt(first, n) \in Nat /\ RowAt(first, n) < bottom
      /\ \A row \in Nat : top <= row /\ row < bottom =>
            \E n \in 1 .. count : RowAt(first, n) <= row /\ row < RowAt(first, n) + TileRows
  BY <1>4, RowsCovered
<1> HIDE DEF first, count
<1>6. \A n \in 1 .. count : RowAt(first, n) \in Nat /\ RowAt(first, n) < pvShown.size[2]
  BY <1>1, <1>4, <1>5
<1>7. CacheHolds(all.tiles) /\ all.drawn = DrawnTo(first, count)
  <2>1. CacheHolds(pvTiles)
    BY DEF PreviewInv
  <2> QED
    BY <1>1, <1>5, <1>6, <2>1, RowsDrawn
<1> HIDE DEF all
<1>8. DrawnTrue'
  <2>1. pvDrawn'[1] = DrawnTo(first, count) /\ pvShown' = pvShown /\ pvView' = pvView
    BY <1>2, <1>7
  <2>2. \A tile \in DrawnTo(first, count) : tile.revision = pvShown.revision
    BY <1>1, <1>6, TileIs DEF DrawnTo
  <2>3. ASSUME NEW row \in 0 .. size[2] - 1, RowShows(row)
        PROVE  \E tile \in DrawnTo(first, count) : tile.row <= row /\ row < tile.row + TileRows
    <3>1. row \in Nat /\ top <= row /\ row < bottom
      BY <1>1, <1>3, <2>3
    <3>2. PICK n \in 1 .. count : RowAt(first, n) <= row /\ row < RowAt(first, n) + TileRows
      BY <1>5, <3>1
    <3>3. TileAt(RowAt(first, n)) \in DrawnTo(first, count)
      BY DEF DrawnTo
    <3>4. TileAt(RowAt(first, n)).row = RowAt(first, n)
      BY <1>1, <1>6, TileIs
    <3> QED
      BY <3>2, <3>3, <3>4
  <2>4. \A row : RowShows(row)' = RowShows(row)
    BY <2>1 DEF RowShows
  <2> QED
    BY <2>1, <2>2, <2>3, <2>4 DEF DrawnTrue
<1>9. CacheHolds(pvTiles)'
  BY <1>2, <1>7 DEF CacheHolds, TileAt
<1>10. Inside(pvShown.size, pvView)'
  BY <1>2 DEF PreviewInv
<1> QED
  BY <1>2, <1>8, <1>9, <1>10 DEF PreviewInv

LEMMA PreviewSteps == ASSUME PreviewInv, [PreviewNext]_pvVars PROVE PreviewInv'
<1>1. CASE CommitElsewhere
  <2>1. PICK size \in PictureSizes : pvDocument' = [revision |-> pvDocument.revision + 1, size |-> size]
    BY <1>1 DEF CommitElsewhere
  <2>2. pvShown' = pvShown /\ pvView' = pvView /\ pvTiles' = pvTiles /\ pvDrawn' = pvDrawn
    BY <1>1 DEF CommitElsewhere
  <2>3. (pvDocument \in Revisions /\ pvShown \in Revisions /\ pvShown.revision <= pvDocument.revision)'
    BY <2>1, <2>2 DEF PreviewInv, Revisions
  <2>4. Inside(pvShown.size, pvView)' /\ CacheHolds(pvTiles)' /\ DrawnTrue'
    BY <2>2 DEF PreviewInv, CacheHolds, TileAt, DrawnTrue, RowShows
  <2> QED
    BY <2>3, <2>4 DEF PreviewInv
<1>2. CASE ResizeArea
  <2>1. PICK area \in WindowSizes : Present(ResizedTo(pvShown.size, pvView, area))
    BY <1>2 DEF ResizeArea
  <2>2. Inside(pvShown.size, ResizedTo(pvShown.size, pvView, area))
    BY ResizedInside DEF PreviewInv, Revisions, Inside, OfWindow
  <2> QED
    BY <1>2, <2>1, <2>2, ViewChanges DEF ResizeArea
<1>3. CASE UNCHANGED pvVars
  BY <1>3 DEF pvVars, PreviewInv, CacheHolds, TileAt, DrawnTrue, RowShows
<1> QED
  BY <1>1, <1>2, <1>3, ScrollKeeps, ZoomKeeps, RevisionKeeps, DrawKeeps DEF PreviewNext

LEMMA PreviewHolds == ASSUME PreviewInv PROVE PreviewTypeOK /\ PreviewSound
<1>1. /\ pvShown \in Revisions /\ pvDocument \in Revisions /\ pvShown.size \in PictureSizes /\ OfWindow(pvView)
      /\ pvDocument.size \in PictureSizes /\ Inside(pvShown.size, pvView)
  BY DEF PreviewInv, Revisions, Inside
<1>2. PreviewTypeOK
  BY <1>1 DEF PreviewTypeOK, PreviewInv, Revisions, OfWindow, Views
<1>3. ViewInside
  BY <1>1, TopIs, BottomIs DEF ViewInside, ViewLimits, Inside
<1>4. CacheBounded
  <2>1. pvTiles \in Seq(CachedTiles) /\ DOMAIN pvTiles = 1 .. Len(pvTiles)
    BY TileFacts DEF PreviewInv, CacheHolds
  <2> QED
    BY <2>1 DEF PreviewInv, CacheHolds, CacheBounded
<1> QED
  BY <1>2, <1>3, <1>4 DEF PreviewInv, PreviewSound

(* Whatever the pictures and windows: the preview of a long picture is     *)
(* never scrolled past it and reaches both its ends, what is drawn is      *)
(* every row in the window and of the picture the viewer has, and the      *)
(* cache of tiles keeps within its bytes with no row in it twice           *)
(* (preview.rs: Viewport, TileCache, refresh_document, draw).              *)
THEOREM PreviewTrue == PreviewSpec => [](PreviewTypeOK /\ PreviewSound)
<1>1. PreviewInit => PreviewInv
  BY PreviewStarts
<1>2. PreviewInv /\ [PreviewNext]_pvVars => PreviewInv'
  BY PreviewSteps
<1>3. PreviewInv => PreviewTypeOK /\ PreviewSound
  BY PreviewHolds
<1> QED
  BY <1>1, <1>2, <1>3, PTL DEF PreviewSpec

-----------------------------------------------------------------------------
(* The same from one number to another.                                    *)
LEMMA StepsFrom ==
    ASSUME NEW a \in Int, NEW b \in Int, a <= b, NEW S, a \in S, \A k \in a + 1 .. b : k - 1 \in S => k \in S
    PROVE  \A k \in a .. b : k \in S
<1> DEFINE n == b - a
           T == {k \in 0 .. n : a + k \in S}
<1>1. n \in Nat
  OBVIOUS
<1>2. 0 \in T
  BY <1>1
<1>3. \A k \in 1 .. n : k - 1 \in T => k \in T
  <2> TAKE k \in 1 .. n
  <2> HAVE k - 1 \in T
  <2>1. a + k \in a + 1 .. b /\ (a + k) - 1 = a + (k - 1)
    OBVIOUS
  <2> QED
    BY <2>1
<1>4. \A k \in 0 .. n : k \in T
  <2> HIDE DEF T, n
  <2> QED
    BY <1>1, <1>2, <1>3, Steps
<1>5. ASSUME NEW k \in a .. b PROVE k \in S
  <2>1. k - a \in 0 .. n /\ a + (k - a) = k
    OBVIOUS
  <2> QED
    BY <1>4, <2>1
<1> QED
  BY <1>5

RunsFrom(f, a, b, V, start, step) ==
    f \in [a .. b -> V] /\ f[a] = start /\ \A k \in a + 1 .. b : f[k] = step[k][f[k - 1]]

LEMMA IteratesFrom ==
    ASSUME NEW a \in Int, NEW b \in Int, a <= b, NEW V, NEW start \in V, NEW step \in [a + 1 .. b -> [V -> V]]
    PROVE  \E f : RunsFrom(f, a, b, V, start, step)
<1> DEFINE n == b - a
           shifted == [k \in 1 .. n |-> step[a + k]]
<1>1. n \in Nat
  OBVIOUS
<1>2. IsStep(shifted, n, V)
  BY DEF IsStep
<1>3. PICK g : IsRun(g, n, V, start, shifted)
  <2> HIDE DEF shifted, n
  <2> QED
    BY <1>1, <1>2, Iterates
<1> DEFINE f == [k \in a .. b |-> g[k - a]]
<1>4. f \in [a .. b -> V] /\ f[a] = start
  BY <1>3 DEF IsRun
<1>5. ASSUME NEW k \in a + 1 .. b PROVE f[k] = step[k][f[k - 1]]
  <2>1. k - a \in 1 .. n /\ k \in a .. b /\ k - 1 \in a .. b /\ a + (k - a) = k /\ (k - 1) - a = (k - a) - 1
    OBVIOUS
  <2>2. g[k - a] = shifted[k - a][g[(k - a) - 1]]
    BY <1>3, <2>1 DEF IsRun
  <2>3. shifted[k - a] = step[k]
    BY <2>1
  <2>4. f[k] = g[k - a] /\ f[k - 1] = g[(k - a) - 1]
    BY <2>1
  <2> QED
    BY <2>2, <2>3, <2>4
<1>6. RunsFrom(f, a, b, V, start, step)
  BY <1>4, <1>5 DEF RunsFrom
<1> QED
  BY <1>6

-----------------------------------------------------------------------------
(* The toolbar: what its buttons take.                                     *)
BarSpacings == [pad : Nat \ {0}, gap : Nat, group : Nat, inner : Nat]
Bars == Seq([label : Nat, break : BOOLEAN])

LEMMA ButtonIs ==
    ASSUME NEW buttons \in Bars, NEW spacing \in BarSpacings, NEW i \in 1 .. Len(buttons)
    PROVE  /\ ButtonWidth(buttons[i], spacing) \in Nat /\ ButtonWidth(buttons[i], spacing) >= 1
           /\ ButtonWidth(buttons[i], spacing) = buttons[i].label + 2 * spacing.pad
           /\ Lead(buttons[i], spacing) \in Nat
<1>1. buttons[i] \in [label : Nat, break : BOOLEAN]
  BY ElementOfSeq DEF Bars
<1>2. buttons[i].label \in Nat /\ spacing.pad \in Nat /\ spacing.pad >= 1 /\ spacing.gap \in Nat /\ spacing.group \in Nat
  BY <1>1 DEF BarSpacings
<1>3. ButtonWidth(buttons[i], spacing) = buttons[i].label + 2 * spacing.pad
  BY DEF ButtonWidth
<1>4. Lead(buttons[i], spacing) = spacing.gap + (IF buttons[i].break THEN spacing.group ELSE 0)
  BY DEF Lead
<1> QED
  BY <1>2, <1>3, <1>4

(* A row from its first button.                                            *)
WidthsAre(width, buttons, spacing, first) ==
    /\ width \in [first .. Len(buttons) -> Nat] /\ width[first] = ButtonWidth(buttons[first], spacing)
    /\ \A k \in first + 1 .. Len(buttons) :
        width[k] = width[k - 1] + Lead(buttons[k], spacing) + ButtonWidth(buttons[k], spacing)

LEMMA WidthsAdd ==
    ASSUME NEW buttons \in Bars, NEW spacing \in BarSpacings, NEW first \in 1 .. Len(buttons)
    PROVE  WidthsAre(PackedWidth(buttons, spacing, first), buttons, spacing, first)
<1> DEFINE n == Len(buttons)
           w(i) == ButtonWidth(buttons[i], spacing)
           l(i) == Lead(buttons[i], spacing)
<1>1. n \in Nat /\ first \in 1 .. n /\ \A i \in 1 .. n : w(i) \in Nat /\ l(i) \in Nat
  BY ButtonIs, LenProperties DEF Bars
<1> DEFINE step == [k \in first + 1 .. n |-> [sum \in Nat |-> sum + l(k) + w(k)]]
           Sums(f) == [k \in first .. n |-> IF k = first THEN w(first) ELSE f[k - 1] + l(k) + w(k)]
<1>2. PackedWidth(buttons, spacing, first) = CHOOSE f : f = Sums(f)
  BY DEF PackedWidth
<1> HIDE DEF n, w, l
<1>3. step \in [first + 1 .. n -> [Nat -> Nat]]
  BY <1>1 DEF n
<1>4. PICK f : RunsFrom(f, first, n, Nat, w(first), step)
  <2>1. first \in Int /\ n \in Int /\ first <= n /\ w(first) \in Nat
    BY <1>1 DEF n
  <2> HIDE DEF step
  <2> QED
    BY <1>3, <2>1, IteratesFrom
<1>5. f = Sums(f)
  <2>1. ASSUME NEW k \in first .. n PROVE f[k] = Sums(f)[k]
    <3>1. CASE k = first
      BY <1>4, <3>1 DEF RunsFrom
    <3>2. CASE k # first
      <4>1. k \in first + 1 .. n /\ k - 1 \in first .. n
        BY <1>1, <3>2
      <4>2. f[k - 1] \in Nat /\ f[k] = step[k][f[k - 1]]
        BY <1>4, <4>1 DEF RunsFrom
      <4>3. step[k][f[k - 1]] = f[k - 1] + l(k) + w(k)
        BY <4>1, <4>2
      <4> QED
        BY <3>2, <4>2, <4>3
    <3> QED
      BY <3>1, <3>2
  <2> QED
    BY <1>4, <2>1 DEF RunsFrom
<1> DEFINE width == PackedWidth(buttons, spacing, first)
<1>6. width = Sums(width)
  BY <1>2, <1>5
<1> HIDE DEF width
<1> DEFINE S == {k \in first .. n : width[k] \in Nat}
<1>7. \A k \in first .. n : k \in S
  <2>1. first \in S
    BY <1>1, <1>6 DEF n
  <2>2. \A k \in first + 1 .. n : k - 1 \in S => k \in S
    <3> TAKE k \in first + 1 .. n
    <3> HAVE k - 1 \in S
    <3>1. k \in first .. n /\ k # first /\ k \in 1 .. n
      BY <1>1
    <3>2. width[k] = width[k - 1] + l(k) + w(k)
      BY <1>6, <3>1
    <3>3. width[k] \in Nat
      BY <1>1, <3>1, <3>2
    <3> QED
      BY <3>1, <3>3
  <2>3. first \in Int /\ n \in Int /\ first <= n
    BY <1>1 DEF n
  <2> HIDE DEF S
  <2> QED
    BY <2>1, <2>2, <2>3, StepsFrom
<1>8. width \in [first .. n -> Nat]
  BY <1>6, <1>7
<1>9. width[first] = w(first) /\ \A k \in first + 1 .. n : width[k] = width[k - 1] + l(k) + w(k)
  <2>1. first \in first .. n /\ \A k \in first + 1 .. n : k \in first .. n /\ k # first
    BY <1>1 DEF n
  <2> QED
    BY <1>6, <2>1
<1> QED
  BY <1>8, <1>9 DEF WidthsAre, width, n, w, l

LEMMA WidthsRise ==
    ASSUME NEW buttons \in Bars, NEW spacing \in BarSpacings, NEW first \in 1 .. Len(buttons),
           NEW i \in first .. Len(buttons)
    PROVE  LET width == PackedWidth(buttons, spacing, first) IN
           /\ width[i] \in Nat /\ width[i] >= ButtonWidth(buttons[i], spacing)
           /\ \A k \in i .. Len(buttons) : width[k] \in Nat /\ width[k] >= width[i]
<1> DEFINE width == PackedWidth(buttons, spacing, first)
           n == Len(buttons)
           S == {k \in i .. n : width[k] \in Nat /\ width[k] >= width[i]}
<1>1. WidthsAre(width, buttons, spacing, first)
  BY WidthsAdd
<1> HIDE DEF width
<1>2. n \in Nat /\ i \in 1 .. n
  BY LenProperties DEF Bars
<1>3. \A k \in i .. n : k \in 1 .. n /\ k \in first .. n /\ (k # first => k \in first + 1 .. n /\ k - 1 \in first .. n)
  BY <1>2
<1>4. \A k \in first .. n : width[k] \in Nat
  BY <1>1 DEF WidthsAre
<1>5. i \in S
  BY <1>2, <1>4
<1>6. \A k \in i + 1 .. n : k - 1 \in S => k \in S
  <2> TAKE k \in i + 1 .. n
  <2> HAVE k - 1 \in S
  <2>1. k \in first + 1 .. n /\ k \in 1 .. n /\ k \in i .. n
    BY <1>2
  <2>2. width[k] = width[k - 1] + Lead(buttons[k], spacing) + ButtonWidth(buttons[k], spacing)
    BY <1>1, <2>1 DEF WidthsAre
  <2>3. Lead(buttons[k], spacing) \in Nat /\ ButtonWidth(buttons[k], spacing) \in Nat
    BY <2>1, ButtonIs
  <2>4. width[k] \in Nat /\ width[i] \in Nat
    BY <1>2, <1>4, <2>1
  <2> QED
    BY <2>1, <2>2, <2>3, <2>4
<1>7. \A k \in i .. n : k \in S
  <2>1. i \in Int /\ n \in Int /\ i <= n
    BY <1>2
  <2> HIDE DEF S
  <2> QED
    BY <1>5, <1>6, <2>1, StepsFrom
<1>8. width[i] >= ButtonWidth(buttons[i], spacing)
  <2>1. CASE i = first
    BY <1>1, <1>2, <2>1, ButtonIs DEF WidthsAre
  <2>2. CASE i # first
    <3>1. i \in first + 1 .. n /\ i - 1 \in first .. n
      BY <1>2, <2>2
    <3>2. width[i] = width[i - 1] + Lead(buttons[i], spacing) + ButtonWidth(buttons[i], spacing) /\ width[i - 1] \in Nat
      BY <1>1, <1>4, <3>1 DEF WidthsAre
    <3>3. Lead(buttons[i], spacing) \in Nat /\ ButtonWidth(buttons[i], spacing) \in Nat
      BY <1>2, ButtonIs
    <3> QED
      BY <3>2, <3>3
  <2> QED
    BY <2>1, <2>2
<1> QED
  BY <1>2, <1>4, <1>7, <1>8 DEF width

(* The rows: each button follows the one before it, or begins a row.       *)
Packs(n) == [row : Nat \ {0}, first : 1 .. n, x : Nat]
RowBegins(row, i) == [row |-> row, first |-> i, x |-> 0]

PackStep(buttons, spacing, avail, i, before) ==
    IF PackedWidth(buttons, spacing, before.first)[i] <= avail
    THEN [before EXCEPT !.x = @ + ButtonWidth(buttons[i - 1], spacing) + Lead(buttons[i], spacing)]
    ELSE RowBegins(before.row + 1, i)

RowsAreMade(at, buttons, spacing, avail) ==
    /\ at \in [1 .. Len(buttons) -> Packs(Len(buttons))] /\ at[1] = RowBegins(1, 1)
    /\ \A i \in 2 .. Len(buttons) : at[i] = PackStep(buttons, spacing, avail, i, at[i - 1])

LEMMA RowsPacked ==
    ASSUME NEW buttons \in Bars, buttons # <<>>, NEW spacing \in BarSpacings, NEW avail
    PROVE  RowsAreMade(PackRows(buttons, spacing, avail), buttons, spacing, avail) /\ Len(buttons) \in Nat \ {0}
<1> DEFINE n == Len(buttons)
           V == Packs(n)
           start == RowBegins(1, 1)
           Next1(i, before) == PackStep(buttons, spacing, avail, i, before)
           step == [i \in 2 .. n |-> [before \in V |-> Next1(i, before)]]
           Rows1(f) == [i \in 1 .. n |-> IF i = 1 THEN start ELSE Next1(i, f[i - 1])]
           at == PackRows(buttons, spacing, avail)
<1>1. n \in Nat /\ n >= 1 /\ DOMAIN buttons = 1 .. n
  BY LenProperties, EmptySeq DEF Bars
<1>2. at = CHOOSE f : f = Rows1(f)
  BY <1>1 DEF PackRows, PackStep, RowBegins
<1>3. \A i \in 2 .. n : \A before \in V : Next1(i, before) \in V
  <2> TAKE i \in 2 .. n
  <2> TAKE before \in V
  <2>1. i \in 1 .. n /\ i - 1 \in 1 .. n
    BY <1>1
  <2>2. before.x \in Nat /\ before.row \in Nat \ {0} /\ before.first \in 1 .. n
    BY DEF Packs
  <2>3. before.x + ButtonWidth(buttons[i - 1], spacing) + Lead(buttons[i], spacing) \in Nat
    <3>1. ButtonWidth(buttons[i - 1], spacing) \in Nat /\ Lead(buttons[i], spacing) \in Nat
      BY <2>1, ButtonIs
    <3> QED
      BY <2>2, <3>1
  <2> QED
    BY <2>1, <2>2, <2>3 DEF PackStep, Packs, RowBegins
<1>4. start \in V
  BY <1>1 DEF Packs, RowBegins
<1> HIDE DEF n, V, start, Next1
<1>5. step \in [2 .. n -> [V -> V]]
  BY <1>3
<1>6. PICK f : RunsFrom(f, 1, n, V, start, step)
  <2>1. 1 \in Int /\ n \in Int /\ 1 <= n /\ 1 + 1 = 2
    BY <1>1
  <2> HIDE DEF step
  <2> QED
    BY <1>4, <1>5, <2>1, IteratesFrom
<1>7. \A i \in 2 .. n : i \in 1 .. n /\ i - 1 \in 1 .. n /\ i # 1
  BY <1>1
<1>8. \A i \in 1 .. n : i = 1 \/ i \in 2 .. n
  BY <1>1
<1>9. f \in [1 .. n -> V] /\ f[1] = start /\ \A i \in 2 .. n : f[i] = step[i][f[i - 1]]
  <2>1. 1 + 1 = 2
    OBVIOUS
  <2> QED
    BY <1>6, <2>1 DEF RunsFrom
<1>10. f = Rows1(f)
  <2>1. ASSUME NEW i \in 1 .. n PROVE f[i] = Rows1(f)[i]
    <3>1. CASE i = 1
      BY <1>9, <3>1
    <3>2. CASE i # 1
      <4>1. i \in 2 .. n /\ i - 1 \in 1 .. n
        BY <1>7, <1>8, <3>2
      <4>2. f[i - 1] \in V /\ f[i] = step[i][f[i - 1]]
        BY <1>9, <4>1
      <4>3. step[i][f[i - 1]] = Next1(i, f[i - 1])
        BY <4>1, <4>2
      <4> QED
        BY <3>2, <4>2, <4>3
    <3> QED
      BY <3>1, <3>2
  <2> QED
    BY <1>9, <2>1
<1>11. at = Rows1(at)
  BY <1>2, <1>10
<1> HIDE DEF at
<1> DEFINE S == {i \in 1 .. n : at[i] \in V}
<1>12. \A i \in 1 .. n : i \in S
  <2>1. 1 \in S
    BY <1>1, <1>4, <1>11
  <2>2. \A i \in 1 + 1 .. n : i - 1 \in S => i \in S
    <3> TAKE i \in 1 + 1 .. n
    <3> HAVE i - 1 \in S
    <3>1. i \in 2 .. n /\ i \in 1 .. n /\ i # 1
      BY <1>1
    <3>2. at[i] = Next1(i, at[i - 1])
      BY <1>11, <3>1
    <3> QED
      BY <1>3, <3>1, <3>2
  <2>3. 1 \in Int /\ n \in Int /\ 1 <= n
    BY <1>1
  <2> HIDE DEF S
  <2> QED
    BY <2>1, <2>2, <2>3, StepsFrom
<1>13. at \in [1 .. n -> V]
  BY <1>11, <1>12
<1>14. at[1] = start /\ \A i \in 2 .. n : at[i] = Next1(i, at[i - 1])
  <2>1. 1 \in 1 .. n
    BY <1>1
  <2> QED
    BY <1>7, <1>11, <2>1
<1> QED
  BY <1>1, <1>13, <1>14 DEF RowsAreMade, at, n, V, start, Next1

(* A row begins at its first button, ends where its width says, and fits   *)
(* unless it is a single button.                                           *)
RowFits(at, buttons, spacing, avail, i) ==
    /\ at[i].first \in 1 .. i
    /\ at[i].x + ButtonWidth(buttons[i], spacing) = PackedWidth(buttons, spacing, at[i].first)[i]
    /\ PackedWidth(buttons, spacing, at[i].first)[i] <= avail \/ at[i].first = i

LEMMA RowsFit ==
    ASSUME NEW buttons \in Bars, buttons # <<>>, NEW spacing \in BarSpacings, NEW avail \in Int, NEW at,
           RowsAreMade(at, buttons, spacing, avail)
    PROVE  \A i \in 1 .. Len(buttons) : RowFits(at, buttons, spacing, avail, i)
<1> DEFINE n == Len(buttons)
           S == {i \in 1 .. n : RowFits(at, buttons, spacing, avail, i)}
<1>1. n \in Nat /\ n >= 1
  BY LenProperties, EmptySeq DEF Bars
<1>2. \A i \in 1 .. n : PackedWidth(buttons, spacing, i)[i] = ButtonWidth(buttons[i], spacing)
  BY WidthsAdd DEF WidthsAre
<1>3. \A i \in 1 .. n : ButtonWidth(buttons[i], spacing) \in Nat /\ Lead(buttons[i], spacing) \in Nat
  BY ButtonIs
<1>4. ASSUME NEW i \in 1 .. n, NEW row, at[i] = RowBegins(row, i) PROVE i \in S
  <2>1. at[i].first = i /\ at[i].x = 0
    BY <1>4 DEF RowBegins
  <2> QED
    BY <1>2, <1>3, <2>1 DEF RowFits
<1>5. 1 \in S
  BY <1>1, <1>4 DEF RowsAreMade
<1>6. ASSUME NEW i \in 2 .. n, i - 1 \in S PROVE i \in S
  <2> DEFINE before == at[i - 1]
  <2>1. i \in 1 .. n /\ i - 1 \in 1 .. n /\ before \in Packs(n) /\ RowFits(at, buttons, spacing, avail, i - 1)
    BY <1>1, <1>6 DEF RowsAreMade
  <2>2. at[i] = PackStep(buttons, spacing, avail, i, before)
    BY DEF RowsAreMade
  <2>3. CASE PackedWidth(buttons, spacing, before.first)[i] <= avail
    <3> DEFINE x == before.x + ButtonWidth(buttons[i - 1], spacing) + Lead(buttons[i], spacing)
    <3>1. at[i] = [before EXCEPT !.x = x]
      BY <2>2, <2>3 DEF PackStep
    <3>2. at[i].first = before.first /\ at[i].x = x
      BY <2>1, <3>1 DEF Packs
    <3>3. /\ before.first \in 1 .. i - 1 /\ before.x \in Nat
          /\ before.x + ButtonWidth(buttons[i - 1], spacing) = PackedWidth(buttons, spacing, before.first)[i - 1]
      BY <2>1 DEF RowFits, Packs
    <3>4. before.first \in 1 .. n /\ i \in before.first + 1 .. n /\ before.first \in 1 .. i
      BY <1>1, <3>3
    <3>5. PackedWidth(buttons, spacing, before.first)[i] =
            PackedWidth(buttons, spacing, before.first)[i - 1] + Lead(buttons[i], spacing)
                + ButtonWidth(buttons[i], spacing)
      BY <3>4, WidthsAdd DEF WidthsAre
    <3>6. x + ButtonWidth(buttons[i], spacing) = PackedWidth(buttons, spacing, before.first)[i]
      <4>1. /\ ButtonWidth(buttons[i - 1], spacing) \in Nat /\ ButtonWidth(buttons[i], spacing) \in Nat
            /\ Lead(buttons[i], spacing) \in Nat
        BY <1>3, <2>1
      <4> QED
        BY <3>3, <3>5, <4>1
    <3> QED
      BY <2>1, <2>3, <3>2, <3>4, <3>6 DEF RowFits
  <2>4. CASE ~(PackedWidth(buttons, spacing, before.first)[i] <= avail)
    <3>1. at[i] = RowBegins(before.row + 1, i)
      BY <2>2, <2>4 DEF PackStep
    <3> QED
      BY <1>4, <2>1, <3>1
  <2> QED
    BY <2>3, <2>4
<1>7. \A i \in 1 .. n : i \in S
  <2>1. 1 \in Int /\ n \in Int /\ 1 <= n /\ 1 + 1 = 2
    BY <1>1
  <2>2. \A i \in 1 + 1 .. n : i - 1 \in S => i \in S
    <3> HIDE DEF S
    <3> QED
      BY <1>6, <2>1
  <2> HIDE DEF S
  <2> QED
    BY <1>5, <2>1, <2>2, StepsFrom
<1> QED
  BY <1>7

(* Of two buttons the later stands further right in the row, or in a lower *)
(* row.                                                                    *)
Follows(at, buttons, spacing, i, j) ==
    /\ at[i].row <= at[j].row
    /\ at[j].row = at[i].row /\ i < j => at[i].x + ButtonWidth(buttons[i], spacing) <= at[j].x

LEMMA RowsFollow ==
    ASSUME NEW buttons \in Bars, buttons # <<>>, NEW spacing \in BarSpacings, NEW avail, NEW at,
           RowsAreMade(at, buttons, spacing, avail), NEW i \in 1 .. Len(buttons)
    PROVE  \A j \in i .. Len(buttons) : Follows(at, buttons, spacing, i, j)
<1> DEFINE n == Len(buttons)
           S == {j \in i .. n : Follows(at, buttons, spacing, i, j)}
<1>1. n \in Nat /\ n >= 1 /\ i \in 1 .. n
  BY LenProperties, EmptySeq DEF Bars
<1>2. \A j \in 1 .. n : at[j].row \in Nat /\ at[j].x \in Nat
  BY DEF RowsAreMade, Packs
<1>3. \A j \in 1 .. n : ButtonWidth(buttons[j], spacing) \in Nat /\ Lead(buttons[j], spacing) \in Nat
  BY ButtonIs
<1>4. i \in S
  BY <1>1, <1>2 DEF Follows
<1>5. ASSUME NEW j \in i + 1 .. n, j - 1 \in S PROVE j \in S
  <2> DEFINE before == at[j - 1]
  <2>1. j \in 1 .. n /\ j \in 2 .. n /\ j - 1 \in 1 .. n /\ j - 1 >= i /\ j > i /\ j \in i .. n
    BY <1>1
  <2>2. at[j] = PackStep(buttons, spacing, avail, j, before) /\ before \in Packs(n)
    BY <2>1 DEF RowsAreMade
  <2>3. at[i].row <= before.row /\ (before.row = at[i].row /\ i < j - 1 =>
            at[i].x + ButtonWidth(buttons[i], spacing) <= before.x)
    BY <1>5 DEF Follows
  <2>4. /\ at[i].row \in Nat /\ at[i].x \in Nat /\ before.row \in Nat /\ before.x \in Nat
        /\ ButtonWidth(buttons[i], spacing) \in Nat /\ ButtonWidth(buttons[j - 1], spacing) \in Nat
        /\ Lead(buttons[j], spacing) \in Nat
    BY <1>1, <1>2, <1>3, <2>1
  <2>5. CASE PackedWidth(buttons, spacing, before.first)[j] <= avail
    <3> DEFINE x == before.x + ButtonWidth(buttons[j - 1], spacing) + Lead(buttons[j], spacing)
    <3>1. at[j] = [before EXCEPT !.x = x]
      BY <2>2, <2>5 DEF PackStep
    <3>2. at[j].row = before.row /\ at[j].x = x
      BY <2>2, <3>1 DEF Packs
    <3>3. x >= before.x /\ x >= before.x + ButtonWidth(buttons[j - 1], spacing)
      BY <2>4
    <3>4. ASSUME before.row = at[i].row PROVE at[i].x + ButtonWidth(buttons[i], spacing) <= x
      <4>1. CASE j - 1 = i
        BY <3>3, <4>1
      <4>2. CASE i < j - 1
        <5>1. at[i].x + ButtonWidth(buttons[i], spacing) <= before.x
          BY <2>3, <3>4, <4>2
        <5> HIDE DEF before, x
        <5>2. PICK atX, width, mid, end : /\ atX = at[i].x /\ width = ButtonWidth(buttons[i], spacing)
                                         /\ mid = before.x /\ end = x
          OBVIOUS
        <5>3. atX \in Int /\ width \in Int /\ mid \in Int /\ end \in Int
          BY <2>4, <5>2 DEF x
        <5>4. atX + width <= mid /\ mid <= end
          BY <3>3, <5>1, <5>2
        <5>5. atX + width <= end
          BY <5>3, <5>4
        <5> QED
          BY <5>2, <5>5
      <4> QED
        BY <1>1, <2>1, <4>1, <4>2
    <3> QED
      BY <2>1, <2>3, <3>2, <3>4 DEF Follows
  <2>6. CASE ~(PackedWidth(buttons, spacing, before.first)[j] <= avail)
    <3>1. at[j].row = before.row + 1
      BY <2>2, <2>6 DEF PackStep, RowBegins
    <3>2. at[i].row <= at[j].row /\ at[j].row # at[i].row
      <4> HIDE DEF before
      <4>1. at[i].row \in Nat /\ before.row \in Nat /\ at[i].row <= before.row
        BY <2>3, <2>4
      <4> QED
        BY <3>1, <4>1
    <3> QED
      BY <2>1, <3>2 DEF Follows
  <2> QED
    BY <2>5, <2>6
<1>6. \A j \in i .. n : j \in S
  <2>1. i \in Int /\ n \in Int /\ i <= n
    BY <1>1
  <2>2. \A j \in i + 1 .. n : j - 1 \in S => j \in S
    <3> HIDE DEF S
    <3> QED
      BY <1>5
  <2> HIDE DEF S
  <2> QED
    BY <1>4, <2>1, <2>2, StepsFrom
<1> QED
  BY <1>6

(* The spacing that is taken, and how wide its rows come out.              *)
LEMMA TighterIs ==
    ASSUME NEW k \in Nat
    PROVE  /\ Tighter(k) \in BarSpacings
           /\ Tighter(k).pad <= BarTightest.pad => Tighter(k).pad = BarTightest.pad /\ Tighter(k).inner = BarTightest.inner
           /\ k >= BarSpacing.pad => Tighter(k).pad <= BarTightest.pad
<1>1. /\ BarSpacing.pad \in Nat /\ BarSpacing.gap \in Nat /\ BarSpacing.group \in Nat /\ BarSpacing.inner \in Nat
      /\ BarTightest.pad \in Nat /\ BarTightest.gap \in Nat /\ BarTightest.group \in Nat /\ BarTightest.inner \in Nat
      /\ BarTightest.pad > 0
      /\ 2 * (BarSpacing.inner - BarTightest.inner) <= BarSpacing.pad - BarTightest.pad
  BY ToolbarAssumption
<1>2. PICK pad, gap, group, inner :
        /\ pad = BarSpacing.pad - 2 * k /\ gap = BarSpacing.gap - k
        /\ group = BarSpacing.group - k /\ inner = BarSpacing.inner - k
  OBVIOUS
<1>3. pad \in Int /\ gap \in Int /\ group \in Int /\ inner \in Int
  BY <1>1, <1>2
<1>4. PICK padT, gapT, groupT, innerT :
        /\ padT = BarTightest.pad /\ gapT = BarTightest.gap
        /\ groupT = BarTightest.group /\ innerT = BarTightest.inner
  OBVIOUS
<1>5. padT \in Int /\ gapT \in Int /\ groupT \in Int /\ innerT \in Int
  BY <1>1, <1>4
<1>6. Max({pad, padT}) \in {pad, padT} /\ Max({pad, padT}) >= pad /\ Max({pad, padT}) >= padT
  BY <1>3, <1>5, LargerOfTwo
<1>7. Max({gap, gapT}) \in {gap, gapT} /\ Max({gap, gapT}) >= gapT
  BY <1>3, <1>5, LargerOfTwo
<1>8. Max({group, groupT}) \in {group, groupT} /\ Max({group, groupT}) >= groupT
  BY <1>3, <1>5, LargerOfTwo
<1>9. Max({inner, innerT}) \in {inner, innerT} /\ Max({inner, innerT}) >= inner /\ Max({inner, innerT}) >= innerT
  BY <1>3, <1>5, LargerOfTwo
<1>10. PICK p, g, u, i : /\ p = Max({pad, padT}) /\ g = Max({gap, gapT})
                         /\ u = Max({group, groupT}) /\ i = Max({inner, innerT})
  OBVIOUS
<1>11. Tighter(k) = [pad |-> p, gap |-> g, group |-> u, inner |-> i]
  BY <1>2, <1>4, <1>10 DEF Tighter
<1>12. p \in Nat \ {0} /\ g \in Nat /\ u \in Nat /\ i \in Nat
  BY <1>1, <1>3, <1>4, <1>6, <1>7, <1>8, <1>9, <1>10
<1>13. p <= padT => p = padT /\ i = innerT
  BY <1>1, <1>2, <1>3, <1>4, <1>6, <1>9, <1>10
<1>14. k >= BarSpacing.pad => p <= padT
  BY <1>1, <1>2, <1>3, <1>4, <1>6, <1>10
<1> QED
  BY <1>4, <1>11, <1>12, <1>13, <1>14 DEF BarSpacings

LEMMA FittedIs ==
    /\ Fitted \in BarSpacings
    /\ FitsBar(tbGiven.buttons, Fitted) \/ (Fitted.pad = BarTightest.pad /\ Fitted.inner = BarTightest.inner)
<1> DEFINE enough == {steps \in 0 .. BarSpacing.pad :
                        FitsBar(tbGiven.buttons, Tighter(steps)) \/ Tighter(steps).pad <= BarTightest.pad}
<1>1. BarSpacing.pad \in Nat
  BY ToolbarAssumption
<1>2. enough \in SUBSET Nat /\ enough # {}
  <2>1. Tighter(BarSpacing.pad).pad <= BarTightest.pad
    BY <1>1, TighterIs
  <2>2. BarSpacing.pad \in enough
    BY <1>1, <2>1
  <2> QED
    BY <1>1, <2>2
<1>3. \E k \in enough : Fitted = Tighter(k)
  <2>1. Fitted = Tighter(Min(enough))
    BY DEF Fitted
  <2> HIDE DEF enough
  <2>2. \E k \in enough : \A y \in enough : k <= y
    BY <1>2, LeastOfNats
  <2>3. Min(enough) \in enough
    BY <2>2 DEF Min
  <2> QED
    BY <2>1, <2>3
<1>4. PICK k \in enough : Fitted = Tighter(k)
  BY <1>3
<1>5. k \in Nat /\ (FitsBar(tbGiven.buttons, Tighter(k)) \/ Tighter(k).pad <= BarTightest.pad)
  BY <1>1
<1> QED
  BY <1>4, <1>5, TighterIs

(* One of finitely many numbers is the largest.                            *)
LEMMA WidestIs ==
    ASSUME NEW n \in Nat, n > 0, NEW f \in [1 .. n -> Nat]
    PROVE  LET widest == Max({f[i] : i \in 1 .. n}) IN
           /\ widest \in Nat /\ \A i \in 1 .. n : f[i] <= widest
           /\ \E i \in 1 .. n : widest = f[i]
<1> DEFINE S == {m \in 1 .. n : \E i \in 1 .. m : \A j \in 1 .. m : f[j] <= f[i]}
<1>1. 1 \in S
  <2>1. \A j \in 1 .. 1 : j = 1
    OBVIOUS
  <2>2. f[1] \in Nat /\ f[1] <= f[1]
    OBVIOUS
  <2> QED
    BY <2>1, <2>2
<1>2. ASSUME NEW m \in 1 + 1 .. n, m - 1 \in S PROVE m \in S
  <2>1. PICK i \in 1 .. m - 1 : \A j \in 1 .. m - 1 : f[j] <= f[i]
    BY <1>2
  <2>2. m \in 1 .. n /\ i \in 1 .. m /\ m \in 1 .. m /\ \A j \in 1 .. m : j \in 1 .. m - 1 \/ j = m
    BY <1>2
  <2>3. \A j \in 1 .. m : f[j] \in Nat
    BY <2>2
  <2>4. CASE f[m] <= f[i]
    <3>1. \A j \in 1 .. m : f[j] <= f[i]
      BY <2>1, <2>2, <2>4
    <3> QED
      BY <2>2, <3>1
  <2>5. CASE f[i] <= f[m]
    <3>1. \A j \in 1 .. m : f[j] <= f[m]
      <4> TAKE j \in 1 .. m
      <4>1. CASE j = m
        BY <2>3, <4>1
      <4>2. CASE j \in 1 .. m - 1
        <5>1. f[j] <= f[i] /\ f[j] \in Nat /\ f[i] \in Nat /\ f[m] \in Nat
          BY <2>1, <2>2, <2>3, <4>2
        <5> QED
          BY <2>5, <5>1
      <4> QED
        BY <2>2, <4>1, <4>2
    <3> QED
      BY <2>2, <3>1
  <2>6. f[m] <= f[i] \/ f[i] <= f[m]
    <3>1. f[m] \in Nat /\ f[i] \in Nat
      BY <2>2, <2>3
    <3> QED
      BY <3>1
  <2> QED
    BY <2>4, <2>5, <2>6
<1>3. n \in S
  <2>1. 1 \in Int /\ n \in Int /\ 1 <= n /\ n \in 1 .. n
    OBVIOUS
  <2>2. \A m \in 1 + 1 .. n : m - 1 \in S => m \in S
    <3> HIDE DEF S
    <3> QED
      BY <1>2
  <2> HIDE DEF S
  <2>3. \A m \in 1 .. n : m \in S
    BY <1>1, <2>1, <2>2, StepsFrom
  <2> QED
    BY <2>1, <2>3
<1>4. PICK i \in 1 .. n : \A j \in 1 .. n : f[j] <= f[i]
  BY <1>3
<1> DEFINE values == {f[j] : j \in 1 .. n}
<1>5. \E x \in values : \A y \in values : x >= y
  <2>1. f[i] \in values /\ \A y \in values : f[i] >= y
    BY <1>4
  <2> QED
    BY <2>1
<1>6. Max(values) \in values /\ \A y \in values : Max(values) >= y
  <2> HIDE DEF values
  <2> QED
    BY <1>5 DEF Max
<1> HIDE DEF values
<1>7. PICK widest : widest = Max(values)
  OBVIOUS
<1>8. widest \in values /\ \A y \in values : widest >= y
  BY <1>6, <1>7
<1>9. widest \in Nat /\ (\A j \in 1 .. n : f[j] <= widest) /\ \E j \in 1 .. n : widest = f[j]
  BY <1>8 DEF values
<1> QED
  BY <1>7, <1>9 DEF values

(* Where the slab comes out.                                               *)
BarGivens == [buttons : BarButtons, screen : BarScreens, sel : BarSelections]

LEMMA BarPlaceIs ==
    ASSUME tbGiven \in BarGivens, NEW width \in Nat, NEW height \in Nat
    PROVE  LET bar == BarPlace(width, height) IN
           /\ bar = [x |-> bar.x, y |-> bar.y, w |-> width, h |-> height] /\ bar.x \in Int /\ bar.y \in Int
           /\ width + 2 * EdgeMargin <= tbGiven.screen[1] => bar.x >= 0 /\ bar.x + width <= tbGiven.screen[1]
           /\ height + 2 * EdgeMargin <= tbGiven.screen[2] => bar.y >= 0 /\ bar.y + height <= tbGiven.screen[2]
           /\ \/ tbGiven.sel.y + tbGiven.sel.h + BarMargin + height <= tbGiven.screen[2] - EdgeMargin
              \/ tbGiven.sel.y - BarMargin - height >= EdgeMargin
              => tbGiven.sel.y + tbGiven.sel.h <= bar.y \/ bar.y + height <= tbGiven.sel.y
<1>1. PICK sx, sy, sw, sh, wide, high :
        /\ sx = tbGiven.sel.x /\ sy = tbGiven.sel.y /\ sw = tbGiven.sel.w /\ sh = tbGiven.sel.h
        /\ wide = tbGiven.screen[1] /\ high = tbGiven.screen[2]
  OBVIOUS
<1>2. /\ tbGiven.sel \in BarSelections /\ tbGiven.screen \in BarScreens
      /\ BarSelections \subseteq [x : Nat, y : Nat, w : Nat, h : Nat] /\ BarScreens \subseteq Nat \X Nat
      /\ \A screen \in BarScreens, sel \in BarSelections : sel.y <= screen[2]
  BY ToolbarAssumption DEF BarGivens
<1>3. sx \in Nat /\ sy \in Nat /\ sw \in Nat /\ sh \in Nat /\ wide \in Nat /\ high \in Nat /\ sy <= high
  BY <1>1, <1>2
<1>4. EdgeMargin \in Nat /\ BarMargin \in Nat
  BY ToolbarAssumption
<1>5. sw \div 2 \in Int /\ width \div 2 \in Int
  BY <1>3, Quotient
<1>6. PICK middle, right, room, lift :
        /\ middle = sx + sw \div 2 - width \div 2 /\ right = wide - width - EdgeMargin
        /\ room = high - height - EdgeMargin /\ lift = sy + sh - height - EdgeMargin
  OBVIOUS
<1>7. middle \in Int /\ right \in Int /\ room \in Int /\ lift \in Int
  BY <1>3, <1>4, <1>5, <1>6
<1>8. PICK a, b, c : a = Max({middle, EdgeMargin}) /\ b = Max({right, EdgeMargin}) /\ c = Min({lift, room})
  OBVIOUS
<1>9. a \in {middle, EdgeMargin} /\ a >= middle /\ a >= EdgeMargin
  BY <1>4, <1>7, <1>8, LargerOfTwo
<1>10. b \in {right, EdgeMargin} /\ b >= right /\ b >= EdgeMargin
  BY <1>4, <1>7, <1>8, LargerOfTwo
<1>11. c \in {lift, room} /\ c <= lift /\ c <= room
  BY <1>7, <1>8, SmallerOfTwo
<1>12. a \in Int /\ b \in Int /\ c \in Int
  BY <1>4, <1>7, <1>9, <1>10, <1>11
<1>13. PICK x, d : x = Min({a, b}) /\ d = Max({c, EdgeMargin})
  OBVIOUS
<1>14. x \in {a, b} /\ x <= a /\ x <= b
  BY <1>12, <1>13, SmallerOfTwo
<1>15. d \in {c, EdgeMargin} /\ d >= c /\ d >= EdgeMargin
  <2>1. c \in Int /\ EdgeMargin \in Int
    BY <1>4, <1>12
  <2>2. Max({c, EdgeMargin}) \in {c, EdgeMargin} /\ Max({c, EdgeMargin}) >= c /\ Max({c, EdgeMargin}) >= EdgeMargin
    BY <2>1, LargerOfTwo
  <2> QED
    BY <1>13, <2>2
<1>16. PICK y : y = IF sy + sh + BarMargin + height <= high - EdgeMargin THEN sy + sh + BarMargin
                    ELSE IF sy - BarMargin - height >= EdgeMargin THEN sy - BarMargin - height ELSE d
  OBVIOUS
<1>17. BarPlace(width, height) = [x |-> x, y |-> y, w |-> width, h |-> height]
  BY <1>1, <1>6, <1>8, <1>13, <1>16 DEF BarPlace
<1>18. x \in Int /\ y \in Int
  BY <1>3, <1>4, <1>12, <1>14, <1>15, <1>16
<1>19. width + 2 * EdgeMargin <= wide => x >= 0 /\ x + width <= wide
  BY <1>3, <1>4, <1>6, <1>7, <1>9, <1>10, <1>12, <1>14
<1>20. height + 2 * EdgeMargin <= high => y >= 0 /\ y + height <= high
  BY <1>3, <1>4, <1>6, <1>7, <1>11, <1>12, <1>15, <1>16
<1>21. \/ sy + sh + BarMargin + height <= high - EdgeMargin \/ sy - BarMargin - height >= EdgeMargin
       => sy + sh <= y \/ y + height <= sy
  <2>1. CASE sy + sh + BarMargin + height <= high - EdgeMargin
    <3>1. y = sy + sh + BarMargin
      BY <1>16, <2>1
    <3> QED
      BY <1>3, <1>4, <3>1
  <2>2. CASE ~(sy + sh + BarMargin + height <= high - EdgeMargin) /\ sy - BarMargin - height >= EdgeMargin
    <3>1. y = sy - BarMargin - height
      BY <1>16, <2>2
    <3>2. y + height <= sy
      BY <1>3, <1>4, <3>1
    <3> QED
      BY <3>2
  <2> QED
    BY <2>1, <2>2
<1> QED
  BY <1>1, <1>17, <1>18, <1>19, <1>20, <1>21

(* The widest row leaves the inner padding at both of its ends.            *)
LEMMA RowsFitScreen ==
    ASSUME tbGiven \in BarGivens, tbGiven.buttons # <<>>, NEW at, NEW avail \in Int,
           avail = Max({Target - 2 * Fitted.inner, 1}), RowsAreMade(at, tbGiven.buttons, Fitted, avail),
           \A i \in 1 .. Len(tbGiven.buttons) :
              ButtonWidth(tbGiven.buttons[i], BarTightest) + 2 * BarTightest.inner + 2 * EdgeMargin <= tbGiven.screen[1],
           NEW i \in 1 .. Len(tbGiven.buttons)
    PROVE  PackedWidth(tbGiven.buttons, Fitted, at[i].first)[i] + 2 * Fitted.inner + 2 * EdgeMargin <= tbGiven.screen[1]
<1> DEFINE buttons == tbGiven.buttons
           n == Len(buttons)
<1>1. /\ buttons \in Bars /\ tbGiven.screen[1] \in Nat /\ EdgeMargin \in Nat
  BY ToolbarAssumption DEF BarGivens, Bars
<1>2. n \in Nat /\ n >= 1 /\ 1 \in 1 .. n
  BY <1>1, LenProperties, EmptySeq DEF Bars
<1>3. Fitted \in BarSpacings /\ Fitted.inner \in Nat
  BY FittedIs DEF BarSpacings
<1>4. PICK w, p, inner, target, wide :
        /\ w = ButtonWidth(buttons[i], Fitted) /\ p = PackedWidth(buttons, Fitted, at[i].first)[i]
        /\ inner = Fitted.inner /\ target = Target /\ wide = tbGiven.screen[1]
  OBVIOUS
<1>5. RowFits(at, buttons, Fitted, avail, i)
  BY <1>1, <1>3, RowsFit
<1>6. w \in Nat /\ w >= 1 /\ inner \in Nat /\ wide \in Nat
  BY <1>1, <1>3, <1>4, ButtonIs
<1>7. p \in Nat /\ (p <= avail \/ p = w)
  <2>1. at[i].first \in 1 .. i /\ (p <= avail \/ at[i].first = i)
    BY <1>4, <1>5 DEF RowFits
  <2>2. at[i].first \in 1 .. n /\ i \in at[i].first .. n
    BY <1>2, <2>1
  <2>3. WidthsAre(PackedWidth(buttons, Fitted, at[i].first), buttons, Fitted, at[i].first)
    BY <1>1, <1>3, <2>2, WidthsAdd
  <2> HIDE DEF buttons
  <2>4. p \in Nat /\ (at[i].first = i => p = w)
    BY <1>4, <2>2, <2>3 DEF WidthsAre, n
  <2> QED
    BY <2>1, <2>4
<1>8. target \in Int /\ (target >= 1 => target = wide - 2 * EdgeMargin) /\ target >= wide - 2 * EdgeMargin
  <2>1. PICK room : room = wide - 2 * EdgeMargin
    OBVIOUS
  <2>2. room \in Int
    BY <1>1, <1>6, <2>1
  <2>3. Max({room, 0}) \in {room, 0} /\ Max({room, 0}) >= room /\ Max({room, 0}) >= 0
    <3>1. 0 \in Int
      OBVIOUS
    <3> QED
      BY <2>2, <3>1, LargerOfTwo
  <2>4. target = Max({room, 0})
    BY <1>4, <2>1 DEF Target
  <2> QED
    BY <2>1, <2>2, <2>3, <2>4
<1>9. avail \in {target - 2 * inner, 1} /\ avail >= 1 /\ avail >= target - 2 * inner
  <2>1. PICK room : room = target - 2 * inner
    OBVIOUS
  <2>2. room \in Int
    BY <1>6, <1>8, <2>1
  <2>3. avail = Max({room, 1})
    BY <1>4, <2>1
  <2>4. 1 \in Int
    OBVIOUS
  <2>5. Max({room, 1}) \in {room, 1} /\ Max({room, 1}) >= room /\ Max({room, 1}) >= 1
    BY <2>2, <2>4, LargerOfTwo
  <2> QED
    BY <2>1, <2>3, <2>5
<1>10. w + 2 * inner <= target
  <2>1. CASE FitsBar(buttons, Fitted)
    <3>1. PackedWidth(buttons, Fitted, 1)[n] + 2 * inner <= target
      BY <1>4, <2>1 DEF FitsBar
    <3>2. PackedWidth(buttons, Fitted, 1)[i] >= w /\ PackedWidth(buttons, Fitted, 1)[i] \in Nat
          /\ \A k \in i .. n : /\ PackedWidth(buttons, Fitted, 1)[k] \in Nat
                               /\ PackedWidth(buttons, Fitted, 1)[k] >= PackedWidth(buttons, Fitted, 1)[i]
      BY <1>1, <1>2, <1>3, <1>4, WidthsRise
    <3>3. n \in i .. n
      BY <1>2
    <3>4. PICK whole, upTo : whole = PackedWidth(buttons, Fitted, 1)[n] /\ upTo = PackedWidth(buttons, Fitted, 1)[i]
      OBVIOUS
    <3>5. whole \in Nat /\ upTo \in Nat /\ whole >= upTo /\ upTo >= w
      BY <3>2, <3>3, <3>4
    <3> QED
      BY <1>6, <1>8, <3>1, <3>4, <3>5
  <2>2. CASE Fitted.pad = BarTightest.pad /\ Fitted.inner = BarTightest.inner
    <3>1. ButtonWidth(buttons[i], BarTightest) = w
      BY <1>4, <2>2 DEF ButtonWidth
    <3>2. w + 2 * inner + 2 * EdgeMargin <= wide
      BY <1>4, <2>2, <3>1
    <3> QED
      BY <1>1, <1>6, <1>8, <3>2
  <2> QED
    BY <2>1, <2>2, FittedIs
<1>11. p + 2 * inner <= target
  BY <1>6, <1>7, <1>8, <1>9, <1>10
<1>12. p + 2 * inner + 2 * EdgeMargin <= wide
  BY <1>1, <1>6, <1>7, <1>8, <1>10, <1>11
<1> QED
  BY <1>4, <1>12

LEMMA RowHeights ==
    ASSUME NEW row \in Nat, NEW rows \in Nat, row >= 1, row <= rows
    PROVE  /\ (row - 1) * (ButtonHeight + RowGap) \in Nat
           /\ (row - 1) * (ButtonHeight + RowGap) + ButtonHeight <= rows * ButtonHeight + (rows - 1) * RowGap
           /\ row < rows => (row - 1) * (ButtonHeight + RowGap) + ButtonHeight <= (rows - 1) * (ButtonHeight + RowGap)
<1>1. ButtonHeight \in Nat /\ ButtonHeight > 0 /\ RowGap \in Nat
  BY ToolbarAssumption
<1>2. PICK pitch, a, b : pitch = ButtonHeight + RowGap /\ a = row - 1 /\ b = rows - 1
  OBVIOUS
<1>3. pitch \in Nat /\ pitch > 0 /\ a \in Nat /\ b \in Nat /\ a <= b
  BY <1>1, <1>2
<1>4. a * pitch \in Nat /\ b * pitch \in Nat /\ a * pitch <= b * pitch /\ (a < b => a * pitch + pitch <= b * pitch)
  BY <1>3, Products, Times
<1>5. rows * ButtonHeight + (rows - 1) * RowGap = b * pitch + ButtonHeight
  <2>1. rows = b + 1
    BY <1>2
  <2>2. (b + 1) * ButtonHeight = b * ButtonHeight + ButtonHeight
    BY <1>1, <1>3
  <2>3. b * pitch = b * ButtonHeight + b * RowGap
    BY <1>1, <1>2, <1>3
  <2>4. b * ButtonHeight \in Nat /\ b * RowGap \in Nat
    BY <1>1, <1>3, Times
  <2>5. PICK p, q : p = b * ButtonHeight /\ q = b * RowGap
    OBVIOUS
  <2>6. rows * ButtonHeight = p + ButtonHeight /\ (rows - 1) * RowGap = q /\ b * pitch = p + q
    BY <1>2, <2>1, <2>2, <2>3, <2>5
  <2> QED
    BY <1>1, <2>4, <2>5, <2>6
<1>6. PICK low, high : low = a * pitch /\ high = b * pitch
  OBVIOUS
<1>7. low \in Nat /\ high \in Nat /\ low <= high /\ (a < b => low + pitch <= high)
  BY <1>4, <1>6
<1>8. low + ButtonHeight <= high + ButtonHeight /\ (a < b => low + ButtonHeight <= high)
  BY <1>1, <1>2, <1>7
<1>9. row < rows => a < b
  BY <1>2
<1> QED
  BY <1>2, <1>4, <1>5, <1>6, <1>8, <1>9

(* The buttons of a layout, from where the slab is.                        *)
BarPlaces(bar, at, buttons, spacing) ==
    [i \in 1 .. Len(buttons) |->
        [x |-> bar.x + spacing.inner + at[i].x,
         y |-> bar.y + BarPad + (at[i].row - 1) * (ButtonHeight + RowGap),
         w |-> ButtonWidth(buttons[i], spacing), h |-> ButtonHeight]]

(* The numbers of one button.                                              *)
LEMMA PlaceIs ==
    ASSUME NEW buttons \in Bars, buttons # <<>>, NEW spacing \in BarSpacings, NEW avail \in Int, NEW at,
           RowsAreMade(at, buttons, spacing, avail), NEW i \in 1 .. Len(buttons), NEW bar, bar.x \in Int, bar.y \in Int
    PROVE  LET place == BarPlaces(bar, at, buttons, spacing)[i] IN
           /\ place.x \in Int /\ place.y \in Int /\ place.w \in Nat /\ place.w >= 1 /\ place.h = ButtonHeight
           /\ place.x >= bar.x + spacing.inner
           /\ place.x + place.w = bar.x + spacing.inner + PackedWidth(buttons, spacing, at[i].first)[i]
           /\ place.y = bar.y + BarPad + (at[i].row - 1) * (ButtonHeight + RowGap)
           /\ PackedWidth(buttons, spacing, at[i].first)[i] \in Nat
           /\ at[i].row \in Nat /\ at[i].row >= 1 /\ place.x = bar.x + spacing.inner + at[i].x
           /\ at[i].x \in Nat /\ place.w = ButtonWidth(buttons[i], spacing)
<1>1. PICK x, y, w, inner, width, row : /\ x = at[i].x /\ y = (at[i].row - 1) * (ButtonHeight + RowGap)
                                   /\ w = ButtonWidth(buttons[i], spacing) /\ inner = spacing.inner
                                   /\ width = PackedWidth(buttons, spacing, at[i].first)[i] /\ row = at[i].row
  OBVIOUS
<1>2. x \in Nat /\ row \in Nat /\ row >= 1
  BY <1>1 DEF RowsAreMade, Packs
<1>3. w \in Nat /\ w >= 1 /\ inner \in Nat
  BY <1>1, ButtonIs DEF BarSpacings
<1>4. y \in Nat
  BY <1>1, <1>2, RowHeights
<1>5. x + w = width
  <2>1. RowFits(at, buttons, spacing, avail, i)
    BY RowsFit
  <2> QED
    BY <1>1, <2>1 DEF RowFits
<1>6. ButtonHeight \in Nat /\ BarPad \in Nat
  BY ToolbarAssumption
<1>7. BarPlaces(bar, at, buttons, spacing)[i] =
        [x |-> bar.x + inner + x, y |-> bar.y + BarPad + y, w |-> w, h |-> ButtonHeight]
  BY <1>1 DEF BarPlaces
<1>8. PICK bx \in Int, by \in Int : bx = bar.x /\ by = bar.y
  OBVIOUS
<1>9. PICK left, top : left = bx + inner + x /\ top = by + BarPad + y
  OBVIOUS
<1>10. left \in Int /\ top \in Int /\ left >= bx + inner /\ left + w = bx + inner + width /\ width \in Nat
  <2>1. top \in Int
    BY <1>4, <1>6, <1>9
  <2>2. width \in Nat /\ width = x + w
    BY <1>2, <1>3, <1>5
  <2>3. left \in Int /\ left >= bx + inner /\ left + w = bx + inner + width
    BY <1>2, <1>3, <1>9, <2>2
  <2> QED
    BY <2>1, <2>2, <2>3
<1> QED
  BY <1>1, <1>2, <1>3, <1>7, <1>8, <1>9, <1>10

(* Inside the slab, and of two buttons the later one further on.           *)
LEMMA PlacesFit ==
    ASSUME NEW buttons \in Bars, buttons # <<>>, NEW spacing \in BarSpacings, NEW avail \in Int, NEW at,
           RowsAreMade(at, buttons, spacing, avail), NEW bar, bar.x \in Int, bar.y \in Int,
           NEW i \in 1 .. Len(buttons), NEW widest \in Nat, PackedWidth(buttons, spacing, at[i].first)[i] <= widest,
           bar.w = widest + 2 * spacing.inner,
           bar.h = at[Len(buttons)].row * ButtonHeight + (at[Len(buttons)].row - 1) * RowGap + 2 * BarPad
    PROVE  LET places == BarPlaces(bar, at, buttons, spacing) IN
           /\ Within(places[i], bar)
           /\ \A j \in 1 .. Len(buttons) : i < j =>
                /\ Apart(places[i], places[j])
                /\ places[i].y < places[j].y \/ (places[i].y = places[j].y /\ places[i].x < places[j].x)
<1> DEFINE n == Len(buttons)
           place(j) == BarPlaces(bar, at, buttons, spacing)[j]
           top(j) == (at[j].row - 1) * (ButtonHeight + RowGap)
<1>1. n \in Nat /\ n \in 1 .. n
  BY LenProperties, EmptySeq DEF Bars
<1>2. ButtonHeight \in Nat /\ ButtonHeight > 0 /\ RowGap \in Nat /\ BarPad \in Nat /\ spacing.inner \in Nat
  <2>1. spacing.inner \in Nat
    BY DEF BarSpacings
  <2> QED
    BY <2>1, ToolbarAssumption
<1>0. PICK bx \in Int, by \in Int : bx = bar.x /\ by = bar.y
  OBVIOUS
<1>3. \A j \in 1 .. n :
        /\ place(j).x \in Int /\ place(j).y \in Int /\ place(j).w \in Nat /\ place(j).w >= 1 /\ place(j).h = ButtonHeight
        /\ place(j).y = bar.y + BarPad + top(j) /\ at[j].row \in Nat /\ at[j].row >= 1
        /\ place(j).x = bar.x + spacing.inner + at[j].x
        /\ at[j].x \in Nat /\ place(j).w = ButtonWidth(buttons[j], spacing)
  BY PlaceIs
<1>4. /\ place(i).x >= bar.x + spacing.inner
      /\ place(i).x + place(i).w = bar.x + spacing.inner + PackedWidth(buttons, spacing, at[i].first)[i]
      /\ PackedWidth(buttons, spacing, at[i].first)[i] \in Nat
  BY PlaceIs
<1>5. \A j \in i .. n : Follows(at, buttons, spacing, i, j)
  BY RowsFollow
<1> HIDE DEF place
<1>6. Within(place(i), bar)
  <2>1. bar.x <= place(i).x /\ place(i).x + place(i).w <= bar.x + bar.w
    <3>1. PICK x, w, p, inner : /\ x = place(i).x /\ w = place(i).w /\ inner = spacing.inner
                                /\ p = PackedWidth(buttons, spacing, at[i].first)[i]
      OBVIOUS
    <3>2. /\ x \in Int /\ w \in Nat /\ p \in Nat /\ inner \in Nat /\ x >= bar.x + inner
          /\ x + w = bar.x + inner + p /\ p <= widest /\ bar.w = widest + 2 * inner
      BY <1>2, <1>3, <1>4, <3>1
    <3>3. PICK bw : bw = bar.w
      OBVIOUS
    <3>4. x >= bx + inner /\ x + w = bx + inner + p /\ bw = widest + 2 * inner
      BY <1>0, <3>2, <3>3
    <3>5. bx <= x /\ x + w <= bx + bw
      BY <3>2, <3>4
    <3> QED
      BY <1>0, <3>1, <3>3, <3>5
  <2>2. bar.y <= place(i).y /\ place(i).y + place(i).h <= bar.y + bar.h
    <3>1. PICK row, rows : row = at[i].row /\ rows = at[n].row
      OBVIOUS
    <3>2. row \in Nat /\ rows \in Nat /\ row >= 1 /\ row <= rows
      BY <1>1, <1>3, <1>5, <3>1 DEF Follows
    <3>3. /\ top(i) \in Nat /\ top(i) + ButtonHeight <= rows * ButtonHeight + (rows - 1) * RowGap
      BY <3>1, <3>2, RowHeights
    <3>4. PICK t, high : t = top(i) /\ high = rows * ButtonHeight + (rows - 1) * RowGap
      OBVIOUS
    <3>5. t \in Nat /\ t + ButtonHeight <= high /\ bar.h = high + 2 * BarPad /\ place(i).y = bar.y + BarPad + t
      BY <1>3, <3>1, <3>3, <3>4
    <3>6. high \in Int
      <4>1. rows * ButtonHeight \in Nat /\ (rows - 1) * RowGap \in Nat
        BY <1>2, <3>2, Times
      <4> QED
        BY <3>4, <4>1
    <3>7. PICK bh, y : bh = bar.h /\ y = place(i).y
      OBVIOUS
    <3>8. bh = high + 2 * BarPad /\ y = by + BarPad + t
      BY <1>0, <3>5, <3>7
    <3>9. by <= y /\ y + ButtonHeight <= by + bh
      BY <1>2, <3>5, <3>6, <3>8
    <3> QED
      BY <1>0, <1>3, <3>7, <3>9
  <2> QED
    BY <2>1, <2>2 DEF Within
<1>7. ASSUME NEW j \in 1 .. n, i < j
      PROVE  /\ Apart(place(i), place(j))
             /\ place(i).y < place(j).y \/ (place(i).y = place(j).y /\ place(i).x < place(j).x)
  <2>1. Follows(at, buttons, spacing, i, j)
    BY <1>1, <1>5, <1>7
  <2>2. at[i].row \in Nat /\ at[j].row \in Nat /\ at[i].row >= 1 /\ at[j].row >= 1 /\ at[i].row <= at[j].row
    BY <1>3, <2>1 DEF Follows
  <2>3. CASE at[j].row = at[i].row
    <3>1. at[i].x + ButtonWidth(buttons[i], spacing) <= at[j].x
      BY <1>7, <2>1, <2>3 DEF Follows
    <3>2. PICK x, xx, w, inner : x = at[i].x /\ xx = at[j].x /\ w = place(i).w /\ inner = spacing.inner
      OBVIOUS
    <3>3. /\ x \in Nat /\ xx \in Nat /\ w \in Nat /\ w >= 1 /\ x + w <= xx /\ inner \in Nat
          /\ place(i).x = bx + inner + x /\ place(j).x = bx + inner + xx
      BY <1>0, <1>2, <1>3, <3>1, <3>2
    <3>4. (bx + inner + x) + w <= bx + inner + xx /\ bx + inner + x < bx + inner + xx
      BY <3>3
    <3>5. place(i).x + place(i).w <= place(j).x /\ place(i).x < place(j).x
      BY <3>2, <3>3, <3>4
    <3>6. place(i).y = place(j).y
      BY <1>3, <2>3
    <3> QED
      BY <3>5, <3>6 DEF Apart
  <2>4. CASE at[i].row < at[j].row
    <3>1. top(i) + ButtonHeight <= top(j) /\ top(i) \in Nat /\ top(j) \in Nat
      <4>1. PICK row, rows : row = at[i].row /\ rows = at[j].row
        OBVIOUS
      <4>2. row \in Nat /\ rows \in Nat /\ row >= 1 /\ rows >= 1 /\ row < rows /\ row <= rows /\ rows <= rows
        BY <2>2, <2>4, <4>1
      <4>3. /\ (row - 1) * (ButtonHeight + RowGap) \in Nat /\ (rows - 1) * (ButtonHeight + RowGap) \in Nat
            /\ (row - 1) * (ButtonHeight + RowGap) + ButtonHeight <= (rows - 1) * (ButtonHeight + RowGap)
        BY <4>2, RowHeights
      <4> QED
        BY <4>1, <4>3
    <3> HIDE DEF top
    <3>2. PICK a, b : a = top(i) /\ b = top(j)
      OBVIOUS
    <3>3. a + ButtonHeight <= b /\ a \in Nat /\ b \in Nat
      BY <3>1, <3>2
    <3>4. (by + BarPad + a) + ButtonHeight <= by + BarPad + b /\ by + BarPad + a < by + BarPad + b
      BY <1>2, <3>3
    <3>5. place(i).y = by + BarPad + a /\ place(j).y = by + BarPad + b /\ place(i).h = ButtonHeight
      BY <1>0, <1>3, <3>2
    <3>6. place(i).y + place(i).h <= place(j).y /\ place(i).y < place(j).y
      BY <3>4, <3>5
    <3> QED
      BY <3>6 DEF Apart
  <2> QED
    BY <2>2, <2>3, <2>4
<1> QED
  BY <1>6, <1>7 DEF place

LEMMA LayoutReaches == ASSUME tbGiven \in BarGivens, LayoutToolbar PROVE ToolbarReachable'
<1> DEFINE buttons == tbGiven.buttons
           n == Len(buttons)
           spacing == Fitted
           avail == Max({Target - 2 * spacing.inner, 1})
           at == PackRows(buttons, spacing, avail)
           sums == [i \in 1 .. n |-> PackedWidth(buttons, spacing, at[i].first)[i]]
           widest == Max({sums[i] : i \in 1 .. n})
           width == widest + 2 * spacing.inner
           rows == at[n].row
           height == rows * ButtonHeight + (rows - 1) * RowGap + 2 * BarPad
           bar == BarPlace(width, height)
           places == BarPlaces(bar, at, buttons, spacing)
<1>1. buttons \in Bars /\ buttons # <<>> /\ tbGiven' = tbGiven
  BY ToolbarAssumption DEF BarGivens, Bars, LayoutToolbar
<1>2. n \in Nat /\ n >= 1 /\ DOMAIN buttons = 1 .. n /\ n \in 1 .. n
  BY <1>1, LenProperties, EmptySeq DEF Bars
<1>3. spacing \in BarSpacings /\ spacing.inner \in Nat
  BY FittedIs DEF BarSpacings
<1>4. avail \in Int
  <2>1. Target \in Int
    <3>1. PICK room : room = tbGiven.screen[1] - 2 * EdgeMargin
      OBVIOUS
    <3>2. room \in Int /\ 0 \in Int
      <4>1. tbGiven.screen \in BarScreens /\ BarScreens \subseteq Nat \X Nat /\ EdgeMargin \in Nat
        BY ToolbarAssumption DEF BarGivens
      <4>2. tbGiven.screen[1] \in Nat /\ EdgeMargin \in Nat
        BY <4>1
      <4> QED
        BY <3>1, <4>2
    <3>3. Target = Max({room, 0})
      BY <3>1 DEF Target
    <3> QED
      BY <3>2, <3>3, LargerOfTwo
  <2>2. PICK room : room = Target - 2 * spacing.inner
    OBVIOUS
  <2>3. room \in Int /\ 1 \in Int
    BY <1>3, <2>1, <2>2
  <2>4. Max({room, 1}) \in Int
    BY <2>3, LargerOfTwo
  <2> QED
    BY <2>2, <2>4
<1>5. tbBar' = bar /\ tbButtons' = places
  <2>1. {PackedWidth(buttons, spacing, at[i].first)[i] : i \in DOMAIN buttons} = {sums[i] : i \in 1 .. n}
    BY <1>2
  <2> QED
    BY <1>2, <2>1 DEF LayoutToolbar, BarPlaces
<1> HIDE DEF avail
<1>6. RowsAreMade(at, buttons, spacing, avail)
  BY <1>1, <1>3, RowsPacked
<1> HIDE DEF at
<1>7. \A i \in 1 .. n : at[i].row \in Nat /\ at[i].row >= 1
  BY <1>6 DEF RowsAreMade, Packs
<1>8. \A i \in 1 .. n : PackedWidth(buttons, spacing, at[i].first)[i] \in Nat
  <2> TAKE i \in 1 .. n
  <2>1. RowFits(at, buttons, spacing, avail, i)
    BY <1>1, <1>3, <1>4, <1>6, RowsFit
  <2>2. at[i].first \in 1 .. n /\ i \in at[i].first .. n
    BY <1>2, <2>1 DEF RowFits
  <2>3. WidthsAre(PackedWidth(buttons, spacing, at[i].first), buttons, spacing, at[i].first)
    BY <1>1, <1>3, <2>2, WidthsAdd
  <2> QED
    BY <2>2, <2>3 DEF WidthsAre
<1>9. sums \in [1 .. n -> Nat]
  BY <1>8
<1>10. /\ widest \in Nat /\ \A i \in 1 .. n : sums[i] <= widest
       /\ \E i \in 1 .. n : widest = sums[i]
  <2>1. n > 0
    BY <1>2
  <2> HIDE DEF sums, n
  <2> QED
    BY <1>2, <1>9, <2>1, WidestIs
<1>11. /\ widest \in Nat /\ \A i \in 1 .. n : PackedWidth(buttons, spacing, at[i].first)[i] <= widest
       /\ \E i \in 1 .. n : widest = PackedWidth(buttons, spacing, at[i].first)[i]
  BY <1>10
<1> HIDE DEF widest
<1>12. width \in Nat
  BY <1>3, <1>11
<1>13. height \in Nat /\ height >= 1
  <2>1. rows \in Nat /\ rows >= 1
    BY <1>2, <1>7
  <2>2. ButtonHeight \in Nat /\ ButtonHeight > 0 /\ RowGap \in Nat /\ BarPad \in Nat
    BY ToolbarAssumption
  <2> HIDE DEF rows
  <2>3. PICK less : less = rows - 1
    OBVIOUS
  <2>4. less \in Nat
    BY <2>1, <2>3
  <2>5. rows * ButtonHeight \in Nat /\ rows * ButtonHeight >= rows /\ less * RowGap \in Nat
    BY <2>1, <2>2, <2>4, Times
  <2>6. PICK a, b : a = rows * ButtonHeight /\ b = less * RowGap
    OBVIOUS
  <2>7. a + b + 2 * BarPad \in Nat /\ a + b + 2 * BarPad >= 1
    BY <2>1, <2>2, <2>5, <2>6
  <2> QED
    BY <2>3, <2>6, <2>7
<1> HIDE DEF width, height
<1>14. /\ bar = [x |-> bar.x, y |-> bar.y, w |-> width, h |-> height] /\ bar.x \in Int /\ bar.y \in Int
       /\ width + 2 * EdgeMargin <= tbGiven.screen[1] => bar.x >= 0 /\ bar.x + width <= tbGiven.screen[1]
       /\ height + 2 * EdgeMargin <= tbGiven.screen[2] => bar.y >= 0 /\ bar.y + height <= tbGiven.screen[2]
       /\ \/ tbGiven.sel.y + tbGiven.sel.h + BarMargin + height <= tbGiven.screen[2] - EdgeMargin
          \/ tbGiven.sel.y - BarMargin - height >= EdgeMargin
          => tbGiven.sel.y + tbGiven.sel.h <= bar.y \/ bar.y + height <= tbGiven.sel.y
  BY <1>12, <1>13, BarPlaceIs
<1> HIDE DEF bar
<1>15. bar.w = width /\ bar.h = height
  BY <1>14
<1>16. Len(places) = n /\ DOMAIN places = 1 .. n
  <2>1. places \in [1 .. n -> {places[i] : i \in 1 .. n}]
    BY DEF BarPlaces
  <2> HIDE DEF places
  <2> QED
    BY <1>2, <2>1
<1>17. \A i \in 1 .. n :
          /\ Within(places[i], bar)
          /\ \A j \in 1 .. n : i < j =>
                /\ Apart(places[i], places[j])
                /\ places[i].y < places[j].y \/ (places[i].y = places[j].y /\ places[i].x < places[j].x)
  <2> TAKE i \in 1 .. n
  <2>1. bar.w = widest + 2 * spacing.inner
    BY <1>15 DEF width
  <2>2. bar.h = at[Len(buttons)].row * ButtonHeight + (at[Len(buttons)].row - 1) * RowGap + 2 * BarPad
    BY <1>15 DEF height
  <2>3. PackedWidth(buttons, spacing, at[i].first)[i] <= widest /\ widest \in Nat
    BY <1>11
  <2> HIDE DEF spacing, buttons, width, height
  <2> QED
    BY <1>1, <1>3, <1>4, <1>6, <1>14, <2>1, <2>2, <2>3, PlacesFit
<1>18. ASSUME ScreenSuffices', NEW i \in 1 .. n PROVE Within(places[i], WholeScreen')
  <2>1. \A j \in 1 .. n :
            ButtonWidth(buttons[j], BarTightest) + 2 * BarTightest.inner + 2 * EdgeMargin <= tbGiven.screen[1]
    BY <1>1, <1>2, <1>18 DEF ScreenSuffices
  <2>2. height + 2 * EdgeMargin <= tbGiven.screen[2]
    BY <1>1, <1>5, <1>15, <1>18 DEF ScreenSuffices
  <2>3. width + 2 * EdgeMargin <= tbGiven.screen[1]
    <3>1. PICK j \in 1 .. n : widest = PackedWidth(buttons, spacing, at[j].first)[j]
      BY <1>11
    <3>2. avail = Max({Target - 2 * Fitted.inner, 1})
      BY DEF avail
    <3>3. PackedWidth(buttons, Fitted, at[j].first)[j] + 2 * Fitted.inner + 2 * EdgeMargin <= tbGiven.screen[1]
      BY <1>1, <1>4, <1>6, <2>1, <3>2, RowsFitScreen
    <3> QED
      BY <3>1, <3>3 DEF width
  <2>4. bar.x >= 0 /\ bar.x + bar.w <= tbGiven.screen[1] /\ bar.y >= 0 /\ bar.y + bar.h <= tbGiven.screen[2]
    BY <1>14, <1>15, <2>2, <2>3
  <2>5. Within(places[i], bar)
    BY <1>17
  <2>6. PICK px, py, pw, ph : px = places[i].x /\ py = places[i].y /\ pw = places[i].w /\ ph = places[i].h
    OBVIOUS
  <2>7. px \in Int /\ py \in Int /\ pw \in Int /\ ph \in Int
    <3>1. ButtonHeight \in Int
      BY ToolbarAssumption
    <3> HIDE DEF spacing, buttons
    <3>2. places[i].x \in Int /\ places[i].y \in Int /\ places[i].w \in Nat /\ places[i].h = ButtonHeight
      BY <1>1, <1>3, <1>4, <1>6, <1>14, PlaceIs
    <3> QED
      BY <2>6, <3>1, <3>2
  <2>8. PICK bx, by, wide, high : bx = bar.x /\ by = bar.y /\ wide = tbGiven.screen[1] /\ high = tbGiven.screen[2]
    OBVIOUS
  <2>9. bx \in Int /\ by \in Int /\ width \in Nat /\ height \in Nat /\ wide \in Nat /\ high \in Nat
    BY <1>12, <1>13, <1>14, <2>8, ToolbarAssumption DEF BarGivens
  <2>10. bx <= px /\ px + pw <= bx + width /\ by <= py /\ py + ph <= by + height
    BY <1>15, <2>5, <2>6, <2>8 DEF Within
  <2>11. 0 <= px /\ px + pw <= 0 + wide /\ 0 <= py /\ py + ph <= 0 + high
    <3>1. bx >= 0 /\ bx + width <= wide /\ by >= 0 /\ by + height <= high
      BY <1>15, <2>4, <2>8
    <3> QED
      BY <2>7, <2>9, <2>10, <3>1
  <2>12. WholeScreen' = [x |-> 0, y |-> 0, w |-> wide, h |-> high]
    BY <1>1, <2>8 DEF WholeScreen
  <2> QED
    BY <2>6, <2>11, <2>12 DEF Within
<1>19. \/ tbGiven.sel.y + tbGiven.sel.h + BarMargin + bar.h <= tbGiven.screen[2] - EdgeMargin
       \/ tbGiven.sel.y - BarMargin - bar.h >= EdgeMargin
       => Apart(bar, tbGiven.sel)
  BY <1>14, <1>15 DEF Apart
<1> HIDE DEF places
<1> QED
  BY <1>1, <1>2, <1>5, <1>16, <1>17, <1>18, <1>19 DEF ToolbarReachable

ToolbarInv == tbGiven \in BarGivens /\ ToolbarReachable

LEMMA ToolbarStarts == ToolbarInit => ToolbarInv
BY DEF ToolbarInv, ToolbarInit, BarGivens, ToolbarReachable, Laid

LEMMA ToolbarSteps == ToolbarInv /\ [ToolbarNext]_tbVars => ToolbarInv'
<1> SUFFICES ASSUME ToolbarInv, [ToolbarNext]_tbVars PROVE ToolbarInv'
  OBVIOUS
<1>1. CASE LayoutToolbar
  <2>1. ToolbarReachable'
    BY <1>1, LayoutReaches DEF ToolbarInv
  <2> QED
    BY <1>1, <2>1 DEF ToolbarInv, LayoutToolbar
<1>2. CASE UNCHANGED tbVars
  BY <1>2 DEF ToolbarInv, tbVars, ToolbarReachable, Laid, ScreenSuffices, WholeScreen
<1> QED
  BY <1>1, <1>2 DEF ToolbarNext

(* Whatever the buttons, the screen and the selection: every button of the *)
(* toolbar is in the slab, clear of the others and in their order, on a    *)
(* screen that suffices all of them are on it, and where there is room the *)
(* bar leaves the selection free (toolbar.rs layout, pack_rows, bar_width, *)
(* Spacing::tighter).                                                      *)
THEOREM ToolbarTrue == ToolbarSpec => []ToolbarReachable
<1>1. ToolbarInv => ToolbarReachable
  BY DEF ToolbarInv
<1> QED
  BY <1>1, ToolbarStarts, ToolbarSteps, PTL DEF ToolbarSpec
=============================================================================
