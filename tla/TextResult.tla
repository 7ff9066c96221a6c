------------------------------ MODULE TextResult ------------------------------
(***************************************************************************)
(* A text result window (result.rs) and the worker gate it runs its        *)
(* requests through (ui_job.rs).  The main loop runs one handler at a      *)
(* time; a worker runs beside it, gives up its slot, then sends its        *)
(* result, which a poll on the main loop delivers unless the request was   *)
(* replaced, cancelled or made for another revision of the image.          *)
(***************************************************************************)
EXTENDS Integers, FiniteSets

CONSTANTS MaxVersion,    \* bound on the revisions of the image
          MaxTickets,    \* bound on the requests of the window
          MaxTyped       \* bound on the edits of the text

ASSUME TextAssumption == {MaxVersion, MaxTickets, MaxTyped} \subseteq Nat \ {0}

VARIABLES txMode,       \* "Ocr" or "Translate"
          txImage,      \* the revision of the image
          txSeen,       \* the revision this window has seen (versions.current)
          txLabel,      \* the revision its text is said to be of, 0 for none
          txText,       \* the text in the view
          txBody,       \* the text its state knows; the view may be ahead of it
          txStage, txRetry, txEdited,
          txJob,        \* the request gate: generation, busy, closed
          txSlot,       \* a worker holds the slot
          txWorkers,    \* workers and what they have not delivered yet
          txTyped

txVars == <<txMode, txImage, txSeen, txLabel, txText, txBody, txStage, txRetry, txEdited, txJob,
            txSlot, txWorkers, txTyped>>

NoText == [kind |-> "empty", of |-> 0]
Recognized(version) == [kind |-> "ocr", of |-> version]
Typed(n) == [kind |-> "typed", of |-> n]
Translated(text, version) == [kind |-> "translation", of |-> version, source |-> text]

TextInit ==
    /\ txMode \in {"Ocr", "Translate"}
    /\ txImage = 1 /\ txSeen = 1 /\ txLabel = 0
    /\ txText = NoText /\ txBody = NoText
    /\ txStage = "none" /\ txRetry = "none" /\ txEdited = FALSE
    /\ txJob = [generation |-> 0, busy |-> FALSE, closed |-> FALSE]
    /\ txSlot = FALSE /\ txWorkers = {} /\ txTyped = 0

IsCurrent(job, ticket) == job.busy /\ ~job.closed /\ job.generation = ticket
Begin(job) == [job EXCEPT !.generation = @ + 1, !.busy = TRUE]
Ended(job) == [job EXCEPT !.busy = FALSE]

Stale == txLabel # 0 /\ txLabel # txSeen

(* observe_document: a window that learns of a new revision gives up its   *)
(* request and offers to recognise again.                                  *)
Changed == txSeen # txImage

Observed ==
    [job |-> IF Changed THEN Ended(txJob) ELSE txJob,
     retry |-> IF Changed THEN "Recognize" ELSE txRetry,
     stage |-> IF Changed /\ txJob.busy THEN "none" ELSE txStage]

Observe ==
    /\ ~txJob.closed /\ Changed
    /\ txSeen' = txImage
    /\ txJob' = Observed.job /\ txRetry' = Observed.retry /\ txStage' = Observed.stage
    /\ UNCHANGED <<txMode, txImage, txLabel, txText, txBody, txEdited, txSlot, txWorkers, txTyped>>

Worker(stage, version, source) ==
    [ticket |-> txJob.generation + 1, stage |-> stage, version |-> version, source |-> source,
     phase |-> "running", result |-> "none"]

(* begin_request and run_with_slot, from a gate that is free. *)
StartRequest(stage, workers, worker) ==
    /\ txJob' = Begin(txJob)
    /\ txStage' = stage /\ txRetry' = "none"
    /\ txSlot' = TRUE /\ txWorkers' = workers \union {worker}

(* The picture cannot be composed, or the thread cannot be started. *)
StartFails(stage, workers) ==
    /\ txJob' = Ended(Begin(txJob))
    /\ txStage' = "none" /\ txRetry' = stage
    /\ txWorkers' = workers /\ UNCHANGED txSlot

(* Mutation: only the request is looked at, not the worker it left behind. *)
CanRequestAgain == ~txJob.closed /\ ~txJob.busy /\ txJob.generation < MaxTickets

CanRequest == ~txJob.closed /\ ~txSlot /\ ~txJob.busy /\ txJob.generation < MaxTickets

Recognize ==
    /\ CanRequest
    /\ txBody' = txText /\ txSeen' = txImage
    /\ \/ StartRequest("Recognize", txWorkers, Worker("Recognize", txImage, NoText))
       \/ StartFails("Recognize", txWorkers)
    /\ UNCHANGED <<txMode, txImage, txLabel, txText, txEdited, txTyped>>

CanTranslate ==
    /\ txBody.kind # "empty"
    /\ \/ txMode = "Ocr" \/ txRetry = "Translate" \/ (txEdited /\ txRetry = "Recognize")

Translate ==
    /\ CanRequest /\ ~Changed /\ ~Stale /\ CanTranslate /\ txText.kind # "empty"
    /\ txBody' = txText
    /\ \/ StartRequest("Translate", txWorkers, Worker("Translate", txImage, txText))
       \/ StartFails("Translate", txWorkers)
    /\ UNCHANGED <<txMode, txImage, txSeen, txLabel, txText, txEdited, txTyped>>

(* cancel_request: the result is no longer wanted; the worker goes on.     *)
CancelRequest ==
    /\ txJob.busy
    /\ txJob' = Ended(txJob) /\ txRetry' = txStage /\ txStage' = "none"
    /\ UNCHANGED <<txMode, txImage, txSeen, txLabel, txText, txBody, txEdited, txSlot, txWorkers, txTyped>>

(* Typing into the view ends a request at once; the state's copy of the    *)
(* text follows when the main loop is idle.                                *)
TypeInResult(text) ==
    /\ ~txJob.closed /\ txTyped < MaxTyped /\ txTyped' = txTyped + 1
    /\ txText' = text /\ txEdited' = TRUE
    /\ txSeen' = txImage
    /\ txLabel' = IF txLabel = 0 THEN txImage ELSE txLabel
    /\ txJob' = Ended(txJob) /\ txStage' = IF txJob.busy THEN "none" ELSE txStage
    /\ txRetry' = CASE Changed                -> "Recognize"
                    [] ~Changed /\ txJob.busy -> txStage
                    [] OTHER                  -> txRetry
    /\ UNCHANGED <<txMode, txImage, txBody, txSlot, txWorkers>>

SyncTextState ==
    /\ ~txJob.closed /\ txBody # txText /\ txBody' = txText
    /\ UNCHANGED <<txMode, txImage, txSeen, txLabel, txText, txStage, txRetry, txEdited, txJob,
                   txSlot, txWorkers, txTyped>>

(* The worker: its work ends, with a panic too, it frees the slot, sends.  *)
Results == {"text", "blank", "error"}

WorkEnds(w, result) ==
    /\ w.phase = "running"
    /\ txWorkers' = (txWorkers \ {w}) \union {[w EXCEPT !.phase = "ended", !.result = result]}
    /\ txSlot' = FALSE
    /\ UNCHANGED <<txMode, txImage, txSeen, txLabel, txText, txBody, txStage, txRetry, txEdited,
                   txJob, txTyped>>

WorkSent(w) ==
    /\ w.phase = "ended"
    /\ txWorkers' = (txWorkers \ {w}) \union {[w EXCEPT !.phase = "sent"]}
    /\ UNCHANGED <<txMode, txImage, txSeen, txLabel, txText, txBody, txStage, txRetry, txEdited,
                   txJob, txSlot, txTyped>>

(* poll_result: what is not current any more is dropped, and a window that *)
(* learns here of a new revision gives up its request.                     *)
(* Mutation: any request under way takes the result of an earlier one. *)
WantedByAny(w) == Observed.job.busy /\ ~txJob.closed /\ w.version = txImage

Wanted(w) == IsCurrent(Observed.job, w.ticket) /\ w.version = txImage

DropResult(w) ==
    /\ w.phase = "sent" /\ ~Wanted(w)
    /\ txWorkers' = txWorkers \ {w}
    /\ IF txJob.closed THEN UNCHANGED <<txSeen, txJob, txRetry, txStage>>
       ELSE /\ txSeen' = txImage
            /\ txJob' = Observed.job /\ txRetry' = Observed.retry /\ txStage' = Observed.stage
    /\ UNCHANGED <<txMode, txImage, txLabel, txText, txBody, txEdited, txSlot, txTyped>>

RequestFails(w) ==
    /\ w.phase = "sent" /\ Wanted(w)
    /\ w.result = "error" \/ (w.stage = "Recognize" /\ w.result = "blank")
    /\ txWorkers' = txWorkers \ {w}
    /\ txJob' = Ended(txJob) /\ txRetry' = txStage /\ txStage' = "none"
    /\ UNCHANGED <<txMode, txImage, txSeen, txLabel, txText, txBody, txEdited, txSlot, txTyped>>

Show(text, version) ==
    /\ txText' = text /\ txBody' = text /\ txEdited' = FALSE /\ txLabel' = version

(* New text of an image whose text was corrected by hand gets a window of  *)
(* its own, which is no state of this one.                                 *)
KeepsTyped == txEdited /\ txBody.kind # "empty"

RecognitionElsewhere(w) ==
    /\ w.phase = "sent" /\ Wanted(w) /\ w.stage = "Recognize" /\ w.result = "text" /\ KeepsTyped
    /\ txWorkers' = txWorkers \ {w}
    /\ txJob' = Ended(txJob) /\ txStage' = "none" /\ txRetry' = "none"
    /\ UNCHANGED <<txMode, txImage, txSeen, txLabel, txText, txBody, txEdited, txSlot, txTyped>>

(* The text is shown, and a translation goes on to its second stage within *)
(* the same handler; a slot that is still held would end it there.         *)
RecognitionShown(w) ==
    /\ w.phase = "sent" /\ Wanted(w) /\ w.stage = "Recognize" /\ w.result = "text" /\ ~KeepsTyped
    /\ Show(Recognized(w.version), w.version)
    /\ IF txMode = "Translate" /\ ~txSlot
       THEN \/ StartRequest("Translate", txWorkers \ {w},
                            Worker("Translate", w.version, Recognized(w.version)))
            \/ StartFails("Translate", txWorkers \ {w})
       ELSE /\ txJob' = Ended(txJob) /\ txStage' = "none" /\ txRetry' = "none"
            /\ txWorkers' = txWorkers \ {w} /\ UNCHANGED txSlot
    /\ UNCHANGED <<txMode, txImage, txSeen, txTyped>>

TranslationDone(w) ==
    /\ w.phase = "sent" /\ Wanted(w) /\ w.stage = "Translate" /\ w.result # "error"
    /\ txWorkers' = txWorkers \ {w}
    /\ txJob' = Ended(txJob) /\ txStage' = "none" /\ txRetry' = "none"
    /\ IF txMode = "Translate" THEN Show(Translated(w.source, w.version), w.version)
                              ELSE UNCHANGED <<txText, txBody, txEdited, txLabel>>
    /\ UNCHANGED <<txMode, txImage, txSeen, txSlot, txTyped>>

CloseResult ==
    /\ ~txJob.closed /\ txJob' = [Ended(txJob) EXCEPT !.closed = TRUE]
    /\ UNCHANGED <<txMode, txImage, txSeen, txLabel, txText, txBody, txStage, txRetry, txEdited,
                   txSlot, txWorkers, txTyped>>

(* An editor elsewhere applies an edit to the image. *)
ImageEdited ==
    /\ txImage < MaxVersion /\ txImage' = txImage + 1
    /\ UNCHANGED <<txMode, txSeen, txLabel, txText, txBody, txStage, txRetry, txEdited, txJob,
                   txSlot, txWorkers, txTyped>>

Deliver(w) == \/ DropResult(w) \/ RequestFails(w) \/ RecognitionElsewhere(w)
              \/ RecognitionShown(w) \/ TranslationDone(w)

WorkerSteps == \E w \in txWorkers : WorkSent(w) \/ \E result \in Results : WorkEnds(w, result)
Polls == \E w \in txWorkers : Deliver(w)

TextNext ==
    \/ Observe \/ Recognize \/ Translate \/ CancelRequest \/ SyncTextState \/ CloseResult
    \/ \E text \in {NoText, Typed(txTyped + 1)} : TypeInResult(text)
    \/ ImageEdited \/ WorkerSteps \/ Polls

TextSpec == TextInit /\ [][TextNext]_txVars
-----------------------------------------------------------------------------
TextTypeOK ==
    /\ txMode \in {"Ocr", "Translate"}
    /\ {txImage, txSeen} \subseteq 1 .. MaxVersion /\ txLabel \in 0 .. MaxVersion
    /\ {txStage, txRetry} \subseteq {"none", "Recognize", "Translate"}
    /\ txJob \in [generation : 0 .. MaxTickets + 1, busy : BOOLEAN, closed : BOOLEAN]
    /\ {txEdited, txSlot} \subseteq BOOLEAN
    /\ txJob.busy => txStage # "none" /\ txRetry = "none"
    /\ \A w \in txWorkers : w.ticket <= txJob.generation

(* Cancelled and replaced requests never leave two workers running: the    *)
(* slot belongs to the worker, not to the request (ui_job.rs WorkerSlot).  *)
OneWorker == Cardinality({w \in txWorkers : w.phase = "running"}) <= 1

(* What a window says its text is of is true, for text nobody typed into   *)
(* (result.rs versions).                                                   *)
LabelTrue == ~txEdited /\ txText.kind # "empty" => txLabel = txText.of

(* A translation takes the place only of the very text it was made from,   *)
(* and recognition never that of text somebody typed (result.rs            *)
(* recognize, translate, connect_changed).                                 *)
TypedTextKept ==
    [][txText' # txText /\ txTyped' = txTyped =>
          \/ txText'.kind = "translation" /\ txText'.source = txText
          \/ txText'.kind = "ocr" /\ ~(txText.kind = "typed")]_txVars

(* A translation window that shows recognised text is translating it, or   *)
(* offers to go on: a stage is never lost between two (result.rs recognize).*)
StageNotLost ==
    txMode = "Translate" /\ txText.kind = "ocr" /\ ~txEdited /\ ~txJob.closed =>
        txStage # "none" \/ txRetry # "none"

(* One worker, a true label, and no stage forgotten, whatever is cancelled, *)
(* replaced, edited or late (result.rs, ui_job.rs).                         *)
TextSound == OneWorker /\ LabelTrue /\ StageNotLost
=============================================================================
