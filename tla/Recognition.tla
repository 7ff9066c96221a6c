---------------------------- MODULE Recognition ----------------------------
(* One recognition request, with the translation that may follow it, as the *)
(* worker threads run it (vellum-text ocr.rs, llm.rs, api.rs) under the     *)
(* budget and the cancel flag it shares with the window                     *)
(* (request_control.rs), with the tesseract processes it starts             *)
(* (vellum-core proc.rs).  Time passes in ticks; a deadline that is due is  *)
(* acted on before the next tick, local work takes any time.                *)
EXTENDS Naturals, Sequences

CONSTANTS OcrBudget, ApiBudget,   \* the configured time-outs, in ticks
          LocalCap,               \* TESSERACT_TIMEOUT
          ModelCount,             \* translation models, the first and its fallbacks
          MaxTime                 \* bound: the clock stops

ASSUME RecognitionAssumption ==
         /\ {OcrBudget, ApiBudget, LocalCap, ModelCount, MaxTime} \subseteq Nat \ {0}
         /\ OcrBudget + ApiBudget < MaxTime

VARIABLES
    rqNow,
    rqCancelled,   \* the flag every control of the request shares
    rqTotal,       \* when the whole request must be over
    rqUntil,       \* when the current stage must be over
    rqPc,          \* where the worker thread is
    rqCall,        \* the network call that is out: [out, until]
    rqLocal,       \* when local recognition must be over
    rqAllow,       \* the time the next tesseract runs may take
    rqKinds,       \* the ways to prepare the picture not tried yet
    rqKids,        \* the two tesseract runs: [phase, until, got]
    rqBest,        \* the best local result so far
    rqFirst,       \* the first local error, or the first model's refusal
    rqModel,       \* the model to ask next
    rqResult       \* what the stage gave: [what, at]

work   == <<rqLocal, rqAllow, rqKinds, rqKids, rqBest, rqFirst>>
rqVars == <<rqNow, rqCancelled, rqTotal, rqUntil, rqPc, rqCall, work, rqModel, rqResult>>

Sooner(a, b) == IF a < b THEN a ELSE b

Runs == {"primary", "alternate"}
NoCall == [out |-> FALSE, until |-> 0]
NoRun  == [phase |-> "none", until |-> 0, got |-> "none"]
NoKids == [run \in Runs |-> NoRun]
Nothing == [what |-> "none", at |-> 0]

(* RequestControl::check.  Expired counts the last moment as over.          *)
Expired == rqNow >= rqUntil
Stopped == rqCancelled \/ Expired

(* Mutation: each stage gets a fresh budget.                                *)
FreshBudget(total, budget) == rqNow + budget

(* RequestControl::limited_to: a stage gets no more than what is left.      *)
LimitedTo(total, budget) == Sooner(total, rqNow + budget)

---------------------------------------------------------------------------
(* The stage ends; a result that comes too late, or after a cancel, is      *)
(* rejected by the last check.                                              *)
EndStage(what) ==
  /\ rqPc' = "returned"
  /\ rqResult' = [what |-> IF Stopped THEN "stopped" ELSE what, at |-> rqNow]

In(pc) == rqPc = pc
KeepClock == UNCHANGED <<rqNow, rqCancelled, rqTotal, rqUntil>>

(* recognize_using: the API engine first, if it is configured.              *)
BeginRecognition ==
  /\ In("ocr")
  /\ IF Stopped THEN EndStage("stopped")
     ELSE rqPc' \in {"remote", "local"} /\ UNCHANGED rqResult
  /\ KeepClock /\ UNCHANGED <<rqCall, work, rqModel>>

(* A call that is sent: all it may take is what is left of the stage.       *)
AskNext(pc) ==
  /\ rqCall' = [out |-> TRUE, until |-> rqUntil]
  /\ rqPc' = pc

(* recognize_api_with_control up to the network; without a model, or with a *)
(* picture that cannot be encoded, the local engine is next.                *)
AskVision ==
  /\ In("remote")
  /\ \/ ~Stopped /\ AskNext("seeing") /\ UNCHANGED rqResult
     \/ IF Stopped THEN EndStage("stopped") /\ UNCHANGED rqCall
                   ELSE rqPc' = "local" /\ UNCHANGED <<rqResult, rqCall>>
  /\ KeepClock /\ UNCHANGED <<work, rqModel>>

(* The answer, an error, or the call's own time-out.                        *)
VisionAnswers ==
  /\ In("seeing")
  /\ rqCall' = NoCall
  /\ \/ rqNow < rqCall.until /\ EndStage("text")
     \/ IF Stopped THEN EndStage("stopped") ELSE rqPc' = "local" /\ UNCHANGED rqResult
  /\ KeepClock /\ UNCHANGED <<work, rqModel>>

---------------------------------------------------------------------------
(* recognize_tesseract. *)

KindOrders == {<<"Baseline">>, <<"Baseline", "LocalContrast">>, <<"Baseline", "OppositePolarity">>}

BeginLocal ==
  /\ In("local")
  /\ IF Stopped THEN EndStage("stopped") /\ UNCHANGED <<rqLocal, rqKinds>>
     ELSE /\ rqLocal' = Sooner(rqNow + LocalCap, rqUntil)
          /\ rqKinds' \in KindOrders
          /\ rqPc' = "candidate" /\ UNCHANGED rqResult
  /\ rqBest' = "none" /\ rqFirst' = "none"
  /\ KeepClock /\ UNCHANGED <<rqCall, rqAllow, rqKids, rqModel>>

LocalOver == rqNow > rqLocal

NextCandidate ==
  /\ In("candidate")
  /\ IF rqKinds # <<>> /\ Stopped THEN EndStage("stopped")
     ELSE rqPc' = (IF rqKinds = <<>> \/ LocalOver THEN "judge" ELSE "render") /\ UNCHANGED rqResult
  /\ KeepClock /\ UNCHANGED <<rqCall, work, rqModel>>

Asked(runs) == [run \in Runs |-> IF run \in runs THEN [NoRun EXCEPT !.phase = "wanted"] ELSE NoRun]

(* Prepared, whatever it took: the low-contrast picture is read twice at    *)
(* once, with the languages in both orders.                                 *)
Rendered ==
  /\ In("render")
  /\ IF LocalOver THEN rqPc' = "judge" /\ UNCHANGED <<rqResult, rqAllow, rqKids>>
     ELSE IF Stopped THEN EndStage("stopped") /\ UNCHANGED <<rqAllow, rqKids>>
     ELSE /\ rqAllow' = rqLocal - rqNow
          /\ rqKids' \in {Asked({"primary"})} \cup
                         (IF Head(rqKinds) = "LocalContrast" THEN {Asked(Runs)} ELSE {})
          /\ rqPc' = "reading" /\ UNCHANGED rqResult
  /\ KeepClock /\ UNCHANGED <<rqCall, rqLocal, rqKinds, rqBest, rqFirst, rqModel>>

(* run_tesseract and communicate, on a thread of their own for each run.    *)
Kid(run, phase) == rqKids[run].phase = phase
Becomes(run, value) ==
  /\ rqKids' = [rqKids EXCEPT ![run] = value]
  /\ KeepClock /\ UNCHANGED <<rqPc, rqCall, rqLocal, rqAllow, rqKinds, rqBest, rqFirst, rqModel, rqResult>>
Over(got) == [phase |-> "over", until |-> 0, got |-> IF Stopped THEN "stopped" ELSE got]

TakeTime(run) ==
  /\ Kid(run, "wanted")
  /\ Becomes(run, IF Stopped THEN Over("stopped")
                  ELSE [phase |-> "timed", until |-> Sooner(rqNow + rqAllow, rqUntil), got |-> "none"])

(* Once spawned the process is always handed to the reaper; one that a      *)
(* cancel or the deadline overtook has no time left.                        *)
Deadline(run) == IF Stopped THEN rqNow ELSE Sooner(rqUntil, rqKids[run].until)

Spawn(run) ==
  /\ Kid(run, "timed")
  /\ \/ Becomes(run, [phase |-> "alive", until |-> Deadline(run), got |-> "none"])
     \/ \E got \in {"missing", "failed"} : Becomes(run, [phase |-> "over", until |-> 0, got |-> got])

KidExits(run) ==
  /\ Kid(run, "alive")
  /\ \E got \in {"weak", "strong", "empty", "failed"} : Becomes(run, Over(got))

(* The process is gone, a descendant of it keeps the pipes open.            *)
KidLingers(run) ==
  /\ Kid(run, "alive")
  /\ Becomes(run, [rqKids[run] EXCEPT !.phase = "lingering"])

(* At the deadline the whole process group is killed and reaped.            *)
KillGroup(run) ==
  /\ Kid(run, "alive") \/ Kid(run, "lingering")
  /\ rqNow >= rqKids[run].until
  /\ Becomes(run, Over("timeout"))

(* Both threads are joined before anything is made of their results.        *)
AllOver == \A run \in Runs : Kid(run, "none") \/ Kid(run, "over")
Good == {"weak", "strong", "empty"}
Rank(got) == CASE got = "strong" -> 3 [] got = "weak" -> 2 [] got = "empty" -> 1 [] OTHER -> 0
Better(a, b) == IF Rank(b) > Rank(a) THEN b ELSE a

(* A clean result, or one that confirms the best, ends the search, except   *)
(* that a low-contrast reading which was asked for is made.                 *)
Accept(got) ==
  LET best == Better(rqBest, got)
      due  == Head(rqKinds) = "Baseline" /\ Len(rqKinds) > 1 /\ rqKinds[2] = "LocalContrast"
  IN /\ rqBest' = best
     /\ rqPc' \in {"judge", "candidate"}
     /\ rqPc' = "judge" => ~due /\ (best = "strong" \/ rqBest \in {"weak", "strong"})
     /\ rqPc' = "candidate" => due \/ best # "strong"
     /\ rqKinds' = Tail(rqKinds)

Read ==
  /\ In("reading") /\ AllOver
  /\ LET got == rqKids["primary"].got
         other == rqKids["alternate"].got
     IN IF Stopped \/ got = "missing"
        THEN EndStage("error") /\ rqKids' = NoKids /\ UNCHANGED <<rqBest, rqFirst, rqKinds, rqAllow>>
        ELSE IF got \notin Good
        THEN /\ rqFirst' = (IF rqFirst = "none" THEN got ELSE rqFirst)
             /\ rqPc' = "candidate" /\ rqKinds' = Tail(rqKinds) /\ rqKids' = NoKids
             /\ UNCHANGED <<rqBest, rqResult, rqAllow>>
        ELSE \/ /\ got # "strong" /\ ~LocalOver       \* should_retry_layout
                /\ rqKids' = [Asked({"primary"}) EXCEPT !["alternate"] = Over(Better(got, other))]
                /\ rqAllow' = rqLocal - rqNow /\ rqPc' = "layout"
                /\ UNCHANGED <<rqBest, rqFirst, rqKinds, rqResult>>
             \/ /\ Accept(Better(got, other)) /\ rqKids' = NoKids
                /\ UNCHANGED <<rqFirst, rqResult, rqAllow>>
  /\ KeepClock /\ UNCHANGED <<rqCall, rqLocal, rqModel>>

(* The second layout counts if it read more; its errors do not.             *)
ReadLayout ==
  /\ In("layout") /\ AllOver
  /\ rqKids' = NoKids
  /\ IF Stopped THEN EndStage("stopped") /\ UNCHANGED <<rqBest, rqKinds>>
     ELSE Accept(Better(rqKids["alternate"].got, rqKids["primary"].got)) /\ UNCHANGED rqResult
  /\ KeepClock /\ UNCHANGED <<rqCall, rqLocal, rqAllow, rqFirst, rqModel>>

Judge ==
  /\ In("judge")
  /\ EndStage(IF rqBest \in {"weak", "strong"} THEN "text" ELSE "error")
  /\ KeepClock /\ UNCHANGED <<rqCall, work, rqModel>>

---------------------------------------------------------------------------
(* The translation stage: translate_using. *)

(* The window received the text and goes on, under the same control.        *)
BeginTranslation ==
  /\ In("returned") /\ rqResult.what = "text" /\ rqModel = 0
  /\ rqUntil' = LimitedTo(rqTotal, ApiBudget)
  /\ rqPc' = "model" /\ rqModel' = 1 /\ rqFirst' = "none" /\ rqResult' = Nothing
  /\ UNCHANGED <<rqNow, rqCancelled, rqTotal, rqCall, rqLocal, rqAllow, rqKinds, rqKids, rqBest>>

(* The next model; before the first, the answer that needs none (the text   *)
(* is in the target language already) or no model at all; after the last    *)
(* one, the first refusal.                                                  *)
AskModel ==
  /\ In("model")
  /\ \/ ~Stopped /\ rqModel <= ModelCount /\ AskNext("answering") /\ UNCHANGED rqResult
     \/ Stopped /\ EndStage("stopped") /\ UNCHANGED rqCall
     \/ rqModel = 1 /\ (EndStage("text") \/ EndStage("error")) /\ UNCHANGED rqCall
     \/ rqModel > ModelCount /\ EndStage("refused") /\ UNCHANGED rqCall
  /\ KeepClock /\ UNCHANGED <<work, rqModel>>

(* Only a refusal by the provider moves on to the next model.               *)
ModelAnswers ==
  /\ In("answering")
  /\ rqCall' = NoCall
  /\ \/ rqNow < rqCall.until /\ EndStage("text") /\ UNCHANGED <<rqModel, rqFirst>>
     \/ EndStage("error") /\ UNCHANGED <<rqModel, rqFirst>>
     \/ /\ ~Stopped
        /\ rqPc' = "model" /\ rqModel' = rqModel + 1
        /\ rqFirst' = (IF rqFirst = "none" THEN "refusal" ELSE rqFirst) /\ UNCHANGED rqResult
  /\ KeepClock /\ UNCHANGED <<rqLocal, rqAllow, rqKinds, rqKids, rqBest>>

---------------------------------------------------------------------------
(* The window cancels; the clock moves unless a time-out is due.            *)
Cancel ==
  /\ ~rqCancelled /\ rqCancelled' = TRUE
  /\ UNCHANGED <<rqNow, rqTotal, rqUntil, rqPc, rqCall, work, rqModel, rqResult>>

Running(run) == Kid(run, "alive") \/ Kid(run, "lingering")

Tick ==
  /\ rqNow < MaxTime
  /\ rqCall.out => rqNow < rqCall.until
  /\ \A run \in Runs : Running(run) => rqNow < rqKids[run].until
  /\ rqNow' = rqNow + 1
  /\ UNCHANGED <<rqCancelled, rqTotal, rqUntil, rqPc, rqCall, work, rqModel, rqResult>>

(* recognize of the window: the request's control, limited to this stage.   *)
RecognitionInit ==
  /\ rqNow = 0 /\ rqCancelled = FALSE
  /\ rqTotal = OcrBudget + ApiBudget /\ rqUntil = OcrBudget
  /\ rqPc = "ocr" /\ rqCall = NoCall
  /\ rqLocal = 0 /\ rqAllow = 0 /\ rqKinds = <<>> /\ rqKids = NoKids
  /\ rqBest = "none" /\ rqFirst = "none" /\ rqModel = 0 /\ rqResult = Nothing

RecognitionNext ==
  \/ BeginRecognition \/ AskVision \/ VisionAnswers
  \/ BeginLocal \/ NextCandidate \/ Rendered \/ Read \/ ReadLayout \/ Judge
  \/ \E run \in Runs : TakeTime(run) \/ Spawn(run) \/ KidExits(run) \/ KidLingers(run) \/ KillGroup(run)
  \/ BeginTranslation \/ AskModel \/ ModelAnswers
  \/ Cancel \/ Tick

RecognitionSpec == RecognitionInit /\ [][RecognitionNext]_rqVars

---------------------------------------------------------------------------
RecognitionTypeOK ==
  /\ rqNow \in 0..MaxTime /\ rqCancelled \in BOOLEAN
  /\ {rqTotal, rqUntil, rqLocal} \subseteq 0..MaxTime /\ rqAllow \in 0..LocalCap
  /\ rqPc \in {"ocr", "remote", "seeing", "local", "candidate", "render", "reading", "layout",
               "judge", "returned", "model", "answering"}
  /\ rqKids \in [Runs -> [phase : {"none", "wanted", "timed", "alive", "lingering", "over"},
                          until : 0..MaxTime,
                          got : Good \cup {"none", "failed", "missing", "timeout", "stopped"}]]
  /\ rqModel \in 0..ModelCount + 1
  /\ rqResult.what \in {"none", "text", "error", "refused", "stopped"}

(* However many engines, candidates, languages, layouts and models a        *)
(* request goes through, it lives on one budget: nothing it started on the  *)
(* network or as a process runs past its stage's deadline, let alone the    *)
(* request's (a process spawned too late has no time at all); no process    *)
(* is left when a stage returns; and no text is given out once the budget   *)
(* is used up.                                                              *)
OneBudget ==
  /\ rqUntil <= rqTotal
  /\ rqCall.out => rqNow <= rqUntil
  /\ \A run \in Runs : Running(run) /\ rqNow > rqUntil => rqKids[run].until = rqNow
  /\ rqPc \notin {"reading", "layout"} => \A run \in Runs : ~Running(run)
  /\ rqResult.what = "text" => rqResult.at < rqUntil
=============================================================================
