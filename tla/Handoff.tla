-------------------------------- MODULE Handoff --------------------------------
(***************************************************************************)
(* How one process gives a picture to the window of another (handoff.rs,   *)
(* session_transfer.rs, the delivery half of main.rs).  The sender writes a *)
(* private recovery copy, starts the receiver and waits, for a while, until *)
(* the receiver's mapped window leaves a receipt beside the copy; only then *)
(* does it delete the copy.  Without a receipt the copy stays until the     *)
(* user discards it by name.                                               *)
(***************************************************************************)
EXTENDS Naturals, Sequences

VARIABLES haSender,     \* phase and outcome of the sender
          haRetain,     \* the copy is to be kept: the save is uncertain
          haDraft,      \* "none", "carried" in the child's stdin, "lost"
          haFiles,      \* what the directory of the copy holds
          haReceipt,    \* what its receipt says, "none" while there is none
          haExpired,    \* the wait is over
          haChild,      \* phase of the receiver
          haEditable,   \* its window got the objects, not only the pixels
          haMemory,     \* the sender shows the picture itself
          haRemoval,    \* what the sender and the user have still to delete
          haShown,      \* a window of the receiver was mapped
          haDiscarded,  \* the user discarded the copy
          haGone        \* the picture went with the last process to hold it,
                        \* by a crash or because the user closed its window

haVars == <<haSender, haRetain, haDraft, haFiles, haReceipt, haExpired, haChild, haEditable,
            haMemory, haRemoval, haShown, haDiscarded, haGone>>

Actors == {"sender", "user"}
Copy == {"image", "request"}
DeletionOrder == <<"ready", "context", "image", "request">>
HandoffPhases == {"encode", "image", "request", "context", "spawn", "wait", "poll", "delete", "end", "dead"}

HandoffInit ==
    /\ haSender = [phase |-> "encode", outcome |-> "none"]
    /\ haRetain \in BOOLEAN /\ haDraft \in {"none", "carried"}
    /\ haFiles = {} /\ haReceipt = "none" /\ haExpired = FALSE
    /\ haChild = "none" /\ haEditable = FALSE /\ haMemory = FALSE
    /\ haRemoval = [actor \in Actors |-> <<>>]
    /\ haShown = FALSE /\ haDiscarded = FALSE /\ haGone = FALSE

Openable == Copy \subseteq haFiles

Outcome(outcome) == [phase |-> "end", outcome |-> outcome]
At(phase) == [haSender EXCEPT !.phase = phase]

(* recover_in_memory_if_needed: no file could be written for the picture.  *)
Unavailable == haSender' = Outcome("Unavailable") /\ haMemory' = TRUE

(* to_png, and the editing stream of a document (prepare), without which   *)
(* the receiver is told that the draft is not available.                   *)
EncodePicture ==
    /\ haSender.phase = "encode"
    /\ haDraft' \in {haDraft, IF haDraft = "carried" THEN "lost" ELSE haDraft}
    /\ \/ haSender' = At("image") /\ UNCHANGED haMemory
       \/ Unavailable
    /\ UNCHANGED <<haRetain, haFiles, haReceipt, haExpired, haChild, haEditable, haRemoval, haShown,
                   haDiscarded, haGone>>

(* Asset::create.  A directory that is not complete goes away again; one   *)
(* that is complete stays, even if its own check fails afterwards.         *)
CreateAsset ==
    /\ \/ /\ haSender.phase = "image"
          /\ \/ haFiles' = {"image"} /\ haSender' = At("request") /\ UNCHANGED haMemory
             \/ haFiles' = {} /\ Unavailable
       \/ /\ haSender.phase = "request"
          /\ \/ haFiles' = Copy /\ haSender' = At("context") /\ UNCHANGED haMemory
             \/ haFiles' \in {{}, Copy} /\ Unavailable
    /\ UNCHANGED <<haRetain, haDraft, haReceipt, haExpired, haChild, haEditable, haRemoval, haShown,
                   haDiscarded, haGone>>

(* write_context; from here every failure retains the copy. *)
WriteContext ==
    /\ haSender.phase = "context"
    /\ \/ Openable /\ haFiles' = haFiles \union {"context"} /\ haSender' = At("spawn")
       \/ haFiles' \in {haFiles, haFiles \union {"context"}} /\ haSender' = Outcome("Retained")
    /\ UNCHANGED <<haRetain, haDraft, haReceipt, haExpired, haChild, haEditable, haMemory, haRemoval,
                   haShown, haDiscarded, haGone>>

SpawnReceiver ==
    /\ haSender.phase = "spawn"
    /\ \/ haChild' = "starting" /\ haSender' = At("wait")
       \/ haSender' = Outcome("Retained") /\ UNCHANGED haChild
    /\ UNCHANGED <<haRetain, haDraft, haFiles, haReceipt, haExpired, haEditable, haMemory, haRemoval,
                   haShown, haDiscarded, haGone>>

Expire ==
    /\ haSender.phase \in {"wait", "poll"} /\ ~haExpired /\ haExpired' = TRUE
    /\ UNCHANGED <<haSender, haRetain, haDraft, haFiles, haReceipt, haChild, haEditable, haMemory,
                   haRemoval, haShown, haDiscarded, haGone>>

(* One turn of wait_with: the deadline, the child and a refusal are looked *)
(* at before the receipt.                                                  *)
PollChild ==
    /\ haSender.phase = "wait"
    /\ haSender' = IF haExpired \/ haChild = "exited" \/ haReceipt \notin {"none", "ready"}
                   THEN Outcome("Retained") ELSE At("poll")
    /\ UNCHANGED <<haRetain, haDraft, haFiles, haReceipt, haExpired, haChild, haEditable, haMemory,
                   haRemoval, haShown, haDiscarded, haGone>>

(* Mutation: a refusal counts as an answer, too. *)
IsAnswered == Openable /\ haReceipt # "none"

IsReady == Openable /\ haReceipt = "ready"

(* is_ready fails for good when the copy is gone or the receipt is another. *)
PollReceipt ==
    /\ haSender.phase = "poll"
    /\ haSender' = IF IsReady THEN At("delete")
                   ELSE IF ~Openable \/ haReceipt # "none" \/ haExpired THEN Outcome("Retained")
                   ELSE At("wait")
    /\ UNCHANGED <<haRetain, haDraft, haFiles, haReceipt, haExpired, haChild, haEditable, haMemory,
                   haRemoval, haShown, haDiscarded, haGone>>

(* remove_confirmed, which may be refused; the window is there either way. *)
BeginRemoval ==
    /\ haSender.phase = "delete"
    /\ haSender' = Outcome("Ready")
    /\ haRemoval' \in {haRemoval} \union
                      IF IsReady /\ ~haRetain THEN {[haRemoval EXCEPT !["sender"] = DeletionOrder]} ELSE {}
    /\ UNCHANGED <<haRetain, haDraft, haFiles, haReceipt, haExpired, haChild, haEditable, haMemory,
                   haShown, haDiscarded, haGone>>

(* recover-discard *)
UserDiscards ==
    /\ Openable /\ haRemoval["user"] = <<>>
    /\ haDiscarded' = TRUE /\ haRemoval' = [haRemoval EXCEPT !["user"] = DeletionOrder]
    /\ UNCHANGED <<haSender, haRetain, haDraft, haFiles, haReceipt, haExpired, haChild, haEditable,
                   haMemory, haShown, haGone>>

(* discard deletes one file after another and stops at the first it cannot *)
(* delete; a missing receipt or context does not matter.                   *)
DeleteNext(actor) ==
    LET left == haRemoval[actor]
        name == Head(left)
        may == name \in haFiles \union {"ready", "context"}
    IN  /\ left # <<>>
        /\ \/ /\ may
              /\ haFiles' = haFiles \ {name}
              /\ haReceipt' = IF name = "ready" THEN "none" ELSE haReceipt
              /\ haRemoval' = [haRemoval EXCEPT ![actor] = Tail(@)]
           \/ haRemoval' = [haRemoval EXCEPT ![actor] = <<>>] /\ UNCHANGED <<haFiles, haReceipt>>
        /\ UNCHANGED <<haSender, haRetain, haDraft, haExpired, haChild, haEditable, haMemory, haShown,
                       haDiscarded, haGone>>

(* write_receipt: the first receipt stays. *)
Receipt(text) == IF Openable /\ haReceipt = "none" THEN {text, haReceipt} ELSE {haReceipt}

(* load_image and arm_after_decode: without a picture, or without a copy   *)
(* it may answer for, the receiver ends.                                   *)
ReceiverLoads ==
    /\ haChild = "starting"
    /\ \/ Openable /\ haChild' = "loaded" /\ haReceipt' = haReceipt
          /\ haEditable' \in {haDraft = "carried", FALSE}
       \/ haChild' = "exited" /\ haReceipt' \in Receipt("decode") /\ UNCHANGED haEditable
    /\ UNCHANGED <<haSender, haRetain, haDraft, haFiles, haExpired, haMemory, haRemoval, haShown,
                   haDiscarded, haGone>>

(* The picture is too large, or no window can be made for it. *)
ReceiverRefuses(reason) ==
    /\ haChild = "loaded" /\ haChild' = "exited" /\ haReceipt' \in Receipt(reason)
    /\ UNCHANGED <<haSender, haRetain, haDraft, haFiles, haExpired, haEditable, haMemory, haRemoval,
                   haShown, haDiscarded, haGone>>

(* connect_ready: the receipt follows the window, and may not get written. *)
ReceiverMaps ==
    /\ haChild = "loaded" /\ haChild' = "mapped" /\ haShown' = TRUE
    /\ UNCHANGED <<haSender, haRetain, haDraft, haFiles, haReceipt, haExpired, haEditable, haMemory,
                   haRemoval, haDiscarded, haGone>>

Acknowledge ==
    /\ haChild = "mapped"
    /\ haReceipt' \in Receipt("ready") /\ haChild' = "answered"
    /\ UNCHANGED <<haSender, haRetain, haDraft, haFiles, haExpired, haEditable, haMemory, haRemoval,
                   haShown, haDiscarded, haGone>>

Visible == haChild \in {"mapped", "answered"}

(* The user closes the receiver's window (ImageSession says when it asks), *)
(* or the receiver breaks off.                                             *)
ReceiverEnds ==
    /\ haChild \notin {"none", "exited"} /\ haChild' = "exited"
    /\ haGone' = (haGone \/ Visible)
    /\ UNCHANGED <<haSender, haRetain, haDraft, haFiles, haReceipt, haExpired, haEditable, haMemory,
                   haRemoval, haShown, haDiscarded>>

CloseMemoryWindow ==
    /\ haMemory /\ haMemory' = FALSE /\ haGone' = TRUE
    /\ UNCHANGED <<haSender, haRetain, haDraft, haFiles, haReceipt, haExpired, haChild, haEditable,
                   haRemoval, haShown, haDiscarded>>

(* The sender breaks off; only before the copy is complete is that a loss. *)
SenderCrashes ==
    /\ haSender.phase \notin {"dead", "end"} \/ haRemoval["sender"] # <<>>
    /\ haSender' = At("dead") /\ haRemoval' = [haRemoval EXCEPT !["sender"] = <<>>]
    /\ haGone' = (haGone \/ haSender.phase \in {"encode", "image", "request"})
    /\ UNCHANGED <<haRetain, haDraft, haFiles, haReceipt, haExpired, haChild, haEditable, haMemory,
                   haShown, haDiscarded>>

HandoffNext ==
    \/ EncodePicture \/ CreateAsset \/ WriteContext \/ SpawnReceiver
    \/ Expire \/ PollChild \/ PollReceipt \/ BeginRemoval
    \/ UserDiscards \/ (\E actor \in Actors : DeleteNext(actor))
    \/ ReceiverLoads \/ (\E reason \in {"dimensions", "window"} : ReceiverRefuses(reason))
    \/ ReceiverMaps \/ Acknowledge \/ ReceiverEnds
    \/ CloseMemoryWindow \/ SenderCrashes

HandoffSpec == HandoffInit /\ [][HandoffNext]_haVars

-----------------------------------------------------------------------------
HandoffTypeOK ==
    /\ haSender \in [phase : HandoffPhases, outcome : {"none", "Ready", "Retained", "Unavailable"}]
    /\ haRetain \in BOOLEAN /\ haDraft \in {"none", "carried", "lost"}
    /\ haFiles \subseteq Copy \union {"context"}
    /\ haReceipt \in {"none", "ready", "decode", "dimensions", "window"}
    /\ haChild \in {"none", "starting", "loaded", "mapped", "answered", "exited"}
    /\ {haExpired, haEditable, haMemory, haShown, haDiscarded, haGone} \subseteq BOOLEAN
    /\ haRemoval \in [Actors -> {SubSeq(DeletionOrder, i, 4) : i \in 1 .. 5}]

Sending == haSender.phase \in HandoffPhases \ {"end", "dead"}

(* However the wait, the receiver's answer, the deletion and the user's    *)
(* discard interleave, the picture is in the sender, in a window, or on    *)
(* disk where `recover` finds it, until the user discards the copy or the  *)
(* last process to hold the picture is gone (spawn_encoded_session).       *)
PictureHeld ==
    \/ Sending \/ haMemory \/ Visible \/ Openable \/ haDiscarded \/ haGone

(* The copy is kept as long as nobody has seen the picture, whatever       *)
(* happens to the sender and to the receiver, and also after that when the *)
(* save is uncertain; only the user's discard ends that.                   *)
CopyKept ==
    haSender.phase \notin {"encode", "image", "request"} /\ haSender.outcome # "Unavailable"
        /\ ~haDiscarded /\ (~haShown \/ haRetain) /\ ~(haSender.phase = "dead" /\ haGone)
    => Openable

(* A hand-off loses neither the picture nor the copy that is to outlive    *)
(* both processes (handoff.rs).                                            *)
HandoffSafe == PictureHeld /\ CopyKept
=============================================================================
