----------------------------- MODULE NiriBindings -----------------------------
(***************************************************************************)
(* `vellum shortcuts install` and `remove` (shortcuts/mod.rs, niri.rs):    *)
(* one command at a time edits the user's keybinds.kdl with plain reads    *)
(* and writes, asks niri to validate the result and puts the old text back *)
(* if it does not.  The user edits the same file, a command may be killed  *)
(* at any point, and a write may fail and leave the file cut short.        *)
(* A text is the user's own part and the managed blocks in it; each        *)
(* default shortcut has a key of its own.                                  *)
(***************************************************************************)
EXTENDS Naturals, Sequences, SequencesExt

CONSTANTS DefaultShortcuts, MaxCommands, MaxHandEdits

ASSUME NiriAssumption == MaxCommands \in Nat /\ MaxHandEdits \in Nat

VARIABLES nbFile,      \* keybinds.kdl
          nbBackup,    \* keybinds.kdl.vellum-backup, or NoBackup
          nbIncluded,  \* config.kdl includes keybinds.kdl
          nbElsewhere, \* shortcuts bound in another included file
          nbCommand,   \* the command under way: its step, text read and text to write
          nbOutcome,   \* Status of the last command
          nbCommands, nbHandEdits,
          nbOwn,       \* history: the user's part as the user left it
          nbRaced,     \* history: a command's read and write enclosed the user's edit
          nbOverCut    \* history: a command changed a file that a failed write had cut

nbVars == <<nbFile, nbBackup, nbIncluded, nbElsewhere, nbCommand, nbOutcome, nbCommands,
            nbHandEdits, nbOwn, nbRaced, nbOverCut>>

NoBackup == [own |-> "no text"]
NoCommand == [step |-> "none"]

(* What the user wrote about a shortcut: nothing, its default key bound to *)
(* something else, or the shortcut bound by hand to another key.           *)
KeyUses == {"free", "taken", "bound"}

(* whole: nothing is cut off its end; closed: at least the closing brace of *)
(* the binds block is there.                                                *)
KeybindTexts(own) ==
    [own : {own}, blocks : BoundedSeq(SUBSET DefaultShortcuts, MaxCommands), closed : BOOLEAN, whole : BOOLEAN]
WithBlock(text, additions) == [text EXCEPT !.blocks = Append(@, additions)]
ManagedIn(text) == UNION Range(text.blocks)

(* active_config_files and scan: bindings the compositor has. *)
DiscoverActive ==
    nbElsewhere \union ManagedIn(nbFile) \union {a \in DefaultShortcuts : nbFile.own[a] = "bound"}
BindingKeys(text) == ManagedIn(text) \union {a \in DefaultShortcuts : text.own[a] = "taken"}

NiriInit ==
    /\ nbOwn \in [DefaultShortcuts -> KeyUses]
    /\ nbFile = [own |-> nbOwn, blocks |-> <<>>, closed |-> TRUE, whole |-> TRUE]
    /\ nbBackup = NoBackup
    /\ nbIncluded \in BOOLEAN
    /\ nbElsewhere = {}
    /\ nbCommand = NoCommand /\ nbOutcome = "None"
    /\ nbCommands = 0 /\ nbHandEdits = 0
    /\ nbRaced = FALSE /\ nbOverCut = FALSE

CommandAt(step) == nbCommand.step = step
CommandEnds(status) == nbCommand' = NoCommand /\ nbOutcome' = status
CommandGoes(step) == nbCommand' = [nbCommand EXCEPT !.step = step] /\ UNCHANGED nbOutcome

(* The target and its text are read once; a file without a whole binds     *)
(* block is refused by install, not by remove.                             *)
ReadKeybinds(kind) ==
    /\ CommandAt("none") /\ nbCommands < MaxCommands /\ nbCommands' = nbCommands + 1
    /\ \/ ~nbIncluded /\ CommandEnds("Unavailable")
       \/ nbIncluded /\ CommandEnds("Error")
       \/ nbIncluded /\ kind = "install" /\ ~nbFile.closed /\ CommandEnds("Unavailable")
       \/ /\ nbIncluded /\ (kind = "remove" \/ nbFile.closed)
          /\ nbCommand' = [step |-> kind, kind |-> kind, text |-> nbFile, new |-> nbFile]
          /\ UNCHANGED nbOutcome
    /\ UNCHANGED <<nbFile, nbBackup, nbIncluded, nbElsewhere, nbHandEdits, nbOwn, nbRaced, nbOverCut>>

MissingShortcuts == {a \in DefaultShortcuts : a \notin DiscoverActive}
TakenKeys == MissingShortcuts \intersect BindingKeys(nbCommand.text)

(* discover_active reads the files again, after the text was read. *)
PlanInstall ==
    /\ CommandAt("install")
    /\ \/ TakenKeys # {} /\ CommandEnds("Conflict")
       \/ TakenKeys = {} /\ MissingShortcuts = {} /\ CommandEnds("Ok")
       \/ /\ TakenKeys = {} /\ MissingShortcuts # {} /\ UNCHANGED nbOutcome
          /\ nbCommand' = [nbCommand EXCEPT !.step = "backup", !.new = WithBlock(nbCommand.text, MissingShortcuts)]
    /\ UNCHANGED <<nbFile, nbBackup, nbIncluded, nbElsewhere, nbCommands, nbHandEdits, nbOwn, nbRaced,
                   nbOverCut>>

(* The pattern is replaced once: of two managed blocks the second stays. *)
WithoutBlock(text) == [text EXCEPT !.blocks = IF @ = <<>> THEN @ ELSE Tail(@)]

PlanRemoval ==
    /\ CommandAt("remove")
    /\ \/ nbCommand.text.blocks = <<>> /\ CommandEnds("Ok")
       \/ /\ nbCommand.text.blocks # <<>> /\ UNCHANGED nbOutcome
          /\ nbCommand' = [nbCommand EXCEPT !.step = "backup", !.new = WithoutBlock(nbCommand.text)]
    /\ UNCHANGED <<nbFile, nbBackup, nbIncluded, nbElsewhere, nbCommands, nbHandEdits, nbOwn, nbRaced,
                   nbOverCut>>

(* What std::fs::write leaves when it fails: the file as it was if it did  *)
(* not open, else the new text up to some point; here nothing, all but the *)
(* end of the binds block, or that and not all that follows it.            *)
EmptyText == [own |-> [a \in DefaultShortcuts |-> "free"], blocks |-> <<>>, closed |-> FALSE, whole |-> FALSE]
AfterFailedWrite(old, new) ==
    {old, EmptyText} \union {[new EXCEPT !.closed = closed, !.whole = FALSE] : closed \in {FALSE, new.closed}}

(* Mutated: the first backup is kept as it is. *)
WriteBackupOnce ==
    /\ CommandAt("backup")
    /\ \/ nbBackup' = (IF nbBackup = NoBackup THEN nbCommand.text ELSE nbBackup) /\ CommandGoes("write")
       \/ nbBackup = NoBackup /\ nbBackup' \in AfterFailedWrite(nbBackup, nbCommand.text) /\ CommandEnds("Error")
    /\ nbOverCut' = (nbOverCut \/ ~nbCommand.text.whole)
    /\ UNCHANGED <<nbFile, nbIncluded, nbElsewhere, nbCommands, nbHandEdits, nbOwn, nbRaced>>

(* write_backup overwrites whatever backup there is. *)
WriteBackup ==
    /\ CommandAt("backup")
    /\ \/ nbBackup' = nbCommand.text /\ CommandGoes("write")
       \/ nbBackup' \in AfterFailedWrite(nbBackup, nbCommand.text) /\ CommandEnds("Error")
    /\ nbOverCut' = (nbOverCut \/ ~nbCommand.text.whole)
    /\ UNCHANGED <<nbFile, nbIncluded, nbElsewhere, nbCommands, nbHandEdits, nbOwn, nbRaced>>

(* A write that fails is reported and nothing is put back. *)
WriteKeybinds ==
    /\ CommandAt("write")
    /\ \/ nbFile' = nbCommand.new /\ CommandGoes("validate")
       \/ nbFile' \in AfterFailedWrite(nbFile, nbCommand.new) /\ CommandEnds("Error")
    /\ UNCHANGED <<nbBackup, nbIncluded, nbElsewhere, nbCommands, nbHandEdits, nbOwn, nbRaced, nbOverCut>>

(* validate_and_reload: accepted (or niri is not there), or refused or     *)
(* without an answer for ten seconds.  Whether the reload works does not   *)
(* matter.                                                                 *)
ValidateKeybinds ==
    /\ CommandAt("validate")
    /\ \/ CommandEnds(IF nbCommand.kind = "install" THEN "Installed" ELSE "Removed")
       \/ CommandGoes("restore")
    /\ UNCHANGED <<nbFile, nbBackup, nbIncluded, nbElsewhere, nbCommands, nbHandEdits, nbOwn, nbRaced,
                   nbOverCut>>

RestoreKeybinds ==
    /\ CommandAt("restore") /\ CommandEnds("Error")
    /\ nbFile' \in {nbCommand.text} \union AfterFailedWrite(nbFile, nbCommand.text)
    /\ UNCHANGED <<nbBackup, nbIncluded, nbElsewhere, nbCommands, nbHandEdits, nbOwn, nbRaced, nbOverCut>>

CommandKilled ==
    /\ ~CommandAt("none") /\ CommandEnds("None")
    /\ UNCHANGED <<nbFile, nbBackup, nbIncluded, nbElsewhere, nbCommands, nbHandEdits, nbOwn, nbRaced,
                   nbOverCut>>

(* The user writes the own part anew or takes a shortcut out of a managed  *)
(* block, and repairs a damaged file with it.                              *)
EditKeybinds ==
    /\ nbHandEdits < MaxHandEdits /\ nbHandEdits' = nbHandEdits + 1
    /\ \/ /\ \E a \in DefaultShortcuts, use \in KeyUses : nbOwn' = [nbOwn EXCEPT ![a] = use]
          /\ nbFile' = [nbFile EXCEPT !.own = nbOwn', !.closed = TRUE, !.whole = TRUE]
       \/ /\ \E i \in DOMAIN nbFile.blocks, a \in DefaultShortcuts :
                nbFile' = [nbFile EXCEPT !.blocks[i] = @ \ {a}, !.own = nbOwn, !.closed = TRUE, !.whole = TRUE]
          /\ UNCHANGED nbOwn
    /\ nbRaced' = ~CommandAt("none") /\ nbOverCut' = FALSE
    /\ nbOutcome' = "None"
    /\ UNCHANGED <<nbBackup, nbIncluded, nbElsewhere, nbCommand, nbCommands>>

BindsElsewhere(a) ==
    /\ nbHandEdits < MaxHandEdits /\ nbHandEdits' = nbHandEdits + 1
    /\ nbElsewhere' = nbElsewhere \union {a}
    /\ UNCHANGED <<nbFile, nbBackup, nbIncluded, nbCommand, nbOutcome, nbCommands, nbOwn, nbRaced,
                   nbOverCut>>

NiriNext ==
    \/ \E kind \in {"install", "remove"} : ReadKeybinds(kind)
    \/ PlanInstall \/ PlanRemoval \/ WriteBackup \/ WriteKeybinds \/ ValidateKeybinds \/ RestoreKeybinds \/ CommandKilled \/ EditKeybinds
    \/ \E a \in DefaultShortcuts : BindsElsewhere(a)

NiriSpec == NiriInit /\ [][NiriNext]_nbVars

-----------------------------------------------------------------------------
NiriTypeOK ==
    /\ nbFile \in KeybindTexts(nbFile.own) /\ nbOwn \in [DefaultShortcuts -> KeyUses]
    /\ nbBackup = NoBackup \/ nbBackup.own \in [DefaultShortcuts -> KeyUses]
    /\ nbIncluded \in BOOLEAN /\ nbElsewhere \subseteq DefaultShortcuts
    /\ nbCommand.step \in {"none", "install", "remove", "backup", "write", "validate", "restore"}
    /\ nbOutcome \in {"None", "Ok", "Installed", "Removed", "Conflict", "Unavailable", "Error"}
    /\ nbCommands \in 0 .. MaxCommands /\ nbHandEdits \in 0 .. MaxHandEdits

HoldsOwn(text) == text # NoBackup /\ text.whole /\ text.own = nbOwn

(* What the user wrote is in the file or whole in the backup, through any  *)
(* number of commands that fail or are killed at any step (install and     *)
(* remove of niri.rs, with write_backup before every write), unless the    *)
(* user edited the file while a command ran or let a command loose on a    *)
(* file that a failed write had left without its end.                      *)
OwnBindingsKept == ~nbRaced /\ ~nbOverCut => HoldsOwn(nbFile) \/ HoldsOwn(nbBackup)

(* A command that reports anything but an error leaves what the user wrote *)
(* in the file itself, and an installation reported leaves every default   *)
(* shortcut bound, none of them twice by the managed blocks.               *)
ReportTrue ==
    (~nbRaced /\ ~nbOverCut /\ CommandAt("none")) =>
        /\ nbOutcome \in {"Installed", "Removed"} => HoldsOwn(nbFile)
        /\ nbOutcome = "Installed" =>
            /\ DefaultShortcuts \subseteq DiscoverActive
            /\ \A i, j \in DOMAIN nbFile.blocks :
                i # j => nbFile.blocks[i] \intersect nbFile.blocks[j] = {}

BindingsSafe == OwnBindingsKept /\ ReportTrue
=============================================================================
