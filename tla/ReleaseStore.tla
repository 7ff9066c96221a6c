---------------------------- MODULE ReleaseStore ----------------------------
(***************************************************************************)
(* The release manager of the command line (release_store.rs): install,    *)
(* rollback, repair, uninstall, cancel and the login preference, as one    *)
(* program under an exclusive lock that may be killed, or fail, between    *)
(* any two changes of the disk.  What survives is the state file, the      *)
(* journal, two links, the versions, the public entries and the user       *)
(* services; every change of a file is made durable before the next one.   *)
(*                                                                         *)
(* A version's files are one value (absent, partial, complete), an entry   *)
(* is what its path holds, and the three user services are one, whose      *)
(* state is the version that runs.  Whether it starts at login, private    *)
(* staging directories and the text of reports are left out.               *)
(***************************************************************************)
EXTENDS Naturals

CONSTANTS
  Release,           \* identities of the bundles that can be installed
  Legacy,            \* names for backups of files that had no manager
  None,
  Entry,             \* public entries: programs, services, desktop files
  Unit, Login,       \* the service entry and the login entry among them
  MaxOperations, MaxEdits   \* bounds on what users ask for and on their edits

Version == Release \cup Legacy

ASSUME VersionAssumption == None \notin Version /\ Release \cap Legacy = {}
ASSUME BoundsAssumption == MaxOperations \in Nat /\ MaxEdits \in Nat
ASSUME EntryAssumption == {Unit, Login} \subseteq Entry /\ Unit # Login

VARIABLES
  state, journal,         \* state.json and journal.json
  link, prevLink,         \* the links `current` and `previous`
  releases, backup,       \* versions, and the files an adoption saved
  entries, pref,          \* public entries and the login preference
  running,                \* the version whose user services run
  pc, todo,               \* the manager's program counter and loop set
  asked, edited,          \* operations begun and edits made, for the bounds
  calm                    \* nothing interferes any more

records  == <<state, journal>>
links    == <<link, prevLink>>
programs == <<releases, backup>>
public   == <<entries, pref>>
counts   == <<asked, edited>>
vars == <<records, links, programs, public, running, pc, todo, counts, calm>>

NoJournal == [phase |-> "none"]
Own    == {"original", "edited"}          \* regular files of the user
Preparing == {"preparing", "adopting"}
Pending == {"deferred", "pending-activation", "legacy-deferred"}
Withdrawals == {"uninstall", "cancel-legacy"}
LinksGone == {"uninstall-stopped", "uninstall-links-removed", "committed"}

Init ==
  /\ state = [current |-> None, previous |-> None]
  /\ journal = NoJournal
  /\ link = None /\ prevLink = None
  /\ releases = [v \in Version |-> "absent"]
  /\ backup = [v \in Legacy |-> [e \in Entry |-> "none"]]
  /\ entries \in [Entry -> {"none", "original"}]
  /\ (\E e \in Entry : entries[e] # "none") => entries[Unit] # "none"
  /\ pref = "unset"
  /\ running = None
  /\ pc = "idle" /\ todo = {}
  /\ asked = 0 /\ edited = 0 /\ calm = FALSE

---------------------------------------------------------------------------
(* What the manager reads *)

Target == journal.target
Old    == journal.old
Open   == journal # NoJournal
Withdrawing == Open /\ journal.operation \in Withdrawals
Cancelling  == Open /\ journal.operation = "cancel-legacy"

Complete(v) == v \in Version /\ releases[v] = "complete"   \* verify_release

(* services.snapshot: the screen is busy, or else what the services do;    *)
(* an unreachable manager says nothing about them.                         *)
Busy == ~calm
NoSnapshot == [reachable |-> FALSE, active |-> FALSE]
Snapshots ==
  {[reachable |-> TRUE, active |-> running # None]}
    \cup IF calm THEN {} ELSE {NoSnapshot}

(* What systemd must find before it is told anything: the public service   *)
(* entry, through `current`, is the unit of version v (verify_binding).    *)
Bound(v) == link = v /\ v # None /\ entries[Unit] = "ours"

Phase(p) == [journal EXCEPT !.phase = p]
Write(p, next) == journal' = Phase(p) /\ pc' = next

Fresh(operation, target, phase) ==
  [operation |-> operation, target |-> target, old |-> state, services |-> NoSnapshot,
   phase |-> phase, adoption |-> None, planned |-> FALSE, cleanup |-> {}]

---------------------------------------------------------------------------
(* Install and rollback up to the common part *)

Asks == asked < MaxOperations /\ asked' = asked + 1 /\ UNCHANGED <<edited, calm>>

(* execute: no other operation runs, no transaction is open, and `current` *)
(* is what the state file says.                                            *)
Free == pc = "idle" /\ ~Open /\ link = state.current

(* legacy_needed: every entry is free or ours, or a regular file that the  *)
(* user allowed to be adopted; then the programs must be regular too.      *)
Adoptable(adopt) ==
  /\ \A e \in Entry :
       \/ entries[e] = "none"
       \/ entries[e] = "ours" /\ state.current # None
       \/ entries[e] \in Own /\ state.current = None /\ adopt
  /\ (\E e \in Entry : entries[e] \in Own) => entries[Unit] \in Own

StartInstall(id, adopt) ==
  /\ Asks
  /\ Free /\ id # state.current
  /\ Adoptable(adopt)
  /\ journal' = Fresh("install", id, "preparing")
  /\ pc' = IF \E e \in Entry : entries[e] \in Own THEN "stageLegacy" ELSE "stage"
  /\ UNCHANGED <<state, links, programs, public, running, todo>>

StartRollback ==
  /\ Asks
  /\ Free /\ Complete(state.previous)
  /\ journal' = Fresh("rollback", state.previous, "staged")
  /\ pc' = "finish"
  /\ UNCHANGED <<state, links, programs, public, running, todo>>

(* stage: the copy becomes a version with one rename; a version that is    *)
(* there already must be complete.                                         *)
Staging == {"stage", "stageLegacy"}

Stage ==
  /\ pc \in Staging /\ releases[Target] = "absent"
  /\ releases' = [releases EXCEPT ![Target] = "complete"]
  /\ UNCHANGED <<records, links, backup, public, running, pc, todo, counts, calm>>

StageRefused ==
  /\ pc \in Staging /\ releases[Target] = "partial"
  /\ pc' = "idle"
  /\ UNCHANGED <<records, links, programs, public, running, todo, counts, calm>>

Staged ==
  /\ pc \in Staging /\ Complete(Target)
  /\ Write("staged", IF pc = "stageLegacy" THEN "legacy" ELSE "finish")
  /\ UNCHANGED <<state, links, programs, public, running, todo, counts, calm>>

LegacyDeferred ==
  /\ pc = "legacy" /\ Busy
  /\ Write("legacy-deferred", "deferred")
  /\ UNCHANGED <<state, links, programs, public, running, todo, counts, calm>>

(* adopt_legacy_installation: a version of its own, made of the files that *)
(* are there, becomes the old version of the transaction.                  *)
AdoptStart ==
  /\ pc \in {"legacy", "adopt"}
  /\ \E v \in Legacy :
       /\ releases[v] = "absent"
       /\ journal' = [Phase("adopting") EXCEPT !.adoption = v]
  /\ pc' = "copy"
  /\ UNCHANGED <<state, links, programs, public, running, todo, counts, calm>>

CopyOriginals ==
  LET v == journal.adoption IN
  /\ pc = "copy" /\ releases[v] = "absent"
  /\ releases' = [releases EXCEPT ![v] = "partial"]
  /\ backup' = [backup EXCEPT ![v] =
       [e \in Entry |-> IF entries[e] \in Own THEN entries[e] ELSE "none"]]
  /\ UNCHANGED <<records, links, public, running, pc, todo, counts, calm>>

SealCopy ==
  /\ pc = "copy" /\ releases[journal.adoption] = "partial"
  /\ releases' = [releases EXCEPT ![journal.adoption] = "complete"]
  /\ UNCHANGED <<records, links, backup, public, running, pc, todo, counts, calm>>

BackedUp ==
  /\ pc = "copy" /\ Complete(journal.adoption)
  /\ journal' = [Phase("adoption-backed-up") EXCEPT
                   !.old.current = journal.adoption]
  /\ pc' = "adopted"
  /\ UNCHANGED <<state, links, programs, public, running, todo, counts, calm>>

(* Mutation: a switch that already happened is taken for a foreign one.    *)
AdoptSwitchOnce ==
  /\ pc = "adopted" /\ link = None /\ Complete(Old.current)
  /\ link' = Old.current
  /\ pc' = "finish"
  /\ UNCHANGED <<records, prevLink, programs, public, running, todo, counts, calm>>

AdoptSwitch ==
  /\ pc = "adopted" /\ link \in {None, Old.current} /\ Complete(Old.current)
  /\ link' = Old.current
  /\ pc' = "finish"
  /\ UNCHANGED <<records, prevLink, programs, public, running, todo, counts, calm>>

---------------------------------------------------------------------------
(* finish: links, switch, activation, commit *)

Deferred ==
  /\ pc = "finish" /\ Complete(Target) /\ Busy
  /\ Write("deferred", "deferred")
  /\ UNCHANGED <<state, links, programs, public, running, todo, counts, calm>>

DeferredState ==
  /\ pc = "deferred"
  /\ state' = Old
  /\ pc' = "idle"
  /\ UNCHANGED <<journal, links, programs, public, running, todo, counts, calm>>

Finish ==
  /\ pc = "finish" /\ Complete(Target)
  /\ \E s \in Snapshots : journal' = [journal EXCEPT !.services = s]
  /\ pc' = "links" /\ todo' = Entry
  /\ UNCHANGED <<state, links, programs, public, running, counts, calm>>

(* install_links on one entry: a free entry is made ours, except the login *)
(* entry of an update, whose absence is the user's choice.                 *)
OptedOut(e) == e = Login /\ pref = "off"
Installed(e) ==
  IF \/ OptedOut(e) /\ entries[e] \in {"ours", "none"}
     \/ e = Login /\ entries[e] = "none" /\ Old.current # None
  THEN "none" ELSE "ours"

(* Mutation: the file is not compared with what was saved of it.           *)
SavedSometime(e) ==
  journal.adoption # None /\ backup[journal.adoption][e] # "none"

(* A file is replaced only when the adoption saved exactly that file.      *)
Saved(e) == journal.adoption # None /\ backup[journal.adoption][e] = entries[e]

LinkEntry(e) ==
  /\ pc = "links" /\ e \in todo
  /\ entries[e] \in Own => Saved(e)
  /\ entries' = [entries EXCEPT ![e] = Installed(e)]
  /\ todo' = todo \ {e}
  /\ UNCHANGED <<records, links, programs, pref, running, pc, counts, calm>>

LinkRefused(e) ==
  /\ pc = "links" /\ e \in todo
  /\ entries[e] \in Own /\ ~Saved(e)
  /\ pc' = "idle" /\ todo' = {}
  /\ UNCHANGED <<records, links, programs, public, running, counts, calm>>

(* The checkpoints links-ready and prepared, with nothing between them.    *)
LinksReady ==
  /\ pc = "links" /\ todo = {}
  /\ Write("prepared", "switch")
  /\ UNCHANGED <<state, links, programs, public, running, todo, counts, calm>>

Switch ==
  /\ pc = "switch" /\ Complete(Target)
  /\ link \in {Old.current, Target, None}
  /\ link' = Target
  /\ pc' = "previous"
  /\ UNCHANGED <<records, prevLink, programs, public, running, todo, counts, calm>>

PreviousLink ==
  /\ pc = "previous"
  /\ prevLink' = Old.current
  /\ pc' = "switched"
  /\ UNCHANGED <<records, link, programs, public, running, todo, counts, calm>>

Switched ==
  /\ pc = "switched"
  /\ Write("switched", IF journal.services.reachable THEN "activate" ELSE "pend")
  /\ UNCHANGED <<state, links, programs, public, running, todo, counts, calm>>

Pend ==
  /\ pc = "pend"
  /\ Write("pending-activation", "pending")
  /\ UNCHANGED <<state, links, programs, public, running, todo, counts, calm>>

NewState == [current |-> Target, previous |-> Old.current]

PendState ==
  /\ pc = "pending"
  /\ state' = NewState
  /\ pc' = "idle"
  /\ UNCHANGED <<journal, links, programs, public, running, todo, counts, calm>>

(* The services as they were at the switch; a first install starts them,   *)
(* unless login start was refused.                                         *)
DesiredActive ==
  IF Old.current = None THEN pref # "off" ELSE journal.services.active

Activate ==
  /\ pc = "activate"
  /\ Write("activating", "activating")
  /\ UNCHANGED <<state, links, programs, public, running, todo, counts, calm>>

ActivateSucceeds ==
  /\ pc = "activating" /\ Bound(Target)
  /\ running' = IF DesiredActive THEN Target ELSE None
  /\ pc' = "activated"
  /\ UNCHANGED <<records, links, programs, public, todo, counts, calm>>

(* Any prefix of it may have happened when it fails.                       *)
ActivateFails ==
  /\ pc = "activating" /\ (~calm \/ ~Bound(Target))
  /\ running' \in {running, None, Target}
  /\ pc' = IF Old.current = None THEN "undo" ELSE "back"
  /\ UNCHANGED <<records, links, programs, public, todo, counts, calm>>

Activated ==
  /\ pc = "activated"
  /\ Write("activated", "ready")
  /\ UNCHANGED <<state, links, programs, public, running, todo, counts, calm>>

ReadyState ==
  /\ pc \in {"ready", "recommit"}
  /\ state' = NewState
  /\ pc' = IF pc = "ready" THEN "commit" ELSE "close"
  /\ UNCHANGED <<journal, links, programs, public, running, todo, counts, calm>>

Committed ==
  /\ pc = "commit"
  /\ Write("committed", "close")
  /\ UNCHANGED <<state, links, programs, public, running, todo, counts, calm>>

Close ==
  /\ pc = "close"
  /\ journal' = NoJournal
  /\ pc' = "idle"
  /\ UNCHANGED <<state, links, programs, public, running, todo, counts, calm>>

---------------------------------------------------------------------------
(* rollback_failed *)

(* A first install is stopped while `current` still names it; the services *)
(* of an older version come back after the switch.                         *)
UndoStop ==
  /\ pc = "undo" /\ Bound(link)
  /\ running' = None
  /\ pc' = "back"
  /\ UNCHANGED <<records, links, programs, public, todo, counts, calm>>

SwitchBack ==
  /\ pc = "back" /\ link \in {Old.current, Target, None}
  /\ Old.current # None => Complete(Old.current)
  /\ link' = Old.current
  /\ IF Old.current = None THEN pc' = "unlink" /\ todo' = Entry
                           ELSE pc' = "restore" /\ UNCHANGED todo
  /\ UNCHANGED <<records, prevLink, programs, public, running, counts, calm>>

Restore ==
  /\ pc = "restore" /\ Bound(Old.current)
  /\ running' = IF journal.services.active THEN Old.current ELSE None
  /\ pc' = "prevBack"
  /\ UNCHANGED <<records, links, programs, public, todo, counts, calm>>

(* A stop or a restoration that fails leaves the transaction for repair.   *)
ServicesFail ==
  /\ pc \in {"undo", "restore", "stop"}
  /\ ~calm \/ ~Bound(link)
  /\ running' \in {running, None}
  /\ pc' = "idle"
  /\ UNCHANGED <<records, links, programs, public, todo, counts, calm>>

(* remove_links: only entries that are ours.                               *)
RemoveEntry(e) ==
  /\ pc = "unlink" /\ e \in todo
  /\ entries' = IF entries[e] = "ours" THEN [entries EXCEPT ![e] = "none"] ELSE entries
  /\ todo' = todo \ {e}
  /\ UNCHANGED <<records, links, programs, pref, running, pc, counts, calm>>

EntriesRemoved ==
  /\ pc = "unlink" /\ todo = {}
  /\ pc' = IF Withdrawing THEN "plan" ELSE "prevBack"
  /\ UNCHANGED <<records, links, programs, public, running, todo, counts, calm>>

PreviousBack ==
  /\ pc = "prevBack"
  /\ prevLink' = Old.previous
  /\ pc' = "restored"
  /\ UNCHANGED <<records, link, programs, public, running, todo, counts, calm>>

RolledBack ==
  /\ pc = "restored"
  /\ Write("rolled-back", "undone")
  /\ UNCHANGED <<state, links, programs, public, running, todo, counts, calm>>

UndoneState ==
  /\ pc = "undone"
  /\ state' = Old
  /\ pc' = "close"
  /\ UNCHANGED <<journal, links, programs, public, running, todo, counts, calm>>

---------------------------------------------------------------------------
(* Uninstall and cancellation *)

(* The services are asked only about a version of the manager's own.       *)
BeginUninstall(j) ==
  \/ /\ j.operation # "cancel-legacy" /\ j.old.current # None /\ Busy
     /\ journal' = [j EXCEPT !.phase = "uninstall-deferred"]
     /\ pc' = "idle" /\ UNCHANGED todo
  \/ /\ j.phase \in LinksGone
     /\ j.operation = "uninstall"
     /\ pc' = "unlink" /\ todo' = Entry
     /\ UNCHANGED journal
  \/ /\ j.phase \in LinksGone
     /\ j.operation = "cancel-legacy"
     /\ pc' = "plan" /\ UNCHANGED <<journal, todo>>
  \/ /\ j.phase \notin LinksGone
     /\ \E s \in IF j.operation = "cancel-legacy" \/ j.old.current = None
                THEN {NoSnapshot} ELSE Snapshots :
          /\ journal' = [j EXCEPT !.phase = "uninstall-prepared"]
          /\ pc' = IF s.reachable THEN "stop" ELSE "stopped"
     /\ UNCHANGED todo

StartUninstall ==
  /\ Asks
  /\ Free
  /\ BeginUninstall(Fresh("uninstall", None, "uninstall-prepared"))
  /\ UNCHANGED <<state, links, programs, public, running>>

(* cancel_pending: the intent to activate is replaced by the intent to     *)
(* remove before anything else; a candidate already current is removed     *)
(* like an installed version.                                              *)
Expected == IF journal.phase = "pending-activation" THEN Target ELSE Old.current
MayCancel == journal.phase \in Pending /\ link = Expected

Cancel ==
  /\ Asks
  /\ pc = "idle" /\ Open /\ ~Withdrawing /\ MayCancel
  /\ journal' = [Fresh(IF journal.phase = "legacy-deferred" THEN "cancel-legacy"
                                                            ELSE "uninstall",
                       Target, "uninstall-prepared")
                   EXCEPT !.adoption = journal.adoption,
                          !.old.current = link,
                          !.old.previous = IF link # Old.current THEN Old.current
                                                                ELSE state.previous]
  /\ pc' = "uninstall"
  /\ UNCHANGED <<state, links, programs, public, running, todo>>

Uninstall ==
  /\ pc = "uninstall" /\ (Cancelling => link = None)
  /\ BeginUninstall(journal)
  /\ UNCHANGED <<state, links, programs, public, running, counts, calm>>

Stop ==
  /\ pc = "stop" /\ Bound(link)
  /\ running' = None
  /\ pc' = "stopped"
  /\ UNCHANGED <<records, links, programs, public, todo, counts, calm>>

Stopped ==
  /\ pc = "stopped"
  /\ journal' = Phase("uninstall-stopped")
  /\ IF Cancelling THEN pc' = "plan" /\ UNCHANGED todo
                   ELSE pc' = "unlink" /\ todo' = Entry
  /\ UNCHANGED <<state, links, programs, public, running, counts, calm>>

(* prepare_cleanup: complete versions nothing runs from, never a backup;   *)
(* planned once and kept.                                                  *)
Cleanable == {v \in Release : Complete(v) /\ v # running}
Plans == {p \in SUBSET Cleanable : calm => p = Cleanable}
Plan ==
  /\ pc = "plan"
  /\ \E p \in IF journal.planned THEN {journal.cleanup} ELSE Plans :
       journal' = [Phase("uninstall-links-removed") EXCEPT
         !.planned = TRUE,
         !.cleanup = IF Cancelling /\ ~journal.planned THEN (p \cap {Target}) \ {Old.previous} ELSE p]
  /\ IF Cancelling THEN pc' = "clean" /\ todo' = journal'.cleanup
                   ELSE pc' = "clear" /\ UNCHANGED todo
  /\ UNCHANGED <<state, links, programs, public, running, counts, calm>>

ClearCurrent ==
  /\ pc = "clear" /\ link \in {Old.current, None}
  /\ link' = None
  /\ pc' = "clearPrevious"
  /\ UNCHANGED <<records, prevLink, programs, public, running, todo, counts, calm>>

ClearPrevious ==
  /\ pc = "clearPrevious"
  /\ prevLink' = None
  /\ pc' = "clean" /\ todo' = journal.cleanup
  /\ UNCHANGED <<records, link, programs, public, running, counts, calm>>

(* clean_program, file by file; a version in use is left as it is, whole   *)
(* or not.                                                                 *)
CleanFile(v) ==
  /\ pc = "clean" /\ v \in todo /\ Complete(v) /\ v # running
  /\ releases' = [releases EXCEPT ![v] = "partial"]
  /\ UNCHANGED <<records, links, backup, public, running, pc, todo, counts, calm>>

Cleaned(v) ==
  /\ pc = "clean" /\ v \in todo /\ releases[v] # "complete" /\ v # running
  /\ releases' = [releases EXCEPT ![v] = "absent"]
  /\ todo' = todo \ {v}
  /\ UNCHANGED <<records, links, backup, public, running, pc, counts, calm>>

CleanSkips(v) ==
  /\ pc = "clean" /\ v \in todo /\ (~calm \/ v = running)
  /\ todo' = todo \ {v}
  /\ UNCHANGED <<records, links, programs, public, running, pc, counts, calm>>

(* Mutation: the version that was current is kept for a rollback, cleaned  *)
(* or not.                                                                 *)
KeepPreviousAlways ==
  /\ pc = "clean" /\ todo = {}
  /\ prevLink' = IF Cancelling THEN prevLink ELSE Old.current
  /\ pc' = "uninstalled"
  /\ UNCHANGED <<records, link, programs, public, running, todo, counts, calm>>

KeepPrevious ==
  /\ pc = "clean" /\ todo = {}
  /\ prevLink' = IF Cancelling THEN prevLink
                 ELSE IF Complete(Old.current) THEN Old.current ELSE None
  /\ pc' = "uninstalled"
  /\ UNCHANGED <<records, link, programs, public, running, todo, counts, calm>>

UninstalledState ==
  /\ pc = "uninstalled"
  /\ state' = [current |-> None, previous |-> IF Cancelling THEN Old.previous ELSE prevLink]
  /\ pc' = "commit"
  /\ UNCHANGED <<journal, links, programs, public, running, todo, counts, calm>>

---------------------------------------------------------------------------
(* Repair: where each phase of an open transaction goes on *)

(* Mutation: repair knows only one way to go on with what is withdrawn.    *)
ResumeAtActivation ==
  IF journal.operation = "uninstall" /\ Target = None THEN "uninstall" ELSE "finish"

ResumeAt ==
  IF Withdrawing THEN "uninstall"
  ELSE CASE journal.phase = "activating"                 ->
              IF Old.current = None THEN "undo" ELSE "back"
         [] journal.phase = "rolled-back"                -> "undone"
         [] journal.phase \in Preparing                  -> "forget"
         [] journal.phase \in {"activated", "committed"} -> "recommit"
         [] journal.phase = "legacy-deferred"            -> "adopt"
         [] journal.phase = "adoption-backed-up"         -> "adopted"
         [] OTHER                                        -> "finish"

Repair ==
  /\ pc = "idle" /\ Open
  /\ pc' = ResumeAt
  /\ pc' = "undone" => link = Old.current /\ (link # None => Complete(link))
  /\ pc' = "recommit" => link = Target /\ Complete(Target)
  /\ UNCHANGED <<records, links, programs, public, running, todo, counts, calm>>

(* A transaction that only prepared is forgotten.                          *)
Forget ==
  /\ pc = "forget"
  /\ state' = Old
  /\ pc' = "close"
  /\ UNCHANGED <<journal, links, programs, public, running, todo, counts, calm>>

---------------------------------------------------------------------------
(* The login preference *)

(* autostart: the preference is off while the entries are not all on, and  *)
(* off before the first of them is taken away.  The login entry is looked  *)
(* at first; then the services are asked, which takes a while.             *)
StartAutostart(on) ==
  LET present == entries[Login] = "ours" IN
  /\ Asks
  /\ Free /\ Complete(state.current)
  /\ entries[Login] \notin Own
  /\ pref' = IF on /\ present THEN pref ELSE "off"
  /\ pc' = CASE on /\ ~present -> "loginOn"  [] on /\ present -> "enable"
             [] ~on /\ present -> "loginOff" [] OTHER          -> "disable"
  /\ UNCHANGED <<records, links, programs, entries, running, todo>>

(* Putting the entry back does not look again at what is there; taking it  *)
(* away does.                                                              *)
LoginEntry ==
  /\ \/ pc = "loginOn"
     \/ pc = "loginOff" /\ entries[Login] = "ours"
  /\ entries' = [entries EXCEPT ![Login] = IF pc = "loginOn" THEN "ours" ELSE "none"]
  /\ pc' = IF pc = "loginOn" THEN "enable" ELSE "disable"
  /\ UNCHANGED <<records, links, programs, pref, running, todo, counts, calm>>

LoginReplaced ==
  /\ pc = "loginOff" /\ entries[Login] # "ours"
  /\ pc' = "idle"
  /\ UNCHANGED <<records, links, programs, public, running, todo, counts, calm>>

SetEnabled ==
  /\ pc \in {"enable", "disable"} /\ Bound(link)
  /\ pc' = IF pc = "enable" THEN "prefer" ELSE "idle"
  /\ UNCHANGED <<records, links, programs, public, running, todo, counts, calm>>

EnableFails ==
  /\ pc \in {"enable", "disable"}
  /\ ~calm \/ ~Bound(link)
  /\ pc' = "idle"
  /\ UNCHANGED <<records, links, programs, public, running, todo, counts, calm>>

Prefer ==
  /\ pc = "prefer"
  /\ pref' = "on"
  /\ pc' = "idle"
  /\ UNCHANGED <<records, links, programs, entries, running, todo, counts, calm>>

---------------------------------------------------------------------------
(* Everything else *)

(* The manager is killed, the machine stops, or a step returns an error:   *)
(* what is on disk stays as it is.                                         *)
Interrupted ==
  /\ pc # "idle" /\ ~calm
  /\ pc' = "idle" /\ todo' = {}
  /\ UNCHANGED <<records, links, programs, public, running, counts, calm>>

(* The user puts a file of his own in the place of an entry, or deletes it.*)
UserEdits(e) ==
  /\ ~calm /\ edited < MaxEdits /\ edited' = edited + 1
  /\ entries' \in {[entries EXCEPT ![e] = x] : x \in {"none", "edited"} \ {entries[e]}}
  /\ UNCHANGED <<records, links, programs, pref, running, pc, todo, asked, calm>>

(* The user, or the session, starts and stops the services of the current  *)
(* version and enables or disables them.                                   *)
UserServices ==
  /\ ~calm
  /\ running' \in {running, None} \cup IF Bound(link) THEN {link} ELSE {}
  /\ UNCHANGED <<records, links, programs, public, pc, todo, counts, calm>>

(* From here on nothing interferes: no window, no failure, no other hand.  *)
Settle ==
  /\ ~calm
  /\ calm' = TRUE
  /\ UNCHANGED <<records, links, programs, public, running, pc, todo, counts>>

---------------------------------------------------------------------------
(* Specification *)

Start ==
  \/ \E id \in Release, adopt \in BOOLEAN : StartInstall(id, adopt)
  \/ \E on \in BOOLEAN : StartAutostart(on)
  \/ StartRollback \/ StartUninstall \/ Cancel

Install ==
  \/ Stage \/ StageRefused \/ Staged \/ LegacyDeferred \/ AdoptStart \/ CopyOriginals
  \/ SealCopy \/ BackedUp \/ AdoptSwitch

Complement ==
  \/ Deferred \/ DeferredState \/ Finish \/ LinksReady \/ Switch \/ PreviousLink
  \/ Switched \/ Pend \/ PendState \/ Activate \/ ActivateSucceeds \/ ActivateFails
  \/ Activated \/ ReadyState \/ Committed \/ Close \/ Forget
  \/ \E e \in Entry : LinkEntry(e) \/ LinkRefused(e)

Undo ==
  \/ UndoStop \/ SwitchBack \/ Restore \/ ServicesFail \/ EntriesRemoved
  \/ PreviousBack \/ RolledBack \/ UndoneState
  \/ \E e \in Entry : RemoveEntry(e)

Removal ==
  \/ Uninstall \/ Stop \/ Stopped \/ Plan \/ ClearCurrent \/ ClearPrevious
  \/ KeepPrevious \/ UninstalledState
  \/ \E v \in Release : CleanFile(v) \/ Cleaned(v) \/ CleanSkips(v)

Autostart == LoginEntry \/ LoginReplaced \/ SetEnabled \/ EnableFails \/ Prefer

Manager == Install \/ Complement \/ Undo \/ Removal \/ Autostart

Environment ==
  \/ Interrupted \/ UserServices
  \/ \E e \in Entry : UserEdits(e)

Next == Start \/ Repair \/ Manager \/ Environment

Fairness == WF_vars(Manager) /\ WF_vars(Repair)

SettlingNext == Next \/ Settle

Spec == Init /\ [][Next]_vars
FairSpec == Init /\ [][SettlingNext]_vars /\ Fairness

---------------------------------------------------------------------------
(* Properties *)

Maybe(S) == S \cup {None}
States == [current : Maybe(Version), previous : Maybe(Version)]
SnapshotSet == [reachable : BOOLEAN, active : BOOLEAN]
Phases ==
  Preparing \cup Pending \cup LinksGone \cup
  {"staged", "adoption-backed-up", "prepared", "switched", "activating", "activated",
   "rolled-back", "uninstall-prepared", "uninstall-deferred"}
Journals ==
  [operation : {"install", "rollback"} \cup Withdrawals, target : Maybe(Version),
   old : States, services : SnapshotSet, phase : Phases,
   adoption : Maybe(Legacy), planned : BOOLEAN, cleanup : SUBSET Release]

(* The steps of a transaction that changes the version, of one that takes  *)
(* it away, of both, and of the login preference.                          *)
ChangeSteps ==
  Staging \cup
  {"legacy", "adopt", "copy", "adopted", "finish", "deferred", "links", "switch", "previous",
   "switched", "pend", "pending", "activate", "activating", "activated", "ready", "recommit",
   "undo", "back", "restore", "prevBack", "restored", "undone", "forget"}
RemovalSteps ==
  {"uninstall", "stop", "stopped", "plan", "clear", "clearPrevious", "clean", "uninstalled"}
SharedSteps == {"unlink", "commit", "close"}
LoginSteps == {"loginOn", "loginOff", "enable", "disable", "prefer"}

TypeOK ==
  /\ state \in States
  /\ Open => journal \in Journals
  /\ link \in Maybe(Version) /\ prevLink \in Maybe(Version)
  /\ releases \in [Version -> {"absent", "partial", "complete"}]
  /\ backup \in [Legacy -> [Entry -> Own \cup {"none"}]]
  /\ entries \in [Entry -> Own \cup {"none", "ours"}]
  /\ pref \in {"unset", "on", "off"}
  /\ running \in Maybe(Version)
  /\ pc \in {"idle"} \cup LoginSteps \cup ChangeSteps \cup RemovalSteps \cup SharedSteps
  /\ todo \subseteq Entry \cup Release
  /\ calm \in BOOLEAN

(* With no transaction open the state file, the two links and the versions *)
(* agree, so that a rollback is possible whenever one is recorded.         *)
Whole(v) == v # None => Complete(v)
PointersAgree ==
  ~Open /\ pc = "idle" =>
    /\ link = state.current /\ prevLink = state.previous
    /\ Whole(link) /\ Whole(prevLink)

(* Whatever is interrupted when, a file of the user's is replaced only by  *)
(* what keeps a complete backup of that very file, and is never deleted.   *)
(* The one exception is the login entry that autostart puts back after it  *)
(* has waited for the services: it does not look again.                    *)
Kept(e, file) ==
  \E v \in Legacy : Complete(v) /\ backup[v][e] = file
OwnFilesKept ==
  \A e \in Entry : entries[e] \in Own /\ entries'[e] # entries[e] =>
    \/ Kept(e, entries[e]) /\ entries'[e] = "ours"
    \/ UserEdits(e)
    \/ e = Login /\ pc = "loginOn"
NothingOverwritten == [][OwnFilesKept]_vars

(* `current` moves between complete versions, inside transactions, to      *)
(* their ends only.                                                        *)
Transaction ==
  IF ~Open THEN [kind |-> "none"]
  ELSE IF Withdrawing THEN [kind |-> "removal"]
  ELSE [kind |-> "change", from |-> Old.current, to |-> Target]
Versions ==
  INSTANCE VersionSwitch
    WITH live <- link, installed <- {v \in Version : Complete(v)}, txn <- Transaction
OneVersionLive == Versions!Spec

(* Once nothing interferes, repair ends an install or a rollback that was  *)
(* interrupted anywhere and whose entries nobody touched, except in two    *)
(* places where it never does: a first install whose services were being   *)
(* activated, and an adoption that was not yet recorded in the journal.    *)
Recoverable ==
  /\ edited = 0
  /\ journal.phase = "activating" => Old.current # None
  /\ (\E e \in Entry : entries[e] \in Own) =>
       journal.adoption # None \/ journal.phase \in {"preparing", "legacy-deferred"}
InterruptedInstallEnds ==
  (calm /\ Open /\ ~Withdrawing /\ Recoverable) ~> (~Open \/ Withdrawing)

(* What is said of an uninstall: an interrupted cleanup can be continued.  *)
CleanupContinues == (calm /\ Withdrawing /\ edited = 0) ~> ~Withdrawing
=============================================================================
