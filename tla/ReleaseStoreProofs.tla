-------------------------- MODULE ReleaseStoreProofs --------------------------
(***************************************************************************)
(* The release manager keeps its records, the links and the versions in    *)
(* agreement, never overwrites a file of the user's without a backup, and  *)
(* implements VersionSwitch, for every set of releases and of entries and  *)
(* through every kill, failure, repair and cancellation.  The inductive    *)
(* invariant says, for each step of the manager and each phase of the      *)
(* journal (what survives a kill), what has moved already.                 *)
(***************************************************************************)
EXTENDS ReleaseStore, TLAPS

-----------------------------------------------------------------------------
Changing == Open /\ ~Withdrawing

(* Which steps belong to which operation.                                  *)
StepsTyped ==
    /\ TypeOK
    /\ pc \in ChangeSteps => Changing
    /\ pc \in RemovalSteps => Withdrawing
    /\ pc \in SharedSteps => Open
    /\ pc \in LoginSteps => ~Open

(* The state file, the links and the versions agree.                       *)
Apart(s) == s.previous = None \/ s.previous # s.current
Settled ==
    /\ state.current = link /\ state.previous = prevLink /\ Apart(state)
    /\ Whole(link) /\ Whole(prevLink)
Rests == (~Open \/ pc \in {"commit", "close"}) => Settled

(* What the journal of a change is about.                                  *)
Ends ==
    Changing =>
        /\ Whole(link) /\ Whole(Old.current) /\ Whole(Old.previous)
        /\ Target \in Version /\ Target # Old.current /\ Apart(Old)
        /\ journal.operation = "install" => Target \in Release

(* The phase of the journal at each step of a change.                      *)
PhaseOfStep ==
    /\ pc \in {"stage", "stageLegacy"} => journal.phase = "preparing"
    /\ pc = "legacy" => journal.phase = "staged"
    /\ pc = "adopt" => journal.phase = "legacy-deferred"
    /\ pc = "copy" => journal.phase = "adopting"
    /\ pc = "forget" => journal.phase \in Preparing
    /\ pc \in {"finish", "links"} => journal.phase \notin Preparing
    /\ pc = "adopted" => journal.phase = "adoption-backed-up"
    /\ pc \in {"switch", "previous", "switched"} => journal.phase = "prepared"
    /\ pc \in {"activate", "pend"} => journal.phase = "switched"
    /\ pc = "pending" => journal.phase = "pending-activation"
    /\ pc \in {"activating", "activated", "undo", "back", "restore", "prevBack", "restored"} =>
         journal.phase = "activating"
    /\ Changing /\ pc = "unlink" => journal.phase = "activating"
    /\ pc = "ready" \/ (Changing /\ pc = "commit") => journal.phase = "activated"
    /\ pc = "recommit" => journal.phase \in {"activated", "committed"}
    /\ pc = "undone" => journal.phase = "rolled-back"

(* Before the switch, nothing has moved; an adoption starts from nothing.  *)
Early == {"preparing", "staged", "adopting", "legacy-deferred"}
Prepared ==
    /\ Changing /\ journal.phase \in Early =>
         state = Old /\ link = Old.current /\ prevLink = Old.previous
    /\ Changing /\ (pc \in {"stageLegacy", "legacy"} \/ journal.phase \in {"adopting", "legacy-deferred"}) =>
         Old.current = None /\ journal.operation = "install"
    /\ Changing /\ journal.phase = "adopting" =>
         journal.adoption \in Legacy /\ journal.adoption # Old.previous
    /\ Changing /\ journal.adoption # None /\ journal.phase # "adopting" => Complete(journal.adoption)

(* After it, the links name the target, or the old version again.          *)
Moved ==
    /\ pc = "previous" => link = Target
    /\ pc \in {"switched", "pend", "activate", "activating", "activated"} \/
         (Changing /\ journal.phase \in {"activated", "committed"}) =>
         link = Target /\ prevLink = Old.current
    /\ pc \in {"restore", "prevBack"} \/ (Changing /\ pc = "unlink") => link = Old.current
    /\ pc = "restored" \/ (Changing /\ journal.phase = "rolled-back") =>
         link = Old.current /\ prevLink = Old.previous

(* A removal takes versions apart only when none is current, and what a    *)
(* cancelled adoption leaves for a rollback is not taken apart.            *)
Removed ==
    /\ Withdrawing /\ pc \in {"clearPrevious", "clean", "uninstalled", "commit", "close"} => link = None
    /\ Cancelling /\ pc \in {"stopped", "plan"} => link = None
    /\ Cancelling => pc \notin {"stop", "unlink", "clear", "clearPrevious"}
    /\ pc \in {"clear", "clearPrevious", "clean"} => journal.planned
    /\ pc = "clean" => todo \subseteq journal.cleanup
    /\ pc = "uninstalled" => Whole(prevLink)
    /\ Cancelling =>
         /\ prevLink = Old.previous /\ Whole(prevLink)
         /\ journal.planned => Old.previous \notin journal.cleanup

StoreInv == StepsTyped /\ Rests /\ Ends /\ PhaseOfStep /\ Prepared /\ Moved /\ Removed

LEMMA JournalsOpen == ASSUME NEW j \in Journals PROVE j # NoJournal
<1>1. "operation" \in DOMAIN j /\ "operation" \notin DOMAIN NoJournal
  BY DEF Journals, NoJournal
<1> QED
  BY <1>1

LEMMA InitInv == Init => StoreInv
<1> SUFFICES ASSUME Init PROVE StoreInv
  OBVIOUS
<1>1. ~Open /\ pc = "idle" /\ link = None /\ prevLink = None
      /\ state = [current |-> None, previous |-> None] /\ running = None /\ todo = {}
  BY DEF Init, Open
<1>2. TypeOK
  <2>1. /\ releases \in [Version -> {"absent", "partial", "complete"}]
        /\ backup \in [Legacy -> [Entry -> Own \cup {"none"}]]
        /\ entries \in [Entry -> Own \cup {"none", "ours"}]
    BY DEF Init, Own
  <2>2. pref \in {"unset", "on", "off"} /\ calm \in BOOLEAN
    BY DEF Init
  <2> QED
    BY <1>1, <2>1, <2>2 DEF TypeOK, States, Maybe
<1>3. StepsTyped
  BY <1>1, <1>2 DEF StepsTyped, Staging, ChangeSteps, RemovalSteps, SharedSteps, LoginSteps,
       Withdrawing
<1>4. Rests /\ Ends /\ PhaseOfStep /\ Prepared /\ Moved /\ Removed
  BY <1>1 DEF Rests, Settled, Apart, Whole, Ends, PhaseOfStep, Prepared, Moved, Removed, Changing,
     Withdrawing, Cancelling
<1> QED
  BY <1>3, <1>4 DEF StoreInv

LEMMA StartInstallStep ==
    ASSUME StoreInv, NEW id \in Release, NEW adopt \in BOOLEAN, StartInstall(id, adopt)
    PROVE  StoreInv'
<1> USE DEF StoreInv, StepsTyped
<1>1. /\ ~Open /\ pc = "idle" /\ Settled /\ id # link
      /\ UNCHANGED <<state, links, programs, public, running, todo, calm>>
      /\ journal' = Fresh("install", id, "preparing")
      /\ pc' = IF \E e \in Entry : entries[e] \in Own THEN "stageLegacy" ELSE "stage"
      /\ (\E e \in Entry : entries[e] \in Own) => link = None
  <2>1. ASSUME NEW e \in Entry, entries[e] \in Own PROVE state.current = None
    BY <2>1 DEF StartInstall, Adoptable, Own
  <2>2. ~Open /\ pc = "idle" /\ Settled
    BY DEF StartInstall, Free, Rests
  <2> QED
    BY <2>1, <2>2 DEF StartInstall, Free, Settled, Asks
<1>2. /\ journal' \in Journals /\ journal'.operation = "install" /\ journal'.target = id
      /\ journal'.old = state /\ journal'.phase = "preparing" /\ journal'.adoption = None
  <2>1. /\ NoSnapshot \in SnapshotSet /\ id \in Maybe(Version) /\ None \in Maybe(Legacy)
        /\ state \in States
    BY DEF NoSnapshot, SnapshotSet, Maybe, Version, TypeOK
  <2>2. journal' = [operation |-> "install", target |-> id, old |-> state, services |-> NoSnapshot,
                    phase |-> "preparing", adoption |-> None, planned |-> FALSE, cleanup |-> {}]
    BY <1>1 DEF Fresh
  <2> QED
    BY <2>1, <2>2 DEF Journals, Phases, Preparing
<1>3. Changing'
  BY <1>2, JournalsOpen DEF Changing, Open, Withdrawing, Withdrawals
<1>4. StepsTyped'
  BY <1>1, <1>2, <1>3 DEF TypeOK, links, programs, public, Staging, ChangeSteps, RemovalSteps,
     SharedSteps, LoginSteps, Changing
<1>5. Rests' /\ Removed' /\ Moved' /\ PhaseOfStep'
  BY <1>1, <1>2, <1>3 DEF Rests, Removed, Moved, PhaseOfStep, Changing, Cancelling
<1>6. Ends' /\ Prepared'
  BY <1>1, <1>2, <1>3, VersionAssumption
     DEF Ends, Prepared, Early, Settled, Apart, Whole, Complete, Target, Old, links, programs,
          Version, TypeOK, States
<1> QED
  BY <1>4, <1>5, <1>6

LEMMA JournalFacts ==
    ASSUME TypeOK, Open
    PROVE  /\ journal \in Journals /\ Old \in States /\ Target \in Maybe(Version)
           /\ Old.current \in Maybe(Version) /\ Old.previous \in Maybe(Version)
           /\ journal.adoption \in Maybe(Legacy) /\ journal.cleanup \subseteq Release
BY DEF TypeOK, Journals, States, Old, Target

(* Steps that move the services only, or end what the manager was doing.   *)
LEMMA ServiceSteps ==
    ASSUME StoreInv,
           StageRefused \/ Interrupted \/ UserServices \/ ServicesFail \/ ActivateSucceeds
             \/ ActivateFails \/ UndoStop \/ Restore \/ Stop \/ EntriesRemoved
    PROVE  StoreInv'
<1> USE JournalFacts, VersionAssumption DEF StoreInv, StepsTyped, StageRefused, Interrupted,
     UserServices, ServicesFail, ActivateSucceeds, ActivateFails, UndoStop, Restore, Stop,
     EntriesRemoved, Staging, ChangeSteps, RemovalSteps, SharedSteps, LoginSteps, records, links,
     programs, public, counts, Changing, Withdrawing, Open, Old, Target
<1>1. TypeOK'
  BY DEF TypeOK, Maybe, Version, Bound
<1>2. StepsTyped'
  BY <1>1
<1>3. Rests'
  BY DEF Rests, Settled, Apart, Whole, Complete, Ends, PhaseOfStep, Prepared, Moved, Removed,
       Early, Preparing, Cancelling, TypeOK, States
<1>4. Ends'
  BY DEF Ends, Whole, Complete, TypeOK
<1>5. PhaseOfStep'
  BY DEF PhaseOfStep, Preparing
<1>6. Prepared'
  BY DEF Prepared, PhaseOfStep, Preparing, Complete, Early, TypeOK
<1>7. Moved'
  BY DEF Moved, PhaseOfStep, Preparing
<1>8. Removed'
  BY DEF Removed, Whole, Complete, Cancelling, TypeOK
<1> QED
  BY <1>2, <1>3, <1>4, <1>5, <1>6, <1>7, <1>8

(* Steps that write the state file.                                        *)
LEMMA StateSteps ==
    ASSUME StoreInv,
           DeferredState \/ PendState \/ ReadyState \/ UndoneState \/ UninstalledState \/ Forget
    PROVE  StoreInv'
<1> USE JournalFacts, VersionAssumption DEF StoreInv, StepsTyped, DeferredState, PendState,
     ReadyState, UndoneState, UninstalledState, Forget, Staging, ChangeSteps, RemovalSteps,
     SharedSteps, LoginSteps, records, links, programs, public, counts, Changing, Withdrawing,
     Open, Old, Target, NewState
<1>1. TypeOK'
  BY DEF TypeOK, States, Maybe
<1>2. StepsTyped'
  BY <1>1
<1>3. Rests'
  BY DEF Rests, Settled, Apart, Whole, Complete, Ends, PhaseOfStep, Prepared, Moved, Removed,
       Early, Preparing, Cancelling, TypeOK, States
<1>4. Ends'
  BY DEF Ends, Whole, Complete, TypeOK
<1>5. PhaseOfStep'
  BY DEF PhaseOfStep, Preparing
<1>6. Prepared'
  BY DEF Prepared, PhaseOfStep, Preparing, Complete, Early, TypeOK
<1>7. Moved'
  BY DEF Moved, PhaseOfStep, Preparing
<1>8. Removed'
  BY DEF Removed, Whole, Complete, Cancelling, TypeOK
<1> QED
  BY <1>2, <1>3, <1>4, <1>5, <1>6, <1>7, <1>8

(* Steps that move a link.                                                 *)
LEMMA LinkSteps ==
    ASSUME StoreInv,
           AdoptSwitch \/ Switch \/ PreviousLink \/ SwitchBack \/ PreviousBack \/ ClearCurrent
             \/ ClearPrevious \/ KeepPrevious
    PROVE  StoreInv'
<1> USE JournalFacts, VersionAssumption DEF StoreInv, StepsTyped, AdoptSwitch, Switch,
     PreviousLink, SwitchBack, PreviousBack, ClearCurrent, ClearPrevious, KeepPrevious, Staging,
     ChangeSteps, RemovalSteps, SharedSteps, LoginSteps, records, links, programs, public, counts,
     Changing, Withdrawing, Open, Old, Target
<1>1. TypeOK'
  BY DEF TypeOK, Maybe, Complete
<1>2. StepsTyped'
  BY <1>1
<1>3. Rests'
  BY DEF Rests, Settled, Apart, Whole, Complete, Ends, PhaseOfStep, Prepared, Moved, Removed,
       Early, Preparing, Cancelling, TypeOK, States
<1>4. Ends'
  BY DEF Ends, Whole, Complete, TypeOK
<1>5. PhaseOfStep'
  BY DEF PhaseOfStep, Preparing
<1>6. Prepared'
  BY DEF Prepared, PhaseOfStep, Preparing, Complete, Early, TypeOK
<1>7. Moved'
  BY DEF Moved, PhaseOfStep, Preparing
<1>8. Removed'
  <2>1. CASE AdoptSwitch \/ Switch \/ PreviousLink
    BY <2>1 DEF Removed, Cancelling, Withdrawals, Whole, Complete
  <2>5. CASE SwitchBack
    BY <2>5 DEF Removed, Cancelling, Withdrawals, Whole, Complete
  <2>2. CASE PreviousBack
    BY <2>2 DEF Removed, Cancelling, Withdrawals, Whole, Complete
  <2>3. CASE ClearCurrent \/ ClearPrevious
    BY <2>3 DEF Removed, Cancelling, Withdrawals, Whole, Complete
  <2>4. CASE KeepPrevious
    BY <2>4 DEF Removed, Cancelling, Withdrawals, Whole, Complete
  <2> QED
    BY <2>1, <2>2, <2>3, <2>4, <2>5
<1> QED
  BY <1>2, <1>3, <1>4, <1>5, <1>6, <1>7, <1>8

(* Steps that complete a version.                                          *)
LEMMA CopySteps ==
    ASSUME StoreInv, Stage \/ CopyOriginals \/ SealCopy
    PROVE  StoreInv'
<1> USE JournalFacts, VersionAssumption DEF StoreInv, StepsTyped, Stage, CopyOriginals, SealCopy,
     Staging, ChangeSteps, RemovalSteps, SharedSteps, LoginSteps, records, links, programs,
     public, counts, Changing, Withdrawing, Open, Old, Target
<1>1. TypeOK'
  BY DEF TypeOK, Own, Complete
<1>2. StepsTyped'
  BY <1>1
<1>3. Rests'
  BY DEF Rests, Settled, Apart, Whole, Complete, Ends, PhaseOfStep, Prepared, Moved, Removed,
       Early, Preparing, Cancelling, TypeOK, States
<1>4. Ends'
  BY DEF Ends, Whole, Complete, TypeOK
<1>5. PhaseOfStep'
  BY DEF PhaseOfStep, Preparing
<1>6. Prepared'
  BY DEF Prepared, PhaseOfStep, Preparing, Complete, Early, TypeOK
<1>7. Moved'
  BY DEF Moved, PhaseOfStep, Preparing
<1>8. Removed'
  BY DEF Removed, Whole, Complete, Cancelling, TypeOK
<1> QED
  BY <1>2, <1>3, <1>4, <1>5, <1>6, <1>7, <1>8

(* Steps that take a version apart.                                        *)
LEMMA CleanSteps ==
    ASSUME StoreInv, NEW v \in Release,
           CleanFile(v) \/ Cleaned(v) \/ CleanSkips(v)
    PROVE  StoreInv'
<1> USE JournalFacts, VersionAssumption DEF StoreInv, StepsTyped, CleanFile, Cleaned, CleanSkips,
     Staging, ChangeSteps, RemovalSteps, SharedSteps, LoginSteps, records, links, programs,
     public, counts, Changing, Withdrawing, Open, Old, Target
<1>1. TypeOK'
  BY DEF TypeOK, Complete
<1>2. StepsTyped'
  BY <1>1
<1>3. Rests'
  BY DEF Rests, Settled, Apart, Whole, Complete, Ends, PhaseOfStep, Prepared, Moved, Removed,
       Early, Preparing, Cancelling, TypeOK, States
<1>4. Ends'
  BY DEF Ends, Whole, Complete, TypeOK
<1>5. PhaseOfStep'
  BY DEF PhaseOfStep, Preparing
<1>6. Prepared'
  BY DEF Prepared, PhaseOfStep, Preparing, Complete, Early, TypeOK
<1>7. Moved'
  BY DEF Moved, PhaseOfStep, Preparing
<1>8. Removed'
  BY DEF Removed, Whole, Complete, Cancelling, TypeOK
<1> QED
  BY <1>2, <1>3, <1>4, <1>5, <1>6, <1>7, <1>8

(* Steps on an entry, the manager's and the user's.                        *)
LEMMA EntrySteps ==
    ASSUME StoreInv, NEW e \in Entry,
           LinkEntry(e) \/ LinkRefused(e) \/ RemoveEntry(e) \/ UserEdits(e)
    PROVE  StoreInv'
<1> USE JournalFacts, VersionAssumption DEF StoreInv, StepsTyped, LinkEntry, LinkRefused,
     RemoveEntry, UserEdits, Staging, ChangeSteps, RemovalSteps, SharedSteps, LoginSteps, records,
     links, programs, public, counts, Changing, Withdrawing, Open, Old, Target
<1>1. TypeOK'
  BY DEF TypeOK, Own, Installed
<1>2. StepsTyped'
  BY <1>1
<1>3. Rests'
  BY DEF Rests, Settled, Apart, Whole, Complete, Ends, PhaseOfStep, Prepared, Moved, Removed,
       Early, Preparing, Cancelling, TypeOK, States
<1>4. Ends'
  BY DEF Ends, Whole, Complete, TypeOK
<1>5. PhaseOfStep'
  BY DEF PhaseOfStep, Preparing
<1>6. Prepared'
  BY DEF Prepared, PhaseOfStep, Preparing, Complete, Early, TypeOK
<1>7. Moved'
  BY DEF Moved, PhaseOfStep, Preparing
<1>8. Removed'
  BY DEF Removed, Whole, Complete, Cancelling, TypeOK
<1> QED
  BY <1>2, <1>3, <1>4, <1>5, <1>6, <1>7, <1>8

LEMMA PhaseTyped ==
    ASSUME TypeOK, Open, NEW p \in Phases
    PROVE  LET j == Phase(p)
           IN  /\ j \in Journals /\ j # NoJournal /\ j.phase = p
               /\ j.operation = journal.operation /\ j.target = journal.target
               /\ j.old = journal.old /\ j.services = journal.services
               /\ j.adoption = journal.adoption /\ j.planned = journal.planned
               /\ j.cleanup = journal.cleanup
<1> DEFINE j == Phase(p)
<1>1. journal \in Journals
  BY JournalFacts
<1>2. /\ j \in Journals /\ j.phase = p
      /\ j.operation = journal.operation /\ j.target = journal.target
      /\ j.old = journal.old /\ j.services = journal.services
      /\ j.adoption = journal.adoption /\ j.planned = journal.planned
      /\ j.cleanup = journal.cleanup
  BY <1>1 DEF Phase, Journals
<1> HIDE DEF j
<1>3. j # NoJournal
  BY <1>2, JournalsOpen
<1> QED
  BY <1>2, <1>3 DEF j

(* The phases of the journal.                                              *)
LEMMA PhaseSteps ==
    ASSUME StoreInv,
           Staged \/ LegacyDeferred \/ Deferred \/ LinksReady \/ Switched \/ Pend \/ Activate
             \/ Activated \/ Committed \/ RolledBack
    PROVE  StoreInv'
<1> USE JournalFacts, VersionAssumption DEF StoreInv, StepsTyped, Staging, ChangeSteps,
     RemovalSteps, SharedSteps, LoginSteps, records, links, programs, public, counts, Changing,
     Withdrawing, Open, Old, Target
<1>1. Open /\ UNCHANGED <<state, link, prevLink, releases, backup, entries, pref, running, todo, calm>>
  BY DEF Staged, LegacyDeferred, Deferred, LinksReady, Switched, Pend, Activate, Activated,
       Committed, RolledBack
<1>2. PICK p \in Phases :
        /\ journal' = Phase(p)
        /\ \/ pc \in Staging /\ p = "staged" /\ pc' = "finish"
           \/ pc = "stageLegacy" /\ p = "staged" /\ pc' = "legacy"
           \/ pc = "legacy" /\ p = "legacy-deferred" /\ pc' = "deferred"
           \/ pc = "finish" /\ p = "deferred" /\ pc' = "deferred"
           \/ pc = "links" /\ p = "prepared" /\ pc' = "switch"
           \/ pc = "switched" /\ p = "switched" /\ pc' \in {"activate", "pend"}
           \/ pc = "pend" /\ p = "pending-activation" /\ pc' = "pending"
           \/ pc = "activate" /\ p = "activating" /\ pc' = "activating"
           \/ pc = "activated" /\ p = "activated" /\ pc' = "ready"
           \/ pc = "commit" /\ p = "committed" /\ pc' = "close"
           \/ pc = "restored" /\ p = "rolled-back" /\ pc' = "undone"
  BY DEF Staged, LegacyDeferred, Deferred, LinksReady, Switched, Pend, Activate, Activated,
       Committed, RolledBack, Write, Phases, Pending, LinksGone
<1>3. /\ journal' \in Journals /\ journal' # NoJournal /\ journal'.phase = p
      /\ journal'.operation = journal.operation /\ journal'.target = journal.target
      /\ journal'.old = journal.old /\ journal'.adoption = journal.adoption
      /\ journal'.planned = journal.planned /\ journal'.cleanup = journal.cleanup
  BY <1>1, <1>2, PhaseTyped
<1>4. StepsTyped'
  BY <1>1, <1>2, <1>3 DEF TypeOK
<1>5. Rests'
  BY <1>1, <1>2, <1>3 DEF Rests, Settled, Apart, Whole, Complete
<1>6. Ends'
  BY <1>1, <1>2, <1>3 DEF Ends, Whole, Complete, Apart
<1>7. PhaseOfStep'
  BY <1>1, <1>2, <1>3 DEF PhaseOfStep, Preparing
<1>8. Prepared'
  BY <1>1, <1>2, <1>3 DEF Prepared, PhaseOfStep, Preparing, Complete, Early
<1>9. Moved'
  BY <1>1, <1>2, <1>3 DEF Moved, PhaseOfStep, Preparing, Withdrawals
<1>10. Removed'
  BY <1>1, <1>2, <1>3 DEF Removed, Whole, Complete, Cancelling, Withdrawals
<1> QED
  BY <1>4, <1>5, <1>6, <1>7, <1>8, <1>9, <1>10

(* An adoption, from its own version to the old one of the transaction.    *)
LEMMA AdoptStartStep == ASSUME StoreInv, AdoptStart PROVE StoreInv'
<1> USE JournalFacts, VersionAssumption DEF StoreInv, StepsTyped, Staging, ChangeSteps,
     RemovalSteps, SharedSteps, LoginSteps, records, links, programs, public, counts, Changing,
     Withdrawing, Open, Old, Target
<1>1. PICK v \in Legacy :
        /\ releases[v] = "absent" /\ pc \in {"legacy", "adopt"} /\ pc' = "copy"
        /\ journal' = [Phase("adopting") EXCEPT !.adoption = v]
        /\ UNCHANGED <<state, link, prevLink, releases, backup, entries, pref, running, todo, calm>>
  BY DEF AdoptStart
<1>2. /\ journal' \in Journals /\ journal'.phase = "adopting" /\ journal'.adoption = v
      /\ journal'.operation = journal.operation /\ journal'.target = journal.target
      /\ journal'.old = journal.old
  <2>1. journal \in Journals /\ "adopting" \in Phases /\ v \in Maybe(Legacy)
    BY <1>1 DEF Phases, Preparing, Maybe
  <2> QED
    BY <1>1, <2>1 DEF Phase, Journals
<1>3. journal' # NoJournal /\ Changing
  BY <1>1, <1>2, JournalsOpen
<1>4. v # Old.previous
  BY <1>1, <1>3 DEF Ends, Whole, Complete, Version
<1>5. StepsTyped'
  BY <1>1, <1>2, <1>3, <1>4 DEF TypeOK
<1>6. Rests'
  BY <1>1, <1>2, <1>3, <1>4 DEF Rests, Settled, Apart, Whole, Complete
<1>7. Ends'
  BY <1>1, <1>2, <1>3, <1>4 DEF Ends, Whole, Complete, Apart
<1>8. PhaseOfStep'
  BY <1>1, <1>2, <1>3, <1>4 DEF PhaseOfStep, Preparing
<1>9. Prepared'
  BY <1>1, <1>2, <1>3, <1>4 DEF Prepared, PhaseOfStep, Preparing, Complete, Early
<1>10. Moved'
  BY <1>1, <1>2, <1>3, <1>4 DEF Moved, PhaseOfStep, Withdrawals
<1>11. Removed'
  BY <1>1, <1>2, <1>3, <1>4 DEF Removed, Whole, Complete, Cancelling, Withdrawals
<1> QED
  BY <1>5, <1>6, <1>7, <1>8, <1>9, <1>10, <1>11

LEMMA BackedUpStep == ASSUME StoreInv, BackedUp PROVE StoreInv'
<1> USE JournalFacts, VersionAssumption DEF StoreInv, StepsTyped, Staging, ChangeSteps,
     RemovalSteps, SharedSteps, LoginSteps, records, links, programs, public, counts, Changing,
     Withdrawing, Open, Old, Target
<1> DEFINE v == journal.adoption
<1>1. /\ pc = "copy" /\ Complete(v) /\ pc' = "adopted" /\ journal.phase = "adopting"
      /\ journal' = [Phase("adoption-backed-up") EXCEPT !.old.current = v]
      /\ UNCHANGED <<state, link, prevLink, releases, backup, entries, pref, running, todo, calm>>
  BY DEF BackedUp, PhaseOfStep
<1>2. /\ Changing /\ v \in Legacy /\ v # Old.previous /\ Old.current = None
      /\ Target \in Release
  BY <1>1 DEF Prepared, Ends
<1>3. /\ journal' \in Journals /\ journal'.phase = "adoption-backed-up" /\ journal'.adoption = v
      /\ journal'.operation = journal.operation /\ journal'.target = journal.target
      /\ journal'.old.current = v /\ journal'.old.previous = Old.previous
  <2>1. /\ journal \in Journals /\ "adoption-backed-up" \in Phases /\ v \in Maybe(Version)
    BY <1>1, <1>2 DEF Phases, Maybe, Version
  <2> HIDE DEF v
  <2> QED
    BY <1>1, <2>1 DEF Phase, Journals, States, v
<1>4. journal' # NoJournal /\ v \in Version /\ v # Target /\ v # None
  BY <1>2, <1>3, JournalsOpen DEF Version
<1> HIDE DEF v
<1>5. StepsTyped'
  BY <1>1, <1>2, <1>3, <1>4 DEF TypeOK
<1>6. Rests'
  BY <1>1, <1>2, <1>3, <1>4 DEF Rests, Settled, Apart, Whole, Complete
<1>7. Ends'
  BY <1>1, <1>2, <1>3, <1>4 DEF Ends, Whole, Complete, Apart, v
<1>8. PhaseOfStep'
  BY <1>1, <1>2, <1>3, <1>4 DEF PhaseOfStep, Preparing
<1>9. Prepared'
  BY <1>1, <1>2, <1>3, <1>4 DEF Prepared, PhaseOfStep, Preparing, Complete, Early, v
<1>10. Moved'
  BY <1>1, <1>2, <1>3, <1>4 DEF Moved, PhaseOfStep, Withdrawals
<1>11. Removed'
  BY <1>1, <1>2, <1>3, <1>4 DEF Removed, Whole, Complete, Cancelling, Withdrawals
<1> QED
  BY <1>5, <1>6, <1>7, <1>8, <1>9, <1>10, <1>11

(* The common part begins.                                                 *)
LEMMA FinishStep == ASSUME StoreInv, Finish PROVE StoreInv'
<1> USE JournalFacts, VersionAssumption DEF StoreInv, StepsTyped, Staging, ChangeSteps,
     RemovalSteps, SharedSteps, LoginSteps, records, links, programs, public, counts, Changing,
     Withdrawing, Open, Old, Target
<1>1. PICK s \in Snapshots :
        /\ pc = "finish" /\ pc' = "links" /\ todo' = Entry
        /\ journal' = [journal EXCEPT !.services = s]
        /\ UNCHANGED <<state, link, prevLink, releases, backup, entries, pref, running, calm>>
  BY DEF Finish
<1>2. /\ journal' \in Journals /\ journal'.phase = journal.phase
      /\ journal'.operation = journal.operation /\ journal'.target = journal.target
      /\ journal'.old = journal.old /\ journal'.adoption = journal.adoption
  <2>1. s \in SnapshotSet /\ journal \in Journals
    <3>1. (running # None) \in BOOLEAN
      OBVIOUS
    <3>2. s = NoSnapshot \/ s = [reachable |-> TRUE, active |-> running # None]
      BY <1>1 DEF Snapshots
    <3>3. [reachable |-> TRUE, active |-> running # None] \in SnapshotSet
      BY <3>1, Zenon DEF SnapshotSet
    <3>4. Open
      BY <1>1
    <3>5. NoSnapshot \in SnapshotSet
      BY DEF SnapshotSet, NoSnapshot
    <3> QED
      BY <3>2, <3>3, <3>4, <3>5
  <2> QED
    BY <1>1, <2>1 DEF Journals
<1>3. journal' # NoJournal
  BY <1>2, JournalsOpen
<1>4. StepsTyped'
  BY <1>1, <1>2, <1>3 DEF TypeOK
<1>5. Rests'
  BY <1>1, <1>2, <1>3 DEF Rests, Settled, Apart, Whole, Complete
<1>6. Ends'
  BY <1>1, <1>2, <1>3 DEF Ends, Whole, Complete, Apart
<1>7. PhaseOfStep'
  BY <1>1, <1>2, <1>3 DEF PhaseOfStep, Preparing
<1>8. Prepared'
  BY <1>1, <1>2, <1>3 DEF Prepared, PhaseOfStep, Preparing, Complete, Early
<1>9. Moved'
  BY <1>1, <1>2, <1>3 DEF Moved, PhaseOfStep, Withdrawals
<1>10. Removed'
  BY <1>1, <1>2, <1>3 DEF Removed, Whole, Complete, Cancelling, Withdrawals
<1> QED
  BY <1>4, <1>5, <1>6, <1>7, <1>8, <1>9, <1>10

LEMMA StartRollbackStep == ASSUME StoreInv, StartRollback PROVE StoreInv'
<1> USE JournalFacts, VersionAssumption DEF StoreInv, StepsTyped, Staging, ChangeSteps,
     RemovalSteps, SharedSteps, LoginSteps, records, links, programs, public, counts, Changing,
     Withdrawing, Open, Old, Target
<1>1. /\ ~Open /\ pc = "idle" /\ Settled /\ Complete(state.previous) /\ pc' = "finish"
      /\ journal' = Fresh("rollback", state.previous, "staged")
      /\ UNCHANGED <<state, link, prevLink, releases, backup, entries, pref, running, todo, calm>>
  BY DEF StartRollback, Asks, Free, Rests
<1>2. /\ journal' \in Journals /\ journal'.operation = "rollback" /\ journal'.target = state.previous
      /\ journal'.old = state /\ journal'.phase = "staged" /\ journal'.adoption = None
  <2>1. /\ NoSnapshot \in SnapshotSet /\ state.previous \in Maybe(Version) /\ None \in Maybe(Legacy)
        /\ state \in States /\ "staged" \in Phases
    BY DEF NoSnapshot, SnapshotSet, Maybe, Version, TypeOK, States, Phases
  <2> QED
    BY <1>1, <2>1 DEF Fresh, Journals
<1>3. Changing' /\ journal' # NoJournal
  BY <1>2, JournalsOpen DEF Withdrawals
<1>4. state.previous \in Version /\ state.previous # state.current
  BY <1>1 DEF Settled, Apart, Complete
<1>5. StepsTyped'
  BY <1>1, <1>2, <1>3, <1>4 DEF TypeOK
<1>6. Rests'
  BY <1>1, <1>2, <1>3, <1>4 DEF Rests, Settled, Apart, Whole, Complete
<1>7. Ends'
  BY <1>1, <1>2, <1>3, <1>4 DEF Ends, Whole, Complete, Apart, Settled, Maybe
<1>8. PhaseOfStep'
  BY <1>1, <1>2, <1>3, <1>4 DEF PhaseOfStep, Preparing
<1>9. Prepared'
  BY <1>1, <1>2, <1>3, <1>4 DEF Prepared, PhaseOfStep, Preparing, Complete, Early, Settled
<1>10. Moved'
  BY <1>1, <1>2, <1>3, <1>4 DEF Moved, PhaseOfStep, Withdrawals
<1>11. Removed'
  BY <1>1, <1>2, <1>3, <1>4 DEF Removed, Whole, Complete, Cancelling, Withdrawals
<1> QED
  BY <1>5, <1>6, <1>7, <1>8, <1>9, <1>10, <1>11

LEMMA CloseStep == ASSUME StoreInv, Close PROVE StoreInv'
<1> USE JournalFacts, VersionAssumption DEF StoreInv, StepsTyped, Staging, ChangeSteps,
     RemovalSteps, SharedSteps, LoginSteps, records, links, programs, public, counts, Changing,
     Withdrawing, Open, Old, Target
<1>1. /\ pc = "close" /\ pc' = "idle" /\ journal' = NoJournal
      /\ UNCHANGED <<state, link, prevLink, releases, backup, entries, pref, running, todo, calm>>
  BY DEF Close
<1>2. StepsTyped'
  BY <1>1 DEF TypeOK
<1>3. Rests'
  BY <1>1 DEF Rests, Settled, Apart, Whole, Complete
<1>4. Ends'
  BY <1>1 DEF Ends, Whole, Complete, Apart
<1>5. PhaseOfStep'
  BY <1>1 DEF PhaseOfStep, Preparing
<1>6. Prepared'
  BY <1>1 DEF Prepared, PhaseOfStep, Preparing, Complete, Early
<1>7. Moved'
  BY <1>1 DEF Moved, PhaseOfStep, Withdrawals
<1>8. Removed'
  BY <1>1 DEF Removed, Whole, Complete, Cancelling, Withdrawals
<1> QED
  BY <1>2, <1>3, <1>4, <1>5, <1>6, <1>7, <1>8

LEMMA RepairStep == ASSUME StoreInv, Repair PROVE StoreInv'
<1> USE JournalFacts, VersionAssumption DEF StoreInv, StepsTyped, Staging, ChangeSteps,
     RemovalSteps, SharedSteps, LoginSteps, records, links, programs, public, counts, Changing,
     Withdrawing, Open, Old, Target
<1>1. /\ pc = "idle" /\ Open
      /\ UNCHANGED <<state, journal, link, prevLink, releases, backup, entries, pref, running, todo, calm>>
  BY DEF Repair
<1>2. \/ Withdrawing /\ pc' = "uninstall"
      \/ ~Withdrawing /\ journal.phase = "activating" /\ pc' \in {"undo", "back"}
      \/ ~Withdrawing /\ journal.phase = "rolled-back" /\ pc' = "undone"
      \/ ~Withdrawing /\ journal.phase \in Preparing /\ pc' = "forget"
      \/ ~Withdrawing /\ journal.phase \in {"activated", "committed"} /\ pc' = "recommit"
      \/ ~Withdrawing /\ journal.phase = "legacy-deferred" /\ pc' = "adopt"
      \/ ~Withdrawing /\ journal.phase = "adoption-backed-up" /\ pc' = "adopted"
      \/ ~Withdrawing /\ journal.phase \notin Preparing /\ pc' = "finish"
  <2>1. CASE Withdrawing
    BY <2>1 DEF Repair, ResumeAt
  <2>2. CASE ~Withdrawing
    <3> DEFINE phase == journal.phase
    <3>1. pc' = CASE phase = "activating" -> IF Old.current = None THEN "undo" ELSE "back"
                  [] phase = "rolled-back" -> "undone"
                  [] phase \in Preparing -> "forget"
                  [] phase \in {"activated", "committed"} -> "recommit"
                  [] phase = "legacy-deferred" -> "adopt"
                  [] phase = "adoption-backed-up" -> "adopted"
                  [] OTHER -> "finish"
      BY <2>2 DEF Repair, ResumeAt
    <3> QED
      BY <2>2, <3>1 DEF Preparing
  <2> QED
    BY <2>1, <2>2
<1>3. StepsTyped'
  BY <1>1, <1>2 DEF TypeOK
<1>4. Rests'
  BY <1>1, <1>2 DEF Rests, Settled, Apart, Whole, Complete
<1>5. Ends'
  BY <1>1, <1>2 DEF Ends, Whole, Complete, Apart
<1>6. PhaseOfStep'
  BY <1>1, <1>2 DEF PhaseOfStep, Preparing
<1>7. Prepared'
  BY <1>1, <1>2 DEF Prepared, PhaseOfStep, Preparing, Complete, Early
<1>8. Moved'
  BY <1>1, <1>2 DEF Moved, PhaseOfStep, Withdrawals
<1>9. Removed'
  BY <1>1, <1>2 DEF Removed, Whole, Complete, Cancelling, Withdrawals
<1> QED
  BY <1>3, <1>4, <1>5, <1>6, <1>7, <1>8, <1>9

(* The login preference.                                                   *)
LEMMA AutostartSteps ==
    ASSUME StoreInv,
           (\E on \in BOOLEAN : StartAutostart(on)) \/ LoginEntry \/ LoginReplaced \/ SetEnabled
             \/ EnableFails \/ Prefer
    PROVE  StoreInv'
<1> USE JournalFacts, VersionAssumption DEF StoreInv, StepsTyped, Staging, ChangeSteps,
     RemovalSteps, SharedSteps, LoginSteps, records, links, programs, public, counts, Changing,
     Withdrawing, Open, Old, Target
<1>1. /\ ~Open /\ pc' \in LoginSteps \union {"idle"}
      /\ UNCHANGED <<state, journal, link, prevLink, releases, backup, running, todo, calm>>
  BY DEF StartAutostart, Free, Asks, LoginEntry, LoginReplaced, SetEnabled, EnableFails, Prefer
<1>2. entries' \in [Entry -> Own \cup {"none", "ours"}] /\ pref' \in {"unset", "on", "off"}
  BY DEF StartAutostart, LoginEntry, LoginReplaced, SetEnabled, EnableFails, Prefer, TypeOK
<1>3. StepsTyped'
  BY <1>1, <1>2 DEF TypeOK
<1>4. Rests'
  BY <1>1, <1>2 DEF Rests, Settled, Apart, Whole, Complete
<1>5. Ends'
  BY <1>1, <1>2 DEF Ends, Whole, Complete, Apart
<1>6. PhaseOfStep'
  BY <1>1, <1>2 DEF PhaseOfStep, Preparing
<1>7. Prepared'
  BY <1>1, <1>2 DEF Prepared, PhaseOfStep, Preparing, Complete, Early
<1>8. Moved'
  BY <1>1, <1>2 DEF Moved, PhaseOfStep, Withdrawals
<1>9. Removed'
  BY <1>1, <1>2 DEF Removed, Whole, Complete, Cancelling, Withdrawals
<1> QED
  BY <1>3, <1>4, <1>5, <1>6, <1>7, <1>8, <1>9

(* What a removal begins with.                                             *)
LEMMA RemovalBegins ==
    ASSUME NEW j \in Journals, j.operation \in Withdrawals, BeginUninstall(j),
           j = journal \/ j.phase \notin LinksGone
    PROVE  /\ journal' \in Journals /\ journal' # NoJournal
           /\ journal'.operation = j.operation /\ journal'.target = j.target /\ journal'.old = j.old
           /\ journal'.adoption = j.adoption /\ journal'.planned = j.planned /\ journal'.cleanup = j.cleanup
           /\ pc' \in {"idle", "unlink", "plan", "stop", "stopped"} /\ todo' \in {todo, Entry}
           /\ j.operation = "cancel-legacy" => pc' \notin {"unlink", "stop"}
<1>1. PICK p \in Phases \union {j.phase} : journal' = [j EXCEPT !.phase = p]
  <2>1. j = [j EXCEPT !.phase = j.phase]
    BY DEF Journals
  <2>2. {"uninstall-deferred", "uninstall-prepared"} \subseteq Phases
    BY DEF Phases
  <2> QED
    BY <2>1, <2>2 DEF BeginUninstall
<1>2. /\ journal' \in Journals
      /\ journal'.operation = j.operation /\ journal'.target = j.target /\ journal'.old = j.old
      /\ journal'.adoption = j.adoption /\ journal'.planned = j.planned /\ journal'.cleanup = j.cleanup
  BY <1>1 DEF Journals
<1>3. /\ pc' \in {"idle", "unlink", "plan", "stop", "stopped"} /\ todo' \in {todo, Entry}
      /\ j.operation = "cancel-legacy" => pc' \notin {"unlink", "stop"}
  BY DEF BeginUninstall, NoSnapshot
<1> QED
  BY <1>2, <1>3, JournalsOpen

LEMMA FreshTyped ==
    ASSUME TypeOK, NEW operation \in Withdrawals, NEW target \in Maybe(Version)
    PROVE  LET j == Fresh(operation, target, "uninstall-prepared")
           IN  /\ j \in Journals /\ j.operation = operation /\ j.target = target
               /\ j.old = state /\ j.adoption = None /\ j.planned = FALSE /\ j.cleanup = {}
               /\ j.phase = "uninstall-prepared"
<1> DEFINE j == Fresh(operation, target, "uninstall-prepared")
<1>0. /\ FALSE \in BOOLEAN /\ {} \in SUBSET Release
  OBVIOUS
<1>1. /\ NoSnapshot \in SnapshotSet /\ None \in Maybe(Legacy)
      /\ state \in States /\ "uninstall-prepared" \in Phases
      /\ operation \in {"install", "rollback"} \cup Withdrawals
  BY DEF NoSnapshot, SnapshotSet, Maybe, TypeOK, States, Phases
<1>2. j = [operation |-> operation, target |-> target, old |-> state, services |-> NoSnapshot,
           phase |-> "uninstall-prepared", adoption |-> None, planned |-> FALSE, cleanup |-> {}]
  BY DEF Fresh
<1> HIDE DEF j
<1>3. j \in Journals
  BY <1>0, <1>1, <1>2 DEF Journals
<1>4. /\ j.operation = operation /\ j.target = target /\ j.old = state /\ j.adoption = None
      /\ j.planned = FALSE /\ j.cleanup = {} /\ j.phase = "uninstall-prepared"
  BY <1>2
<1> QED
  BY <1>3, <1>4 DEF j

LEMMA StartUninstallStep == ASSUME StoreInv, StartUninstall PROVE StoreInv'
<1> USE JournalFacts, VersionAssumption DEF StoreInv, StepsTyped, Staging, ChangeSteps,
     RemovalSteps, SharedSteps, LoginSteps, records, links, programs, public, counts, Changing,
     Withdrawing, Open, Old, Target
<1> DEFINE j == Fresh("uninstall", None, "uninstall-prepared")
<1>1. /\ ~Open /\ pc = "idle" /\ BeginUninstall(j)
      /\ UNCHANGED <<state, link, prevLink, releases, backup, entries, pref, running, calm>>
  BY DEF StartUninstall, Asks, Free
<1>2. j \in Journals /\ j.operation = "uninstall" /\ j.phase \notin LinksGone
  BY FreshTyped DEF Withdrawals, Maybe, LinksGone
<1>3. /\ journal' \in Journals /\ journal' # NoJournal /\ journal'.operation = "uninstall"
      /\ pc' \in {"idle", "unlink", "plan", "stop", "stopped"} /\ todo' \in {todo, Entry}
  BY <1>1, <1>2, RemovalBegins DEF Withdrawals
<1>4. Withdrawing'
  BY <1>3 DEF Withdrawals
<1>5. StepsTyped'
  BY <1>1, <1>3, <1>4 DEF TypeOK
<1>6. Rests'
  BY <1>1, <1>3, <1>4 DEF Rests, Settled, Apart, Whole, Complete
<1>7. Ends'
  BY <1>1, <1>3, <1>4 DEF Ends, Whole, Complete, Apart
<1>8. PhaseOfStep'
  BY <1>1, <1>3, <1>4 DEF PhaseOfStep, Preparing
<1>9. Prepared'
  BY <1>1, <1>3, <1>4 DEF Prepared, PhaseOfStep, Preparing, Complete, Early
<1>10. Moved'
  BY <1>1, <1>3, <1>4 DEF Moved, PhaseOfStep, Withdrawals
<1>11. Removed'
  BY <1>1, <1>3, <1>4 DEF Removed, Whole, Complete, Cancelling, Withdrawals
<1> QED
  BY <1>5, <1>6, <1>7, <1>8, <1>9, <1>10, <1>11

LEMMA CancelStep == ASSUME StoreInv, Cancel PROVE StoreInv'
<1> USE JournalFacts, VersionAssumption DEF StoreInv, StepsTyped, Staging, ChangeSteps,
     RemovalSteps, SharedSteps, LoginSteps, records, links, programs, public, counts, Changing,
     Withdrawing, Open, Old, Target
<1> DEFINE operation == IF journal.phase = "legacy-deferred" THEN "cancel-legacy" ELSE "uninstall"
           fresh == Fresh(operation, Target, "uninstall-prepared")
           previous == IF link # Old.current THEN Old.current ELSE state.previous
<1>1. /\ pc = "idle" /\ Changing /\ MayCancel /\ pc' = "uninstall"
      /\ journal' = [fresh EXCEPT !.adoption = journal.adoption, !.old.current = link,
                                  !.old.previous = previous]
      /\ UNCHANGED <<state, link, prevLink, releases, backup, entries, pref, running, todo, calm>>
  BY DEF Cancel, Asks
<1>2. /\ fresh \in Journals /\ fresh.operation = operation /\ fresh.planned = FALSE
      /\ fresh.old \in States
  <2>1. operation \in Withdrawals
    BY DEF Withdrawals
  <2> HIDE DEF operation
  <2>2. fresh \in Journals /\ fresh.operation = operation /\ fresh.planned = FALSE
    BY <1>1, <2>1, FreshTyped
  <2> QED
    BY <2>2 DEF Journals
<1>3. link \in Maybe(Version) /\ previous \in Maybe(Version) /\ journal.adoption \in Maybe(Legacy)
  BY <1>1 DEF TypeOK, States
<1> HIDE DEF fresh, previous
<1>4. /\ journal' \in Journals /\ journal'.operation = operation /\ journal'.planned = FALSE
      /\ journal'.old.previous = previous
  BY <1>1, <1>2, <1>3 DEF Journals, States
<1>5. journal' # NoJournal /\ operation \in Withdrawals
  BY <1>4, JournalsOpen DEF Withdrawals
<1>6. operation = "cancel-legacy" => prevLink = previous /\ Whole(prevLink)
  BY <1>1 DEF Prepared, Early, Ends, MayCancel, Expected, previous
<1>7. Withdrawing'
  BY <1>4, <1>5
<1> HIDE DEF operation
<1>8. StepsTyped'
  BY <1>1, <1>4, <1>5, <1>6, <1>7 DEF TypeOK
<1>9. Rests'
  BY <1>1, <1>4, <1>5, <1>6, <1>7 DEF Rests, Settled, Apart, Whole, Complete
<1>10. Ends'
  BY <1>1, <1>4, <1>5, <1>6, <1>7 DEF Ends, Whole, Complete, Apart
<1>11. PhaseOfStep'
  BY <1>1, <1>4, <1>5, <1>6, <1>7 DEF PhaseOfStep, Preparing
<1>12. Prepared'
  BY <1>1, <1>4, <1>5, <1>6, <1>7 DEF Prepared, PhaseOfStep, Preparing, Complete, Early
<1>13. Moved'
  BY <1>1, <1>4, <1>5, <1>6, <1>7 DEF Moved, PhaseOfStep, Withdrawals
<1>14. Removed'
  BY <1>1, <1>4, <1>5, <1>6, <1>7 DEF Removed, Whole, Complete, Cancelling, Withdrawals
<1> QED
  BY <1>8, <1>9, <1>10, <1>11, <1>12, <1>13, <1>14

LEMMA UninstallStep == ASSUME StoreInv, Uninstall PROVE StoreInv'
<1> USE JournalFacts, VersionAssumption DEF StoreInv, StepsTyped, Staging, ChangeSteps,
     RemovalSteps, SharedSteps, LoginSteps, records, links, programs, public, counts, Changing,
     Withdrawing, Open, Old, Target
<1>1. /\ pc = "uninstall" /\ (Cancelling => link = None) /\ BeginUninstall(journal)
      /\ UNCHANGED <<state, link, prevLink, releases, backup, entries, pref, running, calm>>
  BY DEF Uninstall
<1>2. journal \in Journals /\ Withdrawing
  BY <1>1
<1>3. /\ journal' \in Journals /\ journal' # NoJournal
      /\ journal'.operation = journal.operation /\ journal'.old = journal.old
      /\ journal'.planned = journal.planned /\ journal'.cleanup = journal.cleanup
      /\ pc' \in {"idle", "unlink", "plan", "stop", "stopped"} /\ todo' \in {todo, Entry}
      /\ journal.operation = "cancel-legacy" => pc' \notin {"unlink", "stop"}
  BY <1>1, <1>2, RemovalBegins
<1>4. StepsTyped'
  BY <1>1, <1>2, <1>3 DEF TypeOK
<1>5. Rests'
  BY <1>1, <1>2, <1>3 DEF Rests, Settled, Apart, Whole, Complete
<1>6. Ends'
  BY <1>1, <1>2, <1>3 DEF Ends, Whole, Complete, Apart
<1>7. PhaseOfStep'
  BY <1>1, <1>2, <1>3 DEF PhaseOfStep, Preparing
<1>8. Prepared'
  BY <1>1, <1>2, <1>3 DEF Prepared, PhaseOfStep, Preparing, Complete, Early
<1>9. Moved'
  BY <1>1, <1>2, <1>3 DEF Moved, PhaseOfStep, Withdrawals
<1>10. Removed'
  BY <1>1, <1>2, <1>3 DEF Removed, Whole, Complete, Cancelling, Withdrawals
<1> QED
  BY <1>4, <1>5, <1>6, <1>7, <1>8, <1>9, <1>10

LEMMA StoppedStep == ASSUME StoreInv, Stopped PROVE StoreInv'
<1> USE JournalFacts, VersionAssumption DEF StoreInv, StepsTyped, Staging, ChangeSteps,
     RemovalSteps, SharedSteps, LoginSteps, records, links, programs, public, counts, Changing,
     Withdrawing, Open, Old, Target
<1>1. /\ pc = "stopped" /\ journal' = Phase("uninstall-stopped")
      /\ \/ Cancelling /\ pc' = "plan" /\ todo' = todo
         \/ ~Cancelling /\ pc' = "unlink" /\ todo' = Entry
      /\ UNCHANGED <<state, link, prevLink, releases, backup, entries, pref, running, calm>>
  BY DEF Stopped
<1>2. /\ journal' \in Journals /\ journal' # NoJournal
      /\ journal'.operation = journal.operation /\ journal'.old = journal.old
      /\ journal'.planned = journal.planned /\ journal'.cleanup = journal.cleanup
  BY <1>1, PhaseTyped DEF Phases, LinksGone
<1>3. StepsTyped'
  BY <1>1, <1>2 DEF TypeOK
<1>4. Rests'
  BY <1>1, <1>2 DEF Rests, Settled, Apart, Whole, Complete
<1>5. Ends'
  BY <1>1, <1>2 DEF Ends, Whole, Complete, Apart
<1>6. PhaseOfStep'
  BY <1>1, <1>2 DEF PhaseOfStep, Preparing
<1>7. Prepared'
  BY <1>1, <1>2 DEF Prepared, PhaseOfStep, Preparing, Complete, Early
<1>8. Moved'
  BY <1>1, <1>2 DEF Moved, PhaseOfStep, Withdrawals
<1>9. Removed'
  BY <1>1, <1>2 DEF Removed, Whole, Complete, Cancelling, Withdrawals
<1> QED
  BY <1>3, <1>4, <1>5, <1>6, <1>7, <1>8, <1>9

(* A cancelled adoption never plans to take apart what is left for a       *)
(* rollback.                                                               *)
LEMMA PlanStep == ASSUME StoreInv, Plan PROVE StoreInv'
<1> USE JournalFacts, VersionAssumption DEF StoreInv, StepsTyped, Staging, ChangeSteps,
     RemovalSteps, SharedSteps, LoginSteps, records, links, programs, public, counts, Changing,
     Withdrawing, Open, Old, Target
<1>1. PICK p \in IF journal.planned THEN {journal.cleanup} ELSE Plans :
        journal' = [Phase("uninstall-links-removed") EXCEPT !.planned = TRUE,
          !.cleanup = IF Cancelling /\ ~journal.planned THEN (p \cap {Target}) \ {Old.previous} ELSE p]
  BY DEF Plan
<1> DEFINE cleanup == IF Cancelling /\ ~journal.planned THEN (p \cap {Target}) \ {Old.previous} ELSE p
<1>2. /\ pc = "plan"
      /\ \/ Cancelling /\ pc' = "clean" /\ todo' = journal'.cleanup
         \/ ~Cancelling /\ pc' = "clear" /\ todo' = todo
      /\ UNCHANGED <<state, link, prevLink, releases, backup, entries, pref, running, calm>>
  BY DEF Plan
<1>3. journal \in Journals /\ Withdrawing /\ p \subseteq Release
  BY <1>1, <1>2 DEF Plans, Cleanable
<1>4. cleanup \subseteq Release /\ "uninstall-links-removed" \in Phases
      /\ (Cancelling => Old.previous \notin cleanup)
  BY <1>1, <1>3 DEF Phases, LinksGone, Removed
<1>5. journal' = [Phase("uninstall-links-removed") EXCEPT !.planned = TRUE, !.cleanup = cleanup]
  BY <1>1
<1> HIDE DEF cleanup
<1>6. /\ journal' \in Journals /\ journal'.planned = TRUE /\ journal'.cleanup = cleanup
      /\ journal'.operation = journal.operation /\ journal'.old = journal.old
  BY <1>3, <1>4, <1>5 DEF Phase, Journals
<1>7. journal' # NoJournal
  BY <1>6, JournalsOpen
<1>8. StepsTyped'
  BY <1>2, <1>3, <1>4, <1>6, <1>7 DEF TypeOK
<1>9. Rests'
  BY <1>2, <1>3, <1>4, <1>6, <1>7 DEF Rests, Settled, Apart, Whole, Complete
<1>10. Ends'
  BY <1>2, <1>3, <1>4, <1>6, <1>7 DEF Ends, Whole, Complete, Apart
<1>11. PhaseOfStep'
  BY <1>2, <1>3, <1>4, <1>6, <1>7 DEF PhaseOfStep, Preparing
<1>12. Prepared'
  BY <1>2, <1>3, <1>4, <1>6, <1>7 DEF Prepared, PhaseOfStep, Preparing, Complete, Early
<1>13. Moved'
  BY <1>2, <1>3, <1>4, <1>6, <1>7 DEF Moved, PhaseOfStep, Withdrawals
<1>14. Removed'
  BY <1>2, <1>3, <1>4, <1>6, <1>7 DEF Removed, Whole, Complete, Cancelling, Withdrawals
<1> QED
  BY <1>8, <1>9, <1>10, <1>11, <1>12, <1>13, <1>14

LEMMA NextInv == StoreInv /\ [Next]_vars => StoreInv'
<1> SUFFICES ASSUME StoreInv, [Next]_vars PROVE StoreInv'
  OBVIOUS
<1>1. CASE UNCHANGED vars
  BY <1>1 DEF vars, records, links, programs, public, counts, StoreInv, StepsTyped, TypeOK, Rests,
       Settled,
     Apart, Whole, Complete, Ends, PhaseOfStep, Prepared, Moved, Removed, Changing, Withdrawing,
     Cancelling, Open, Old, Target
<1>2. CASE Start
  BY <1>2, StartInstallStep, StartRollbackStep, StartUninstallStep, CancelStep, AutostartSteps
       DEF Start
<1>3. CASE Install
  BY <1>3, CopySteps, ServiceSteps, PhaseSteps, AdoptStartStep, BackedUpStep, LinkSteps DEF Install
<1>4. CASE Complement
  BY <1>4, PhaseSteps, StateSteps, FinishStep, LinkSteps, ServiceSteps, CloseStep, EntrySteps
     DEF Complement
<1>5. CASE Undo
  BY <1>5, ServiceSteps, LinkSteps, PhaseSteps, StateSteps, EntrySteps DEF Undo
<1>6. CASE Removal
  BY <1>6, UninstallStep, ServiceSteps, StoppedStep, PlanStep, LinkSteps, StateSteps, CleanSteps
     DEF Removal
<1>7. CASE Autostart
  BY <1>7, AutostartSteps DEF Autostart
<1>8. CASE Environment
  BY <1>8, ServiceSteps, EntrySteps DEF Environment
<1> QED
  BY <1>1, <1>2, <1>3, <1>4, <1>5, <1>6, <1>7, <1>8, RepairStep DEF Next, Manager

-----------------------------------------------------------------------------
(* With no transaction open, what is recorded is what is there.            *)
LEMMA InvPointers == StoreInv => TypeOK /\ PointersAgree
BY DEF StoreInv, StepsTyped, Rests, Settled, PointersAgree

(* A file of the user's is only replaced over a complete backup of it.     *)
LEMMA FilesStep == StoreInv /\ [Next]_vars => [OwnFilesKept]_vars
<1> SUFFICES ASSUME StoreInv, Next, NEW e \in Entry, entries[e] \in Own, entries'[e] # entries[e]
    PROVE  \/ Kept(e, entries[e]) /\ entries'[e] = "ours"
           \/ UserEdits(e)
           \/ e = Login /\ pc = "loginOn"
  BY DEF OwnFilesKept
<1>0. TypeOK /\ entries[e] # "ours" /\ entries[e] # "none"
  BY DEF StoreInv, StepsTyped, Own
<1>1. \/ \E d \in Entry : LinkEntry(d) \/ RemoveEntry(d) \/ UserEdits(d)
      \/ LoginEntry
  BY DEF Next, Start, StartInstall, StartAutostart, StartRollback, StartUninstall, Cancel, Repair,
     Manager, Install, Stage, StageRefused, Staged, LegacyDeferred, AdoptStart, CopyOriginals, SealCopy,
     BackedUp, AdoptSwitch, Complement, Deferred, DeferredState, Finish, LinksReady, Switch,
     PreviousLink, Switched, Pend, PendState, Activate, ActivateSucceeds, ActivateFails, Activated,
     ReadyState, Committed, Close, Forget, LinkRefused, Undo, UndoStop, SwitchBack, Restore,
     ServicesFail, EntriesRemoved, PreviousBack, RolledBack, UndoneState, Removal, Uninstall, Stop,
     Stopped, Plan, ClearCurrent, ClearPrevious, KeepPrevious, UninstalledState, CleanFile, Cleaned,
     CleanSkips, Autostart, LoginReplaced, SetEnabled, EnableFails, Prefer, Environment, Interrupted,
     UserServices, public
<1>2. CASE \E d \in Entry : LinkEntry(d)
  <2>1. PICK d \in Entry : LinkEntry(d)
    BY <1>2
  <2>2. d = e /\ entries'[e] = Installed(e) /\ pc = "links" /\ Saved(e)
    BY <1>0, <2>1 DEF LinkEntry, TypeOK
  <2>3. Installed(e) = "ours"
    BY <1>0 DEF Installed
  <2>4. Changing /\ journal.phase # "adopting" /\ journal.adoption # None
    BY <2>2 DEF StoreInv, StepsTyped, ChangeSteps, PhaseOfStep, Preparing, Saved
  <2>5. journal.adoption \in Legacy /\ Complete(journal.adoption)
    BY <1>0, <2>4, JournalFacts DEF StoreInv, Prepared, Changing, Maybe
  <2> QED
    BY <2>2, <2>3, <2>5 DEF Saved, Kept
<1>3. CASE \E d \in Entry : RemoveEntry(d)
  BY <1>0, <1>3 DEF RemoveEntry, TypeOK
<1>4. CASE \E d \in Entry : UserEdits(d)
  BY <1>0, <1>4 DEF UserEdits, TypeOK
<1>5. CASE LoginEntry
  BY <1>0, <1>5 DEF LoginEntry, TypeOK
<1> QED
  BY <1>1, <1>2, <1>3, <1>4, <1>5

-----------------------------------------------------------------------------
(* The refinement of VersionSwitch.                                        *)
Standing == {v \in Version : Complete(v)}

LEMMA SameTransaction ==
    ASSUME Open, journal' # NoJournal, journal'.operation = journal.operation,
           journal'.target = journal.target, journal'.old = journal.old
    PROVE  Transaction' = Transaction
BY DEF Transaction, Withdrawing, Open, Old, Target

Stutters == UNCHANGED <<link, Standing, Transaction>>

LEMMA OtherDiskStutters ==
    ASSUME StoreInv, UNCHANGED <<journal, link, releases>>
    PROVE  Stutters
BY DEF Stutters, Standing, Complete, Transaction, Withdrawing, Open, Old, Target

LEMMA JournalStutters ==
    ASSUME StoreInv,
           \/ Staged \/ LegacyDeferred \/ Deferred \/ LinksReady
             \/ Switched \/ Pend \/ Activate \/ Activated \/ Committed \/ RolledBack
           \/ Finish \/ AdoptStart \/ Uninstall \/ Stopped \/ Plan
    PROVE  Stutters
<1> USE DEF links, programs
<1>1. TypeOK /\ Open
  BY DEF StoreInv, StepsTyped, ChangeSteps, RemovalSteps, SharedSteps, Staging, Changing,
       Withdrawing,
     Staged, LegacyDeferred, Deferred, LinksReady, Switched, Pend, Activate, Activated, Committed, RolledBack,
     Finish, AdoptStart, Uninstall, Stopped, Plan
<1>2. journal \in Journals
  BY <1>1, JournalFacts
<1>3. UNCHANGED <<link, releases>>
  BY DEF Staged, LegacyDeferred, Deferred, LinksReady, Switched, Pend, Activate, Activated,
       Committed, RolledBack,
     Finish, AdoptStart, Uninstall, Stopped, Plan
<1>4. /\ journal' # NoJournal /\ journal'.operation = journal.operation
      /\ journal'.target = journal.target /\ journal'.old = journal.old
  <2>1. CASE \/ Staged \/ LegacyDeferred \/ Deferred \/ LinksReady
             \/ Switched \/ Pend \/ Activate \/ Activated \/ Committed \/ RolledBack \/ Stopped
    <3>1. PICK p \in Phases : journal' = Phase(p)
      BY <2>1 DEF Staged, LegacyDeferred, Deferred, LinksReady, Switched, Pend, Activate,
           Activated, Committed, RolledBack, Stopped, Write,
         Phases, Pending, LinksGone
    <3> QED
      BY <1>1, <3>1, PhaseTyped
  <2>2. CASE Finish
    <3>1. PICK s : journal' = [journal EXCEPT !.services = s]
      BY <2>2 DEF Finish
    <3>2. "operation" \in DOMAIN journal' /\ "operation" \notin DOMAIN NoJournal
      BY <1>2, <3>1 DEF Journals, NoJournal
    <3> QED
      BY <1>2, <3>1, <3>2 DEF Journals
  <2>3. CASE AdoptStart
    <3>1. PICK v : journal' = [Phase("adopting") EXCEPT !.adoption = v]
      BY <2>3 DEF AdoptStart
    <3>2. "operation" \in DOMAIN journal' /\ "operation" \notin DOMAIN NoJournal
      BY <1>2, <3>1 DEF Journals, NoJournal, Phase
    <3> QED
      BY <1>2, <3>1, <3>2 DEF Journals, Phase
  <2>4. CASE Uninstall
    <3>1. journal.operation \in Withdrawals
      BY <2>4 DEF StoreInv, StepsTyped, RemovalSteps, Withdrawing, Uninstall
    <3> QED
      BY <1>2, <2>4, <3>1, RemovalBegins DEF Uninstall
  <2>5. CASE Plan
    <3>1. PICK cleanup : journal' = [Phase("uninstall-links-removed") EXCEPT !.planned = TRUE, !.cleanup = cleanup]
      BY <2>5 DEF Plan
    <3>2. "operation" \in DOMAIN journal' /\ "operation" \notin DOMAIN NoJournal
      BY <1>2, <3>1 DEF Journals, NoJournal, Phase
    <3> QED
      BY <1>2, <3>1, <3>2 DEF Journals, Phase
  <2> QED
    BY <2>1, <2>2, <2>3, <2>4, <2>5
<1> QED
  BY <1>1, <1>3, <1>4, SameTransaction DEF Stutters, Standing, Complete

(* Opening and closing a transaction, and turning it into a removal.       *)
LEMMA TransactionSteps ==
    ASSUME StoreInv, Start \/ Close
    PROVE  Stutters \/ Versions!Open \/ Versions!Withdraw \/ Versions!Close
<1> USE DEF links, programs
<1>1. TypeOK
  BY DEF StoreInv, StepsTyped
<1>2. ASSUME NEW id \in Release, NEW adopt \in BOOLEAN, StartInstall(id, adopt) PROVE Versions!Open
  <2>1. /\ journal = NoJournal /\ link = state.current /\ id # link /\ UNCHANGED <<link, releases>>
        /\ journal' = Fresh("install", id, "preparing")
    BY <1>2 DEF StartInstall, Free, Open
  <2>2. /\ journal'.operation = "install" /\ journal'.target = id /\ journal'.old = state
        /\ journal' # NoJournal
    <3>1. "operation" \in DOMAIN journal' /\ "operation" \notin DOMAIN NoJournal
      BY <2>1 DEF Fresh, NoJournal
    <3> QED
      BY <2>1, <3>1 DEF Fresh
  <2>3. Transaction' = Versions!Change(link, id)
    BY <2>1, <2>2 DEF Transaction, Open, Withdrawing, Withdrawals, Old, Target, Versions!Change
  <2>4. Transaction = Versions!Closed /\ UNCHANGED <<link, Standing>> /\ id \in Version \ {link}
    BY <2>1 DEF Transaction, Open, Versions!Closed, Standing, Complete, Version
  <2> QED
    BY <2>3, <2>4 DEF Versions!Open, Standing
<1>3. ASSUME StartRollback PROVE Versions!Open
  <2>1. /\ journal = NoJournal /\ Settled /\ Complete(state.previous) /\ UNCHANGED <<link, releases>>
        /\ journal' = Fresh("rollback", state.previous, "staged")
    BY <1>3 DEF StartRollback, Free, Open, StoreInv, Rests
  <2>2. /\ journal'.operation = "rollback" /\ journal'.target = state.previous /\ journal'.old = state
        /\ journal' # NoJournal
    <3>1. "operation" \in DOMAIN journal' /\ "operation" \notin DOMAIN NoJournal
      BY <2>1 DEF Fresh, NoJournal
    <3> QED
      BY <2>1, <3>1 DEF Fresh
  <2>3. Transaction' = Versions!Change(link, state.previous)
    BY <2>1, <2>2 DEF Transaction, Open, Withdrawing, Withdrawals, Old, Target, Versions!Change,
         Settled
  <2>4. /\ Transaction = Versions!Closed /\ UNCHANGED <<link, Standing>>
        /\ state.previous \in Version \ {link}
    BY <2>1, VersionAssumption
       DEF Transaction, Open, Versions!Closed, Standing, Complete, Settled, Apart
  <2> QED
    BY <2>3, <2>4 DEF Versions!Open, Standing
<1>4. ASSUME StartUninstall PROVE Versions!Open
  <2> DEFINE j == Fresh("uninstall", None, "uninstall-prepared")
  <2>1. /\ journal = NoJournal /\ UNCHANGED <<link, releases>> /\ BeginUninstall(j)
    BY <1>4 DEF StartUninstall, Free, Open
  <2>2. j \in Journals /\ j.operation = "uninstall" /\ j.phase \notin LinksGone
    BY <1>1, FreshTyped DEF Withdrawals, Maybe, LinksGone
  <2> HIDE DEF j
  <2>3. journal' # NoJournal /\ journal'.operation = "uninstall"
    BY <2>1, <2>2, RemovalBegins DEF Withdrawals
  <2>4. Transaction = Versions!Closed /\ Transaction' = Versions!Removal
    BY <2>1, <2>3 DEF Transaction, Open, Withdrawing, Withdrawals, Versions!Closed, Versions!Removal
  <2> QED
    BY <2>1, <2>4 DEF Versions!Open, Complete
<1>5. ASSUME Cancel PROVE Versions!Withdraw
  <2>1. /\ Open /\ ~Withdrawing /\ UNCHANGED <<link, releases>>
    BY <1>5 DEF Cancel
  <2>2. journal'.operation \in Withdrawals /\ journal' # NoJournal
    <3>1. \E operation \in Withdrawals : \E previous : journal' =
             [Fresh(operation, Target, "uninstall-prepared")
                EXCEPT !.adoption = journal.adoption, !.old.current = link, !.old.previous = previous]
      BY <1>5 DEF Cancel, Withdrawals
    <3>2. "operation" \in DOMAIN journal' /\ "operation" \notin DOMAIN NoJournal
      BY <3>1 DEF Fresh, NoJournal
    <3> QED
      BY <3>1, <3>2 DEF Fresh
  <2>3. Transaction.kind = "change" /\ Transaction' = Versions!Removal
    BY <2>1, <2>2 DEF Transaction, Open, Withdrawing, Versions!Removal
  <2> QED
    BY <2>1, <2>3 DEF Versions!Withdraw, Versions!Changing, Complete
<1>6. ASSUME NEW on \in BOOLEAN, StartAutostart(on) PROVE Stutters
  BY <1>6, OtherDiskStutters DEF StartAutostart, records
<1>7. ASSUME Close PROVE Versions!Close
  <2>1. /\ Open /\ journal' = NoJournal /\ (Withdrawing => link = None) /\ UNCHANGED <<link, releases>>
    BY <1>7 DEF Close, StoreInv, StepsTyped, SharedSteps, Removed
  <2>2. /\ Transaction # Versions!Closed /\ Transaction' = Versions!Closed
        /\ Transaction.kind = "removal" => Withdrawing
    BY <2>1 DEF Transaction, Open, Versions!Closed
  <2> QED
    BY <2>1, <2>2 DEF Versions!Close, Versions!Removing, Complete
<1> QED
  BY <1>2, <1>3, <1>4, <1>5, <1>6, <1>7 DEF Start

(* Moving the link, inside a transaction.                                  *)
LEMMA LinkMoves ==
    ASSUME StoreInv, AdoptSwitch \/ Switch \/ SwitchBack \/ ClearCurrent
    PROVE  Stutters \/ Versions!Switch \/ Versions!Clear
<1> USE DEF links, programs, records, public, counts
<1>1. UNCHANGED <<journal, releases>>
  BY DEF AdoptSwitch, Switch, SwitchBack, ClearCurrent
<1>2. UNCHANGED <<Standing, Transaction>>
  BY <1>1 DEF Standing, Complete, Transaction, Withdrawing, Open, Old, Target
<1>3. CASE AdoptSwitch \/ Switch \/ SwitchBack
  <2>1. Changing /\ link' \in {Old.current, Target} /\ (link' = None \/ Complete(link'))
    BY <1>3 DEF AdoptSwitch, Switch, SwitchBack, StoreInv, StepsTyped, ChangeSteps
  <2>2. /\ Transaction.kind = "change" /\ Transaction.from = Old.current /\ Transaction.to = Target
    BY <2>1 DEF Transaction, Changing
  <2>3. link' \in Standing \union {None}
    BY <2>1 DEF Standing, Complete
  <2>4. CASE link' = link
    BY <1>2, <2>4 DEF Stutters
  <2>5. CASE link' # link
    BY <1>2, <2>1, <2>2, <2>3, <2>5 DEF Versions!Switch, Versions!Changing, Standing
  <2> QED
    BY <2>4, <2>5
<1>4. CASE ClearCurrent
  <2>1. Withdrawing /\ link' = None
    BY <1>4 DEF ClearCurrent, StoreInv, StepsTyped, RemovalSteps
  <2>2. Transaction.kind = "removal"
    BY <2>1 DEF Transaction, Withdrawing
  <2> QED
    BY <1>2, <2>1, <2>2 DEF Stutters, Versions!Clear, Versions!Removing, Standing
<1> QED
  BY <1>3, <1>4

(* Completing and taking apart versions, and an adoption that becomes the  *)
(* old version of its transaction.                                         *)
LEMMA VersionMoves ==
    ASSUME StoreInv,
           Stage \/ CopyOriginals \/ SealCopy \/ BackedUp
             \/ \E v \in Release : CleanFile(v) \/ Cleaned(v) \/ CleanSkips(v)
    PROVE  Stutters \/ \E v \in Version : Versions!Prepare(v) \/ Versions!Adopt(v) \/ Versions!Remove(v)
<1> USE DEF links, programs, records, public, counts
<1>1. TypeOK /\ releases \in [Version -> {"absent", "partial", "complete"}]
  BY DEF StoreInv, StepsTyped, TypeOK
<1>2. ASSUME UNCHANGED <<journal, link>> PROVE UNCHANGED <<link, Transaction>>
  BY <1>2 DEF Transaction, Withdrawing, Open, Old, Target
<1>3. ASSUME Changing PROVE Transaction.kind = "change" /\ Transaction.from = Old.current
  BY <1>3 DEF Transaction, Changing
<1>4. CASE Stage
  <2>1. Changing /\ UNCHANGED <<journal, link>> /\ releases' = [releases EXCEPT ![Target] = "complete"]
        /\ releases[Target] = "absent" /\ Target \in Version
    BY <1>4 DEF Stage, Staging, StoreInv, StepsTyped, ChangeSteps, Ends
  <2>2. Target \notin Standing /\ Standing' = Standing \union {Target}
    BY <1>1, <2>1 DEF Standing, Complete
  <2> QED
    BY <1>2, <1>3, <2>1, <2>2 DEF Versions!Prepare, Versions!Changing, Standing
<1>5. CASE CopyOriginals
  <2>1. UNCHANGED <<journal, link>> /\ releases' = [releases EXCEPT ![journal.adoption] = "partial"]
        /\ releases[journal.adoption] = "absent"
    BY <1>5 DEF CopyOriginals
  <2>2. Standing' = Standing
    BY <1>1, <2>1 DEF Standing, Complete
  <2> QED
    BY <1>2, <2>1, <2>2 DEF Stutters
<1>6. CASE SealCopy
  <2> DEFINE v == journal.adoption
  <2>1. Changing /\ UNCHANGED <<journal, link>> /\ releases' = [releases EXCEPT ![v] = "complete"]
        /\ releases[v] = "partial" /\ v \in Version
    BY <1>6 DEF SealCopy, StoreInv, StepsTyped, ChangeSteps, Prepared, PhaseOfStep, Version
  <2>2. v \notin Standing /\ Standing' = Standing \union {v}
    BY <1>1, <2>1 DEF Standing, Complete
  <2> HIDE DEF v
  <2> QED
    BY <1>2, <1>3, <2>1, <2>2 DEF Versions!Prepare, Versions!Changing, Standing
<1>7. CASE BackedUp
  <2> DEFINE v == journal.adoption
  <2>1. /\ Changing /\ Complete(v) /\ Old.current = None /\ link = None
        /\ journal' = [Phase("adoption-backed-up") EXCEPT !.old.current = v]
        /\ UNCHANGED <<link, releases>>
    BY <1>7 DEF BackedUp, StoreInv, StepsTyped, ChangeSteps, Prepared, PhaseOfStep, Early
  <2>2. journal \in Journals
    BY <1>1, <2>1, JournalFacts DEF Changing
  <2> HIDE DEF v
  <2>3. /\ journal'.operation = journal.operation /\ journal'.target = journal.target
        /\ journal'.old.current = v /\ journal' # NoJournal
    <3>1. "operation" \in DOMAIN journal' /\ "operation" \notin DOMAIN NoJournal
      BY <2>1, <2>2 DEF Journals, NoJournal, Phase
    <3> QED
      BY <2>1, <2>2, <3>1 DEF Journals, States, Phase
  <2>4. Transaction' = Versions!Change(v, Transaction.to)
    BY <2>1, <2>3 DEF Transaction, Changing, Open, Withdrawing, Old, Target, Versions!Change
  <2>5. v \in Version /\ v \in Standing /\ Standing' = Standing
    BY <2>1 DEF Standing, Complete
  <2> QED
    BY <1>3, <2>1, <2>4, <2>5 DEF Versions!Adopt, Versions!Changing, Standing
<1>8. ASSUME NEW v \in Release, CleanFile(v) PROVE Versions!Remove(v) /\ v \in Version
  <2>1. Withdrawing /\ link = None /\ UNCHANGED <<journal, link>> /\ Complete(v)
        /\ releases' = [releases EXCEPT ![v] = "partial"]
    BY <1>8 DEF CleanFile, StoreInv, StepsTyped, RemovalSteps, Removed
  <2>2. v \in Standing /\ Standing' = Standing \ {v} /\ v \in Version
    BY <1>1, <2>1 DEF Standing, Complete
  <2>3. Transaction.kind = "removal"
    BY <2>1 DEF Transaction, Withdrawing
  <2> QED
    BY <1>2, <2>1, <2>2, <2>3 DEF Versions!Remove, Versions!Removing, Standing
<1>9. ASSUME NEW v \in Release, Cleaned(v) \/ CleanSkips(v) PROVE Stutters
  <2>1. /\ UNCHANGED <<journal, link>>
        /\ \/ releases' = [releases EXCEPT ![v] = "absent"] /\ releases[v] # "complete"
           \/ releases' = releases
    BY <1>9 DEF Cleaned, CleanSkips
  <2>2. Standing' = Standing
    BY <1>1, <2>1 DEF Standing, Complete
  <2> QED
    BY <1>2, <2>1, <2>2 DEF Stutters
<1> QED
  BY <1>4, <1>5, <1>6, <1>7, <1>8, <1>9

LEMMA RefinementStep == StoreInv /\ [Next]_vars => [Versions!Next]_(Versions!vars)
<1> SUFFICES ASSUME StoreInv, [Next]_vars
             PROVE  \/ Stutters
                    \/ Versions!Open \/ Versions!Switch \/ Versions!Withdraw \/ Versions!Clear
                    \/ Versions!Close
                    \/ \E v \in Version : Versions!Prepare(v) \/ Versions!Adopt(v) \/ Versions!Remove(v)
  BY DEF Versions!Next, Versions!vars, Stutters, Standing
<1>1. CASE UNCHANGED vars
  BY <1>1, OtherDiskStutters DEF vars, records, links, programs
<1>2. CASE Start
  BY <1>2, TransactionSteps
<1>3. CASE Repair \/ Autostart \/ Environment
  BY <1>3, OtherDiskStutters DEF Repair, Autostart, LoginEntry, LoginReplaced, SetEnabled,
       EnableFails,
     Prefer, Environment, Interrupted, UserEdits, UserServices, records, links, programs
<1>4. CASE Install
  <2>1. CASE StageRefused
    BY <2>1, OtherDiskStutters DEF StageRefused, records, links, programs
  <2> QED
    BY <1>4, <2>1, VersionMoves, JournalStutters, LinkMoves DEF Install
<1>5. CASE Complement
  <2>1. CASE DeferredState \/ PreviousLink \/ PendState \/ ActivateSucceeds \/ ActivateFails \/ ReadyState
               \/ Forget \/ \E e \in Entry : LinkEntry(e) \/ LinkRefused(e)
    BY <2>1, OtherDiskStutters DEF DeferredState, PreviousLink, PendState, ActivateSucceeds,
       ActivateFails, ReadyState, Forget, LinkEntry, LinkRefused, records, links, programs
  <2> QED
    BY <1>5, <2>1, JournalStutters, LinkMoves, TransactionSteps DEF Complement
<1>6. CASE Undo
  <2>1. CASE UndoStop \/ Restore \/ ServicesFail \/ EntriesRemoved \/ PreviousBack \/ UndoneState
               \/ \E e \in Entry : RemoveEntry(e)
    BY <2>1, OtherDiskStutters DEF UndoStop, Restore, ServicesFail, EntriesRemoved, PreviousBack,
       UndoneState, RemoveEntry, records, links, programs
  <2> QED
    BY <1>6, <2>1, JournalStutters, LinkMoves DEF Undo
<1>7. CASE Removal
  <2>1. CASE Stop \/ ClearPrevious \/ KeepPrevious \/ UninstalledState
    BY <2>1, OtherDiskStutters DEF Stop, ClearPrevious, KeepPrevious, UninstalledState, records,
         links,
       programs
  <2> QED
    BY <1>7, <2>1, JournalStutters, LinkMoves, VersionMoves DEF Removal
<1> QED
  BY <1>1, <1>2, <1>3, <1>4, <1>5, <1>6, <1>7 DEF Next, Manager

LEMMA RefinementInit == Init => Versions!Init
<1> SUFFICES ASSUME Init PROVE Versions!Init
  OBVIOUS
<1>1. {v \in Version : Complete(v)} = {}
  BY DEF Init, Complete
<1> QED
  BY <1>1 DEF Init, Versions!Init, Versions!Closed, Transaction, Open
-----------------------------------------------------------------------------
(* Every variable keeps its type, and the manager's step and the phase of  *)
(* its journal are among those the code knows (release_store.rs).          *)
THEOREM StoreTyped == Spec => []TypeOK
BY InitInv, NextInv, InvPointers, PTL DEF Spec

(* However often the manager was killed, failed or waited, and whatever    *)
(* was repaired or cancelled: with no transaction open the state file and  *)
(* the links agree and name whole versions (release_store.rs repair).      *)
THEOREM PointersKept == Spec => []PointersAgree
BY InitInv, NextInv, InvPointers, PTL DEF Spec

(* No file of the user's is overwritten but over a complete backup of it,  *)
(* in every step of every run (release_store.rs install_links).            *)
THEOREM FilesKept == Spec => NothingOverwritten
BY InitInv, NextInv, FilesStep, PTL DEF Spec, NothingOverwritten

(* The manager implements VersionSwitch: the version behind `current` is   *)
(* complete when it becomes current, moves only within a transaction and   *)
(* to its ends, and is never taken apart under the user.                   *)
THEOREM Refinement == Spec => OneVersionLive
BY InitInv, NextInv, RefinementInit, RefinementStep, PTL DEF Spec, OneVersionLive, Versions!Spec
=============================================================================
