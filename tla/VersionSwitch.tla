---------------------------- MODULE VersionSwitch ----------------------------
(***************************************************************************)
(* What the release manager promises about the version a user runs: the    *)
(* version behind `current` is always complete, it changes only inside a   *)
(* transaction and only to the ends of that transaction, a transaction     *)
(* turned into a removal never activates anything again, and a version is  *)
(* taken apart only when none is current.  ReleaseStore implements it,     *)
(* across crashes.                                                         *)
(***************************************************************************)
CONSTANTS Version, None

VARIABLES live,       \* the version behind `current`
          installed,  \* the complete versions
          txn         \* the transaction under way

vars == <<live, installed, txn>>

Closed    == [kind |-> "none"]
Change(v, w) == [kind |-> "change", from |-> v, to |-> w]
Removal   == [kind |-> "removal"]

Changing == txn.kind = "change"
Removing == txn.kind = "removal"

Init == live = None /\ installed = {} /\ txn = Closed

Open ==
  /\ txn = Closed
  /\ \/ txn' = Removal
     \/ \E v \in Version \ {live} : txn' = Change(live, v)
  /\ UNCHANGED <<live, installed>>

(* A version is completed beside the current one: the target, or what was  *)
(* there before there were versions.                                       *)
Prepare(v) ==
  /\ Changing
  /\ v \notin installed
  /\ installed' = installed \cup {v}
  /\ UNCHANGED <<live, txn>>

Adopt(v) ==
  /\ Changing /\ txn.from = None /\ live = None
  /\ v \in installed
  /\ txn' = Change(v, txn.to)
  /\ UNCHANGED <<live, installed>>

Switch ==
  /\ Changing
  /\ live' \in {txn.from, txn.to} \ {live}
  /\ live' \in installed \cup {None}
  /\ UNCHANGED <<installed, txn>>

Withdraw ==
  /\ Changing
  /\ txn' = Removal
  /\ UNCHANGED <<live, installed>>

Clear ==
  /\ Removing /\ live # None
  /\ live' = None
  /\ UNCHANGED <<installed, txn>>

Remove(v) ==
  /\ Removing /\ live = None
  /\ v \in installed
  /\ installed' = installed \ {v}
  /\ UNCHANGED <<live, txn>>

Close ==
  /\ txn # Closed
  /\ Removing => live = None
  /\ txn' = Closed
  /\ UNCHANGED <<live, installed>>

Next ==
  \/ Open \/ Switch \/ Withdraw \/ Clear \/ Close
  \/ \E v \in Version : Prepare(v) \/ Adopt(v) \/ Remove(v)

Spec == Init /\ [][Next]_vars
=============================================================================
