---------------------------- MODULE ScreenOwner ----------------------------
(***************************************************************************)
(* What the control service promises the user about the screen: at most    *)
(* one exclusive selector (region or long-shot) is on it at any time, one  *)
(* starts only while the service is open and the screen is free, and a     *)
(* closed service never opens again.  ControlService implements this       *)
(* specification with the processes themselves as owners, not with the     *)
(* service's own record of them.                                           *)
(***************************************************************************)
CONSTANT Owner          \* identities of exclusive action processes

VARIABLES owners,       \* the selectors now on the screen
          open          \* whether the service still accepts launches

vars == <<owners, open>>

Init == owners = {} /\ open = TRUE

Take(s) ==
  /\ open
  /\ owners = {}
  /\ owners' = {s}
  /\ UNCHANGED open

Leave ==
  /\ owners # {}
  /\ owners' = {}
  /\ UNCHANGED open

Close ==
  /\ open' = FALSE
  /\ UNCHANGED owners

Next == Leave \/ Close \/ \E s \in Owner : Take(s)

Spec == Init /\ [][Next]_vars
=============================================================================
