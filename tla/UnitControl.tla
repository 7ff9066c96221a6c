----------------------------- MODULE UnitControl -----------------------------
(***************************************************************************)
(* The user services under a version switch (vellum-cli/src/               *)
(* release_services.rs): snapshot, activate, restore, stop and the login   *)
(* preference, command by command, while the user opens windows and starts *)
(* and stops services.  ReleaseStore takes each of these calls as one step *)
(* that succeeds or fails; here are the steps inside.                      *)
(***************************************************************************)
EXTENDS Naturals, Sequences

CONSTANTS UnitOrder, MaxInterference

ASSUME UnitControlAssumption ==
    MaxInterference \in Nat /\ UnitOrder \in Seq(STRING) /\ UnitOrder # <<>>

VARIABLES suUnit,    \* each unit: public entry, loaded fragment, enabled, active, process
          suOp,      \* the call under way: its step, unit, target and what it read
          suCaller,  \* where the release manager is
          suTaken,   \* the snapshot
          suWanted,  \* what the last call was asked for
          suBusy,    \* a window or a capture is open
          suOutside, \* history: changed by others since this call last looked
          suBroken,  \* history: an entry was lost to a kill, a failed symlink, or the user
          suInterference

suVars == <<suUnit, suOp, suCaller, suTaken, suWanted, suBusy, suOutside, suBroken, suInterference>>

Units == {UnitOrder[i] : i \in DOMAIN UnitOrder}
Releases == {"old", "new"}
NoOp == [step |-> "none"]
NoTaking == [enabled |-> {}, active |-> {}, first |-> FALSE]

UnitsUnder(public, enabled, active) ==
    [u \in Units |->
        [public |-> public, loaded |-> IF public = "none" THEN "missing" ELSE public,
         enabled |-> u \in enabled, active |-> IF u \in active THEN "yes" ELSE "no",
         runs |-> IF u \in active THEN public ELSE "none"]]

(* An installed old version with any choice of services, or none yet. *)
UnitInit ==
    /\ \/ \E enabled, active \in SUBSET Units : suUnit = UnitsUnder("old", enabled, active)
       \/ suUnit = UnitsUnder("none", {}, {})
       \/ \E u \in Units :
            suUnit = [UnitsUnder("old", {}, {}) EXCEPT ![u].public = "foreign", ![u].loaded = "foreign"]
    /\ suOp = NoOp /\ suCaller = "before" /\ suTaken = NoTaking /\ suWanted = NoTaking
    /\ suBusy = FALSE /\ suOutside = {} /\ suBroken = {} /\ suInterference = 0

-----------------------------------------------------------------------------
(* verify_public, verify_binding: entry and loaded fragment are those of   *)
(* the target; owned_process: some version of this installation.           *)
PublicIs(u, release) == suUnit[u].public = release
BoundTo(u, release) == PublicIs(u, release) /\ suUnit[u].loaded = release
OwnProcess(u) == suUnit[u].active = "yes" => suUnit[u].runs \in Releases
RunsTarget(u, release) == suUnit[u].active = "yes" /\ suUnit[u].runs = release

Op(kind, release, desired) ==
    [step |-> IF kind = "login" THEN "bind" ELSE "idle", kind |-> kind, release |-> release,
     desired |-> desired, at |-> 1, seen |-> {}, changed |-> FALSE, failed |-> FALSE]

Here == UnitOrder[suOp.at]
LastUnit == suOp.at = Len(UnitOrder)
InStep(step) == suOp.step = step

Goes(step) == suOp' = [suOp EXCEPT !.step = step]
(* On to the next unit of this step, or to the first of the next step. *)
NextUnit(op, next) ==
    IF suOp.at = Len(UnitOrder) THEN [op EXCEPT !.step = next, !.at = 1] ELSE [op EXCEPT !.at = @ + 1]

(* Where the release manager goes when a call returned. *)
AfterFailure ==
    CASE suCaller = "activating" -> "rollback"
      [] suCaller = "restoring" -> "stuck"
      [] suCaller \in {"login", "stopping"} -> "failed"
AfterSuccess ==
    CASE suCaller = "activating" -> "activated"
      [] suCaller = "restoring" -> "restored"
      [] suCaller = "login" -> "activated"
      [] suCaller = "stopping" -> "stopped"

Fails == suOp' = NoOp /\ suCaller' = AfterFailure
OthersRest == UNCHANGED <<suBusy, suInterference>>

-----------------------------------------------------------------------------
(* snapshot: a unit of another installation or a process that is not ours  *)
(* refuses everything; so does a busy or moving service.                   *)
TakeSnapshot ==
    /\ suCaller = "before"
    /\ LET ours == \A u \in Units : suUnit[u].loaded # "missing" => suUnit[u].loaded = suUnit[u].public
                                       /\ suUnit[u].public # "foreign" /\ OwnProcess(u)
           still == ~suBusy /\ \A u \in Units : suUnit[u].active # "moving" IN
       \/ /\ ours /\ still /\ suCaller' = "switching"
          /\ suTaken' = [enabled |-> {u \in Units : suUnit[u].enabled},
                         active |-> {u \in Units : suUnit[u].active = "yes"},
                         first |-> \A u \in Units : suUnit[u].public = "none"]
       \/ ~(ours /\ still) /\ suCaller' = "refused" /\ UNCHANGED suTaken
    /\ UNCHANGED <<suUnit, suOp, suWanted, suOutside, suBroken>> /\ OthersRest

(* The entries are switched, then activate: a first install starts and     *)
(* enables everything; who opted out of the start at login has nothing     *)
(* enabled, and on a first install nothing started.                        *)
Desired(optedOut) ==
    [suTaken EXCEPT !.enabled = IF optedOut THEN {} ELSE IF suTaken.first THEN Units ELSE @,
                    !.active = IF suTaken.first /\ ~optedOut THEN Units ELSE @]

SwitchEntries(optedOut) ==
    /\ suCaller = "switching" /\ suCaller' = "activating"
    /\ suUnit' = [u \in Units |-> [suUnit[u] EXCEPT !.public = IF @ \in {"old", "none"} THEN "new" ELSE @]]
    /\ suWanted' = Desired(optedOut) /\ suOp' = Op("apply", "new", suWanted')
    /\ UNCHANGED <<suTaken, suOutside, suBroken>> /\ OthersRest

(* After a failed activation the old version is restored; a first install, *)
(* which has none, is stopped while its entries are still there.           *)
Rollback ==
    /\ suCaller = "rollback" /\ suCaller' = "restoring"
    /\ \/ /\ suTaken.first /\ suWanted' = NoTaking /\ suOp' = Op("apply", "new", NoTaking)
          /\ UNCHANGED suUnit
       \/ /\ ~suTaken.first /\ suWanted' = suTaken /\ suOp' = Op("apply", "old", suTaken)
          /\ suUnit' = [u \in Units |-> [suUnit[u] EXCEPT !.public = IF @ = "new" THEN "old" ELSE @]]
    /\ UNCHANGED <<suTaken, suOutside, suBroken>> /\ OthersRest

(* set_enabled of the login preference, and stop of an uninstall. *)
ChangeLogin(enabled) ==
    /\ suCaller = "activated" /\ suCaller' = "login"
    /\ suWanted' = [suWanted EXCEPT !.enabled = enabled]
    /\ suOp' = Op("login", "new", suWanted')
    /\ UNCHANGED <<suUnit, suTaken, suOutside, suBroken>> /\ OthersRest

Uninstall ==
    /\ suCaller = "activated" /\ suCaller' = "stopping"
    /\ suWanted' = NoTaking /\ suOp' = Op("apply", "new", NoTaking)
    /\ UNCHANGED <<suUnit, suTaken, suOutside, suBroken>> /\ OthersRest

-----------------------------------------------------------------------------
(* apply and set_enabled.  A command may fail, or be cut off at the        *)
(* deadline with its work done.                                            *)

EnsureIdle ==
    /\ InStep("idle") /\ (IF suBusy THEN Fails ELSE Goes("reload") /\ UNCHANGED suCaller)
    /\ UNCHANGED <<suUnit, suTaken, suWanted, suOutside, suBroken>> /\ OthersRest

Reloaded == [u \in Units |-> [suUnit[u] EXCEPT !.loaded = IF suUnit[u].public = "none" THEN "missing" ELSE suUnit[u].public]]

(* daemon-reload before the units are looked at, and again after an entry  *)
(* was changed.                                                            *)
Reload(next) ==
    /\ InStep(IF next = "bind" THEN "reload" ELSE "reload again")
    /\ \/ suUnit' = Reloaded /\ Goes(next) /\ UNCHANGED suCaller
       \/ suUnit' \in {suUnit, Reloaded} /\ Fails
    /\ UNCHANGED <<suTaken, suWanted, suOutside, suBroken>> /\ OthersRest

(* bindings, before anything is changed and again after the second reload. *)
BindUnit(step) ==
    /\ InStep(step)
    /\ LET next == CASE step = "bind" -> "links"
                     [] step = "bind again" -> IF suOp.kind = "login" THEN "final" ELSE "stops"
           seen == IF step = "bind" /\ suUnit[Here].enabled THEN suOp.seen \union {Here} ELSE suOp.seen IN
       IF BoundTo(Here, suOp.release) /\ OwnProcess(Here)
         THEN suOp' = NextUnit([suOp EXCEPT !.seen = seen], next) /\ UNCHANGED suCaller
         ELSE Fails
    /\ UNCHANGED <<suUnit, suTaken, suWanted, suOutside, suBroken>> /\ OthersRest

AfterLinks == IF suOp.kind = "login" \/ suOp.changed THEN "reload again" ELSE "stops"

LinkKept ==
    /\ InStep("links") /\ (Here \in suOp.desired.enabled) = (Here \in suOp.seen)
    /\ suOp' = NextUnit(suOp, AfterLinks)
    /\ UNCHANGED <<suUnit, suCaller, suTaken, suWanted, suOutside, suBroken>> /\ OthersRest

(* The login preference may change with a window open. *)
BusyRefuses == suBusy /\ suOp.kind = "apply"

(* systemctl disable removes the entry with the startup links, and the     *)
(* manager forgets a unit that does not run.                               *)
Enabled(u) == [suUnit EXCEPT ![u].enabled = TRUE]
Disabled(u) == [suUnit EXCEPT ![u].enabled = FALSE, ![u].public = "none",
                              ![u].loaded = IF suUnit[u].active = "no" THEN "missing" ELSE @]

ChangeLink ==
    /\ InStep("links") /\ (Here \in suOp.desired.enabled) # (Here \in suOp.seen)
    /\ \/ /\ BusyRefuses \/ ~PublicIs(Here, suOp.release)
          /\ Fails /\ UNCHANGED suUnit
       \/ /\ ~BusyRefuses /\ PublicIs(Here, suOp.release)
          /\ LET done == IF Here \in suOp.desired.enabled THEN Enabled(Here) ELSE Disabled(Here) IN
             \/ suUnit' = done /\ suOp' = [suOp EXCEPT !.step = "relink"]
             \/ suUnit' \in {suUnit, done} /\ suOp' = [suOp EXCEPT !.step = "relink", !.failed = TRUE]
          /\ UNCHANGED suCaller
    /\ UNCHANGED <<suTaken, suWanted, suOutside, suBroken>> /\ OthersRest

(* Mutated: only a command that worked has its effect undone. *)
PutBackOnSuccess(unit) ==
    IF unit.public = "none" /\ ~suOp.failed THEN [unit EXCEPT !.public = suOp.release] ELSE unit

(* Whatever became of the command, an entry that is gone is put back. *)
PutBack(unit) == IF unit.public = "none" THEN [unit EXCEPT !.public = suOp.release] ELSE unit

Relink ==
    /\ InStep("relink")
    /\ \/ /\ suUnit' = [suUnit EXCEPT ![Here] = PutBack(@)]
          /\ IF suUnit'[Here].public = suOp.release /\ ~suOp.failed
               THEN /\ suOp' = NextUnit([suOp EXCEPT !.changed = TRUE, !.step = "links"], "reload again")
                    /\ UNCHANGED suCaller
               ELSE Fails
          /\ UNCHANGED suBroken
       \/ /\ suUnit[Here].public = "none" /\ Fails
          /\ suBroken' = suBroken \union {Here} /\ UNCHANGED suUnit
    /\ UNCHANGED <<suTaken, suWanted, suOutside>> /\ OthersRest

(* Services that should not run are stopped, last one first. *)
LastFirst == UnitOrder[Len(UnitOrder) + 1 - suOp.at]

StopUnit ==
    /\ InStep("stops")
    /\ LET u == LastFirst
           running == suUnit[u].active # "no"
           stopped == [suUnit EXCEPT ![u].active = "no", ![u].runs = "none"] IN
       \/ /\ u \in suOp.desired.active \/ (BoundTo(u, suOp.release) /\ ~running)
          /\ suOp' = NextUnit(suOp, "starts") /\ UNCHANGED <<suUnit, suCaller>>
       \/ /\ u \notin suOp.desired.active
          /\ ~BoundTo(u, suOp.release) \/ (running /\ suBusy)
          /\ Fails /\ UNCHANGED suUnit
       \/ /\ u \notin suOp.desired.active /\ BoundTo(u, suOp.release) /\ running /\ ~suBusy
          /\ \/ suUnit' = stopped /\ suOp' = NextUnit(suOp, "starts") /\ UNCHANGED suCaller
             \/ suUnit' \in {suUnit, stopped} /\ Fails
    /\ UNCHANGED <<suTaken, suWanted, suOutside, suBroken>> /\ OthersRest

(* The others are restarted in order, each one waited for. *)
StartUnit ==
    /\ InStep("starts")
    /\ LET started == [suUnit EXCEPT ![Here].active = "moving", ![Here].runs = suUnit[Here].loaded] IN
       \/ /\ Here \notin suOp.desired.active
          /\ suOp' = NextUnit(suOp, "final") /\ UNCHANGED <<suUnit, suCaller>>
       \/ /\ Here \in suOp.desired.active /\ (suBusy \/ ~BoundTo(Here, suOp.release))
          /\ Fails /\ UNCHANGED suUnit
       \/ /\ Here \in suOp.desired.active /\ ~suBusy /\ BoundTo(Here, suOp.release)
          /\ \/ suUnit' = started /\ suOp' = [suOp EXCEPT !.step = "wait"] /\ UNCHANGED suCaller
             \/ suUnit' \in {suUnit, started} /\ Fails
    /\ UNCHANGED <<suTaken, suWanted, suOutside, suBroken>> /\ OthersRest

WaitRunning ==
    /\ InStep("wait")
    /\ \/ /\ BoundTo(Here, suOp.release) /\ RunsTarget(Here, suOp.release)
          /\ suOp' = NextUnit([suOp EXCEPT !.step = "starts"], "final")
          /\ UNCHANGED suCaller
       \/ Fails
    /\ UNCHANGED <<suUnit, suTaken, suWanted, suOutside, suBroken>> /\ OthersRest

(* The last look at every unit. *)
AsDesired(u) ==
    /\ BoundTo(u, suOp.release) /\ OwnProcess(u)
    /\ suUnit[u].enabled = (u \in suOp.desired.enabled)
    /\ suOp.kind = "apply" =>
        /\ suUnit[u].active = IF u \in suOp.desired.active THEN "yes" ELSE "no"
        /\ u \in suOp.desired.active => RunsTarget(u, suOp.release)

FinalLook ==
    /\ InStep("final")
    /\ \/ /\ ~AsDesired(Here) /\ Fails /\ UNCHANGED suOutside
       \/ /\ AsDesired(Here) /\ suOutside' = IF suOp.kind = "apply" THEN suOutside \ {Here} ELSE suOutside
          /\ \/ LastUnit /\ suOp' = NoOp /\ suCaller' = AfterSuccess
             \/ ~LastUnit /\ suOp' = [suOp EXCEPT !.at = @ + 1] /\ UNCHANGED suCaller
    /\ UNCHANGED <<suUnit, suTaken, suWanted, suBroken>> /\ OthersRest

(* The release manager is killed in the middle of a call. *)
ManagerKilled ==
    /\ suOp # NoOp /\ suOp' = NoOp /\ suCaller' = "killed"
    /\ suBroken' = IF InStep("relink") /\ suUnit[Here].public = "none" THEN suBroken \union {Here} ELSE suBroken
    /\ UNCHANGED <<suUnit, suTaken, suWanted, suOutside>> /\ OthersRest

-----------------------------------------------------------------------------
(* The service manager of the user and the user. *)

(* A restarted service comes up, or does not. *)
ServiceSettles(u) ==
    /\ suUnit[u].active = "moving"
    /\ \/ suUnit' = [suUnit EXCEPT ![u].active = "yes"]
       \/ suUnit' = [suUnit EXCEPT ![u].active = "no", ![u].runs = "none"]
    /\ UNCHANGED <<suOp, suCaller, suTaken, suWanted, suOutside, suBroken>> /\ OthersRest

WindowOpensOrCloses ==
    /\ suOp # NoOp /\ suInterference < MaxInterference /\ suInterference' = suInterference + 1
    /\ suBusy' = ~suBusy
    /\ UNCHANGED <<suUnit, suOp, suCaller, suTaken, suWanted, suOutside, suBroken>>

(* The user starts, stops, enables or disables a service, or takes its     *)
(* entry away, while a call is under way.                                  *)
Meddles(u) ==
    /\ suOp # NoOp /\ suInterference < MaxInterference /\ suInterference' = suInterference + 1
    /\ suOutside' = suOutside \union {u}
    /\ \/ /\ suUnit[u].active = "no" /\ suUnit[u].loaded # "missing"
          /\ suUnit' = [suUnit EXCEPT ![u].active = "moving", ![u].runs = suUnit[u].loaded]
          /\ UNCHANGED suBroken
       \/ /\ suUnit[u].active = "yes" /\ UNCHANGED suBroken
          /\ suUnit' = [suUnit EXCEPT ![u].active = "no", ![u].runs = "none"]
       \/ ~suUnit[u].enabled /\ suUnit' = Enabled(u) /\ UNCHANGED suBroken
       \/ suUnit[u].public # "none" /\ suUnit' = Disabled(u) /\ suBroken' = suBroken \union {u}
    /\ UNCHANGED <<suOp, suCaller, suTaken, suWanted, suBusy>>

UnitNext ==
    \/ TakeSnapshot \/ Rollback \/ Uninstall
    \/ \E optedOut \in BOOLEAN : SwitchEntries(optedOut)
    \/ \E enabled \in SUBSET Units : ChangeLogin(enabled)
    \/ EnsureIdle \/ Reload("bind") \/ Reload("bind again")
    \/ BindUnit("bind") \/ BindUnit("bind again")
    \/ LinkKept \/ ChangeLink \/ Relink \/ StopUnit \/ StartUnit \/ WaitRunning \/ FinalLook
    \/ ManagerKilled \/ WindowOpensOrCloses
    \/ \E u \in Units : ServiceSettles(u) \/ Meddles(u)

UnitSpec == UnitInit /\ [][UnitNext]_suVars

-----------------------------------------------------------------------------
UnitTypeOK ==
    /\ \A u \in Units :
        /\ suUnit[u].public \in Releases \union {"none", "foreign"}
        /\ suUnit[u].loaded \in Releases \union {"missing", "foreign"}
        /\ suUnit[u].enabled \in BOOLEAN /\ suUnit[u].active \in {"no", "moving", "yes"}
        /\ suUnit[u].runs \in Releases \union {"none", "foreign"}
    /\ suOp # NoOp => suOp.at \in DOMAIN UnitOrder
    /\ suCaller \in {"before", "switching", "activating", "activated", "rollback", "restoring", "restored",
                    "stuck", "login", "stopping", "stopped", "failed", "refused", "killed"}

(* A call that reports success leaves every service as it was asked for    *)
(* and running the version it was asked for: the snapshot (everything on a *)
(* first install, nothing at login for who opted out) under the new        *)
(* version after activate, the snapshot under the old one after restore,   *)
(* nothing after stop, unless somebody else changed it after the last look *)
(* (apply of release_services.rs).                                         *)
ServicesAsPromised ==
    suCaller \in {"activated", "restored", "stopped"} =>
        \A u \in Units \ suOutside :
            /\ suUnit[u].enabled = (u \in suWanted.enabled)
            /\ suUnit[u].active = IF u \in suWanted.active THEN "yes" ELSE "no"
            /\ u \in suWanted.active => suUnit[u].runs = IF suCaller = "restored" THEN "old" ELSE "new"

(* No service loses its entry by a call that fails at any of its commands  *)
(* (disable of systemctl takes the entry away): only by a kill, a symlink  *)
(* that fails, or the user.                                                *)
EntriesKept ==
    \A u \in Units :
        suUnit[u].public = "none" =>
            \/ suCaller \in {"before", "switching", "refused"} \/ u \in suBroken
            \/ InStep("relink") /\ u = Here

ServicesSafe == ServicesAsPromised /\ EntriesKept
=============================================================================
