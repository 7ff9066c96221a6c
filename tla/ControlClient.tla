---------------------------- MODULE ControlClient ----------------------------
(***************************************************************************)
(* The callers of the control service (client.rs, vellumctl.rs, main.rs of *)
(* vellum-cli and of vellum-tray) and the life of the service as they see it: keypresses that *)
(* route one action to it, `vellum restart`, and the instances of the      *)
(* daemon, which take turns under a lock and behind one socket path.       *)
(*                                                                         *)
(* Deadlines are untimed: a caller may give up whenever it waits, and what *)
(* it wrote may still be read later.  A request is handled in one step,    *)
(* since it holds the daemon's lifecycle mutex throughout (ControlService  *)
(* has the steps), and a ping, which changes nothing, is one step with its *)
(* connection.                                                             *)
(***************************************************************************)
EXTENDS Naturals

CONSTANTS
  Press, Restart,    \* one caller per keypress, and per `vellum restart`
  Tray,              \* those of them that use an entry of the tray's menu
  Managed,           \* builds of managed installations
  Dev, Legacy,       \* a build out of a checkout; one that has no identity
  MaxDaemons         \* bound on the daemons ever started

Caller == Press \cup Restart
Daemon == 1..MaxDaemons
NoOne  == 0
Build  == Managed \cup {Dev, Legacy}
Own    == Managed \cup {Dev}     \* what a caller of this source can be
ExclusiveActions == {"region", "long"}
CallerActions    == ExclusiveActions \cup {"pin-last"}

ASSUME CallerAssumption == Press \cap Restart = {} /\ Tray \subseteq Caller
ASSUME BuildAssumption == {Dev, Legacy} \cap Managed = {} /\ Dev # Legacy
ASSUME DaemonsAssumption == MaxDaemons \in Nat

VARIABLES
  started, build, up,      \* daemons, in order of their start
  tracked,                 \* the exclusive action a daemon tracks
  lock, path,              \* who holds the flock; whose socket is at the path
  sent, reply,             \* to whom a caller wrote and what it has not read
  at, stage,               \* where a caller is, and at which of its attempts
  ident,                   \* the build of the caller
  ran, ranBy,              \* how often the action ran, and whose program ran it
  outcome,                 \* what the caller told its user
  told, found              \* daemons that took a restart's shutdown, and the one
                           \* that answered when it reported success
daemons  == <<started, build, up, tracked, lock, path>>
wire     == <<sent, reply>>
steps    == <<at, stage, outcome>>
effects  == <<ran, ranBy, ident>>
restarts == <<told, found>>
clientVars == <<daemons, wire, steps, effects, restarts>>

NoReply == [what |-> "none", by |-> NoOne]

(* A keypress starts in vellumctl.  The tray has route_action only; so has *)
(* `vellum`, which is here what vellumctl becomes when it finds nobody     *)
(* listening, since there is no daemon at first.                           *)
ClientInit ==
  /\ started = 0
  /\ build = [d \in Daemon |-> Dev]
  /\ up = [d \in Daemon |-> "unborn"]
  /\ tracked = [d \in Daemon |-> "none"]
  /\ lock = NoOne /\ path = NoOne
  /\ sent = [c \in Caller |-> NoOne]
  /\ reply = [c \in Caller |-> NoReply]
  /\ at = [c \in Caller |-> IF c \in Press THEN "connect" ELSE "shutdown"]
  /\ stage = [c \in Caller |-> IF c \in Press \cap Tray THEN "first" ELSE "ctl"]
  /\ ident \in [Caller -> Own]
  /\ ran = [k \in Press |-> 0]
  /\ ranBy = [k \in Press |-> Dev]
  /\ outcome = [c \in Caller |-> "open"]
  /\ told = [r \in Restart |-> NoOne]
  /\ found = [r \in Restart |-> NoOne]

---------------------------------------------------------------------------
(* Helpers *)

(* check_action_identity: development builds trust one another, with or    *)
(* without an identity; a managed build talks only to its own.             *)
Compatible(local, peer) ==
  IF local \in Managed THEN peer = local ELSE peer \notin Managed

(* Who a connection to the path reaches.  The file of a daemon that is     *)
(* gone refuses it, as no file does.                                       *)
Bound(d)   == d # NoOne /\ up[d] \in {"serving", "leaving", "stopping", "stopped"}
Listening  == Bound(path)

(* A thread answers unless stop() holds the mutex; whoever is not serving  *)
(* says so (running = false).                                              *)
Answers(d)   == up[d] \in {"serving", "leaving", "stopped", "unlinked"}
IsRunning(d) == up[d] = "serving"

Proceed(c, label) == at' = [at EXCEPT ![c] = label]
Finish(c, what) ==
  /\ Proceed(c, "done")
  /\ outcome' = [outcome EXCEPT ![c] = what]
  /\ stage' = [stage EXCEPT ![c] = "ctl"]
Step(c, label) == Proceed(c, label) /\ UNCHANGED <<stage, outcome>>

StartDaemon(b) ==
  /\ started < MaxDaemons
  /\ started' = started + 1
  /\ build' = [build EXCEPT ![started + 1] = b]
  /\ up' = [up EXCEPT ![started + 1] = "starting"]
  /\ UNCHANGED <<tracked, lock, path>>

---------------------------------------------------------------------------
(* send_action_to *)

(* No daemon that would do it: vellumctl becomes `vellum`, which routes    *)
(* again, or cannot; `vellum` runs the action itself.                      *)
BecomeVellum(c) ==
  \/ /\ stage' = [stage EXCEPT ![c] = "first"]
     /\ Proceed(c, "connect") /\ UNCHANGED outcome
  \/ Finish(c, "failed")
NotDone(c) ==
  IF stage[c] = "ctl" THEN BecomeVellum(c) ELSE Step(c, "direct")
(* send() came back with nothing: before it gives up, route_action starts  *)
(* the service, once.                                                      *)
NoDaemon(c) ==
  IF stage[c] = "first" THEN Step(c, "ensure") ELSE NotDone(c)

Refuse(c) == Finish(c, "refused")   \* no_fallback, nothing was sent

NoListener(c) ==
  /\ c \in Press /\ at[c] = "connect" /\ ~Listening
  /\ NoDaemon(c)
  /\ UNCHANGED <<daemons, wire, effects, restarts>>

(* Any other error of connect, or no answer to the ping in time.           *)
Unidentified(c) ==
  /\ c \in Press /\ at[c] = "connect"
  /\ Refuse(c)
  /\ UNCHANGED <<daemons, wire, effects, restarts>>

SendAction(c, d) ==
  /\ sent' = [sent EXCEPT ![c] = d]
  /\ Step(c, "asked")
  /\ UNCHANGED reply

(* Mutation: every peer is asked over a second connection.                 *)
IdentifyReconnects(c) ==
  /\ c \in Press /\ at[c] = "connect"
  /\ Listening /\ Answers(path)
  /\ IF ~Compatible(ident[c], build[path]) THEN Refuse(c)
     ELSE IF ~IsRunning(path) THEN NotDone(c)
     ELSE Step(c, "reconnect")
  /\ UNCHANGED <<daemons, wire, effects, restarts>>

(* The ping is answered: a peer of this installation that runs is sent the *)
(* action on the same connection, a legacy one on a new one.               *)
Identify(c) ==
  /\ c \in Press /\ at[c] = "connect"
  /\ Listening /\ Answers(path)
  /\ IF ~Compatible(ident[c], build[path]) THEN Refuse(c) /\ UNCHANGED wire
     ELSE IF ~IsRunning(path) THEN NotDone(c) /\ UNCHANGED wire
     ELSE IF build[path] = Legacy THEN Step(c, "reconnect") /\ UNCHANGED wire
     ELSE SendAction(c, path)
  /\ UNCHANGED <<daemons, effects, restarts>>

Reconnect(c) ==
  /\ at[c] = "reconnect"
  /\ \/ Listening /\ SendAction(c, path)
     \/ NoDaemon(c) /\ UNCHANGED wire
  /\ UNCHANGED <<daemons, effects, restarts>>

(* The answer to the action: decide (vellumctl) and classify (client) are  *)
(* one rule, behind a second look at who answered.                         *)
Verdict(c) ==
  LET answer == reply[c].what
      peer   == build[reply[c].by]
  IN IF answer = "refused" \/ ~Compatible(ident[c], peer) THEN Refuse(c)
     ELSE IF answer = "accepted" THEN Finish(c, "accepted")
     ELSE IF answer = "busy" THEN Finish(c, "rejected")
     ELSE NotDone(c)             \* stopping, or it could not start the action

Receive(c) ==
  /\ c \in Press /\ at[c] = "asked" /\ reply[c] # NoReply
  /\ Verdict(c)
  /\ reply' = [reply EXCEPT ![c] = NoReply]
  /\ UNCHANGED <<daemons, sent, effects, restarts>>

(* Mutation: a lost answer is taken for an absent daemon.                  *)
GiveUpAndRun(c) ==
  /\ c \in Press /\ at[c] = "asked"
  /\ NotDone(c)
  /\ reply' = [reply EXCEPT ![c] = NoReply]
  /\ UNCHANGED <<daemons, sent, effects, restarts>>

(* The answer is late, lost or garbled.  The request stays where it is.    *)
GiveUp(c) ==
  /\ c \in Press /\ at[c] = "asked"
  /\ Finish(c, "unknown")
  /\ reply' = [reply EXCEPT ![c] = NoReply]
  /\ UNCHANGED <<daemons, sent, effects, restarts>>

(* handover: execv of the program's own sibling; the tray starts it.       *)
Direct(c) ==
  /\ at[c] = "direct"
  /\ \/ /\ ran' = [ran EXCEPT ![c] = @ + 1]
        /\ ranBy' = [ranBy EXCEPT ![c] = ident[c]]
        /\ Finish(c, "direct")
     \/ Finish(c, "failed") /\ UNCHANGED <<ran, ranBy>>
  /\ UNCHANGED <<daemons, wire, ident, restarts>>

---------------------------------------------------------------------------
(* ensure_service, for route_action and for restart *)

EnsureUp(c, d) ==
  IF c \in Restart
  THEN Finish(c, "restarted") /\ found' = [found EXCEPT ![c] = d] /\ UNCHANGED told
  ELSE /\ stage' = [stage EXCEPT ![c] = "second"]
       /\ Proceed(c, "connect") /\ UNCHANGED <<outcome, restarts>>
EnsureDown(c) ==
  IF c \in Restart THEN Finish(c, "failed") ELSE Step(c, "direct")

Waiting == {"ensure", "await", "awaitOwn"}

(* Mutation: a daemon that answers is taken for one that runs.             *)
PingAnswered(c) ==
  /\ at[c] \in Waiting
  /\ Listening /\ Answers(path)
  /\ EnsureUp(c, path)
  /\ UNCHANGED <<daemons, wire, effects>>

PingSucceeds(c) ==
  /\ at[c] \in Waiting
  /\ Listening /\ IsRunning(path)
  /\ EnsureUp(c, path)
  /\ UNCHANGED <<daemons, wire, effects>>

(* No daemon, none that runs, or none that answers in time.                *)
PingFails(c) ==
  /\ \/ at[c] = "ensure" /\ Step(c, "unit")
     \/ at[c] = "await" /\ Step(c, "spawn")
     \/ at[c] = "awaitOwn" /\ EnsureDown(c)
  /\ UNCHANGED <<daemons, wire, effects, restarts>>

(* systemctl start: there is no unit or it fails; it is active already, so *)
(* nothing starts; or it starts the program `current` names by then.       *)
StartUnit(c) ==
  /\ at[c] = "unit"
  /\ \/ Step(c, "spawn") /\ UNCHANGED daemons
     \/ Step(c, "await") /\ UNCHANGED daemons
     \/ Step(c, "await") /\ \E b \in Build : StartDaemon(b)
  /\ UNCHANGED <<wire, effects, restarts>>

(* spawn_daemon starts the caller's own program with the word "daemon".    *)
(* That is a daemon if the program is `vellum`; another tray does not look *)
(* at its arguments and leaves, since the first one holds the tray's lock. *)
SpawnDaemon(c) ==
  /\ at[c] = "spawn"
  /\ \/ /\ Step(c, "awaitOwn")
        /\ IF c \in Tray THEN UNCHANGED daemons ELSE StartDaemon(ident[c])
     \/ EnsureDown(c) /\ UNCHANGED daemons
  /\ UNCHANGED <<wire, effects, restarts>>

---------------------------------------------------------------------------
(* restart_service *)

SendShutdown(r) ==
  /\ at[r] = "shutdown"
  /\ IF Listening
     THEN sent' = [sent EXCEPT ![r] = path] /\ Step(r, "told")
     ELSE Step(r, "drain") /\ UNCHANGED sent
  /\ UNCHANGED <<daemons, reply, effects, restarts>>

(* Acknowledged, or not within 400 ms: then it may be read later.          *)
ShutdownSent(r) ==
  /\ r \in Restart /\ at[r] = "told"
  /\ Step(r, "drain")
  /\ reply' = [reply EXCEPT ![r] = NoReply]
  /\ told' = [told EXCEPT ![r] = reply[r].by]
  /\ UNCHANGED <<daemons, sent, effects, found>>

(* It pings until one ping has no answer, or for two seconds: both can be  *)
(* while the old daemon still stops its capture.                           *)
Drained(r) ==
  /\ at[r] = "drain"
  /\ Step(r, "ensure")
  /\ UNCHANGED <<daemons, wire, effects, restarts>>

CallerStep(c) ==
  \/ NoListener(c) \/ Unidentified(c) \/ Identify(c) \/ Reconnect(c)
  \/ Receive(c) \/ GiveUp(c) \/ Direct(c)
  \/ PingSucceeds(c) \/ PingFails(c) \/ StartUnit(c) \/ SpawnDaemon(c)
  \/ SendShutdown(c) \/ ShutdownSent(c) \/ Drained(c)

---------------------------------------------------------------------------
(* The daemon *)

(* Write an answer to whom still waits for it.                             *)
Answer(d, c, what) ==
  /\ sent' = [sent EXCEPT ![c] = NoOne]
  /\ reply' = IF at[c] \in {"asked", "told"}
              THEN [reply EXCEPT ![c] = [what |-> what, by |-> d]] ELSE reply
  /\ UNCHANGED <<steps, restarts>>

Asked(d, k) == k \in Press /\ sent[k] = d

Admits(d, k) == build[d] = Legacy \/ Compatible(build[d], ident[k])

RefusePeer(d, k) ==
  /\ Asked(d, k) /\ Answers(d) /\ ~Admits(d, k)
  /\ Answer(d, k, "refused")
  /\ UNCHANGED <<daemons, effects>>

DeclineStopping(d, k) ==
  /\ Asked(d, k) /\ Answers(d) /\ Admits(d, k)
  /\ ~IsRunning(d)
  /\ Answer(d, k, "stopping")
  /\ UNCHANGED <<daemons, effects>>

(* The action asked for matters here only, so it is chosen here.           *)
TogglesOff(d, a)  == a = "long" /\ tracked[d] = "long"
Occupied(d, a) == a \in ExclusiveActions /\ tracked[d] # "none"

DeclineBusy(d, k) ==
  /\ Asked(d, k) /\ IsRunning(d) /\ Admits(d, k)
  /\ \E a \in CallerActions : Occupied(d, a) /\ ~TogglesOff(d, a)
  /\ Answer(d, k, "busy")
  /\ UNCHANGED <<daemons, effects>>

(* The action is started, or a running long shot is told to finish.        *)
LaunchAction(d, k) ==
  /\ Asked(d, k) /\ IsRunning(d) /\ Admits(d, k)
  /\ ran' = [ran EXCEPT ![k] = @ + 1]
  /\ ranBy' = [ranBy EXCEPT ![k] = build[d]]
  /\ \E a \in CallerActions :
       /\ Occupied(d, a) => TogglesOff(d, a)
       /\ tracked' = IF a \in ExclusiveActions THEN [tracked EXCEPT ![d] = a] ELSE tracked
  /\ Answer(d, k, "accepted")
  /\ UNCHANGED <<started, build, up, lock, path, ident>>

(* A process that was started and killed again, because its output could   *)
(* not be forwarded, counts as one that never ran.                         *)
LaunchFails(d, k) ==
  /\ Asked(d, k) /\ IsRunning(d) /\ Admits(d, k)
  /\ Answer(d, k, "error")
  /\ UNCHANGED <<daemons, effects>>

(* Callers that are not followed here keep the service busy too.           *)
OthersLaunch(d) ==
  /\ IsRunning(d) /\ tracked[d] = "none"
  /\ \E a \in ExclusiveActions : tracked' = [tracked EXCEPT ![d] = a]
  /\ UNCHANGED <<started, build, up, lock, path, wire, steps, effects, restarts>>

ActionEnds(d) ==
  /\ IsRunning(d) /\ tracked[d] # "none"
  /\ tracked' = [tracked EXCEPT ![d] = "none"]
  /\ UNCHANGED <<started, build, up, lock, path, wire, steps, effects, restarts>>

Daemons(d, label) ==
  /\ up' = [up EXCEPT ![d] = label]
  /\ UNCHANGED <<started, build, effects>>

TakeShutdown(d, r) ==
  /\ r \in Restart /\ sent[r] = d /\ Answers(d)
  /\ Daemons(d, IF IsRunning(d) THEN "leaving" ELSE up[d])
  /\ Answer(d, r, "stopping")
  /\ UNCHANGED <<tracked, lock, path>>

Alone == UNCHANGED <<wire, steps, restarts>>

(* The session, systemd or a user starts one.                              *)
ServiceStarts ==
  /\ \E b \in Build : StartDaemon(b)
  /\ UNCHANGED effects /\ Alone

(* acquire_lock: a second daemon leaves at once.                           *)
AcquireLock(d) ==
  /\ up[d] = "starting"
  /\ IF lock = NoOne THEN Daemons(d, "locked") /\ lock' = d
     ELSE Daemons(d, "gone") /\ UNCHANGED lock
  /\ UNCHANGED <<tracked, path>> /\ Alone

(* The file a crash left is removed, whosever it was.                      *)
Bind(d) ==
  /\ up[d] = "locked"
  /\ Daemons(d, "serving") /\ path' = d
  /\ UNCHANGED <<tracked, lock>> /\ Alone

(* The accept loop ends, after a shutdown or with a broken listener, and   *)
(* stop() kills what is tracked.                                           *)
Stop(d) ==
  /\ up[d] \in {"serving", "leaving"}
  /\ Daemons(d, "stopping")
  /\ tracked' = [tracked EXCEPT ![d] = "none"]
  /\ UNCHANGED <<lock, path>> /\ Alone

(* Mutation: the lock is dropped with the service, before the socket.      *)
StoppedUnlocks(d) ==
  /\ up[d] = "stopping"
  /\ Daemons(d, "stopped") /\ lock' = NoOne
  /\ UNCHANGED <<tracked, path>> /\ Alone

StopDone(d) ==
  /\ up[d] = "stopping"
  /\ Daemons(d, "stopped")
  /\ UNCHANGED <<tracked, lock, path>> /\ Alone

Unlink(d) ==
  /\ up[d] = "stopped"
  /\ Daemons(d, "unlinked") /\ path' = NoOne
  /\ UNCHANGED <<tracked, lock>> /\ Alone

(* The process ends, with its threads and what they have not answered: in  *)
(* good order, or killed anywhere, which leaves the socket file behind.    *)
Exits(d) ==
  /\ up[d] \notin {"unborn", "gone"}
  /\ Daemons(d, "gone")
  /\ tracked' = [tracked EXCEPT ![d] = "none"]
  /\ lock' = IF lock = d THEN NoOne ELSE lock
  /\ sent' = [c \in Caller |-> IF sent[c] = d THEN NoOne ELSE sent[c]]
  /\ UNCHANGED <<path, reply, steps, restarts>>

DaemonStep(d) ==
  \/ \E k \in Press : \/ RefusePeer(d, k) \/ DeclineStopping(d, k)
                      \/ DeclineBusy(d, k) \/ LaunchAction(d, k) \/ LaunchFails(d, k)
  \/ \E r \in Restart : TakeShutdown(d, r)
  \/ OthersLaunch(d) \/ ActionEnds(d) \/ AcquireLock(d) \/ Bind(d)
  \/ Stop(d) \/ StopDone(d) \/ Unlink(d) \/ Exits(d)

ClientNext ==
  \/ \E c \in Caller : CallerStep(c)
  \/ \E d \in Daemon : DaemonStep(d)
  \/ ServiceStarts

ClientSpec == ClientInit /\ [][ClientNext]_clientVars

---------------------------------------------------------------------------
(* Properties *)

(* Every variable has its type, and nobody keeps an answer it no longer    *)
(* waits for.                                                              *)
ClientTypeOK ==
  /\ started \in 0..MaxDaemons
  /\ build \in [Daemon -> Build]
  /\ up \in [Daemon -> {"unborn", "starting", "locked", "serving", "leaving",
                        "stopping", "stopped", "unlinked", "gone"}]
  /\ tracked \in [Daemon -> ExclusiveActions \cup {"none"}]
  /\ lock \in Daemon \cup {NoOne} /\ path \in Daemon \cup {NoOne}
  /\ sent \in [Caller -> Daemon \cup {NoOne}]
  /\ reply \in [Caller -> {NoReply} \cup
       [what : {"accepted", "busy", "stopping", "error", "refused"}, by : Daemon]]
  /\ \A c \in Caller : reply[c] # NoReply => at[c] \in {"asked", "told"}
  /\ at \in [Caller -> {"connect", "asked", "reconnect", "direct", "unit", "spawn",
                        "shutdown", "told", "drain", "done"} \cup Waiting]
  /\ stage \in [Caller -> {"ctl", "first", "second"}]
  /\ ident \in [Caller -> Own]
  /\ ran \in [Press -> Nat] /\ ranBy \in [Press -> Build]
  /\ outcome \in [Caller -> {"open", "accepted", "rejected", "refused", "unknown",
                             "direct", "failed", "restarted"}]
  /\ told \in [Restart -> Daemon \cup {NoOne}]
  /\ found \in [Restart -> Daemon \cup {NoOne}]

(* A keypress runs its action at most once, whatever answers are lost or   *)
(* late and however many ways it is tried, and what the user is told is    *)
(* true: "accepted" and a direct run did run, a refusal or a failure did   *)
(* not and will not.  Only "outcome unknown" leaves it open.               *)
RunsOnce ==
  \A k \in Press :
    /\ ran[k] <= 1
    /\ outcome[k] \in {"accepted", "direct"} => ran[k] = 1
    /\ outcome[k] \in {"rejected", "refused", "failed"} =>
         ran[k] = 0 /\ sent[k] = NoOne

(* What runs for a keypress is a program of its own installation, though   *)
(* daemons of other builds come and go between its steps.                  *)
SameBuildRuns ==
  \A k \in Press : ran[k] > 0 => Compatible(ident[k], ranBy[k])

(* A daemon that serves can be reached: it holds the lock and the path is  *)
(* its own, whoever starts, stops or is killed beside it.                  *)
ServingReachable ==
  \A d \in Daemon : up[d] = "serving" => lock = d /\ path = d

(* A restart that reports success after its shutdown was acknowledged has  *)
(* heard another, later daemon.                                            *)
RestartIsNew ==
  \A r \in Restart :
    outcome[r] = "restarted" /\ told[r] # NoOne => found[r] # told[r]

(* client.rs:246: without a unit "a direct spawn" starts the service: who  *)
(* waits for the daemon it has spawned has started one.                    *)
SpawnStartsDaemon ==
  [][\A c \in Caller :
       at[c] = "spawn" /\ at'[c] = "awaitOwn" => started' = started + 1]_clientVars
=============================================================================
