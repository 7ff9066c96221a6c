---------------------------- MODULE ControlProofs ----------------------------
(***************************************************************************)
(* Proofs about ControlClient, for any numbers of keypresses, restarts,    *)
(* builds and daemons: what the daemons keep to each other, that a         *)
(* keypress runs at most once and with its own build, and that a restart   *)
(* hears another daemon; and proofs about ControlService, for any number   *)
(* of connection threads and any bound on processes: the inductive         *)
(* invariant, the safety properties it implies, and the implementation of  *)
(* ScreenOwner.                                                            *)
(***************************************************************************)
EXTENDS ControlClient, ControlService, TLAPS

USE CallerAssumption, BuildAssumption, DaemonsAssumption DEF Caller, Daemon, NoOne

---------------------------------------------------------------------------
(* The inductive invariant, in three parts *)

Holding == {"locked", "serving", "leaving", "stopping", "stopped", "unlinked"}
HasPath == {"serving", "leaving", "stopping", "stopped"}
Left    == {"leaving", "stopping", "stopped", "unlinked", "gone"}

(* Daemons are born in order; who has passed acquire_lock holds the lock,  *)
(* and who has bound the socket has its path.                              *)
DaemonInv ==
  \A d \in Daemon :
    /\ up[d] = "unborn" <=> started < d
    /\ up[d] \in Holding => lock = d
    /\ up[d] \in HasPath => path = d
PathInv == path # NoOne => path <= started

(* While a request waits to be read its action has not run; an answer says *)
(* whether it has.                                                         *)
Before == {"connect", "reconnect", "direct", "unit", "spawn"} \cup Waiting
OnceInv(k) ==
  /\ at[k] \in Before \cup {"asked", "done"}
  /\ sent[k] # NoOne => ran[k] = 0
  /\ ran[k] <= 1
  /\ at[k] # "done" => outcome[k] = "open"
  /\ at[k] \in Before => ran[k] = 0 /\ sent[k] = NoOne
  /\ reply[k] # NoReply =>
       /\ sent[k] = NoOne
       /\ reply[k].what = "accepted" <=> ran[k] = 1
  /\ outcome[k] \in {"accepted", "direct"} => ran[k] = 1
  /\ outcome[k] \in {"rejected", "refused", "failed"} => ran[k] = 0 /\ sent[k] = NoOne

(* The request of a managed caller is on its way to a daemon of its build. *)
BuildInv(k) ==
  /\ ran[k] > 0 => Compatible(ident[k], ranBy[k])
  /\ sent[k] # NoOne => sent[k] <= started
  /\ ident[k] \in Managed /\ sent[k] # NoOne => build[sent[k]] = ident[k]
  /\ at[k] = "reconnect" => ident[k] \notin Managed
  /\ reply[k] # NoReply =>
       /\ reply[k].by <= started
       /\ reply[k].what = "accepted" => Compatible(ident[k], build[reply[k].by])

(* A daemon that took the shutdown of a restart has left for good.         *)
NewInv(r) ==
  /\ reply[r] # NoReply => up[reply[r].by] \in Left
  /\ told[r] # NoOne => up[told[r]] \in Left
  /\ outcome[r] = "restarted" =>
       at[r] = "done" /\ (told[r] # NoOne => found[r] # told[r])

PressInv == \A k \in Press : OnceInv(k) /\ BuildInv(k)
RestartInv == \A r \in Restart : NewInv(r)

---------------------------------------------------------------------------
(* The types, in groups that change together *)

Labels   == {"connect", "asked", "reconnect", "direct", "unit", "spawn",
             "shutdown", "told", "drain", "done"} \cup Waiting
Outcomes == {"open", "accepted", "rejected", "refused", "unknown",
             "direct", "failed", "restarted"}
LivesOn    == {"unborn", "starting", "locked", "serving", "leaving",
             "stopping", "stopped", "unlinked", "gone"}
Whats    == {"accepted", "busy", "stopping", "error", "refused"}

DaemonType ==
  /\ started \in 0..MaxDaemons
  /\ build \in [Daemon -> Build]
  /\ up \in [Daemon -> LivesOn]
  /\ tracked \in [Daemon -> ExclusiveActions \cup {"none"}]
  /\ lock \in Daemon \cup {NoOne} /\ path \in Daemon \cup {NoOne}
RequestType == sent \in [Caller -> Daemon \cup {NoOne}]
ReplyType ==
  /\ reply \in [Caller -> {NoReply} \cup [what : Whats, by : Daemon]]
  /\ \A c \in Caller : reply[c] # NoReply => at[c] \in {"asked", "told"}
StepsType ==
  /\ at \in [Caller -> Labels]
  /\ stage \in [Caller -> {"ctl", "first", "second"}]
  /\ outcome \in [Caller -> Outcomes]
EffectsType ==
  /\ ident \in [Caller -> Own]
  /\ ran \in [Press -> Nat] /\ ranBy \in [Press -> Build]
RestartsType ==
  /\ told \in [Restart -> Daemon \cup {NoOne}]
  /\ found \in [Restart -> Daemon \cup {NoOne}]

LEMMA TypeParts ==
  /\ ClientTypeOK <=> /\ DaemonType /\ RequestType /\ ReplyType
                /\ StepsType /\ EffectsType /\ RestartsType
  /\ ClientTypeOK' <=> /\ DaemonType' /\ RequestType' /\ ReplyType'
                 /\ StepsType' /\ EffectsType' /\ RestartsType'
BY DEF ClientTypeOK, DaemonType, RequestType, ReplyType, StepsType, EffectsType, RestartsType,
       Labels, Outcomes, LivesOn, Whats

---------------------------------------------------------------------------
(* What the steps of a caller do to it *)

Moves(c) ==
  /\ StepsType'
  /\ \A e \in Caller \ {c} : at'[e] = at[e] /\ outcome'[e] = outcome[e]

(* The caller goes on without having sent anything, or ends without it.    *)
Onward(c) ==
  /\ Moves(c)
  /\ \/ at'[c] \in Before \cup {"drain"} /\ outcome'[c] = outcome[c]
     \/ at'[c] = "done" /\ outcome'[c] \in {"failed", "refused"}

LEMMA StepMoves ==
  ASSUME StepsType, NEW c \in Caller, NEW label \in Labels, Step(c, label)
  PROVE  Moves(c) /\ at'[c] = label /\ outcome'[c] = outcome[c]
BY DEF StepsType, Moves, Step, Proceed

LEMMA FinishMoves ==
  ASSUME StepsType, NEW c \in Caller, NEW what \in Outcomes, Finish(c, what)
  PROVE  Moves(c) /\ at'[c] = "done" /\ outcome'[c] = what
BY DEF StepsType, Moves, Finish, Proceed, Labels

LEMMA RefuseMoves ==
  ASSUME StepsType, NEW c \in Caller, Refuse(c)
  PROVE  Onward(c) /\ at'[c] = "done"
BY FinishMoves DEF Refuse, Onward, Outcomes

LEMMA NotDoneMoves ==
  ASSUME StepsType, NEW c \in Caller, NotDone(c)
  PROVE  Onward(c) /\ at'[c] \in {"connect", "direct", "done"}
<1>1. CASE stage[c] = "ctl" /\ Finish(c, "failed")
  BY <1>1, FinishMoves DEF Onward, Outcomes
<1>2. CASE Step(c, "direct")
  BY <1>2, StepMoves DEF Onward, Labels, Before
<1>3. CASE /\ stage' = [stage EXCEPT ![c] = "first"]
           /\ Proceed(c, "connect") /\ UNCHANGED outcome
  BY <1>3 DEF Proceed, StepsType, Moves, Onward, Labels, Before
<1> QED
  BY <1>1, <1>2, <1>3 DEF NotDone, BecomeVellum

LEMMA NoDaemonMoves ==
  ASSUME StepsType, NEW c \in Caller, NoDaemon(c)
  PROVE  Onward(c) /\ at'[c] \in {"connect", "direct", "done", "ensure"}
<1>1. CASE Step(c, "ensure")
  BY <1>1, StepMoves DEF Onward, Labels, Before, Waiting
<1>2. CASE NotDone(c)
  BY <1>2, NotDoneMoves
<1> QED
  BY <1>1, <1>2 DEF NoDaemon

LEMMA EnsureDownMoves ==
  ASSUME StepsType, NEW c \in Caller, EnsureDown(c)
  PROVE  Onward(c) /\ at'[c] \in {"direct", "done"}
<1>1. CASE Finish(c, "failed")
  BY <1>1, FinishMoves DEF Onward, Outcomes
<1>2. CASE Step(c, "direct")
  BY <1>2, StepMoves DEF Onward, Labels, Before
<1> QED
  BY <1>1, <1>2 DEF EnsureDown

---------------------------------------------------------------------------
(* Every step of a caller is one of these *)

(* It looks for a daemon.                                                  *)
Walks(c) ==
  /\ at[c] \in Before \cup {"shutdown", "drain"}
  /\ Onward(c)
  /\ at[c] \in Before => at'[c] # "drain"
  /\ at'[c] = "reconnect" => ident[c] \notin Managed
  /\ UNCHANGED daemons \/ \E b \in Build : StartDaemon(b)
  /\ UNCHANGED <<wire, effects, restarts>>
(* A keypress or a restart has heard a daemon that runs.                   *)
Heard(c) ==
  /\ at[c] \in Waiting /\ Listening /\ IsRunning(path)
  /\ Moves(c)
  /\ IF c \in Restart
     THEN /\ at'[c] = "done" /\ outcome'[c] = "restarted"
          /\ found' = [found EXCEPT ![c] = path] /\ UNCHANGED told
     ELSE at'[c] = "connect" /\ outcome'[c] = outcome[c] /\ UNCHANGED restarts
  /\ UNCHANGED <<daemons, wire, effects>>
Asks(c) ==
  /\ \/ c \in Press /\ at[c] = "connect" /\ Compatible(ident[c], build[path]) /\ at'[c] = "asked"
     \/ at[c] = "reconnect" /\ at'[c] = "asked"
     \/ at[c] = "shutdown" /\ at'[c] = "told"
  /\ Listening
  /\ Moves(c) /\ outcome'[c] = outcome[c]
  /\ sent' = [sent EXCEPT ![c] = path] /\ UNCHANGED reply
  /\ UNCHANGED <<daemons, effects, restarts>>
Answered(c) ==
  /\ c \in Press /\ at[c] = "asked"
  /\ Moves(c)
  /\ reply' = [reply EXCEPT ![c] = NoReply]
  /\ \/ at'[c] = "done" /\ outcome'[c] = "unknown"
     \/ /\ reply[c] # NoReply
        /\ IF reply[c].what = "accepted" /\ Compatible(ident[c], build[reply[c].by])
           THEN at'[c] = "done" /\ outcome'[c] = "accepted"
           ELSE \/ at'[c] \in {"connect", "direct"} /\ outcome'[c] = outcome[c]
                \/ at'[c] = "done" /\ outcome'[c] \in {"rejected", "refused", "failed"}
  /\ UNCHANGED <<daemons, sent, effects, restarts>>
RunsDirectly(c) ==
  /\ at[c] = "direct" /\ at'[c] = "done" /\ outcome'[c] = "direct"
  /\ Moves(c)
  /\ ran' = [ran EXCEPT ![c] = @ + 1] /\ ranBy' = [ranBy EXCEPT ![c] = ident[c]]
  /\ UNCHANGED <<daemons, wire, ident, restarts>>

LEMMA CallerCases ==
  ASSUME StepsType, EffectsType, NEW c \in Caller, CallerStep(c)
  PROVE  Walks(c) \/ Heard(c) \/ Asks(c) \/ Answered(c) \/ RunsDirectly(c) \/ ShutdownSent(c)
<1> USE DEF daemons, wire, effects, restarts, steps
<1>1. CASE NoListener(c)
  BY <1>1, NoDaemonMoves DEF NoListener, Walks, Before
<1>2. CASE Unidentified(c)
  BY <1>2, RefuseMoves DEF Unidentified, Walks, Before
<1>3. CASE Identify(c)
  <2>1. CASE Refuse(c) /\ UNCHANGED wire
    BY <1>3, <2>1, RefuseMoves DEF Identify, Walks, Before
  <2>2. CASE NotDone(c) /\ UNCHANGED wire
    BY <1>3, <2>2, NotDoneMoves DEF Identify, Walks, Before
  <2>3. CASE /\ Compatible(ident[c], build[path]) /\ build[path] = Legacy
             /\ Step(c, "reconnect") /\ UNCHANGED wire
    <3>1. ident[c] \notin Managed
      BY <2>3 DEF Compatible
    <3>2. Onward(c) /\ at'[c] = "reconnect"
      BY <2>3, StepMoves DEF Onward, Labels, Before
    <3> QED
      BY <1>3, <2>3, <3>1, <3>2 DEF Identify, Walks, Before
  <2>4. CASE Compatible(ident[c], build[path]) /\ SendAction(c, path)
    BY <1>3, <2>4, StepMoves DEF Identify, SendAction, Asks, Labels
  <2> QED
    BY <1>3, <2>1, <2>2, <2>3, <2>4 DEF Identify
<1>4. CASE Reconnect(c)
  <2>1. CASE Listening /\ SendAction(c, path)
    BY <1>4, <2>1, StepMoves DEF Reconnect, SendAction, Asks, Labels
  <2>2. CASE NoDaemon(c) /\ UNCHANGED wire
    BY <1>4, <2>2, NoDaemonMoves DEF Reconnect, Walks, Before
  <2> QED
    BY <1>4, <2>1, <2>2 DEF Reconnect
<1>5. CASE Receive(c)
  <2>1. CASE Refuse(c) /\ ~(reply[c].what = "accepted" /\ Compatible(ident[c], build[reply[c].by]))
    BY <1>5, <2>1, FinishMoves DEF Receive, Refuse, Answered, Outcomes
  <2>2. CASE /\ reply[c].what = "accepted" /\ Compatible(ident[c], build[reply[c].by])
             /\ Finish(c, "accepted")
    BY <1>5, <2>2, FinishMoves DEF Receive, Answered, Outcomes
  <2>3. CASE reply[c].what = "busy" /\ Finish(c, "rejected")
    BY <1>5, <2>3, FinishMoves DEF Receive, Answered, Outcomes
  <2>4. CASE reply[c].what # "accepted" /\ NotDone(c)
    BY <1>5, <2>4, NotDoneMoves DEF Receive, Answered, Onward, Before, Waiting
  <2> QED
    BY <1>5, <2>1, <2>2, <2>3, <2>4 DEF Receive, Verdict
<1>6. CASE GiveUp(c)
  BY <1>6, FinishMoves DEF GiveUp, Answered, Outcomes
<1>7. CASE Direct(c)
  <2>1. CASE Finish(c, "failed") /\ UNCHANGED <<ran, ranBy>>
    BY <1>7, <2>1, FinishMoves DEF Direct, Walks, Onward, Outcomes, Before
  <2>2. CASE /\ ran' = [ran EXCEPT ![c] = @ + 1] /\ ranBy' = [ranBy EXCEPT ![c] = ident[c]]
             /\ Finish(c, "direct")
    BY <1>7, <2>2, FinishMoves DEF Direct, RunsDirectly, Outcomes
  <2> QED
    BY <1>7, <2>1, <2>2 DEF Direct
<1>8. CASE PingSucceeds(c)
  <2>1. CASE c \in Restart
    BY <1>8, <2>1, FinishMoves DEF PingSucceeds, EnsureUp, Heard, Outcomes
  <2>2. CASE c \notin Restart
    BY <1>8, <2>2 DEF PingSucceeds, EnsureUp, Heard, Proceed, Moves, StepsType, Labels
  <2> QED
    BY <2>1, <2>2
<1>9. CASE PingFails(c)
  <2>1. CASE at[c] = "ensure" /\ Step(c, "unit")
    BY <1>9, <2>1, StepMoves DEF PingFails, Walks, Onward, Labels, Before, Waiting
  <2>2. CASE at[c] = "await" /\ Step(c, "spawn")
    BY <1>9, <2>2, StepMoves DEF PingFails, Walks, Onward, Labels, Before, Waiting
  <2>3. CASE at[c] = "awaitOwn" /\ EnsureDown(c)
    BY <1>9, <2>3, EnsureDownMoves DEF PingFails, Walks, Before, Waiting
  <2> QED
    BY <1>9, <2>1, <2>2, <2>3 DEF PingFails
<1>10. CASE StartUnit(c)
  <2>1. CASE Step(c, "spawn")
    BY <1>10, <2>1, StepMoves DEF StartUnit, Walks, Onward, Labels, Before, Waiting
  <2>2. CASE Step(c, "await")
    BY <1>10, <2>2, StepMoves DEF StartUnit, Walks, Onward, Labels, Before, Waiting
  <2> QED
    BY <1>10, <2>1, <2>2 DEF StartUnit
<1>11. CASE SpawnDaemon(c)
  <2>1. CASE Step(c, "awaitOwn") /\ (UNCHANGED daemons \/ \E b \in Build : StartDaemon(b))
    BY <1>11, <2>1, StepMoves DEF SpawnDaemon, Walks, Onward, Labels, Before, Waiting
  <2>2. CASE EnsureDown(c) /\ UNCHANGED daemons
    BY <1>11, <2>2, EnsureDownMoves DEF SpawnDaemon, Walks, Before, Waiting
  <2> QED
    BY <1>11, <2>1, <2>2 DEF SpawnDaemon, EffectsType, Build, Own
<1>12. CASE SendShutdown(c)
  <2>1. CASE Listening
    BY <1>12, <2>1, StepMoves DEF SendShutdown, Asks, Labels
  <2>2. CASE ~Listening
    BY <1>12, <2>2, StepMoves DEF SendShutdown, Walks, Onward, Labels, Before, Waiting
  <2> QED
    BY <2>1, <2>2
<1>13. CASE Drained(c)
  BY <1>13, StepMoves DEF Drained, Walks, Onward, Labels, Before, Waiting
<1> QED
  BY <1>1, <1>2, <1>3, <1>4, <1>5, <1>6, <1>7, <1>8, <1>9, <1>10, <1>11, <1>12, <1>13
     DEF CallerStep

---------------------------------------------------------------------------
(* Every step of a daemon is one of these *)

(* A request is read and answered; nothing starts.                         *)
Declines(d, k) ==
  /\ k \in Press /\ sent[k] = d
  /\ \E what \in Whats \ {"accepted"} : Answer(d, k, what)
  /\ UNCHANGED <<daemons, effects>>
(* The exclusive action changes.                                           *)
Busies(d) ==
  /\ UNCHANGED <<started, build, up, lock, path, wire, steps, effects, restarts>>
  /\ tracked' \in [Daemon -> ExclusiveActions \cup {"none"}]
(* The life of the daemon goes on.                                         *)
Ages(d) ==
  /\ AcquireLock(d) \/ Bind(d) \/ Stop(d) \/ StopDone(d) \/ Unlink(d)
  /\ UNCHANGED <<started, build, effects, wire, steps, restarts>>
  /\ \E label \in LivesOn \ {"unborn"} :
       /\ up' = [up EXCEPT ![d] = label]
       /\ up[d] \in Left => label \in Left

LEMMA DaemonCases ==
  ASSUME DaemonType, NEW d \in Daemon, DaemonStep(d)
  PROVE  \/ \E k \in Press : Declines(d, k) \/ LaunchAction(d, k)
         \/ \E r \in Restart : TakeShutdown(d, r)
         \/ Busies(d) \/ Ages(d) \/ Exits(d)
<1>1. ASSUME NEW k \in Press, RefusePeer(d, k) PROVE Declines(d, k)
  BY <1>1 DEF RefusePeer, Declines, Asked, Whats
<1>2. ASSUME NEW k \in Press, DeclineStopping(d, k) PROVE Declines(d, k)
  BY <1>2 DEF DeclineStopping, Declines, Asked, Whats
<1>3. ASSUME NEW k \in Press, DeclineBusy(d, k) PROVE Declines(d, k)
  BY <1>3 DEF DeclineBusy, Declines, Asked, Whats
<1>4. ASSUME NEW k \in Press, LaunchFails(d, k) PROVE Declines(d, k)
  BY <1>4 DEF LaunchFails, Declines, Asked, Whats
<1>5. CASE OthersLaunch(d)
  BY <1>5 DEF OthersLaunch, Busies, DaemonType
<1>6. CASE ActionEnds(d)
  BY <1>6 DEF ActionEnds, Busies, DaemonType
<1>7. CASE AcquireLock(d) \/ Bind(d) \/ Stop(d) \/ StopDone(d) \/ Unlink(d)
  <2>1. UNCHANGED <<started, build, effects, wire, steps, restarts>>
    BY <1>7 DEF AcquireLock, Bind, Stop, StopDone, Unlink, Daemons, Alone
  <2>2. \E label \in LivesOn \ {"unborn"} :
          up' = [up EXCEPT ![d] = label] /\ (up[d] \in Left => label \in Left)
    BY <1>7 DEF AcquireLock, Bind, Stop, StopDone, Unlink, Daemons, LivesOn, Left
  <2> QED
    BY <1>7, <2>1, <2>2 DEF Ages
<1> QED
  BY <1>1, <1>2, <1>3, <1>4, <1>5, <1>6, <1>7 DEF DaemonStep

---------------------------------------------------------------------------
(* Type correctness *)

LEMMA StartDaemonType ==
  ASSUME DaemonType, NEW b \in Build, StartDaemon(b)
  PROVE  DaemonType'
BY DEF DaemonType, StartDaemon, LivesOn

LEMMA ExitType == ASSUME ClientTypeOK, NEW d \in Daemon, Exits(d) PROVE ClientTypeOK'
<1> USE TypeParts DEF Exits, Daemons, effects, steps, restarts
<1>1. DaemonType'
  BY DEF DaemonType, LivesOn
<1>2. RequestType'
  BY DEF RequestType
<1>3. ReplyType' /\ StepsType' /\ EffectsType' /\ RestartsType'
  BY DEF ReplyType, StepsType, EffectsType, RestartsType
<1> QED
  BY <1>1, <1>2, <1>3

LEMMA AnswerType ==
  ASSUME RequestType, ReplyType, StepsType, RestartsType,
         NEW d \in Daemon, NEW c \in Caller, NEW what \in Whats, Answer(d, c, what)
  PROVE  RequestType' /\ ReplyType' /\ StepsType' /\ RestartsType'
<1> USE DEF Answer, steps, restarts
<1>1. RequestType'
  BY DEF RequestType
<1>2. reply' \in [Caller -> {NoReply} \cup [what : Whats, by : Daemon]]
  BY DEF ReplyType
<1>3. ASSUME NEW e \in Caller, reply'[e] # NoReply PROVE at'[e] \in {"asked", "told"}
  BY <1>3 DEF ReplyType
<1>4. StepsType' /\ RestartsType'
  BY DEF StepsType, RestartsType
<1> QED
  BY <1>1, <1>2, <1>3, <1>4 DEF ReplyType

LEMMA TypeInit == ClientInit => ClientTypeOK
<1> SUFFICES ASSUME ClientInit PROVE ClientTypeOK
  OBVIOUS
<1>1. DaemonType
  BY DEF ClientInit, DaemonType, Build, LivesOn
<1>2. RequestType /\ ReplyType
  BY DEF ClientInit, RequestType, ReplyType
<1>3. StepsType
  BY DEF ClientInit, StepsType, Labels, Outcomes
<1>4. EffectsType /\ RestartsType
  BY DEF ClientInit, EffectsType, RestartsType, Build
<1> QED
  BY <1>1, <1>2, <1>3, <1>4, TypeParts

LEMMA TypeNext == ClientTypeOK /\ [ClientNext]_clientVars => ClientTypeOK'
<1> SUFFICES ASSUME ClientTypeOK, [ClientNext]_clientVars PROVE ClientTypeOK'
  OBVIOUS
<1> USE TypeParts
<1>1. ASSUME NEW c \in Caller, CallerStep(c) PROVE ClientTypeOK'
  <2> USE DEF daemons, wire, effects, restarts
  <2>1. CASE Walks(c)
    <3>1. DaemonType'
      BY <2>1, StartDaemonType DEF Walks, DaemonType
    <3>2. RequestType' /\ StepsType' /\ EffectsType' /\ RestartsType'
      BY <2>1 DEF Walks, Onward, Moves, RequestType, EffectsType, RestartsType
    <3>3. ReplyType'
      BY <2>1 DEF Walks, Onward, Moves, ReplyType, Before, Waiting
    <3> QED
      BY <3>1, <3>2, <3>3
  <2>2. CASE Heard(c)
    <3>1. DaemonType' /\ RequestType' /\ StepsType' /\ EffectsType'
      BY <2>2 DEF Heard, Moves, DaemonType, RequestType, EffectsType
    <3>2. RestartsType'
      BY <2>2 DEF Heard, RestartsType, DaemonType
    <3>3. ReplyType'
      BY <2>2 DEF Heard, Moves, ReplyType, Waiting
    <3> QED
      BY <3>1, <3>2, <3>3
  <2>3. CASE Asks(c)
    <3>1. DaemonType' /\ StepsType' /\ EffectsType' /\ RestartsType'
      BY <2>3 DEF Asks, Moves, DaemonType, EffectsType, RestartsType
    <3>2. RequestType'
      BY <2>3 DEF Asks, RequestType, DaemonType
    <3>3. ReplyType'
      BY <2>3 DEF Asks, Moves, ReplyType
    <3> QED
      BY <3>1, <3>2, <3>3
  <2>4. CASE Answered(c)
    <3>1. DaemonType' /\ RequestType' /\ StepsType' /\ EffectsType' /\ RestartsType'
      BY <2>4 DEF Answered, Moves, DaemonType, RequestType, EffectsType, RestartsType
    <3>2. ReplyType'
      BY <2>4 DEF Answered, Moves, ReplyType
    <3> QED
      BY <3>1, <3>2
  <2>5. CASE RunsDirectly(c)
    <3>1. DaemonType' /\ RequestType' /\ StepsType' /\ RestartsType'
      BY <2>5 DEF RunsDirectly, Moves, DaemonType, RequestType, RestartsType
    <3>2. EffectsType'
      <4>1. ident[c] \in Build
        BY DEF EffectsType, Build, Own
      <4>2. ran' \in [Press -> Nat]
        <5>1. CASE c \in Press
          <6>1. ran[c] + 1 \in Nat
            BY <5>1 DEF EffectsType
          <6> QED
            BY <2>5, <6>1 DEF RunsDirectly, EffectsType
        <5>2. CASE c \notin Press
          BY <2>5, <5>2 DEF RunsDirectly, EffectsType
        <5> QED
          BY <5>1, <5>2
      <4>3. ranBy' \in [Press -> Build]
        BY <2>5, <4>1 DEF RunsDirectly, EffectsType
      <4>4. ident' \in [Caller -> Own]
        BY <2>5 DEF RunsDirectly, EffectsType
      <4> QED
        BY <4>2, <4>3, <4>4 DEF EffectsType
    <3>3. ReplyType'
      BY <2>5 DEF RunsDirectly, Moves, ReplyType
    <3> QED
      BY <3>1, <3>2, <3>3
  <2>6. CASE ShutdownSent(c)
    <3>1. Moves(c) /\ at'[c] = "drain"
      BY <2>6, StepMoves DEF ShutdownSent, Labels
    <3>2. DaemonType' /\ RequestType' /\ StepsType' /\ EffectsType'
      BY <2>6, <3>1 DEF ShutdownSent, Moves, DaemonType, RequestType, EffectsType
    <3>3. ReplyType'
      BY <2>6, <3>1 DEF ShutdownSent, Moves, ReplyType
    <3>4. RestartsType'
      BY <2>6 DEF ShutdownSent, RestartsType, ReplyType, NoReply
    <3> QED
      BY <3>2, <3>3, <3>4
  <2> QED
    BY <1>1, <2>1, <2>2, <2>3, <2>4, <2>5, <2>6, CallerCases
<1>2. ASSUME NEW d \in Daemon, DaemonStep(d) PROVE ClientTypeOK'
  <2> USE DEF daemons, effects
  <2>1. ASSUME NEW k \in Press, Declines(d, k) PROVE ClientTypeOK'
    <3>1. PICK what \in Whats : Answer(d, k, what)
      BY <2>1 DEF Declines
    <3>2. RequestType' /\ ReplyType' /\ StepsType' /\ RestartsType'
      BY <3>1, AnswerType
    <3>3. DaemonType' /\ EffectsType'
      BY <2>1 DEF Declines, DaemonType, EffectsType
    <3> QED
      BY <3>2, <3>3
  <2>2. ASSUME NEW k \in Press, LaunchAction(d, k) PROVE ClientTypeOK'
    <3>1. DaemonType'
      BY <2>2 DEF LaunchAction, DaemonType, CallerActions
    <3>2. EffectsType'
      BY <2>2 DEF LaunchAction, EffectsType, DaemonType
    <3>3. RequestType' /\ ReplyType' /\ StepsType' /\ RestartsType'
      BY <2>2, AnswerType DEF LaunchAction, Whats
    <3> QED
      BY <3>1, <3>2, <3>3
  <2>3. ASSUME NEW r \in Restart, TakeShutdown(d, r) PROVE ClientTypeOK'
    <3>1. DaemonType' /\ EffectsType'
      BY <2>3 DEF TakeShutdown, Daemons, DaemonType, EffectsType, LivesOn
    <3>2. RequestType' /\ ReplyType' /\ StepsType' /\ RestartsType'
      BY <2>3, AnswerType DEF TakeShutdown, Whats
    <3> QED
      BY <3>1, <3>2
  <2>4. CASE Busies(d)
    BY <2>4 DEF Busies, wire, steps, restarts, DaemonType, RequestType, ReplyType, StepsType,
                EffectsType, RestartsType
  <2>5. CASE Ages(d)
    <3>1. DaemonType'
      BY <2>5 DEF Ages, DaemonType, AcquireLock, Bind, Stop, StopDone, Unlink
    <3> QED
      BY <2>5, <3>1 DEF Ages, wire, steps, restarts, RequestType, ReplyType, StepsType,
                        EffectsType, RestartsType
  <2> QED
    BY <1>2, <2>1, <2>2, <2>3, <2>4, <2>5, DaemonCases, ExitType
<1>3. CASE ServiceStarts
  <2>1. DaemonType'
    BY <1>3, StartDaemonType DEF ServiceStarts
  <2> QED
    BY <1>3, <2>1 DEF ServiceStarts, Alone, effects, wire, steps, restarts,
                      RequestType, ReplyType, StepsType, EffectsType, RestartsType
<1>4. CASE UNCHANGED clientVars
  BY <1>4 DEF clientVars, daemons, wire, steps, effects, restarts, ClientTypeOK
<1> QED
  BY <1>1, <1>2, <1>3, <1>4 DEF ClientNext

(* Every variable has its type, and nobody keeps an answer it no longer    *)
(* waits for.                                                              *)
THEOREM ClientTyped == ClientSpec => []ClientTypeOK
BY TypeInit, TypeNext, PTL DEF ClientSpec

---------------------------------------------------------------------------
(* The daemons among themselves *)

LEMMA StartDaemonInv ==
  ASSUME DaemonType, DaemonInv, PathInv, NEW b \in Build, StartDaemon(b)
  PROVE  DaemonInv' /\ PathInv'
BY DEF DaemonType, DaemonInv, PathInv, StartDaemon, Holding, HasPath

LEMMA DaemonNext == ClientTypeOK /\ DaemonInv /\ PathInv /\ [ClientNext]_clientVars => DaemonInv' /\ PathInv'
<1> SUFFICES ASSUME ClientTypeOK, DaemonInv, PathInv, [ClientNext]_clientVars PROVE DaemonInv' /\ PathInv'
  OBVIOUS
<1> USE TypeParts DEF daemons
<1>1. ASSUME UNCHANGED <<started, up, lock, path>> PROVE DaemonInv' /\ PathInv'
  BY <1>1 DEF DaemonInv, PathInv
<1>2. ASSUME NEW c \in Caller, CallerStep(c) PROVE DaemonInv' /\ PathInv'
  <2>1. UNCHANGED daemons \/ \E b \in Build : StartDaemon(b)
    BY <1>2, CallerCases DEF Walks, Heard, Asks, Answered, RunsDirectly, ShutdownSent
  <2> QED
    BY <2>1, <1>1, StartDaemonInv
<1>3. ASSUME NEW d \in Daemon, DaemonStep(d) PROVE DaemonInv' /\ PathInv'
  <2>1. ASSUME NEW k \in Press, Declines(d, k) \/ LaunchAction(d, k) PROVE DaemonInv' /\ PathInv'
    BY <2>1, <1>1 DEF Declines, LaunchAction
  <2>2. ASSUME NEW r \in Restart, TakeShutdown(d, r) PROVE DaemonInv' /\ PathInv'
    BY <2>2 DEF TakeShutdown, Daemons, IsRunning, Answers, DaemonInv, PathInv, DaemonType,
                Holding, HasPath
  <2>3. CASE Busies(d)
    BY <2>3, <1>1 DEF Busies
  <2>4. CASE AcquireLock(d)
    BY <2>4 DEF AcquireLock, Daemons, DaemonInv, PathInv, DaemonType, Holding, HasPath
  <2>5. CASE Bind(d)
    BY <2>5 DEF Bind, Daemons, DaemonInv, PathInv, DaemonType, Holding, HasPath
  <2>6. CASE Stop(d) \/ StopDone(d)
    BY <2>6 DEF Stop, StopDone, Daemons, DaemonInv, PathInv, DaemonType, Holding, HasPath
  <2>7. CASE Unlink(d)
    BY <2>7 DEF Unlink, Daemons, DaemonInv, PathInv, DaemonType, Holding, HasPath
  <2>8. CASE Exits(d)
    BY <2>8 DEF Exits, Daemons, DaemonInv, PathInv, DaemonType, Holding, HasPath
  <2> QED
    BY <1>3, <2>1, <2>2, <2>3, <2>4, <2>5, <2>6, <2>7, <2>8, DaemonCases DEF Ages
<1>4. CASE ServiceStarts
  BY <1>4, StartDaemonInv DEF ServiceStarts
<1>5. CASE UNCHANGED clientVars
  BY <1>5, <1>1 DEF clientVars
<1> QED
  BY <1>2, <1>3, <1>4, <1>5 DEF ClientNext

(* A daemon that serves holds the lock and the path is its own.            *)
THEOREM ServingReached == ClientSpec => []ServingReachable
<1>1. ClientInit => ClientTypeOK /\ DaemonInv /\ PathInv
  BY TypeInit DEF ClientInit, DaemonInv, PathInv, Holding, HasPath
<1>2. DaemonInv => ServingReachable
  BY DEF DaemonInv, ServingReachable, Holding, HasPath
<1> QED
  BY <1>1, <1>2, TypeNext, DaemonNext, PTL DEF ClientSpec

---------------------------------------------------------------------------
(* One keypress *)

(* Nothing of keypress k changes.                                          *)
Rests(k) ==
  /\ at'[k] = at[k] /\ outcome'[k] = outcome[k]
  /\ sent'[k] = sent[k] /\ reply'[k] = reply[k]
  /\ ran'[k] = ran[k] /\ ranBy'[k] = ranBy[k] /\ ident'[k] = ident[k]

(* No daemon that exists becomes of another build.                         *)
SameBuilds ==
  /\ started <= started'
  /\ \A d \in Daemon : d <= started => build'[d] = build[d]

LEMMA SameBuildsNext == ClientTypeOK /\ [ClientNext]_clientVars => SameBuilds
<1> SUFFICES ASSUME ClientTypeOK, [ClientNext]_clientVars PROVE SameBuilds
  OBVIOUS
<1> USE TypeParts DEF daemons
<1>1. ASSUME UNCHANGED <<started, build>> PROVE SameBuilds
  BY <1>1 DEF SameBuilds, DaemonType
<1>2. ASSUME NEW b \in Build, StartDaemon(b) PROVE SameBuilds
  BY <1>2 DEF StartDaemon, SameBuilds, DaemonType
<1>3. ASSUME NEW c \in Caller, CallerStep(c) PROVE SameBuilds
  <2>1. UNCHANGED daemons \/ \E b \in Build : StartDaemon(b)
    BY <1>3, CallerCases DEF Walks, Heard, Asks, Answered, RunsDirectly, ShutdownSent
  <2> QED
    BY <2>1, <1>1, <1>2
<1>4. ASSUME NEW d \in Daemon, DaemonStep(d) PROVE SameBuilds
  BY <1>4, <1>1, DaemonCases DEF Declines, LaunchAction, TakeShutdown, Daemons, Busies, Ages, Exits
<1>5. CASE ServiceStarts
  BY <1>5, <1>2 DEF ServiceStarts
<1>6. CASE UNCHANGED clientVars
  BY <1>6, <1>1 DEF clientVars
<1> QED
  BY <1>3, <1>4, <1>5, <1>6 DEF ClientNext

LEMMA RestKeeps ==
  ASSUME ClientTypeOK, SameBuilds, NEW k \in Press, Rests(k), OnceInv(k), BuildInv(k), ClientTypeOK'
  PROVE  OnceInv(k)' /\ BuildInv(k)'
<1> USE TypeParts DEF Rests
<1>1. OnceInv(k)'
  BY DEF OnceInv
<1>2. sent'[k] # NoOne => sent'[k] <= started' /\ build'[sent'[k]] = build[sent[k]]
  BY DEF BuildInv, SameBuilds, RequestType, DaemonType
<1>3. reply[k] # NoReply => reply[k].by \in Daemon
  BY DEF ReplyType
<1>4. reply'[k] # NoReply =>
        reply'[k].by <= started' /\ build'[reply'[k].by] = build[reply[k].by]
  BY <1>3 DEF BuildInv, SameBuilds, DaemonType
<1> QED
  BY <1>1, <1>2, <1>4 DEF BuildInv, Compatible

LEMMA OtherRests ==
  ASSUME ClientTypeOK, NEW k \in Press, NEW c \in Caller, c # k, CallerStep(c)
  PROVE  Rests(k)
<1> USE TypeParts DEF Rests, wire, effects, restarts
<1>1. CASE Walks(c) \/ Heard(c)
  BY <1>1 DEF Walks, Heard, Onward, Moves
<1>2. CASE Asks(c)
  BY <1>2 DEF Asks, Moves, RequestType
<1>3. CASE Answered(c)
  BY <1>3 DEF Answered, Moves, ReplyType
<1>4. CASE RunsDirectly(c)
  BY <1>4 DEF RunsDirectly, Moves, EffectsType
<1>5. CASE ShutdownSent(c)
  BY <1>5, StepMoves DEF ShutdownSent, Moves, ReplyType, Labels
<1> QED
  BY <1>1, <1>2, <1>3, <1>4, <1>5, CallerCases

LEMMA OwnStep ==
  ASSUME ClientTypeOK, ClientTypeOK', PathInv, DaemonInv, NEW k \in Press, CallerStep(k),
         OnceInv(k), BuildInv(k), SameBuilds
  PROVE  OnceInv(k)' /\ BuildInv(k)'
<1> USE TypeParts DEF wire, effects, restarts
<1>0. /\ sent[k] # NoOne => build'[sent[k]] = build[sent[k]] /\ sent[k] <= started'
      /\ reply[k] # NoReply =>
           build'[reply[k].by] = build[reply[k].by] /\ reply[k].by <= started'
  <2>1. sent[k] # NoOne => sent[k] \in Daemon
    BY DEF RequestType
  <2>2. reply[k] # NoReply => reply[k].by \in Daemon
    BY DEF ReplyType
  <2> QED
    BY <2>1, <2>2 DEF BuildInv, SameBuilds, DaemonType
<1>1. CASE Walks(k)
  <2>1. OnceInv(k)'
    BY <1>1 DEF Walks, Onward, OnceInv, Before, Waiting, ReplyType
  <2>2. BuildInv(k)'
    BY <1>0, <1>1 DEF Walks, BuildInv, Compatible
  <2> QED
    BY <2>1, <2>2
<1>2. CASE Heard(k)
  <2>1. OnceInv(k)'
    BY <1>2 DEF Heard, OnceInv, Before, Waiting, ReplyType
  <2>2. BuildInv(k)'
    BY <1>0, <1>2 DEF Heard, BuildInv, Compatible
  <2> QED
    BY <2>1, <2>2
<1>3. CASE Asks(k)
  <2>1. path \in Daemon /\ path <= started /\ path # NoOne
    BY <1>3 DEF Asks, Listening, Bound, PathInv, DaemonType
  <2>2. at[k] \in {"connect", "reconnect"} /\ at'[k] = "asked" /\ sent'[k] = path
    BY <1>3 DEF Asks, OnceInv, RequestType, Before, Waiting
  <2>3. reply[k] = NoReply /\ reply' = reply
    BY <1>3, <2>2 DEF Asks, ReplyType
  <2>4. ran[k] = 0 /\ UNCHANGED <<ran, ranBy, ident, build, started>> /\ outcome'[k] = outcome[k]
    BY <1>3, <2>2 DEF Asks, OnceInv, Before, daemons
  <2>5. OnceInv(k)'
    BY <2>2, <2>3, <2>4 DEF OnceInv, Before, Waiting
  <2>6. ident[k] \in Managed => build[path] = ident[k]
    BY <1>3, <2>2 DEF Asks, BuildInv, Compatible
  <2>7. BuildInv(k)'
    BY <2>1, <2>2, <2>3, <2>4, <2>6 DEF BuildInv
  <2> QED
    BY <2>5, <2>7
<1>4. CASE Answered(k)
  <2>1. reply'[k] = NoReply /\ UNCHANGED <<sent, ran, ranBy, ident, build, started>>
    BY <1>4 DEF Answered, ReplyType, daemons
  <2>2. BuildInv(k)'
    BY <1>4, <2>1 DEF Answered, BuildInv, Compatible, Before, Waiting
  <2>3. reply[k] # NoReply /\ reply[k].what = "accepted" =>
          Compatible(ident[k], build[reply[k].by])
    BY DEF BuildInv
  <2>4. OnceInv(k)'
    BY <1>4, <2>1, <2>3 DEF Answered, OnceInv, Before, Waiting, EffectsType
  <2> QED
    BY <2>2, <2>4
<1>5. CASE RunsDirectly(k)
  <2>1. ran[k] = 0 /\ sent[k] = NoOne /\ reply[k] = NoReply
    BY <1>5 DEF RunsDirectly, OnceInv, Before, ReplyType
  <2>2. ran'[k] = 1 /\ ranBy'[k] = ident[k] /\ UNCHANGED <<sent, reply, ident>>
    BY <1>5, <2>1 DEF RunsDirectly, EffectsType
  <2>3. OnceInv(k)'
    BY <1>5, <2>1, <2>2 DEF RunsDirectly, OnceInv, Before, Waiting
  <2>4. BuildInv(k)'
    BY <1>5, <2>1, <2>2 DEF RunsDirectly, BuildInv, Compatible
  <2> QED
    BY <2>3, <2>4
<1>6. CASE ShutdownSent(k)
  BY <1>6 DEF ShutdownSent
<1> QED
  BY <1>1, <1>2, <1>3, <1>4, <1>5, <1>6, CallerCases

(* A daemon reads the request of k and answers it.                         *)
LEMMA AnsweredStep ==
  ASSUME ClientTypeOK, NEW k \in Press, NEW d \in Daemon, NEW what \in Whats,
         sent[k] = d, Answer(d, k, what), OnceInv(k), BuildInv(k),
         UNCHANGED <<ident, build, started>>,
         IF what = "accepted"
         THEN ran'[k] = ran[k] + 1 /\ ranBy'[k] = build[d] /\ Compatible(ident[k], build[d])
         ELSE UNCHANGED <<ran, ranBy>>
  PROVE  OnceInv(k)' /\ BuildInv(k)'
<1> USE TypeParts DEF steps
<1>1. /\ ran[k] = 0 /\ reply[k] = NoReply /\ d <= started /\ sent'[k] = NoOne
      /\ UNCHANGED <<at, outcome>> /\ d # NoOne
  BY DEF OnceInv, BuildInv, Answer, RequestType
<1>2. reply'[k] \in {NoReply, [what |-> what, by |-> d]}
  BY <1>1 DEF Answer, ReplyType
<1>3. at[k] \in {"asked", "done"}
  BY <1>1 DEF OnceInv
<1>4. OnceInv(k)'
  <2>1. reply'[k] # NoReply => (reply'[k].what = "accepted" <=> ran'[k] = 1)
    BY <1>1, <1>2 DEF NoReply
  <2>2. ran'[k] <= 1 /\ (ran'[k] = 0 \/ ran'[k] = 1)
    BY <1>1
  <2>3. outcome[k] \notin {"accepted", "direct", "rejected", "refused", "failed"}
    BY <1>1 DEF OnceInv
  <2> QED
    BY <1>1, <1>3, <2>1, <2>2, <2>3 DEF OnceInv, Before, Waiting
<1>5. BuildInv(k)'
  BY <1>1, <1>2, <1>3 DEF BuildInv, Compatible, NoReply
<1> QED
  BY <1>4, <1>5

(* What a daemon may start for k is of the build of k.                     *)
LEMMA AdmittedIsCompatible ==
  ASSUME ClientTypeOK, NEW k \in Press, NEW d \in Daemon, sent[k] = d, Admits(d, k), BuildInv(k)
  PROVE  Compatible(ident[k], build[d])
<1>1. CASE ident[k] \in Managed
  BY <1>1 DEF BuildInv, Compatible
<1>2. CASE ident[k] \notin Managed
  BY <1>2 DEF Admits, Compatible
<1> QED
  BY <1>1, <1>2

LEMMA DaemonStepKeeps ==
  ASSUME ClientTypeOK, ClientTypeOK', SameBuilds, NEW k \in Press, OnceInv(k), BuildInv(k),
         NEW d \in Daemon, DaemonStep(d)
  PROVE  OnceInv(k)' /\ BuildInv(k)'
<1> USE TypeParts DEF wire, steps, effects, restarts, daemons
<1>1. ASSUME NEW c \in Press, Declines(d, c) PROVE OnceInv(k)' /\ BuildInv(k)'
  <2>1. PICK what \in Whats \ {"accepted"} : Answer(d, c, what)
    BY <1>1 DEF Declines
  <2>2. CASE c = k
    BY <1>1, <2>1, <2>2, AnsweredStep DEF Declines
  <2>3. CASE c # k
    <3>1. Rests(k)
      BY <1>1, <2>1, <2>3 DEF Declines, Answer, Rests, RequestType, ReplyType
    <3> QED
      BY <3>1, RestKeeps
  <2> QED
    BY <2>2, <2>3
<1>2. ASSUME NEW c \in Press, LaunchAction(d, c) PROVE OnceInv(k)' /\ BuildInv(k)'
  <2>1. CASE c = k
    <3>1. /\ sent[k] = d /\ Admits(d, k) /\ Answer(d, k, "accepted")
          /\ UNCHANGED <<ident, build, started>>
      BY <1>2, <2>1 DEF LaunchAction, Asked
    <3>2. ran'[k] = ran[k] + 1 /\ ranBy'[k] = build[d]
      BY <1>2, <2>1 DEF LaunchAction, EffectsType
    <3>3. Compatible(ident[k], build[d])
      BY <3>1, AdmittedIsCompatible
    <3> QED
      BY <3>1, <3>2, <3>3, AnsweredStep DEF Whats
  <2>2. CASE c # k
    <3>1. Rests(k)
      BY <1>2, <2>2 DEF LaunchAction, Answer, Rests, RequestType, ReplyType, EffectsType
    <3> QED
      BY <3>1, RestKeeps
  <2> QED
    BY <2>1, <2>2
<1>3. ASSUME NEW r \in Restart, TakeShutdown(d, r) PROVE OnceInv(k)' /\ BuildInv(k)'
  <2>1. r # k
    OBVIOUS
  <2>2. Rests(k)
    BY <1>3, <2>1 DEF TakeShutdown, Daemons, Answer, Rests, RequestType, ReplyType
  <2> QED
    BY <2>2, RestKeeps
<1>4. CASE Busies(d) \/ Ages(d)
  <2>1. Rests(k)
    BY <1>4 DEF Busies, Ages, Rests
  <2> QED
    BY <2>1, RestKeeps
<1>5. CASE Exits(d)
  <2>1. /\ UNCHANGED <<at, outcome, reply, ran, ranBy, ident, build, started>>
        /\ sent'[k] \in {NoOne, sent[k]}
    BY <1>5 DEF Exits, Daemons, RequestType
  <2> QED
    BY <2>1 DEF OnceInv, BuildInv, Compatible
<1> QED
  BY <1>1, <1>2, <1>3, <1>4, <1>5, DaemonCases

LEMMA PressNext ==
  ClientTypeOK /\ DaemonInv /\ PathInv /\ PressInv /\ [ClientNext]_clientVars => PressInv'
<1> SUFFICES ASSUME ClientTypeOK, DaemonInv, PathInv, PressInv, [ClientNext]_clientVars, NEW k \in Press
             PROVE  OnceInv(k)' /\ BuildInv(k)'
  BY DEF PressInv
<1> USE TypeNext, SameBuildsNext DEF PressInv
<1>1. ClientTypeOK' /\ SameBuilds /\ OnceInv(k) /\ BuildInv(k)
  OBVIOUS
<1>2. ASSUME NEW c \in Caller, CallerStep(c) PROVE OnceInv(k)' /\ BuildInv(k)'
  <2>1. CASE c = k
    BY <1>1, <1>2, <2>1, OwnStep
  <2>2. CASE c # k
    BY <1>1, <1>2, <2>2, OtherRests, RestKeeps
  <2> QED
    BY <2>1, <2>2
<1>3. ASSUME NEW d \in Daemon, DaemonStep(d) PROVE OnceInv(k)' /\ BuildInv(k)'
  BY <1>1, <1>3, DaemonStepKeeps
<1>4. CASE ServiceStarts \/ UNCHANGED clientVars
  <2>1. Rests(k)
    BY <1>4 DEF ServiceStarts, Alone, clientVars, wire, steps, effects, restarts, Rests
  <2> QED
    BY <1>1, <2>1, RestKeeps
<1> QED
  BY <1>2, <1>3, <1>4 DEF ClientNext

LEMMA Inductive == ClientSpec => [](ClientTypeOK /\ DaemonInv /\ PathInv /\ PressInv)
<1>1. ClientInit => ClientTypeOK /\ DaemonInv /\ PathInv
  BY TypeInit DEF ClientInit, DaemonInv, PathInv, Holding, HasPath
<1>2. ClientInit => PressInv
  <2> SUFFICES ASSUME ClientInit, NEW k \in Press PROVE OnceInv(k) /\ BuildInv(k)
    BY DEF PressInv
  <2>1. /\ at[k] = "connect" /\ outcome[k] = "open" /\ ran[k] = 0
        /\ sent[k] = NoOne /\ reply[k] = NoReply
    BY DEF ClientInit
  <2> QED
    BY <2>1 DEF OnceInv, BuildInv, Before, Waiting
<1> QED
  BY <1>1, <1>2, TypeNext, DaemonNext, PressNext, PTL DEF ClientSpec

(* A keypress runs its action at most once, and what its user is told is   *)
(* true.                                                                   *)
THEOREM KeypressRunsOnce == ClientSpec => []RunsOnce
<1>1. PressInv => RunsOnce
  BY DEF PressInv, OnceInv, RunsOnce
<1> QED
  BY <1>1, Inductive, PTL

(* What runs for a keypress is of its own installation.                    *)
THEOREM KeypressRunsItsBuild == ClientSpec => []SameBuildRuns
<1>1. PressInv => SameBuildRuns
  BY DEF PressInv, BuildInv, SameBuildRuns
<1> QED
  BY <1>1, Inductive, PTL

---------------------------------------------------------------------------
(* Restarts *)

LEMMA LeftForGood ==
  ClientTypeOK /\ DaemonInv /\ [ClientNext]_clientVars => \A d \in Daemon : up[d] \in Left => up'[d] \in Left
<1> SUFFICES ASSUME ClientTypeOK, DaemonInv, [ClientNext]_clientVars, NEW d \in Daemon, up[d] \in Left
             PROVE  up'[d] \in Left
  OBVIOUS
<1> USE TypeParts DEF daemons, DaemonType
<1>1. ASSUME NEW b \in Build, StartDaemon(b) PROVE up'[d] \in Left
  BY <1>1 DEF StartDaemon, DaemonInv, Left
<1>2. ASSUME NEW c \in Caller, CallerStep(c) PROVE up'[d] \in Left
  <2>1. UNCHANGED daemons \/ \E b \in Build : StartDaemon(b)
    BY <1>2, CallerCases DEF Walks, Heard, Asks, Answered, RunsDirectly, ShutdownSent
  <2> QED
    BY <2>1, <1>1
<1>3. ASSUME NEW e \in Daemon, DaemonStep(e) PROVE up'[d] \in Left
  <2>1. ASSUME NEW k \in Press, Declines(e, k) \/ LaunchAction(e, k) PROVE up'[d] \in Left
    BY <2>1 DEF Declines, LaunchAction
  <2>2. ASSUME NEW r \in Restart, TakeShutdown(e, r) PROVE up'[d] \in Left
    BY <2>2 DEF TakeShutdown, Daemons, IsRunning, Left
  <2>3. CASE Busies(e)
    BY <2>3 DEF Busies
  <2>4. CASE Ages(e)
    BY <2>4 DEF Ages
  <2>5. CASE Exits(e)
    BY <2>5 DEF Exits, Daemons, Left
  <2> QED
    BY <1>3, <2>1, <2>2, <2>3, <2>4, <2>5, DaemonCases
<1>4. CASE ServiceStarts
  BY <1>4, <1>1 DEF ServiceStarts
<1>5. CASE UNCHANGED clientVars
  BY <1>5 DEF clientVars
<1> QED
  BY <1>2, <1>3, <1>4, <1>5 DEF ClientNext

LEMMA RestartNext ==
  ClientTypeOK /\ ClientTypeOK' /\ DaemonInv /\ RestartInv /\ [ClientNext]_clientVars => RestartInv'
<1> SUFFICES ASSUME ClientTypeOK, ClientTypeOK', DaemonInv, RestartInv, [ClientNext]_clientVars,
             NEW r \in Restart
             PROVE  NewInv(r)'
  BY DEF RestartInv
<1> DEFINE Same == /\ at'[r] = at[r] /\ outcome'[r] = outcome[r]
                   /\ reply'[r] = reply[r] /\ told'[r] = told[r] /\ found'[r] = found[r]
<1> USE TypeParts DEF wire, steps, effects, restarts
<1>1. NewInv(r)
  BY DEF RestartInv
<1>2. /\ reply[r] # NoReply => reply[r].by \in Daemon /\ up'[reply[r].by] \in Left
      /\ told[r] # NoOne => told[r] \in Daemon /\ up'[told[r]] \in Left
  <2>1. reply[r] # NoReply => reply[r].by \in Daemon
    BY DEF ReplyType
  <2>2. told[r] # NoOne => told[r] \in Daemon
    BY DEF RestartsType
  <2> QED
    BY <1>1, <2>1, <2>2, LeftForGood DEF NewInv
<1>3. ASSUME Same PROVE NewInv(r)'
  BY <1>1, <1>2, <1>3 DEF NewInv
<1>4. ASSUME NEW c \in Caller, CallerStep(c) PROVE NewInv(r)'
  <2>1. CASE Walks(c)
    <3>1. UNCHANGED <<reply, told, found>>
      BY <2>1 DEF Walks
    <3>2. outcome'[r] = "restarted" => outcome[r] = "restarted" /\ at'[r] = at[r]
      BY <2>1, <1>1 DEF Walks, Onward, Moves, NewInv, Before, Waiting
    <3> QED
      BY <1>1, <1>2, <3>1, <3>2 DEF NewInv
  <2>2. CASE Heard(c)
    <3>1. CASE c = r
      <4>1. reply'[r] = NoReply /\ told'[r] = told[r] /\ found'[r] = path /\ at'[r] = "done"
        BY <2>2, <3>1 DEF Heard, ReplyType, Waiting, RestartsType
      <4>2. up[path] = "serving"
        BY <2>2 DEF Heard, IsRunning
      <4>3. told[r] # NoOne => told[r] # path
        BY <1>1, <4>2 DEF NewInv, Left
      <4> QED
        BY <1>2, <4>1, <4>3 DEF NewInv
    <3>2. CASE c # r
      <4>1. Same
        BY <2>2, <3>2 DEF Heard, Moves, RestartsType
      <4> QED
        BY <4>1, <1>3
    <3> QED
      BY <3>1, <3>2
  <2>3. CASE Asks(c)
    <3>1. UNCHANGED <<reply, told, found>> /\ outcome'[r] = outcome[r]
      BY <2>3 DEF Asks, Moves
    <3>2. outcome[r] = "restarted" => at'[r] = "done"
      BY <2>3, <1>1 DEF Asks, Moves, NewInv
    <3> QED
      BY <1>1, <1>2, <3>1, <3>2 DEF NewInv
  <2>4. CASE Answered(c)
    <3>1. Same
      BY <2>4 DEF Answered, Moves, ReplyType
    <3> QED
      BY <3>1, <1>3
  <2>5. CASE RunsDirectly(c)
    <3>1. UNCHANGED <<reply, told, found>>
      BY <2>5 DEF RunsDirectly
    <3>2. outcome'[r] = "restarted" => outcome[r] = "restarted" /\ at'[r] = at[r]
      BY <2>5 DEF RunsDirectly, Moves
    <3> QED
      BY <1>1, <1>2, <3>1, <3>2 DEF NewInv
  <2>6. CASE ShutdownSent(c)
    <3>0. Moves(c) /\ outcome'[c] = outcome[c] /\ at[c] = "told"
      BY <2>6, StepMoves DEF ShutdownSent, Labels
    <3>1. CASE c = r
      <4>1. /\ reply'[r] = NoReply /\ told'[r] = reply[r].by /\ found'[r] = found[r]
            /\ outcome[r] # "restarted"
        BY <2>6, <3>0, <3>1, <1>1 DEF ShutdownSent, ReplyType, RestartsType, NewInv
      <4>2. told'[r] # NoOne => reply[r] # NoReply
        BY <4>1 DEF NoReply
      <4> QED
        BY <1>2, <3>0, <3>1, <4>1, <4>2 DEF NewInv
    <3>2. CASE c # r
      <4>1. Same
        BY <2>6, <3>0, <3>2 DEF ShutdownSent, Moves, ReplyType, RestartsType
      <4> QED
        BY <4>1, <1>3
    <3> QED
      BY <3>1, <3>2
  <2> QED
    BY <1>4, <2>1, <2>2, <2>3, <2>4, <2>5, <2>6, CallerCases
<1>5. ASSUME NEW d \in Daemon, DaemonStep(d) PROVE NewInv(r)'
  <2>1. ASSUME NEW k \in Press, Declines(d, k) \/ LaunchAction(d, k) PROVE NewInv(r)'
    <3>1. \E what \in Whats : Answer(d, k, what)
      BY <2>1 DEF Declines, LaunchAction, Whats
    <3>2. Same
      BY <3>1 DEF Answer, ReplyType
    <3> QED
      BY <3>2, <1>3
  <2>2. ASSUME NEW q \in Restart, TakeShutdown(d, q) PROVE NewInv(r)'
    <3>1. UNCHANGED <<at, outcome, told, found>>
      BY <2>2 DEF TakeShutdown, Answer
    <3>2. up'[d] \in Left
      BY <2>2 DEF TakeShutdown, Daemons, Answers, IsRunning, Left, DaemonType
    <3>3. reply'[r] \in {reply[r], [what |-> "stopping", by |-> d]}
      BY <2>2 DEF TakeShutdown, Answer, ReplyType
    <3> QED
      BY <1>1, <1>2, <3>1, <3>2, <3>3 DEF NewInv
  <2>3. CASE Busies(d) \/ Ages(d)
    BY <2>3, <1>3 DEF Busies, Ages
  <2>4. CASE Exits(d)
    BY <2>4, <1>3 DEF Exits
  <2> QED
    BY <1>5, <2>1, <2>2, <2>3, <2>4, DaemonCases
<1>6. CASE ServiceStarts \/ UNCHANGED clientVars
  BY <1>6, <1>3 DEF ServiceStarts, Alone, clientVars
<1> QED
  BY <1>4, <1>5, <1>6 DEF ClientNext

(* A restart that reports success after its shutdown was acknowledged has  *)
(* heard another daemon.                                                   *)
THEOREM RestartHearsAnother == ClientSpec => []RestartIsNew
<1>1. ClientInit => RestartInv
  <2> SUFFICES ASSUME ClientInit, NEW r \in Restart PROVE NewInv(r)
    BY DEF RestartInv
  <2>1. outcome[r] = "open" /\ reply[r] = NoReply /\ told[r] = NoOne
    BY DEF ClientInit
  <2> QED
    BY <2>1 DEF NewInv
<1>2. RestartInv => RestartIsNew
  BY DEF RestartInv, NewInv, RestartIsNew
<1> QED
  BY <1>1, <1>2, Inductive, TypeNext, RestartNext, PTL DEF ClientSpec

HIDE DEF Caller, Daemon, NoOne

---------------------------------------------------------------------------
USE ThreadAssumption, BoundAssumption DEF Child, None, Thread

---------------------------------------------------------------------------
(* What the lock holder finds: the tracked region selector has released the *)
(* screen, or the tracked process has ended.                               *)
Releasing == active # None /\ action[active] = "region" /\ release[active] = "sent"
Ended     == active # None /\ phase[active] = "zombie"

LockReleases(t) == Lock(t) /\ request[t] # "shutdown" /\ Releasing
TryWaitReaps(t) == TryWait(t) /\ Ended

(* Steps that only move threads: requests read, polled, declined, answered, *)
(* and reaps that find nothing.                                            *)
Quiet ==
  /\ UNCHANGED <<running, active, event, stopping, detached, bodies, reports>>
  /\ Stopped' = Stopped /\ Stopping' = Stopping
  /\ pc'[Main] = "await" <=> pc[Main] = "await"

QuietStep ==
  \/ \E w \in Worker :
       \/ Accept(w) \/ Hangup(w) \/ Reply(w)
       \/ \E r \in Requests : ReadFrame(w, r)
       \/ Snapshot(w) \/ Decline(w) \/ SpawnFails(w)
  \/ PollActive \/ ListenerBroken \/ LeaveLoop \/ PollDone
  \/ \E t \in Thread :
       \/ Lock(t) /\ ~LockReleases(t)
       \/ TryWait(t) /\ ~TryWaitReaps(t)

(* Steps of a living process c, as far as the service is concerned.        *)
Lives(c) ==
  /\ phase[c] \in Running
  /\ phase'[c] \in {"ready", "armed", "result", "zombie"}
  /\ phase'[c] \in {"ready", "armed"} => phase[c] \in {"boot", "ready"}
  /\ release'[c] = "sent" => release[c] = "sent" \/ phase'[c] = "result"
  /\ \A d \in Child : d # c =>
       phase'[d] = phase[d] /\ code'[d] = code[d] /\ release'[d] = release[d]
  /\ UNCHANGED <<service, threads, spawned, action, killed, reports>>

LifeStep(c) ==
  \/ HandlerInstalled(c) \/ ArmRecording(c) \/ ReleaseCapture(c)
  \/ \E exit \in ExitCodes : ChildExits(c, exit)
  \/ KillTakesEffect(c)

(* The steps that matter to the invariant.                                 *)
LoudStep ==
  \/ \E w \in Worker : \/ Shutdown(w) \/ Toggle(w) \/ Launch(w) \/ ForwarderFails(w)
  \/ StopTake \/ StopKill \/ StopReap \/ StopDefer \/ Exit
  \/ \E t \in Thread : LockReleases(t) \/ TryWaitReaps(t)
  \/ \E c \in Child : Watch(c) \/ BackgroundReap(c) \/ LifeStep(c)

LEMMA StepCases == [Next]_vars => QuietStep \/ LoudStep \/ UNCHANGED vars
<1>1. ASSUME NEW w \in Worker, WorkerStep(w) PROVE QuietStep \/ LoudStep
  <2>1. CASE Handle(w)
    <3>1. CASE Snapshot(w) \/ Decline(w) \/ SpawnFails(w)
      BY <3>1 DEF QuietStep
    <3>2. CASE Shutdown(w) \/ Toggle(w) \/ Launch(w) \/ ForwarderFails(w)
      BY <3>2 DEF LoudStep
    <3> QED
      BY <2>1, <3>1, <3>2 DEF Handle
  <2>2. CASE ~Handle(w)
    BY <1>1, <2>2 DEF WorkerStep, QuietStep
  <2> QED
    BY <2>1, <2>2
<1>2. CASE MainStep
  BY <1>2 DEF MainStep, QuietStep, LoudStep
<1>3. ASSUME NEW t \in Thread, Lock(t) \/ TryWait(t) PROVE QuietStep \/ LoudStep
  BY <1>3 DEF QuietStep, LoudStep
<1>4. ASSUME NEW c \in Child, ChildStep(c) PROVE QuietStep \/ LoudStep
  BY <1>4 DEF ChildStep, LifeStep, LoudStep
<1> QED
  BY <1>1, <1>2, <1>3, <1>4 DEF Next

LEMMA QuietSteps == ThreadType /\ MutexInv /\ QuietStep => Quiet
<1> SUFFICES ASSUME ThreadType, MutexInv, QuietStep PROVE Quiet
  OBVIOUS
<1> USE DEF ThreadType, MutexInv, Quiet, Stopped, Stopping, service, bodies, reports, Goto
<1>1. ASSUME NEW w \in Worker, Accept(w) PROVE Quiet
  BY <1>1 DEF Accept
<1>2. ASSUME NEW w \in Worker, Hangup(w) PROVE Quiet
  BY <1>2 DEF Hangup
<1>3. ASSUME NEW w \in Worker, Reply(w) PROVE Quiet
  BY <1>3 DEF Reply
<1>4. ASSUME NEW w \in Worker, NEW r \in Requests, ReadFrame(w, r) PROVE Quiet
  BY <1>4 DEF ReadFrame
<1>5. ASSUME NEW w \in Worker, Snapshot(w) PROVE Quiet
  BY <1>5 DEF Snapshot, InBody, Unlock
<1>6. ASSUME NEW w \in Worker, Decline(w) PROVE Quiet
  BY <1>6 DEF Decline, InBody, Unlock
<1>7. ASSUME NEW w \in Worker, SpawnFails(w) PROVE Quiet
  BY <1>7 DEF SpawnFails, MayLaunch, InBody, Unlock
<1>8. CASE PollActive
  BY <1>8 DEF PollActive
<1>9. CASE ListenerBroken
  BY <1>9 DEF ListenerBroken, BeginStop
<1>10. CASE LeaveLoop
  BY <1>10 DEF LeaveLoop, BeginStop
<1>11. CASE PollDone
  BY <1>11 DEF PollDone, Unlock
<1>12. ASSUME NEW t \in Thread, Lock(t), ~LockReleases(t) PROVE Quiet
  <2>1. /\ UNCHANGED <<running, active, event, stopping, detached, bodies, reports>>
        /\ pc[t] = "lock" /\ (Goto(t, "wait") \/ Goto(t, "body"))
    BY <1>12 DEF Lock, LockReleases, Releasing, TakeReleased
  <2> QED
    BY <2>1
<1>13. ASSUME NEW t \in Thread, TryWait(t), ~TryWaitReaps(t) PROVE Quiet
  <2>1. /\ UNCHANGED <<running, active, event, stopping, detached, bodies, reports>>
        /\ pc[t] = "wait" /\ Goto(t, "body")
    BY <1>13 DEF TryWait, TryWaitFrame, ReapActive, TryWaitReaps, Ended
  <2> QED
    BY <2>1
<1> HIDE DEF Quiet
<1> QED
  BY <1>1, <1>2, <1>3, <1>4, <1>5, <1>6, <1>7, <1>8, <1>9, <1>10, <1>11, <1>12, <1>13 DEF QuietStep

LEMMA LifeSteps == ASSUME ProcessType, NEW c \in Child, LifeStep(c) PROVE Lives(c)
<1> USE DEF ProcessType, Lives, Become, Live, Running
<1>1. CASE HandlerInstalled(c)
  BY <1>1 DEF HandlerInstalled
<1>2. CASE ArmRecording(c)
  BY <1>2 DEF ArmRecording
<1>3. CASE ReleaseCapture(c)
  BY <1>3 DEF ReleaseCapture
<1>4. ASSUME NEW exit \in ExitCodes, ChildExits(c, exit) PROVE Lives(c)
  BY <1>4 DEF ChildExits
<1>5. CASE KillTakesEffect(c)
  BY <1>5 DEF KillTakesEffect
<1> HIDE DEF Lives
<1> QED
  BY <1>1, <1>2, <1>3, <1>4, <1>5 DEF LifeStep

(* finish_action and the finish signal keep the types of what they change. *)
LEMMA FinishActionType ==
  ASSUME ProcessType, NEW c \in Child, NEW notify \in BOOLEAN, FinishAction(c, notify)
  PROVE  reported' \in [Child -> Nat] /\ notice' \in [Child -> BOOLEAN]
<1>1. reported' \in [Child -> Nat]
  BY DEF FinishAction, ProcessType
<1>2. notice' \in [Child -> BOOLEAN]
  <2>1. CASE notify /\ code[c] # "normal"
    BY <2>1 DEF FinishAction, ProcessType
  <2>2. CASE ~(notify /\ code[c] # "normal")
    BY <2>2 DEF FinishAction, ProcessType
  <2> QED
    BY <2>1, <2>2
<1> QED
  BY <1>1, <1>2

LEMMA FinishSignalType ==
  ASSUME ProcessType, NEW c \in Child, FinishSignal(c)
  PROVE  /\ phase' \in [Child -> Running \cup {"unborn", "zombie", "reaped"}]
         /\ code' \in [Child -> ExitCodes]
         /\ finish' \in [Child -> BOOLEAN]
<1>1. phase' \in [Child -> Running \cup {"unborn", "zombie", "reaped"}]
  BY DEF FinishSignal, ProcessType
<1>2. code' \in [Child -> ExitCodes]
  BY DEF FinishSignal, ProcessType, ExitCodes
<1>3. finish' \in [Child -> BOOLEAN]
  BY DEF FinishSignal, ProcessType
<1> QED
  BY <1>1, <1>2, <1>3

(* One step at a time, and within it one group of variables at a time.     *)
LEMMA TypeStep == TypeOK /\ StopInv /\ [Next]_vars => TypeOK'
<1> SUFFICES ASSUME ServiceType, ThreadType, ProcessType, StopInv, [Next]_vars
             PROVE ServiceType' /\ ThreadType' /\ ProcessType'
  BY DEF TypeOK
<1> USE DEF service, threads, bodies, reports, Goto
<1>1. ASSUME NEW w \in Worker, Accept(w) PROVE ServiceType' /\ ThreadType' /\ ProcessType'
  <2>1. ServiceType'
    BY <1>1 DEF ServiceType, Accept
  <2>2. ThreadType'
    BY <1>1 DEF ThreadType, Requests, Actions, Exclusive, Held, Accept
  <2>3. ProcessType'
    BY <1>1 DEF ProcessType, Running, ExitCodes, Actions, Exclusive, Accept
  <2> QED
    BY <2>1, <2>2, <2>3
<1>2. ASSUME NEW w \in Worker, Hangup(w) PROVE ServiceType' /\ ThreadType' /\ ProcessType'
  <2>1. ServiceType'
    BY <1>2 DEF ServiceType, Hangup
  <2>2. ThreadType'
    BY <1>2 DEF ThreadType, Requests, Actions, Exclusive, Held, Hangup
  <2>3. ProcessType'
    BY <1>2 DEF ProcessType, Running, ExitCodes, Actions, Exclusive, Hangup
  <2> QED
    BY <2>1, <2>2, <2>3
<1>3. ASSUME NEW w \in Worker, Reply(w) PROVE ServiceType' /\ ThreadType' /\ ProcessType'
  <2>1. ServiceType'
    <3>1. CASE pc'[w] = "idle"
      BY <1>3, <3>1 DEF ServiceType, Reply
    <3>2. CASE pc'[w] # "idle"
      BY <1>3, <3>2 DEF ServiceType, Reply
    <3> QED
      BY <3>1, <3>2
  <2>2. ThreadType'
    <3>1. CASE pc'[w] = "idle"
      BY <1>3, <3>1 DEF ThreadType, Requests, Actions, Exclusive, Held, Reply
    <3>2. CASE pc'[w] # "idle"
      BY <1>3, <3>2 DEF ThreadType, Requests, Actions, Exclusive, Held, Reply
    <3> QED
      BY <3>1, <3>2
  <2>3. ProcessType'
    <3>1. CASE pc'[w] = "idle"
      BY <1>3, <3>1 DEF ProcessType, Running, ExitCodes, Actions, Exclusive, Reply
    <3>2. CASE pc'[w] # "idle"
      BY <1>3, <3>2 DEF ProcessType, Running, ExitCodes, Actions, Exclusive, Reply
    <3> QED
      BY <3>1, <3>2
  <2> QED
    BY <2>1, <2>2, <2>3
<1>4. ASSUME NEW w \in Worker, NEW r \in Requests, ReadFrame(w, r) PROVE ServiceType' /\ ThreadType' /\ ProcessType'
  <2>1. ServiceType'
    BY <1>4 DEF ServiceType, ReadFrame
  <2>2. ThreadType'
    <3>1. CASE r = "refused"
      BY <1>4, <3>1 DEF ThreadType, Requests, Actions, Exclusive, Held, ReadFrame
    <3>2. CASE r # "refused"
      BY <1>4, <3>2 DEF ThreadType, Requests, Actions, Exclusive, Held, ReadFrame
    <3> QED
      BY <3>1, <3>2
  <2>3. ProcessType'
    BY <1>4 DEF ProcessType, Running, ExitCodes, Actions, Exclusive, ReadFrame
  <2> QED
    BY <2>1, <2>2, <2>3
<1>5. ASSUME NEW w \in Worker, Snapshot(w) PROVE ServiceType' /\ ThreadType' /\ ProcessType'
  <2>1. ServiceType'
    BY <1>5 DEF ServiceType, Snapshot, InBody, Unlock
  <2>2. ThreadType'
    BY <1>5 DEF ThreadType, Requests, Actions, Exclusive, Held, Snapshot, InBody, Unlock
  <2>3. ProcessType'
    BY <1>5 DEF ProcessType, Running, ExitCodes, Actions, Exclusive, Snapshot, InBody, Unlock
  <2> QED
    BY <2>1, <2>2, <2>3
<1>6. ASSUME NEW w \in Worker, Decline(w) PROVE ServiceType' /\ ThreadType' /\ ProcessType'
  <2>1. ServiceType'
    BY <1>6 DEF ServiceType, Decline, InBody, Unlock
  <2>2. ThreadType'
    BY <1>6 DEF ThreadType, Requests, Actions, Exclusive, Held, Decline, InBody, Unlock
  <2>3. ProcessType'
    BY <1>6 DEF ProcessType, Running, ExitCodes, Actions, Exclusive, Decline, InBody, Unlock
  <2> QED
    BY <2>1, <2>2, <2>3
<1>7. ASSUME NEW w \in Worker, SpawnFails(w) PROVE ServiceType' /\ ThreadType' /\ ProcessType'
  <2>1. ServiceType'
    BY <1>7 DEF ServiceType, SpawnFails, MayLaunch, InBody, Unlock
  <2>2. ThreadType'
    BY <1>7
    DEF ThreadType, Requests, Actions, Exclusive, Held, SpawnFails, MayLaunch, InBody,
        Unlock
  <2>3. ProcessType'
    BY <1>7
    DEF ProcessType, Running, ExitCodes, Actions, Exclusive, SpawnFails, MayLaunch, InBody,
        Unlock
  <2> QED
    BY <2>1, <2>2, <2>3
<1>8. CASE PollActive
  <2>1. ServiceType'
    BY <1>8 DEF ServiceType, PollActive
  <2>2. ThreadType'
    BY <1>8 DEF ThreadType, Requests, Actions, Exclusive, Held, PollActive
  <2>3. ProcessType'
    BY <1>8 DEF ProcessType, Running, ExitCodes, Actions, Exclusive, PollActive
  <2> QED
    BY <2>1, <2>2, <2>3
<1>9. CASE ListenerBroken
  <2>1. ServiceType'
    BY <1>9 DEF ServiceType, ListenerBroken, BeginStop
  <2>2. ThreadType'
    BY <1>9 DEF ThreadType, Requests, Actions, Exclusive, Held, ListenerBroken, BeginStop
  <2>3. ProcessType'
    BY <1>9 DEF ProcessType, Running, ExitCodes, Actions, Exclusive, ListenerBroken, BeginStop
  <2> QED
    BY <2>1, <2>2, <2>3
<1>10. CASE LeaveLoop
  <2>1. ServiceType'
    BY <1>10 DEF ServiceType, LeaveLoop, BeginStop
  <2>2. ThreadType'
    BY <1>10 DEF ThreadType, Requests, Actions, Exclusive, Held, LeaveLoop, BeginStop
  <2>3. ProcessType'
    BY <1>10 DEF ProcessType, Running, ExitCodes, Actions, Exclusive, LeaveLoop, BeginStop
  <2> QED
    BY <2>1, <2>2, <2>3
<1>11. CASE PollDone
  <2>1. ServiceType'
    BY <1>11 DEF ServiceType, PollDone, Unlock
  <2>2. ThreadType'
    BY <1>11 DEF ThreadType, Requests, Actions, Exclusive, Held, PollDone, Unlock
  <2>3. ProcessType'
    BY <1>11 DEF ProcessType, Running, ExitCodes, Actions, Exclusive, PollDone, Unlock
  <2> QED
    BY <2>1, <2>2, <2>3
<1>12. ASSUME NEW w \in Worker, Shutdown(w) PROVE ServiceType' /\ ThreadType' /\ ProcessType'
  <2>1. ServiceType'
    BY <1>12 DEF ServiceType, Shutdown, InBody, Unlock
  <2>2. ThreadType'
    BY <1>12 DEF ThreadType, Requests, Actions, Exclusive, Held, Shutdown, InBody, Unlock
  <2>3. ProcessType'
    BY <1>12 DEF ProcessType, Running, ExitCodes, Actions, Exclusive, Shutdown, InBody, Unlock
  <2> QED
    BY <2>1, <2>2, <2>3
<1>13. ASSUME NEW w \in Worker, Toggle(w) PROVE ServiceType' /\ ThreadType' /\ ProcessType'
  <2>1. ServiceType'
    <3>1. CASE phase[active] = "reaped"
      BY <1>13, <3>1 DEF ServiceType, Toggle, InBody, Unlock, Toggles, FinishSignal, SetEvent
    <3>2. CASE phase[active] # "reaped"
      BY <1>13, <3>2 DEF ServiceType, Toggle, InBody, Unlock, Toggles, FinishSignal, SetEvent
    <3> QED
      BY <3>1, <3>2
  <2>2. ThreadType'
    <3>1. CASE phase[active] = "reaped"
      BY <1>13, <3>1
      DEF ThreadType, Requests, Actions, Exclusive, Held, Toggle, InBody, Unlock, Toggles,
          FinishSignal, SetEvent
    <3>2. CASE phase[active] # "reaped"
      BY <1>13, <3>2
      DEF ThreadType, Requests, Actions, Exclusive, Held, Toggle, InBody, Unlock, Toggles,
          FinishSignal, SetEvent
    <3> QED
      BY <3>1, <3>2
  <2>3. ProcessType'
    <3>1. CASE phase[active] = "reaped"
      BY <1>13, <3>1 DEF ProcessType, Toggle
    <3>2. CASE phase[active] # "reaped"
      <4>1. active \in Child /\ FinishSignal(active)
        BY <1>13, <3>2 DEF Toggle, Toggles, ServiceType
      <4> QED
        BY <1>13, <4>1, FinishSignalType DEF ProcessType, Toggle
    <3> QED
      BY <3>1, <3>2
  <2> QED
    BY <2>1, <2>2, <2>3
<1>14. ASSUME NEW w \in Worker, Launch(w) PROVE ServiceType' /\ ThreadType' /\ ProcessType'
  <2>1. ServiceType'
    <3>1. CASE request[w] \in Exclusive
      BY <1>14, <3>1
      DEF ServiceType, ThreadType, ProcessType, Launch, MayLaunch, InBody, Toggles, Unlock,
          SetEvent
    <3>2. CASE request[w] \notin Exclusive
      BY <1>14, <3>2
      DEF ServiceType, ThreadType, ProcessType, Launch, MayLaunch, InBody, Toggles, Unlock,
          SetEvent
    <3> QED
      BY <3>1, <3>2
  <2>2. ThreadType'
    <3>1. CASE request[w] \in Exclusive
      BY <1>14, <3>1
      DEF ThreadType, Requests, Actions, Exclusive, Held, Launch, MayLaunch, InBody,
          Toggles, Unlock, SetEvent
    <3>2. CASE request[w] \notin Exclusive
      BY <1>14, <3>2
      DEF ThreadType, Requests, Actions, Exclusive, Held, Launch, MayLaunch, InBody,
          Toggles, Unlock, SetEvent
    <3> QED
      BY <3>1, <3>2
  <2>3. ProcessType'
    <3>1. CASE request[w] \in Exclusive
      BY <1>14, <3>1
      DEF ProcessType, Running, ExitCodes, Actions, Exclusive, Launch, MayLaunch, InBody,
          Toggles, Unlock, SetEvent
    <3>2. CASE request[w] \notin Exclusive
      BY <1>14, <3>2
      DEF ProcessType, Running, ExitCodes, Actions, Exclusive, Launch, MayLaunch, InBody,
          Toggles, Unlock, SetEvent
    <3> QED
      BY <3>1, <3>2
  <2> QED
    BY <2>1, <2>2, <2>3
<1>15. ASSUME NEW w \in Worker, ForwarderFails(w) PROVE ServiceType' /\ ThreadType' /\ ProcessType'
  <2>1. ServiceType'
    BY <1>15
    DEF ServiceType, ThreadType, ProcessType, ForwarderFails, MayLaunch, InBody, Toggles,
        Unlock
  <2>2. ThreadType'
    BY <1>15
    DEF ThreadType, Requests, Actions, Exclusive, Held, ForwarderFails, MayLaunch, InBody,
        Toggles, Unlock
  <2>3. ProcessType'
    BY <1>15
    DEF ProcessType, Running, ExitCodes, Actions, Exclusive, ForwarderFails, MayLaunch,
        InBody, Toggles, Unlock
  <2> QED
    BY <2>1, <2>2, <2>3
<1>16. CASE StopTake
  <2>1. ServiceType'
    <3>1. CASE active = None
      BY <1>16, <3>1 DEF ServiceType, StopTake, Unlock
    <3>2. CASE active # None
      BY <1>16, <3>2 DEF ServiceType, StopTake, Unlock
    <3> QED
      BY <3>1, <3>2
  <2>2. ThreadType'
    <3>1. CASE active = None
      BY <1>16, <3>1 DEF ThreadType, Requests, Actions, Exclusive, Held, StopTake, Unlock
    <3>2. CASE active # None
      BY <1>16, <3>2 DEF ThreadType, Requests, Actions, Exclusive, Held, StopTake, Unlock
    <3> QED
      BY <3>1, <3>2
  <2>3. ProcessType'
    <3>1. CASE active = None
      BY <1>16, <3>1 DEF ProcessType, Running, ExitCodes, Actions, Exclusive, StopTake, Unlock
    <3>2. CASE active # None
      BY <1>16, <3>2 DEF ProcessType, Running, ExitCodes, Actions, Exclusive, StopTake, Unlock
    <3> QED
      BY <3>1, <3>2
  <2> QED
    BY <2>1, <2>2, <2>3
<1>17. CASE StopKill
  <2>1. ServiceType'
    BY <1>17 DEF ServiceType, StopKill
  <2>2. ThreadType'
    BY <1>17 DEF ThreadType, Requests, Actions, Exclusive, Held, StopKill
  <2>3. ProcessType'
    BY <1>17 DEF ProcessType, Running, ExitCodes, Actions, Exclusive, StopKill
  <2> QED
    BY <2>1, <2>2, <2>3
<1>18. CASE StopReap
  <2>1. ServiceType'
    BY <1>18 DEF ServiceType, StopReap, Unlock, FinishAction, SetEvent
  <2>2. ThreadType'
    BY <1>18
    DEF ThreadType, Requests, Actions, Exclusive, Held, StopReap, Unlock, FinishAction,
        SetEvent
  <2>3. ProcessType'
    <3>1. stopping \in Child /\ FinishAction(stopping, FALSE)
      BY <1>18 DEF StopReap, StopInv, Stopping, ServiceType
    <3> QED
      BY <1>18, <3>1, FinishActionType DEF ProcessType, StopReap
  <2> QED
    BY <2>1, <2>2, <2>3
<1>19. CASE StopDefer
  <2>1. ServiceType'
    BY <1>19 DEF ServiceType, StopInv, Stopping, StopDefer, Unlock, SetEvent
  <2>2. ThreadType'
    BY <1>19 DEF ThreadType, Requests, Actions, Exclusive, Held, StopDefer, Unlock, SetEvent
  <2>3. ProcessType'
    BY <1>19 DEF ProcessType, Running, ExitCodes, Actions, Exclusive, StopDefer, Unlock, SetEvent
  <2> QED
    BY <2>1, <2>2, <2>3
<1>20. CASE Exit
  <2>1. ServiceType'
    BY <1>20 DEF ServiceType, Exit
  <2>2. ThreadType'
    BY <1>20 DEF ThreadType, Requests, Actions, Exclusive, Held, Exit
  <2>3. ProcessType'
    BY <1>20 DEF ProcessType, Running, ExitCodes, Actions, Exclusive, Exit
  <2> QED
    BY <2>1, <2>2, <2>3
<1>21. ASSUME NEW t \in Thread, Lock(t) PROVE ServiceType' /\ ThreadType' /\ ProcessType'
  <2>1. ServiceType'
    <3>1. CASE request[t] = "shutdown"
      BY <1>21, <3>1 DEF ServiceType, Lock
    <3>2. CASE request[t] # "shutdown" /\ ~Releasing
      BY <1>21, <3>2 DEF ServiceType, Lock, TakeReleased, Releasing
    <3>3. CASE request[t] # "shutdown" /\ Releasing
      <4>1. /\ active \in Child /\ active' = None
            /\ detached' = detached \cup {active}
            /\ event' = [what |-> "result", child |-> active]
            /\ lifecycle' = t /\ UNCHANGED <<running, stopping>>
        BY <1>21, <3>3 DEF Lock, TakeReleased, Releasing, SetEvent, ServiceType
      <4> QED
        BY <4>1 DEF ServiceType
    <3> QED
      BY <3>1, <3>2, <3>3
  <2>2. ThreadType'
    <3>1. CASE request[t] = "shutdown"
      BY <1>21, <3>1
      DEF ThreadType, Requests, Actions, Exclusive, Held, Lock, TakeReleased, Releasing,
          SetEvent
    <3>2. CASE request[t] # "shutdown" /\ ~Releasing
      BY <1>21, <3>2
      DEF ThreadType, Requests, Actions, Exclusive, Held, Lock, TakeReleased, Releasing,
          SetEvent
    <3>3. CASE request[t] # "shutdown" /\ Releasing
      BY <1>21, <3>3
      DEF ThreadType, Requests, Actions, Exclusive, Held, Lock, TakeReleased, Releasing,
          SetEvent
    <3> QED
      BY <3>1, <3>2, <3>3
  <2>3. ProcessType'
    <3>1. CASE request[t] = "shutdown"
      BY <1>21, <3>1
      DEF ProcessType, Running, ExitCodes, Actions, Exclusive, Lock, TakeReleased,
          Releasing, SetEvent
    <3>2. CASE request[t] # "shutdown" /\ ~Releasing
      BY <1>21, <3>2
      DEF ProcessType, Running, ExitCodes, Actions, Exclusive, Lock, TakeReleased,
          Releasing, SetEvent
    <3>3. CASE request[t] # "shutdown" /\ Releasing
      BY <1>21, <3>3
      DEF ProcessType, Running, ExitCodes, Actions, Exclusive, Lock, TakeReleased,
          Releasing, SetEvent
    <3> QED
      BY <3>1, <3>2, <3>3
  <2> QED
    BY <2>1, <2>2, <2>3
<1>22. ASSUME NEW t \in Thread, TryWait(t) PROVE ServiceType' /\ ThreadType' /\ ProcessType'
  <2>1. ServiceType'
    <3>1. CASE active # None /\ phase[active] = "zombie"
      BY <1>22, <3>1 DEF ServiceType, TryWait, TryWaitFrame, ReapActive, FinishAction, SetEvent
    <3>2. CASE ~(active # None /\ phase[active] = "zombie")
      BY <1>22, <3>2 DEF ServiceType, TryWait, TryWaitFrame, ReapActive, FinishAction, SetEvent
    <3> QED
      BY <3>1, <3>2
  <2>2. ThreadType'
    <3>1. CASE active # None /\ phase[active] = "zombie"
      BY <1>22, <3>1
      DEF ThreadType, Requests, Actions, Exclusive, Held, TryWait, TryWaitFrame,
          ReapActive, FinishAction, SetEvent
    <3>2. CASE ~(active # None /\ phase[active] = "zombie")
      BY <1>22, <3>2
      DEF ThreadType, Requests, Actions, Exclusive, Held, TryWait, TryWaitFrame,
          ReapActive, FinishAction, SetEvent
    <3> QED
      BY <3>1, <3>2
  <2>3. ProcessType'
    <3>1. CASE active # None /\ phase[active] = "zombie"
      <4>1. active \in Child /\ FinishAction(active, TRUE)
        BY <1>22, <3>1 DEF TryWait, TryWaitFrame, ReapActive, ServiceType
      <4> QED
        BY <1>22, <3>1, <4>1, FinishActionType DEF ProcessType, TryWait, TryWaitFrame, ReapActive
    <3>2. CASE ~(active # None /\ phase[active] = "zombie")
      BY <1>22, <3>2 DEF ProcessType, TryWait, TryWaitFrame, ReapActive
    <3> QED
      BY <3>1, <3>2
  <2> QED
    BY <2>1, <2>2, <2>3
<1>23. ASSUME NEW c \in Child, HandlerInstalled(c) PROVE ServiceType' /\ ThreadType' /\ ProcessType'
  <2>1. ServiceType'
    BY <1>23 DEF ServiceType, HandlerInstalled, Become
  <2>2. ThreadType'
    BY <1>23 DEF ThreadType, Requests, Actions, Exclusive, Held, HandlerInstalled, Become
  <2>3. ProcessType'
    BY <1>23 DEF ProcessType, Running, ExitCodes, Actions, Exclusive, HandlerInstalled, Become
  <2> QED
    BY <2>1, <2>2, <2>3
<1>24. ASSUME NEW c \in Child, ArmRecording(c) PROVE ServiceType' /\ ThreadType' /\ ProcessType'
  <2>1. ServiceType'
    BY <1>24 DEF ServiceType, ArmRecording, Become
  <2>2. ThreadType'
    BY <1>24 DEF ThreadType, Requests, Actions, Exclusive, Held, ArmRecording, Become
  <2>3. ProcessType'
    BY <1>24 DEF ProcessType, Running, ExitCodes, Actions, Exclusive, ArmRecording, Become
  <2> QED
    BY <2>1, <2>2, <2>3
<1>25. ASSUME NEW c \in Child, ReleaseCapture(c) PROVE ServiceType' /\ ThreadType' /\ ProcessType'
  <2>1. ServiceType'
    BY <1>25 DEF ServiceType, ReleaseCapture, Become
  <2>2. ThreadType'
    BY <1>25 DEF ThreadType, Requests, Actions, Exclusive, Held, ReleaseCapture, Become
  <2>3. ProcessType'
    BY <1>25 DEF ProcessType, Running, ExitCodes, Actions, Exclusive, ReleaseCapture, Become
  <2> QED
    BY <2>1, <2>2, <2>3
<1>26. ASSUME NEW c \in Child, NEW e \in ExitCodes, ChildExits(c, e) PROVE ServiceType' /\ ThreadType' /\ ProcessType'
  <2>1. ServiceType'
    BY <1>26 DEF ServiceType, ChildExits, Become
  <2>2. ThreadType'
    BY <1>26 DEF ThreadType, Requests, Actions, Exclusive, Held, ChildExits, Become
  <2>3. ProcessType'
    BY <1>26 DEF ProcessType, Running, ExitCodes, Actions, Exclusive, ChildExits, Become
  <2> QED
    BY <2>1, <2>2, <2>3
<1>27. ASSUME NEW c \in Child, KillTakesEffect(c) PROVE ServiceType' /\ ThreadType' /\ ProcessType'
  <2>1. ServiceType'
    BY <1>27 DEF ServiceType, KillTakesEffect, Become
  <2>2. ThreadType'
    BY <1>27 DEF ThreadType, Requests, Actions, Exclusive, Held, KillTakesEffect, Become
  <2>3. ProcessType'
    BY <1>27 DEF ProcessType, Running, ExitCodes, Actions, Exclusive, KillTakesEffect, Become
  <2> QED
    BY <2>1, <2>2, <2>3
<1>28. ASSUME NEW c \in Child, Watch(c) PROVE ServiceType' /\ ThreadType' /\ ProcessType'
  <2>1. ServiceType'
    BY <1>28 DEF ServiceType, Watch, FinishAction, SetEvent
  <2>2. ThreadType'
    BY <1>28 DEF ThreadType, Requests, Actions, Exclusive, Held, Watch, FinishAction, SetEvent
  <2>3. ProcessType'
    BY <1>28 DEF ProcessType, Running, ExitCodes, Actions, Exclusive, Watch, FinishAction, SetEvent
  <2> QED
    BY <2>1, <2>2, <2>3
<1>29. ASSUME NEW c \in Child, BackgroundReap(c) PROVE ServiceType' /\ ThreadType' /\ ProcessType'
  <2>1. ServiceType'
    BY <1>29 DEF ServiceType, BackgroundReap
  <2>2. ThreadType'
    BY <1>29 DEF ThreadType, Requests, Actions, Exclusive, Held, BackgroundReap
  <2>3. ProcessType'
    BY <1>29 DEF ProcessType, Running, ExitCodes, Actions, Exclusive, BackgroundReap
  <2> QED
    BY <2>1, <2>2, <2>3
<1>30. CASE UNCHANGED vars
  BY <1>30 DEF vars, ServiceType, ThreadType, ProcessType
<1> QED
  BY <1>1, <1>2, <1>3, <1>4, <1>5, <1>6, <1>7, <1>8, <1>9, <1>10, <1>11, <1>12, <1>13,
     <1>14, <1>15, <1>16, <1>17, <1>18, <1>19, <1>20, <1>21, <1>22, <1>23, <1>24, <1>25,
     <1>26, <1>27, <1>28, <1>29, <1>30
  DEF Next, WorkerStep, Handle, MainStep, ChildStep

LEMMA MutexStep == ThreadType /\ MutexInv /\ [Next]_vars => MutexInv'
<1> SUFFICES ASSUME ThreadType, MutexInv, [Next]_vars PROVE MutexInv'
  OBVIOUS
<1> USE DEF ThreadType, MutexInv, Held, service, threads, bodies, reports, Goto
<1>1. ASSUME NEW w \in Worker, Accept(w) PROVE MutexInv'
  BY <1>1 DEF Accept
<1>2. ASSUME NEW w \in Worker, Hangup(w) PROVE MutexInv'
  BY <1>2 DEF Hangup
<1>3. ASSUME NEW w \in Worker, Reply(w) PROVE MutexInv'
  <2>1. CASE pc'[w] = "idle"
    BY <1>3, <2>1 DEF Reply
  <2>2. CASE pc'[w] # "idle"
    BY <1>3, <2>2 DEF Reply
  <2> QED
    BY <2>1, <2>2
<1>4. ASSUME NEW w \in Worker, NEW r \in Requests, ReadFrame(w, r) PROVE MutexInv'
  <2>1. CASE r = "refused"
    BY <1>4, <2>1 DEF ReadFrame
  <2>2. CASE r # "refused"
    BY <1>4, <2>2 DEF ReadFrame
  <2> QED
    BY <2>1, <2>2
<1>5. ASSUME NEW w \in Worker, Snapshot(w) PROVE MutexInv'
  BY <1>5 DEF Snapshot, InBody, Unlock
<1>6. ASSUME NEW w \in Worker, Decline(w) PROVE MutexInv'
  BY <1>6 DEF Decline, InBody, Unlock
<1>7. ASSUME NEW w \in Worker, SpawnFails(w) PROVE MutexInv'
  BY <1>7 DEF SpawnFails, MayLaunch, InBody, Unlock
<1>8. CASE PollActive
  BY <1>8 DEF PollActive
<1>9. CASE ListenerBroken
  BY <1>9 DEF ListenerBroken, BeginStop
<1>10. CASE LeaveLoop
  BY <1>10 DEF LeaveLoop, BeginStop
<1>11. CASE PollDone
  BY <1>11 DEF PollDone, Unlock
<1>12. ASSUME NEW w \in Worker, Shutdown(w) PROVE MutexInv'
  BY <1>12 DEF Shutdown, InBody, Unlock
<1>13. ASSUME NEW w \in Worker, Toggle(w) PROVE MutexInv'
  <2>1. CASE phase[active] = "reaped"
    BY <1>13, <2>1 DEF Toggle, InBody, Unlock, Toggles, FinishSignal, SetEvent
  <2>2. CASE phase[active] # "reaped"
    BY <1>13, <2>2 DEF Toggle, InBody, Unlock, Toggles, FinishSignal, SetEvent
  <2> QED
    BY <2>1, <2>2
<1>14. ASSUME NEW w \in Worker, Launch(w) PROVE MutexInv'
  <2>1. CASE request[w] \in Exclusive
    BY <1>14, <2>1 DEF Launch, MayLaunch, InBody, Toggles, Unlock, SetEvent
  <2>2. CASE request[w] \notin Exclusive
    BY <1>14, <2>2 DEF Launch, MayLaunch, InBody, Toggles, Unlock, SetEvent
  <2> QED
    BY <2>1, <2>2
<1>15. ASSUME NEW w \in Worker, ForwarderFails(w) PROVE MutexInv'
  BY <1>15 DEF ForwarderFails, MayLaunch, InBody, Toggles, Unlock
<1>16. CASE StopTake
  <2>1. CASE active = None
    BY <1>16, <2>1 DEF StopTake, Unlock
  <2>2. CASE active # None
    BY <1>16, <2>2 DEF StopTake, Unlock
  <2> QED
    BY <2>1, <2>2
<1>17. CASE StopKill
  BY <1>17 DEF StopKill
<1>18. CASE StopReap
  BY <1>18 DEF StopReap, Unlock, FinishAction, SetEvent
<1>19. CASE StopDefer
  BY <1>19 DEF StopDefer, Unlock, SetEvent
<1>20. CASE Exit
  BY <1>20 DEF Exit
<1>21. ASSUME NEW t \in Thread, Lock(t) PROVE MutexInv'
  <2>1. CASE request[t] = "shutdown"
    BY <1>21, <2>1 DEF Lock, TakeReleased, Releasing, SetEvent
  <2>2. CASE request[t] # "shutdown" /\ ~Releasing
    BY <1>21, <2>2 DEF Lock, TakeReleased, Releasing, SetEvent
  <2>3. CASE request[t] # "shutdown" /\ Releasing
    BY <1>21, <2>3 DEF Lock, TakeReleased, Releasing, SetEvent
  <2> QED
    BY <2>1, <2>2, <2>3
<1>22. ASSUME NEW t \in Thread, TryWait(t) PROVE MutexInv'
  <2>1. CASE active # None /\ phase[active] = "zombie"
    BY <1>22, <2>1 DEF TryWait, TryWaitFrame, ReapActive, FinishAction, SetEvent
  <2>2. CASE ~(active # None /\ phase[active] = "zombie")
    BY <1>22, <2>2 DEF TryWait, TryWaitFrame, ReapActive, FinishAction, SetEvent
  <2> QED
    BY <2>1, <2>2
<1>23. ASSUME NEW c \in Child, HandlerInstalled(c) PROVE MutexInv'
  BY <1>23 DEF HandlerInstalled, Become
<1>24. ASSUME NEW c \in Child, ArmRecording(c) PROVE MutexInv'
  BY <1>24 DEF ArmRecording, Become
<1>25. ASSUME NEW c \in Child, ReleaseCapture(c) PROVE MutexInv'
  BY <1>25 DEF ReleaseCapture, Become
<1>26. ASSUME NEW c \in Child, NEW e \in ExitCodes, ChildExits(c, e) PROVE MutexInv'
  BY <1>26 DEF ChildExits, Become
<1>27. ASSUME NEW c \in Child, KillTakesEffect(c) PROVE MutexInv'
  BY <1>27 DEF KillTakesEffect, Become
<1>28. ASSUME NEW c \in Child, Watch(c) PROVE MutexInv'
  BY <1>28 DEF Watch, FinishAction, SetEvent
<1>29. ASSUME NEW c \in Child, BackgroundReap(c) PROVE MutexInv'
  BY <1>29 DEF BackgroundReap
<1>30. CASE UNCHANGED vars
  BY <1>30 DEF vars
<1> HIDE DEF MutexInv
<1> QED
  BY <1>1, <1>2, <1>3, <1>4, <1>5, <1>6, <1>7, <1>8, <1>9, <1>10, <1>11, <1>12, <1>13,
     <1>14, <1>15, <1>16, <1>17, <1>18, <1>19, <1>20, <1>21, <1>22, <1>23, <1>24, <1>25,
     <1>26, <1>27, <1>28, <1>29, <1>30
  DEF Next, WorkerStep, Handle, MainStep, ChildStep

(* What taking a released or an ended process off the books changes.       *)
LEMMA ReleaseEffect ==
  ASSUME IndInv, NEW t \in Thread, LockReleases(t)
  PROVE  /\ active \in Child /\ phase[active] \in {"result", "zombie"}
         /\ active' = None /\ detached' = detached \cup {active}
         /\ event' = [what |-> "result", child |-> active]
         /\ ~Stopped /\ ~Stopped' /\ ~Stopping /\ ~Stopping' /\ stopping = None
         /\ action[active] = "region"
         /\ UNCHANGED <<running, stopping, bodies, reports>>
<1>1. /\ active \in Child /\ action[active] = "region" /\ release[active] = "sent"
      /\ pc[t] = "lock" /\ pc' = [pc EXCEPT ![t] = "wait"]
      /\ active' = None /\ detached' = detached \cup {active}
      /\ event' = [what |-> "result", child |-> active]
      /\ UNCHANGED <<running, stopping, bodies, reports>>
  BY DEF LockReleases, Lock, TakeReleased, Releasing, Goto, SetEvent, IndInv, TypeOK,
         ServiceType
<1>2. ~Stopped /\ ~Stopped' /\ ~Stopping /\ ~Stopping' /\ stopping = None
  BY <1>1 DEF IndInv, TypeOK, ThreadType, StopInv, Stopped, Stopping
<1>3. phase[active] \in {"result", "zombie"}
  BY <1>1 DEF IndInv, TrackInv, Tracked
<1> QED
  BY <1>1, <1>2, <1>3

LEMMA ReapEffect ==
  ASSUME IndInv, NEW t \in Thread, TryWaitReaps(t)
  PROVE  /\ active \in Child /\ phase[active] = "zombie"
         /\ active' = None /\ FinishAction(active, TRUE)
         /\ phase' = [phase EXCEPT ![active] = "reaped"]
         /\ ~Stopped /\ ~Stopped' /\ ~Stopping /\ ~Stopping' /\ stopping = None
         /\ action[active] \in Exclusive /\ active \notin detached
         /\ UNCHANGED <<running, stopping, detached, spawned, action, code, release,
                        finish, killed>>
<1>1. /\ active \in Child /\ phase[active] = "zombie"
      /\ pc[t] = "wait" /\ pc' = [pc EXCEPT ![t] = "body"]
      /\ active' = None /\ FinishAction(active, TRUE)
      /\ phase' = [phase EXCEPT ![active] = "reaped"]
      /\ UNCHANGED <<running, stopping, detached, spawned, action, code, release,
                     finish, killed>>
  BY DEF TryWaitReaps, TryWait, TryWaitFrame, ReapActive, Ended, Goto, IndInv, TypeOK, ServiceType
<1>2. ~Stopped /\ ~Stopped' /\ ~Stopping /\ ~Stopping' /\ stopping = None
  BY <1>1 DEF IndInv, TypeOK, ThreadType, StopInv, Stopped, Stopping
<1>3. action[active] \in Exclusive /\ active \notin detached
  BY <1>1 DEF IndInv, TrackInv, Tracked
<1> QED
  BY <1>1, <1>2, <1>3

(* Only stop() closes, empties and kills.                                  *)
LEMMA StopStep == IndInv /\ [Next]_vars => StopInv'
<1> SUFFICES ASSUME IndInv, [Next]_vars PROVE StopInv'
  OBVIOUS
<1>0. /\ ServiceType /\ ThreadType /\ ProcessType /\ MutexInv
      /\ StopInv /\ TrackInv /\ NoOrphanSelector /\ ExitReportedOnce
  BY DEF IndInv, TypeOK
<1> USE DEF StopInv, Stopped, Stopping, TrackInv, Tracked
<1>1. ASSUME NEW w \in Worker, Shutdown(w) PROVE StopInv'
  BY <1>0, <1>1
  DEF ServiceType, ThreadType, ProcessType, MutexInv, Held, Goto, service, threads,
         bodies, reports, Shutdown, InBody, Unlock
<1>2. ASSUME NEW w \in Worker, Toggle(w) PROVE StopInv'
  <2>1. CASE phase[active] = "reaped"
    BY <1>0, <1>2, <2>1
    DEF ServiceType, ThreadType, ProcessType, MutexInv, Held, Goto, service, threads,
         bodies, reports, Toggle, InBody, Unlock, Toggles, FinishSignal, SetEvent
  <2>2. CASE phase[active] # "reaped"
    BY <1>0, <1>2, <2>2
    DEF ServiceType, ThreadType, ProcessType, MutexInv, Held, Goto, service, threads,
         bodies, reports, Toggle, InBody, Unlock, Toggles, FinishSignal, SetEvent
  <2> QED
    BY <2>1, <2>2
<1>3. ASSUME NEW w \in Worker, Launch(w) PROVE StopInv'
  <2>1. CASE request[w] \in Exclusive
    BY <1>0, <1>3, <2>1
    DEF ServiceType, ThreadType, ProcessType, MutexInv, Held, Goto, service, threads,
         bodies, reports, Launch, MayLaunch, InBody, Toggles, Unlock, SetEvent
  <2>2. CASE request[w] \notin Exclusive
    BY <1>0, <1>3, <2>2
    DEF ServiceType, ThreadType, ProcessType, MutexInv, Held, Goto, service, threads,
         bodies, reports, Launch, MayLaunch, InBody, Toggles, Unlock, SetEvent
  <2> QED
    BY <2>1, <2>2
<1>4. ASSUME NEW w \in Worker, ForwarderFails(w) PROVE StopInv'
  BY <1>0, <1>4
  DEF ServiceType, ThreadType, ProcessType, MutexInv, Held, Goto, service, threads,
         bodies, reports, ForwarderFails, MayLaunch, InBody, Toggles, Unlock
<1>5. CASE StopTake
  <2>1. CASE active = None
    BY <1>0, <1>5, <2>1
    DEF ServiceType, ThreadType, ProcessType, MutexInv, Held, Goto, service, threads,
         bodies, reports, StopTake, Unlock
  <2>2. CASE active # None
    BY <1>0, <1>5, <2>2
    DEF ServiceType, ThreadType, ProcessType, MutexInv, Held, Goto, service, threads,
         bodies, reports, StopTake, Unlock
  <2> QED
    BY <2>1, <2>2
<1>6. CASE StopKill
  BY <1>0, <1>6
  DEF ServiceType, ThreadType, ProcessType, MutexInv, Held, Goto, service, threads,
         bodies, reports, StopKill
<1>7. CASE StopReap
  BY <1>0, <1>7
  DEF ServiceType, ThreadType, ProcessType, MutexInv, Held, Goto, service, threads,
         bodies, reports, StopReap, Unlock, FinishAction, SetEvent
<1>8. CASE StopDefer
  BY <1>0, <1>8
  DEF ServiceType, ThreadType, ProcessType, MutexInv, Held, Goto, service, threads,
         bodies, reports, StopDefer, Unlock, SetEvent
<1>9. CASE Exit
  BY <1>0, <1>9
  DEF ServiceType, ThreadType, ProcessType, MutexInv, Held, Goto, service, threads,
         bodies, reports, Exit
<1>10. ASSUME NEW t \in Thread, LockReleases(t) PROVE StopInv'
  BY <1>0, <1>10, ReleaseEffect DEF ProcessType, bodies, reports
<1>11. ASSUME NEW t \in Thread, TryWaitReaps(t) PROVE StopInv'
  BY <1>0, <1>11, ReapEffect DEF ProcessType, FinishAction, SetEvent
<1>12. ASSUME NEW c \in Child, Watch(c) PROVE StopInv'
  BY <1>0, <1>12
  DEF ServiceType, ThreadType, ProcessType, MutexInv, Held, Goto, service, threads,
         bodies, reports, Watch, FinishAction, SetEvent
<1>13. ASSUME NEW c \in Child, BackgroundReap(c) PROVE StopInv'
  BY <1>0, <1>13
  DEF ServiceType, ThreadType, ProcessType, MutexInv, Held, Goto, service, threads,
         bodies, reports, BackgroundReap
<1>14. ASSUME NEW c \in Child, LifeStep(c) PROVE StopInv'
  BY <1>0, <1>14, LifeSteps DEF Lives, Running, service, threads, bodies, reports
<1>15. CASE QuietStep
  BY <1>0, <1>15, QuietSteps DEF Quiet, bodies, reports
<1>16. CASE UNCHANGED vars
  BY <1>0, <1>16 DEF vars, service, threads, bodies, reports
<1> HIDE DEF StopInv
<1> QED
  BY <1>1, <1>2, <1>3, <1>4, <1>5, <1>6, <1>7, <1>8, <1>9, <1>10, <1>11, <1>12, <1>13,
     <1>14, <1>15, <1>16, StepCases
  DEF LoudStep

(* What is tracked stays the newest exclusive process, alive or unreaped.  *)
LEMMA TrackStep == IndInv /\ [Next]_vars => TrackInv'
<1> SUFFICES ASSUME IndInv, [Next]_vars PROVE TrackInv'
  OBVIOUS
<1>0. /\ ServiceType /\ ThreadType /\ ProcessType /\ MutexInv
      /\ StopInv /\ TrackInv /\ NoOrphanSelector /\ ExitReportedOnce
  BY DEF IndInv, TypeOK
<1> USE DEF StopInv, Stopped, Stopping, TrackInv, Tracked
<1>1. ASSUME NEW w \in Worker, Shutdown(w) PROVE TrackInv'
  BY <1>0, <1>1
  DEF ServiceType, ThreadType, ProcessType, MutexInv, Held, Goto, service, threads,
         bodies, reports, Shutdown, InBody, Unlock
<1>2. ASSUME NEW w \in Worker, Toggle(w) PROVE TrackInv'
  <2>1. CASE phase[active] = "reaped"
    BY <1>0, <1>2, <2>1
    DEF ServiceType, ThreadType, ProcessType, MutexInv, Held, Goto, service, threads,
         bodies, reports, Toggle, InBody, Unlock, Toggles, FinishSignal, SetEvent
  <2>2. CASE phase[active] # "reaped"
    <3>1. UNCHANGED <<active, stopping, detached, spawned, action, release>> /\ Goto(w, "reply") /\ FinishSignal(active)
      BY <1>2, <2>2 DEF Toggle, Unlock
    <3>2. pc'[Main] = pc[Main]
      BY <1>0, <3>1 DEF ThreadType, Goto
    <3>3. Stopping' = Stopping
      BY <3>2
    <3>4. \A c \in Child : phase'[c] = phase[c] \/ (phase[c] = "boot" /\ phase'[c] = "zombie")
      BY <1>0, <3>1 DEF ProcessType, FinishSignal
    <3>5. detached \subseteq Child
      BY <1>0 DEF ServiceType
    <3> QED
      BY <1>0, <3>1, <3>3, <3>4, <3>5
  <2> QED
    BY <2>1, <2>2
<1>3. ASSUME NEW w \in Worker, Launch(w) PROVE TrackInv'
  <2>1. CASE request[w] \in Exclusive
    BY <1>0, <1>3, <2>1
    DEF ServiceType, ThreadType, ProcessType, MutexInv, Held, Goto, service, threads,
         bodies, reports, Launch, MayLaunch, InBody, Toggles, Unlock, SetEvent
  <2>2. CASE request[w] \notin Exclusive
    BY <1>0, <1>3, <2>2
    DEF ServiceType, ThreadType, ProcessType, MutexInv, Held, Goto, service, threads,
         bodies, reports, Launch, MayLaunch, InBody, Toggles, Unlock, SetEvent
  <2> QED
    BY <2>1, <2>2
<1>4. ASSUME NEW w \in Worker, ForwarderFails(w) PROVE TrackInv'
  BY <1>0, <1>4
  DEF ServiceType, ThreadType, ProcessType, MutexInv, Held, Goto, service, threads,
         bodies, reports, ForwarderFails, MayLaunch, InBody, Toggles, Unlock
<1>5. CASE StopTake
  <2>1. CASE active = None
    BY <1>0, <1>5, <2>1
    DEF ServiceType, ThreadType, ProcessType, MutexInv, Held, Goto, service, threads,
         bodies, reports, StopTake, Unlock
  <2>2. CASE active # None
    BY <1>0, <1>5, <2>2
    DEF ServiceType, ThreadType, ProcessType, MutexInv, Held, Goto, service, threads,
         bodies, reports, StopTake, Unlock
  <2> QED
    BY <2>1, <2>2
<1>6. CASE StopKill
  BY <1>0, <1>6
  DEF ServiceType, ThreadType, ProcessType, MutexInv, Held, Goto, service, threads,
         bodies, reports, StopKill
<1>7. CASE StopReap
  BY <1>0, <1>7
  DEF ServiceType, ThreadType, ProcessType, MutexInv, Held, Goto, service, threads,
         bodies, reports, StopReap, Unlock, FinishAction, SetEvent
<1>8. CASE StopDefer
  <2>1. stopping \in Child /\ Tracked(stopping) /\ active = None
    BY <1>0, <1>8 DEF StopDefer, ServiceType
  <2>2. /\ ~Stopping' /\ active' = None /\ detached' = detached \cup {stopping}
        /\ UNCHANGED <<spawned, action, phase, release>>
    BY <1>0, <1>8, <2>1 DEF StopDefer, Unlock, Goto, ThreadType, bodies
  <2>3. action[stopping] # "pin" /\ phase[stopping] # "unborn"
    BY <1>0, <2>1 DEF Exclusive
  <2> QED
    BY <1>0, <2>2, <2>3
<1>9. CASE Exit
  BY <1>0, <1>9
  DEF ServiceType, ThreadType, ProcessType, MutexInv, Held, Goto, service, threads,
         bodies, reports, Exit
<1>10. ASSUME NEW t \in Thread, LockReleases(t) PROVE TrackInv'
  <2>1. /\ active \in Child /\ action[active] = "region" /\ phase[active] # "unborn"
        /\ detached' = detached \cup {active} /\ active' = None /\ ~Stopping'
        /\ UNCHANGED <<spawned, action, phase, release>>
    BY <1>10, ReleaseEffect DEF bodies
  <2> QED
    BY <1>0, <2>1
<1>11. ASSUME NEW t \in Thread, TryWaitReaps(t) PROVE TrackInv'
  <2>1. /\ active \in Child /\ phase[active] = "zombie"
        /\ phase' = [phase EXCEPT ![active] = "reaped"]
        /\ active' = None /\ ~Stopping' /\ UNCHANGED <<detached, spawned, action, release>>
    BY <1>0, <1>11, ReapEffect
  <2>2. \A c \in Child : \/ phase'[c] = phase[c]
                         \/ phase[c] = "zombie" /\ phase'[c] = "reaped"
    BY <1>0, <2>1 DEF ProcessType
  <2> QED
    BY <1>0, <2>1, <2>2
<1>12. ASSUME NEW c \in Child, Watch(c) PROVE TrackInv'
  <2>1. ~Tracked(c) /\ phase[c] = "zombie" /\ phase' = [phase EXCEPT ![c] = "reaped"]
    BY <1>0, <1>12 DEF Watch, Exclusive
  <2>2. UNCHANGED <<active, stopping, pc, detached, spawned, action, release>>
    BY <1>12 DEF Watch, FinishAction, service, threads
  <2> QED
    BY <1>0, <2>1, <2>2 DEF ProcessType
<1>13. ASSUME NEW c \in Child, BackgroundReap(c) PROVE TrackInv'
  <2>1. ~Tracked(c) /\ phase[c] = "zombie" /\ phase' = [phase EXCEPT ![c] = "reaped"]
    BY <1>0, <1>13 DEF BackgroundReap, Exclusive
  <2>2. UNCHANGED <<active, stopping, pc, detached, spawned, action, release>>
    BY <1>13 DEF BackgroundReap, FinishAction, service, threads
  <2> QED
    BY <1>0, <2>1, <2>2 DEF ProcessType
<1>14. ASSUME NEW c \in Child, LifeStep(c) PROVE TrackInv'
  <2>1. Lives(c)
    BY <1>0, <1>14, LifeSteps
  <2>2. UNCHANGED <<active, stopping, detached, pc, spawned, action>>
    BY <2>1 DEF Lives, service, threads
  <2>3. \A d \in Child : /\ phase'[d] = "unborn" <=> phase[d] = "unborn"
                         /\ phase'[d] = "reaped" <=> phase[d] = "reaped"
    BY <1>0, <2>1 DEF Lives, Running, ProcessType
  <2>4. \A d \in Child : release'[d] = "sent" => phase'[d] \in {"result", "zombie", "reaped"}
    <3>1. \A d \in Child : d # c => phase'[d] = phase[d] /\ release'[d] = release[d]
      BY <2>1 DEF Lives
    <3>2. release'[c] = "sent" => phase'[c] \in {"result", "zombie"}
      BY <1>0, <2>1 DEF Lives, Running
    <3> QED
      BY <1>0, <3>1, <3>2
  <2>5. \A d \in Child : Tracked(d)' <=> Tracked(d)
    BY <2>2
  <2> HIDE DEF Tracked, StopInv
  <2>6. \A d \in Child : Tracked(d)' =>
          /\ action'[d] \in Exclusive /\ phase'[d] \notin {"unborn", "reaped"}
          /\ d \notin detached'
          /\ \A e \in Child : e > d /\ action'[e] \in Exclusive => phase'[e] = "unborn"
    BY <1>0, <2>2, <2>3, <2>5
  <2>7. \A d \in detached' : /\ phase'[d] # "unborn"
                             /\ action'[d] = "pin" => phase'[d] = "reaped"
    BY <1>0, <2>2, <2>3 DEF ServiceType
  <2> QED
    BY <1>0, <2>2, <2>3, <2>4, <2>6, <2>7
<1>15. CASE QuietStep
  BY <1>0, <1>15, QuietSteps DEF Quiet, bodies, reports
<1>16. CASE UNCHANGED vars
  BY <1>0, <1>16 DEF vars, service, threads, bodies, reports
<1> HIDE DEF TrackInv
<1> QED
  BY <1>1, <1>2, <1>3, <1>4, <1>5, <1>6, <1>7, <1>8, <1>9, <1>10, <1>11, <1>12, <1>13,
     <1>14, <1>15, <1>16, StepCases
  DEF LoudStep

(* No step leaves a selector on the screen untracked.                      *)
LEMMA OrphanStep == IndInv /\ [Next]_vars => NoOrphanSelector'
<1> SUFFICES ASSUME IndInv, [Next]_vars PROVE NoOrphanSelector'
  OBVIOUS
<1>0. /\ ServiceType /\ ThreadType /\ ProcessType /\ MutexInv
      /\ StopInv /\ TrackInv /\ NoOrphanSelector /\ ExitReportedOnce
  BY DEF IndInv, TypeOK
<1> USE DEF StopInv, Stopped, Stopping, TrackInv, Tracked, Selectors, Selector, NoOrphanSelector
<1>1. ASSUME NEW w \in Worker, Shutdown(w) PROVE NoOrphanSelector'
  BY <1>0, <1>1
  DEF ServiceType, ThreadType, ProcessType, MutexInv, Held, Goto, service, threads,
         bodies, reports, Shutdown, InBody, Unlock
<1>2. ASSUME NEW w \in Worker, Toggle(w) PROVE NoOrphanSelector'
  <2>1. CASE phase[active] = "reaped"
    BY <1>0, <1>2, <2>1
    DEF ServiceType, ThreadType, ProcessType, MutexInv, Held, Goto, service, threads,
         bodies, reports, Toggle, InBody, Unlock, Toggles, FinishSignal, SetEvent
  <2>2. CASE phase[active] # "reaped"
    BY <1>0, <1>2, <2>2
    DEF ServiceType, ThreadType, ProcessType, MutexInv, Held, Goto, service, threads,
         bodies, reports, Toggle, InBody, Unlock, Toggles, FinishSignal, SetEvent
  <2> QED
    BY <2>1, <2>2
<1>3. ASSUME NEW w \in Worker, Launch(w) PROVE NoOrphanSelector'
  <2>1. CASE request[w] \in Exclusive
    BY <1>0, <1>3, <2>1
    DEF ServiceType, ThreadType, ProcessType, MutexInv, Held, Goto, service, threads,
         bodies, reports, Launch, MayLaunch, InBody, Toggles, Unlock, SetEvent
  <2>2. CASE request[w] \notin Exclusive
    BY <1>0, <1>3, <2>2
    DEF ServiceType, ThreadType, ProcessType, MutexInv, Held, Goto, service, threads,
         bodies, reports, Launch, MayLaunch, InBody, Toggles, Unlock, SetEvent
  <2> QED
    BY <2>1, <2>2
<1>4. ASSUME NEW w \in Worker, ForwarderFails(w) PROVE NoOrphanSelector'
  BY <1>0, <1>4
  DEF ServiceType, ThreadType, ProcessType, MutexInv, Held, Goto, service, threads,
         bodies, reports, ForwarderFails, MayLaunch, InBody, Toggles, Unlock
<1>5. CASE StopTake
  <2>1. CASE active = None
    BY <1>0, <1>5, <2>1
    DEF ServiceType, ThreadType, ProcessType, MutexInv, Held, Goto, service, threads,
         bodies, reports, StopTake, Unlock
  <2>2. CASE active # None
    BY <1>0, <1>5, <2>2
    DEF ServiceType, ThreadType, ProcessType, MutexInv, Held, Goto, service, threads,
         bodies, reports, StopTake, Unlock
  <2> QED
    BY <2>1, <2>2
<1>6. CASE StopKill
  BY <1>0, <1>6
  DEF ServiceType, ThreadType, ProcessType, MutexInv, Held, Goto, service, threads,
         bodies, reports, StopKill
<1>7. CASE StopReap
  BY <1>0, <1>7
  DEF ServiceType, ThreadType, ProcessType, MutexInv, Held, Goto, service, threads,
         bodies, reports, StopReap, Unlock, FinishAction, SetEvent
<1>8. CASE StopDefer
  BY <1>0, <1>8
  DEF ServiceType, ThreadType, ProcessType, MutexInv, Held, Goto, service, threads,
         bodies, reports, StopDefer, Unlock, SetEvent
<1>9. CASE Exit
  BY <1>0, <1>9
  DEF ServiceType, ThreadType, ProcessType, MutexInv, Held, Goto, service, threads,
         bodies, reports, Exit
<1>10. ASSUME NEW t \in Thread, LockReleases(t) PROVE NoOrphanSelector'
  BY <1>0, <1>10, ReleaseEffect DEF ProcessType, bodies, reports
<1>11. ASSUME NEW t \in Thread, TryWaitReaps(t) PROVE NoOrphanSelector'
  BY <1>0, <1>11, ReapEffect DEF ProcessType, FinishAction, SetEvent
<1>12. ASSUME NEW c \in Child, Watch(c) PROVE NoOrphanSelector'
  BY <1>0, <1>12
  DEF ServiceType, ThreadType, ProcessType, MutexInv, Held, Goto, service, threads,
         bodies, reports, Watch, FinishAction, SetEvent
<1>13. ASSUME NEW c \in Child, BackgroundReap(c) PROVE NoOrphanSelector'
  BY <1>0, <1>13
  DEF ServiceType, ThreadType, ProcessType, MutexInv, Held, Goto, service, threads,
         bodies, reports, BackgroundReap
<1>14. ASSUME NEW c \in Child, LifeStep(c) PROVE NoOrphanSelector'
  BY <1>0, <1>14, LifeSteps DEF Lives, Running, service, threads, bodies, reports
<1>15. CASE QuietStep
  BY <1>0, <1>15, QuietSteps DEF Quiet, bodies, reports
<1>16. CASE UNCHANGED vars
  BY <1>0, <1>16 DEF vars, service, threads, bodies, reports
<1> HIDE DEF NoOrphanSelector
<1> QED
  BY <1>1, <1>2, <1>3, <1>4, <1>5, <1>6, <1>7, <1>8, <1>9, <1>10, <1>11, <1>12, <1>13,
     <1>14, <1>15, <1>16, StepCases
  DEF LoudStep

(* Reaping a process nobody is stopping, and reporting it, is one report.  *)
LEMMA ReapReports ==
  ASSUME ProcessType, ExitReportedOnce, NEW c \in Child,
         phase[c] = "zombie", c \notin detached, c # stopping,
         phase' = [phase EXCEPT ![c] = "reaped"], FinishAction(c, TRUE),
         UNCHANGED <<stopping, detached, code>>
  PROVE  ExitReportedOnce'
<1>1. reported[c] = 0 /\ reported[c] # 1
  BY DEF ExitReportedOnce
<1>2. ~notice[c]
  BY <1>1, Zenon DEF ExitReportedOnce
<1>3. phase'[c] = "reaped" /\ reported'[c] = 1
  BY <1>1 DEF FinishAction, ProcessType
<1>5. notice'[c] = (code[c] # "normal")
  <2>1. CASE code[c] = "normal"
    <3>1. notice' = notice
      BY <2>1 DEF FinishAction
    <3>2. ~notice'[c] /\ notice[c] \in BOOLEAN
      BY <1>2, <3>1 DEF ProcessType
    <3> QED
      BY <2>1, <3>1, <3>2
  <2>2. CASE code[c] # "normal"
    BY <2>2 DEF FinishAction, ProcessType
  <2> QED
    BY <2>1, <2>2
<1>4. \A d \in Child : d # c =>
        phase'[d] = phase[d] /\ reported'[d] = reported[d] /\ notice'[d] = notice[d]
  BY DEF FinishAction, ProcessType
<1> QED
  BY <1>3, <1>5, <1>4 DEF ExitReportedOnce

(* No step reports twice, or reaps without a report.                       *)
LEMMA ReportStep == IndInv /\ [Next]_vars => ExitReportedOnce'
<1> SUFFICES ASSUME IndInv, [Next]_vars PROVE ExitReportedOnce'
  OBVIOUS
<1>0. /\ ServiceType /\ ThreadType /\ ProcessType /\ MutexInv
      /\ StopInv /\ TrackInv /\ NoOrphanSelector /\ ExitReportedOnce
  BY DEF IndInv, TypeOK
<1> USE DEF StopInv, Stopped, Stopping, TrackInv, Tracked, ExitReportedOnce
<1>1. ASSUME NEW w \in Worker, Shutdown(w) PROVE ExitReportedOnce'
  BY <1>0, <1>1
  DEF ServiceType, ThreadType, ProcessType, MutexInv, Held, Goto, service, threads,
         bodies, reports, Shutdown, InBody, Unlock
<1>2. ASSUME NEW w \in Worker, Toggle(w) PROVE ExitReportedOnce'
  <2>1. CASE phase[active] = "reaped"
    BY <1>0, <1>2, <2>1
    DEF ServiceType, ThreadType, ProcessType, MutexInv, Held, Goto, service, threads,
         bodies, reports, Toggle, InBody, Unlock, Toggles, FinishSignal, SetEvent
  <2>2. CASE phase[active] # "reaped"
    <3>1. /\ active \in Child /\ reported[active] = 0
          /\ UNCHANGED <<stopping, detached, reported, notice>>
          /\ FinishSignal(active)
      BY <1>0, <1>2, <2>2 DEF Toggle, Toggles, ServiceType, reports
    <3>2. \A c \in Child : phase'[c] = "reaped" <=> phase[c] = "reaped"
      BY <1>0, <3>1 DEF ProcessType, FinishSignal
    <3>3. \A c \in Child : c # active => code'[c] = code[c]
      BY <1>0, <3>1 DEF ProcessType, FinishSignal
    <3> QED
      BY <1>0, <3>1, <3>2, <3>3
  <2> QED
    BY <2>1, <2>2
<1>3. ASSUME NEW w \in Worker, Launch(w) PROVE ExitReportedOnce'
  <2>1. CASE request[w] \in Exclusive
    BY <1>0, <1>3, <2>1
    DEF ServiceType, ThreadType, ProcessType, MutexInv, Held, Goto, service, threads,
         bodies, reports, Launch, MayLaunch, InBody, Toggles, Unlock, SetEvent
  <2>2. CASE request[w] \notin Exclusive
    BY <1>0, <1>3, <2>2
    DEF ServiceType, ThreadType, ProcessType, MutexInv, Held, Goto, service, threads,
         bodies, reports, Launch, MayLaunch, InBody, Toggles, Unlock, SetEvent
  <2> QED
    BY <2>1, <2>2
<1>4. ASSUME NEW w \in Worker, ForwarderFails(w) PROVE ExitReportedOnce'
  BY <1>0, <1>4
  DEF ServiceType, ThreadType, ProcessType, MutexInv, Held, Goto, service, threads,
         bodies, reports, ForwarderFails, MayLaunch, InBody, Toggles, Unlock
<1>5. CASE StopTake
  <2>1. CASE active = None
    BY <1>0, <1>5, <2>1
    DEF ServiceType, ThreadType, ProcessType, MutexInv, Held, Goto, service, threads,
         bodies, reports, StopTake, Unlock
  <2>2. CASE active # None
    BY <1>0, <1>5, <2>2
    DEF ServiceType, ThreadType, ProcessType, MutexInv, Held, Goto, service, threads,
         bodies, reports, StopTake, Unlock
  <2> QED
    BY <2>1, <2>2
<1>6. CASE StopKill
  BY <1>0, <1>6
  DEF ServiceType, ThreadType, ProcessType, MutexInv, Held, Goto, service, threads,
         bodies, reports, StopKill
<1>7. CASE StopReap
  BY <1>0, <1>7
  DEF ServiceType, ThreadType, ProcessType, MutexInv, Held, Goto, service, threads,
         bodies, reports, StopReap, Unlock, FinishAction, SetEvent
<1>8. CASE StopDefer
  BY <1>0, <1>8
  DEF ServiceType, ThreadType, ProcessType, MutexInv, Held, Goto, service, threads,
         bodies, reports, StopDefer, Unlock, SetEvent
<1>9. CASE Exit
  BY <1>0, <1>9
  DEF ServiceType, ThreadType, ProcessType, MutexInv, Held, Goto, service, threads,
         bodies, reports, Exit
<1>10. ASSUME NEW t \in Thread, LockReleases(t) PROVE ExitReportedOnce'
  BY <1>0, <1>10, ReleaseEffect DEF ProcessType, bodies, reports
<1>11. ASSUME NEW t \in Thread, TryWaitReaps(t) PROVE ExitReportedOnce'
  <2>1. /\ active \in Child /\ phase[active] = "zombie" /\ active \notin detached
        /\ stopping = None /\ phase' = [phase EXCEPT ![active] = "reaped"]
    BY <1>11, ReapEffect
  <2>2. FinishAction(active, TRUE) /\ UNCHANGED <<stopping, detached, code>>
    BY <1>11, ReapEffect, Zenon
  <2>3. active # stopping
    BY <2>1
  <2> QED
    BY <1>0, <2>1, <2>2, <2>3, ReapReports
<1>12. ASSUME NEW c \in Child, Watch(c) PROVE ExitReportedOnce'
  <2>1. phase[c] = "zombie" /\ c # stopping /\ c \notin detached
    BY <1>0, <1>12 DEF Watch, Exclusive
  <2> QED
    BY <1>0, <1>12, <2>1, ReapReports DEF Watch
<1>13. ASSUME NEW c \in Child, BackgroundReap(c) PROVE ExitReportedOnce'
  BY <1>0, <1>13
  DEF ServiceType, ThreadType, ProcessType, MutexInv, Held, Goto, service, threads,
         bodies, reports, BackgroundReap
<1>14. ASSUME NEW c \in Child, LifeStep(c) PROVE ExitReportedOnce'
  BY <1>0, <1>14, LifeSteps DEF Lives, Running, service, threads, bodies, reports
<1>15. CASE QuietStep
  BY <1>0, <1>15, QuietSteps DEF Quiet, bodies, reports
<1>16. CASE UNCHANGED vars
  BY <1>0, <1>16 DEF vars, service, threads, bodies, reports
<1> HIDE DEF ExitReportedOnce
<1> QED
  BY <1>1, <1>2, <1>3, <1>4, <1>5, <1>6, <1>7, <1>8, <1>9, <1>10, <1>11, <1>12, <1>13,
     <1>14, <1>15, <1>16, StepCases
  DEF LoudStep

---------------------------------------------------------------------------
(* The invariant                                                           *)

LEMMA InitInv == Init => IndInv
<1> SUFFICES ASSUME Init PROVE IndInv
  OBVIOUS
<1>1. TypeOK
  BY DEF Init, TypeOK, ServiceType, ThreadType, ProcessType, Held, Requests, Actions,
         ExitCodes, Running
<1>2. MutexInv /\ StopInv
  BY DEF Init, MutexInv, StopInv, Held, Stopped, Stopping
<1>3. TrackInv
  BY DEF Init, TrackInv, Tracked, Stopping
<1>4. NoOrphanSelector
  BY DEF Init, NoOrphanSelector, Selectors, Selector
<1>5. ExitReportedOnce
  BY DEF Init, ExitReportedOnce
<1> QED
  BY <1>1, <1>2, <1>3, <1>4, <1>5 DEF IndInv

LEMMA NextInv == IndInv /\ [Next]_vars => IndInv'
  BY TypeStep, MutexStep, StopStep, TrackStep, OrphanStep, ReportStep
  DEF IndInv, TypeOK

(* Every reachable state satisfies the inductive invariant.                *)
THEOREM Invariant == Spec => []IndInv
  BY InitInv, NextInv, PTL DEF Spec

(* Every variable of the service, of its threads and of its processes only *)
(* ever holds a value of its type.                                         *)
THEOREM TypeCorrect == Spec => []TypeOK
<1>1. IndInv => TypeOK
  BY DEF IndInv
<1> QED
  BY <1>1, Invariant, PTL

(* No interleaving of requests, releases, exits and a shutdown leaves a     *)
(* selector on the screen that nobody tracks and nobody has killed.        *)
THEOREM OrphanFree == Spec => []NoOrphanSelector
<1>1. IndInv => NoOrphanSelector
  BY DEF IndInv
<1> QED
  BY <1>1, Invariant, PTL

(* The service never signals a pid it has already waited for.              *)
THEOREM PidSafe == Spec => []HeldPidUnreaped
<1>1. IndInv => HeldPidUnreaped
  BY DEF IndInv, TrackInv, HeldPidUnreaped
<1> QED
  BY <1>1, Invariant, PTL

(* However the reapers race, each exit is reported once or, when a waiter   *)
(* was to swallow it, never.                                               *)
THEOREM ReportedOnce == Spec => []ExitReportedOnce
<1>1. IndInv => ExitReportedOnce
  BY DEF IndInv
<1> QED
  BY <1>1, Invariant, PTL

---------------------------------------------------------------------------
(* The events                                                              *)

(* An event about the tracked process is about the newest capture.         *)
LEMMA TrackedEvent ==
  ASSUME IndInv, NEW c \in Child, Tracked(c), event'.child = c, action' = action,
         \A d \in Child : d # c => phase'[d] = phase[d]
  PROVE  EventFollowsNewest
<1>1. \A d \in Child : d > c /\ action[d] \in Exclusive => phase[d] = "unborn"
  BY DEF IndInv, TrackInv
<1>2. \A d \in Child : d > c => d # c
  OBVIOUS
<1> QED
  BY <1>1, <1>2 DEF EventFollowsNewest

LEMMA FollowStep == IndInv /\ [Next]_vars => EventFollowsNewest
<1> SUFFICES ASSUME IndInv, [Next]_vars PROVE EventFollowsNewest
  OBVIOUS
<1>0. /\ ServiceType /\ ThreadType /\ ProcessType
      /\ MutexInv /\ StopInv /\ TrackInv
  BY DEF IndInv, TypeOK
<1>1. ASSUME event' = event PROVE EventFollowsNewest
  BY <1>1 DEF EventFollowsNewest
<1>2. ASSUME NEW w \in Worker, Shutdown(w) PROVE EventFollowsNewest
  BY <1>2, <1>1 DEF Shutdown
<1>3. ASSUME NEW w \in Worker, Toggle(w) PROVE EventFollowsNewest
  <2>1. CASE phase[active] = "reaped"
    BY <1>3, <1>1, <2>1 DEF Toggle
  <2>2. CASE phase[active] # "reaped"
    <3>1. active \in Child /\ Tracked(active)
      BY <1>0, <1>3 DEF Toggle, Toggles, ServiceType, Tracked
    <3>2. /\ FinishSignal(active) /\ event'.child = active /\ action' = action
      BY <1>3, <2>2 DEF Toggle, SetEvent
    <3>3. \A d \in Child : d # active => phase'[d] = phase[d]
      BY <1>0, <3>2 DEF FinishSignal, ProcessType
    <3> QED
      BY <3>1, <3>2, <3>3, TrackedEvent
  <2> QED
    BY <2>1, <2>2
<1>4. ASSUME NEW w \in Worker, Launch(w) PROVE EventFollowsNewest
  <2>1. /\ event'.child = spawned + 1 /\ spawned + 1 \in Child
        /\ \A d \in Child : d # spawned + 1 => phase'[d] = phase[d]
    BY <1>0, <1>4 DEF Launch, SetEvent, ProcessType
  <2>2. \A d \in Child : d > spawned + 1 => phase'[d] = "unborn"
    BY <1>0, <2>1 DEF TrackInv, ProcessType
  <2> QED
    BY <2>1, <2>2 DEF EventFollowsNewest
<1>5. ASSUME NEW w \in Worker, ForwarderFails(w) PROVE EventFollowsNewest
  BY <1>5, <1>1 DEF ForwarderFails
<1>6. CASE StopTake
  BY <1>6, <1>1 DEF StopTake
<1>7. CASE StopKill
  BY <1>7, <1>1 DEF StopKill, service
<1>8. ASSUME Stopping, event'.child = stopping, action' = action,
             \A d \in Child : d # stopping => phase'[d] = phase[d]
      PROVE  EventFollowsNewest
  <2>1. stopping \in Child /\ Tracked(stopping)
    BY <1>0, <1>8 DEF StopInv, ServiceType, Tracked
  <2> QED
    BY <1>8, <2>1, TrackedEvent
<1>9. CASE StopReap
  <2>1. Stopping /\ event'.child = stopping /\ action' = action
    BY <1>9 DEF StopReap, Stopping, FinishAction, SetEvent
  <2>2. \A d \in Child : d # stopping => phase'[d] = phase[d]
    BY <1>0, <1>9 DEF StopReap, ProcessType
  <2> QED
    BY <1>8, <2>1, <2>2
<1>10. CASE StopDefer
  BY <1>8, <1>10 DEF StopDefer, Stopping, SetEvent, bodies
<1>11. CASE Exit
  BY <1>11, <1>1 DEF Exit, service
<1>12. ASSUME NEW t \in Thread, LockReleases(t) PROVE EventFollowsNewest
  <2>1. /\ active \in Child /\ event'.child = active
        /\ action' = action /\ phase' = phase
    BY <1>12, ReleaseEffect DEF bodies
  <2>2. Tracked(active)
    BY DEF Tracked
  <2> QED
    BY <2>1, <2>2, TrackedEvent
<1>13. ASSUME NEW t \in Thread, TryWaitReaps(t) PROVE EventFollowsNewest
  <2>1. /\ active \in Child /\ action' = action
        /\ phase' = [phase EXCEPT ![active] = "reaped"]
    BY <1>13, ReapEffect
  <2>2. event'.child = active
    BY <1>13, ReapEffect DEF FinishAction, SetEvent
  <2>3. \A d \in Child : d # active => phase'[d] = phase[d]
    BY <1>0, <2>1 DEF ProcessType
  <2>4. Tracked(active)
    BY DEF Tracked
  <2> QED
    BY <2>1, <2>2, <2>3, <2>4, TrackedEvent
<1>14. ASSUME NEW c \in Child, Watch(c) PROVE EventFollowsNewest
  BY <1>14 DEF EventFollowsNewest, Watch, FinishAction, SetEvent, Exclusive
<1>15. ASSUME NEW c \in Child, BackgroundReap(c) PROVE EventFollowsNewest
  BY <1>15, <1>1 DEF BackgroundReap, service
<1>16. ASSUME NEW c \in Child, LifeStep(c) PROVE EventFollowsNewest
  BY <1>0, <1>16, <1>1, LifeSteps DEF Lives, service
<1>17. CASE QuietStep
  BY <1>0, <1>17, <1>1, QuietSteps DEF Quiet
<1>18. CASE UNCHANGED vars
  BY <1>18, <1>1 DEF vars, service
<1> QED
  BY <1>2, <1>3, <1>4, <1>5, <1>6, <1>7, <1>9, <1>10, <1>11, <1>12, <1>13, <1>14,
     <1>15, <1>16, <1>17, <1>18, StepCases
  DEF LoudStep

(* A late completion never overwrites the event of a newer capture.        *)
THEOREM EventsInOrder == Spec => EventsFollowNewestCapture
<1>1. IndInv /\ [Next]_vars => [EventFollowsNewest]_vars
  BY FollowStep
<1> QED
  BY <1>1, Invariant, PTL DEF Spec, EventsFollowNewestCapture

---------------------------------------------------------------------------
(* The implementation of ScreenOwner                                       *)

ScreenStep == [Screen!Next]_(Screen!vars)

(* At most one selector: the one tracked, or the one being stopped.        *)
LEMMA AtMostOne ==
  ASSUME IndInv, NEW c \in Child, NEW d \in Child, Selector(c), Selector(d)
  PROVE  c = d /\ (running => active = c)
<1>0. ThreadType /\ StopInv /\ NoOrphanSelector /\ c \in Selectors /\ d \in Selectors
  BY DEF IndInv, TypeOK, Selectors
<1>1. CASE Stopped
  BY <1>0, <1>1 DEF StopInv, NoOrphanSelector, Tracked, Stopping
<1>2. CASE ~Stopped
  BY <1>0, <1>2 DEF StopInv, NoOrphanSelector, Tracked, Stopping, Stopped
<1> QED
  BY <1>1, <1>2

LEMMA SameScreen ==
  ASSUME UNCHANGED <<action, phase>>, running' = running \/ running' = FALSE
  PROVE  ScreenStep
<1>1. Selectors' = Selectors
  BY DEF Selectors, Selector
<1> QED
  BY <1>1 DEF ScreenStep, Screen!Next, Screen!Close, Screen!vars

(* A step of one process that does not put it on the screen.               *)
LEMMA OneProcess ==
  ASSUME IndInv, NEW c \in Child, running' = running,
         \A d \in Child : d # c => action'[d] = action[d] /\ phase'[d] = phase[d],
         Selector(c)' => Selector(c)
  PROVE  ScreenStep
<1>1. \A d \in Child : d # c => (Selector(d)' <=> Selector(d))
  BY DEF Selector
<1>2. CASE Selector(c) <=> Selector(c)'
  <2>1. Selectors' = Selectors
    BY <1>1, <1>2 DEF Selectors
  <2> QED
    BY <2>1 DEF ScreenStep, Screen!vars
<1>3. CASE Selector(c) /\ ~Selector(c)'
  <2>1. Selectors # {} /\ Selectors' = {}
    BY <1>1, <1>3, AtMostOne DEF Selectors
  <2> QED
    BY <2>1 DEF ScreenStep, Screen!Next, Screen!Leave, Screen!vars
<1> QED
  BY <1>2, <1>3

LEMMA TakesScreen ==
  ASSUME IndInv, NEW w \in Worker, Launch(w), request[w] \in Exclusive,
         NEW c \in Child, c = spawned + 1
  PROVE  ScreenStep
<1>0. ThreadType /\ ProcessType
  BY DEF IndInv, TypeOK
<1>1. /\ running /\ running' = running /\ active = None
      /\ action'[c] \in Exclusive /\ phase'[c] = "boot"
      /\ \A d \in Child : d # c => action'[d] = action[d] /\ phase'[d] = phase[d]
  BY <1>0 DEF Launch, MayLaunch, ProcessType
<1>2. Selectors = {}
  BY <1>1, AtMostOne DEF Selectors
<1>3. Selectors' = {c}
  <2>1. Selector(c)'
    BY <1>1 DEF Selector
  <2>2. \A d \in Child : d # c => ~Selector(d)'
    BY <1>1, <1>2 DEF Selector, Selectors
  <2> QED
    BY <1>1, <2>1, <2>2 DEF Selectors
<1> QED
  BY <1>1, <1>2, <1>3 DEF ScreenStep, Screen!Next, Screen!Take, Screen!vars


(* Every step of the service or of a process is a step of the screen, or   *)
(* leaves it as it is.                                                     *)
LEMMA ImplementsStep == IndInv /\ [Next]_vars => ScreenStep
<1> SUFFICES ASSUME IndInv, [Next]_vars PROVE ScreenStep
  OBVIOUS
<1>0. /\ ServiceType /\ ThreadType /\ ProcessType
      /\ MutexInv /\ StopInv /\ TrackInv
  BY DEF IndInv, TypeOK
<1>1. ASSUME NEW w \in Worker, Shutdown(w) PROVE ScreenStep
  BY <1>1, SameScreen DEF Shutdown, bodies
<1>2. ASSUME NEW w \in Worker, Toggle(w) PROVE ScreenStep
  <2>1. CASE phase[active] = "reaped"
    BY <1>2, <2>1, SameScreen DEF Toggle
  <2>2. CASE phase[active] # "reaped"
    <3>1. active \in Child /\ running' = running /\ action' = action /\ FinishSignal(active)
      BY <1>0, <1>2, <2>2 DEF Toggle, Toggles, ServiceType
    <3> QED
      <4>1. PICK c \in Child : c = active
        BY <3>1
      <4>2. \A d \in Child : d # c => phase'[d] = phase[d]
        BY <1>0, <3>1, <4>1 DEF FinishSignal, ProcessType
      <4>3. phase'[c] = phase[c] \/ phase'[c] = "zombie"
        BY <1>0, <3>1, <4>1 DEF FinishSignal, ProcessType
      <4> QED
        BY <3>1, <4>1, <4>2, <4>3, OneProcess DEF Selector
  <2> QED
    BY <2>1, <2>2
<1>3. ASSUME NEW w \in Worker, Launch(w) PROVE ScreenStep
  <2>1. PICK c \in Child : c = spawned + 1
    BY <1>0, <1>3 DEF Launch, ProcessType
  <2>2. CASE request[w] \in Exclusive
    BY <1>3, <2>1, <2>2, TakesScreen
  <2>3. CASE request[w] \notin Exclusive
    <3>1. /\ running' = running /\ action'[c] \notin Exclusive
          /\ \A d \in Child : d # c => action'[d] = action[d] /\ phase'[d] = phase[d]
      BY <1>0, <1>3, <2>1, <2>3 DEF Launch, ProcessType
    <3> QED
      BY <3>1, OneProcess DEF Selector
  <2> QED
    BY <2>2, <2>3
<1>4. ASSUME NEW w \in Worker, ForwarderFails(w) PROVE ScreenStep
  <2>1. PICK c \in Child : c = spawned + 1
    BY <1>0, <1>4 DEF ForwarderFails, ProcessType
  <2>2. /\ running' = running /\ phase'[c] = "reaped"
        /\ \A d \in Child : d # c => action'[d] = action[d] /\ phase'[d] = phase[d]
    BY <1>0, <1>4, <2>1 DEF ForwarderFails, ProcessType
  <2> QED
    BY <2>2, OneProcess DEF Selector
<1>5. CASE StopTake
  BY <1>5, SameScreen DEF StopTake, bodies
<1>6. CASE StopKill
  BY <1>6, SameScreen DEF StopKill, service
<1>7. ASSUME NEW c \in Child, phase' = [phase EXCEPT ![c] = "reaped"],
             action' = action, running' = running
      PROVE  ScreenStep
  <2>1. phase'[c] = "reaped" /\ \A d \in Child : d # c => phase'[d] = phase[d]
    BY <1>0, <1>7 DEF ProcessType
  <2> QED
    BY <1>7, <2>1, OneProcess DEF Selector
<1>8. CASE StopReap
  <2>1. PICK c \in Child : c = stopping
    BY <1>0, <1>8 DEF StopReap, StopInv, Stopping, ServiceType
  <2> QED
    BY <1>7, <1>8, <2>1 DEF StopReap
<1>9. CASE StopDefer
  BY <1>9, SameScreen DEF StopDefer, bodies
<1>10. CASE Exit
  BY <1>10, SameScreen DEF Exit, service, bodies
<1>11. ASSUME NEW t \in Thread, LockReleases(t) PROVE ScreenStep
  BY <1>11, SameScreen, ReleaseEffect DEF bodies
<1>12. ASSUME NEW t \in Thread, TryWaitReaps(t) PROVE ScreenStep
  <2>1. PICK c \in Child : c = active
    BY <1>12, ReapEffect
  <2> QED
    BY <1>7, <1>12, <2>1, ReapEffect
<1>13. ASSUME NEW c \in Child, Watch(c) PROVE ScreenStep
  BY <1>7, <1>13 DEF Watch
<1>14. ASSUME NEW c \in Child, BackgroundReap(c) PROVE ScreenStep
  BY <1>7, <1>14 DEF BackgroundReap, service
<1>15. ASSUME NEW c \in Child, LifeStep(c) PROVE ScreenStep
  <2>1. Lives(c)
    BY <1>0, <1>15, LifeSteps
  <2>2. /\ running' = running /\ action' = action
        /\ \A d \in Child : d # c => phase'[d] = phase[d]
    BY <2>1 DEF Lives, service
  <2>3. Selector(c)' => Selector(c)
    BY <2>1, <2>2 DEF Lives, Selector
  <2> QED
    BY <2>2, <2>3, OneProcess
<1>16. CASE QuietStep
  BY <1>0, <1>16, SameScreen, QuietSteps DEF Quiet, bodies
<1>17. CASE UNCHANGED vars
  BY <1>17, SameScreen DEF vars, service, bodies
<1> QED
  BY <1>1, <1>2, <1>3, <1>4, <1>5, <1>6, <1>8, <1>9, <1>10, <1>11, <1>12, <1>13,
     <1>14, <1>15, <1>16, <1>17, StepCases
  DEF LoudStep

(* The selectors on the screen behave like one owner behind a door that a  *)
(* shutdown closes for good, whatever the service believes.                *)
THEOREM Exclusivity == Spec => ExclusiveScreen
<1>1. Init => Screen!Init
  BY DEF Init, Screen!Init, Selectors, Selector
<1>2. IndInv /\ [Next]_vars => [Screen!Next]_(Screen!vars)
  BY ImplementsStep DEF ScreenStep
<1> QED
  BY <1>1, <1>2, Invariant, PTL DEF Spec, ExclusiveScreen, Screen!Spec
=============================================================================
