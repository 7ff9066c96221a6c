----------------------------- MODULE PartsProofs ------------------------------
(*****************************************************************************)
(* Parts of the services that are proved apart, for every bound. Keys lead   *)
(* to what they name: the service of the portal's shortcuts and the portal   *)
(* agree on what is granted, whatever order calls, answers, signals, timers  *)
(* and restarts come in (PortalShortcuts); and the bindings in niri's file   *)
(* are the user's and the managed ones, whatever fails or is killed          *)
(* (NiriBindings). And a picture is prepared as defined (ImagePrep): the     *)
(* queue covers its window, a closing is an erosion after the dilation it    *)
(* belongs to, and the running sums of threshold and quantiles are those of  *)
(* the greys passed.                                                         *)
(*****************************************************************************)
EXTENDS PortalShortcuts, NiriBindings, ImagePrep, FiniteSetTheorems, SequenceTheorems, WellFoundedInduction,
        TLAPS

-----------------------------------------------------------------------------
(* Portal shortcuts: service and portal as one record, so that a handler   *)
(* can be followed change by change.                                       *)
Now == [phase |-> scPhase, enabled |-> scEnabled, session |-> scSession, pending |-> scPending,
        bindings |-> scBindings, sequence |-> scSequence, live |-> ptLive, bound |-> ptBound,
        asked |-> ptAsked, out |-> ptOut]

Signals == [type : {"reply", "response", "changed", "closed", "owner", "key"}, token : Nat,
            code : {0, 1, 2}, ids : SUBSET (ShortcutIds \cup {"moved"})]
Messages == Signals
PendingOnes == [token : Nat, kind : RequestKinds, moved : BOOLEAN]
AskedOnes == [token : Nat, kind : RequestKinds, session : Nat, moved : BOOLEAN, stage : {"sent", "late", "open"}]
States == [phase : ShortcutPhases, enabled : BOOLEAN, session : Nat, pending : SUBSET PendingOnes,
           bindings : SUBSET ShortcutIds, sequence : Nat, live : SUBSET Nat, bound : SUBSET Nat,
           asked : SUBSET AskedOnes, out : Seq(Messages)]

Works(it) == it.phase \in {"active", "partial"}
SessionEnds(m, s) == (m.type = "owner" /\ m.code # 1) \/ (m.type = "closed" /\ m.token = s)
Ends(m, s) == SessionEnds(m, s) \/ (m.type = "changed" /\ m.token = s)

(* Tokens are given out in order; no session and no path is the number 0.  *)
TokensGiven(it) ==
    /\ it.session <= it.sequence
    /\ \A p \in it.pending : p.token # 0 /\ p.token <= it.sequence
    /\ \A r \in it.asked : r.token # 0 /\ r.token <= it.sequence /\ r.session <= it.sequence
    /\ \A t \in it.live : t # 0 /\ t <= it.sequence
    /\ \A i \in DOMAIN it.out : /\ it.out[i].token <= it.sequence
                                /\ it.out[i].type \in {"response", "changed"} => it.out[i].token # 0

(* The service has one request out at most, for the session it has.        *)
OneOut(it) ==
    /\ it.session # NoSession \/ it.pending # {} => it.enabled
    /\ it.bindings # {} => it.session # NoSession
    /\ \A p, q \in it.pending : p = q
    /\ \A p \in it.pending : p.kind = "Create" <=> it.session = NoSession

(* What the portal was asked: a token is for one request, which becomes    *)
(* one response and then perhaps a session; keys are asked for on the      *)
(* session of the service, if the session lives.                           *)
AskedWell(it, r) ==
    /\ \A q \in it.asked : q.token = r.token => q = r
    /\ \A q \in it.asked : q.session # r.token
    /\ r.token # it.session /\ r.token \notin it.live
    /\ r.kind = "Create" <=> r.session = NoSession
    /\ r.kind = "Bind" /\ r.session \in it.live => r.session = it.session
    /\ \A p \in it.pending : p.token = r.token => p.kind = r.kind /\ r.session = it.session
    /\ \A i \in DOMAIN it.out :
         /\ it.out[i].type \in {"response", "changed", "closed"} => it.out[i].token # r.token
         /\ it.out[i].type = "response" => it.out[i].token # r.session

AskedOnce(it) == \A r \in it.asked : AskedWell(it, r)

(* What is on its way was true when it was sent, and ends come in order.   *)
OutInOrder(it) ==
    \A i \in DOMAIN it.out : LET m == it.out[i] IN
        /\ m.type = "response" =>
             /\ m.token # it.session
             /\ \A j \in DOMAIN it.out : /\ it.out[j].type = "response" /\ it.out[j].token = m.token => i = j
                                         /\ it.out[j].type = "changed" => it.out[j].token # m.token
        /\ m.type = "closed" => m.token \notin it.live
        /\ m.type = "owner" /\ m.code # 1 =>
             /\ it.session \notin it.live
             /\ \A j \in DOMAIN it.out : j < i /\ it.out[j].type = "response" => it.out[j].token \notin it.live

(* Keys that will be reported as granted to the session are grabbed, or    *)
(* something takes them back after the report, or the session ends.        *)
GrantsNews(it, m) ==
    \/ m.type = "changed" /\ m.token = it.session /\ m.ids # {}
    \/ /\ m.type = "response" /\ m.ids \ {"moved"} # {}
       /\ \E p \in it.pending : p.kind = "Bind" /\ p.token = m.token

GrantComing(it) ==
    \A i \in DOMAIN it.out :
        it.session # NoSession /\ GrantsNews(it, it.out[i]) =>
            \/ it.session \in it.bound
            \/ \E j \in DOMAIN it.out : SessionEnds(it.out[j], it.session) \/ (j > i /\ Ends(it.out[j], it.session))

GrantHeld(it) ==
    Works(it) => /\ it.enabled /\ it.bindings # {} /\ it.session # NoSession
                 /\ it.session \in it.bound \/ \E i \in DOMAIN it.out : Ends(it.out[i], it.session)

(* A session the portal does not have any more is about to be told so.     *)
LiveOrEnding(it) ==
    /\ it.session # NoSession /\ it.session \notin it.live => \E i \in DOMAIN it.out : SessionEnds(it.out[i], it.session)
    /\ \A i \in DOMAIN it.out : LET m == it.out[i] IN
        /\ m.type = "response" /\ m.code = 0 /\ m.token \notin it.live
        /\ \E p \in it.pending : p.kind = "Create" /\ p.token = m.token
        => \E j \in DOMAIN it.out : j > i /\ SessionEnds(it.out[j], m.token)

GrabsKnown(it) == it.bound \subseteq it.live /\ it.bound \subseteq {it.session}

Agreed(it) ==
    /\ it \in States
    /\ TokensGiven(it) /\ OneOut(it) /\ AskedOnce(it) /\ OutInOrder(it)
    /\ GrantComing(it) /\ GrantHeld(it) /\ GrabsKnown(it) /\ LiveOrEnding(it)

ShortcutsInv ==
    /\ Agreed(Now) /\ scGate \subseteq ShortcutIds /\ ptUp \in BOOLEAN
    /\ scSequence <= MaxTokens /\ Len(ptOut) <= MaxSignals

(* No hold outlives the grant it came under.                               *)
HeldBound == scGate \subseteq scBindings

LEMMA QueuePops ==
    ASSUME NEW out \in Seq(Messages), out # <<>>
    PROVE  /\ Tail(out) \in Seq(Messages) /\ Head(out) = out[1] /\ 1 \in DOMAIN out /\ Head(out) \in Messages
           /\ \A i \in DOMAIN Tail(out) : i + 1 \in DOMAIN out /\ Tail(out)[i] = out[i + 1]
           /\ \A i \in DOMAIN out : i # 1 => i - 1 \in DOMAIN Tail(out) /\ Tail(out)[i - 1] = out[i]
           /\ Len(Tail(out)) <= Len(out)
<1>1. Len(out) \in Nat \ {0} /\ Tail(out) \in Seq(Messages) /\ Len(Tail(out)) = Len(out) - 1
  OBVIOUS
<1>2. \A i \in 1 .. Len(out) - 1 : Tail(out)[i] = out[i + 1]
  OBVIOUS
<1> QED
  BY <1>1, <1>2

LEMMA QueueTakes ==
    ASSUME NEW out \in Seq(Messages), NEW m \in Messages
    PROVE  /\ Append(out, m) \in Seq(Messages) /\ Len(Append(out, m)) = Len(out) + 1 /\ DOMAIN out = 1 .. Len(out)
           /\ \A i \in DOMAIN out : i \in DOMAIN Append(out, m) /\ Append(out, m)[i] = out[i]
           /\ Len(out) + 1 \in DOMAIN Append(out, m) /\ Append(out, m)[Len(out) + 1] = m
           /\ \A i \in DOMAIN Append(out, m) : i \in DOMAIN out \/ (i = Len(out) + 1)
OBVIOUS

LEMMA QueueHolds ==
    ASSUME NEW out \in Seq(Messages)
    PROVE  \A i \in DOMAIN out : /\ i \in Nat /\ out[i] \in Messages
                                 /\ out[i].token \in Nat /\ out[i].ids \in SUBSET (ShortcutIds \cup {"moved"})
<1>1. \A i \in DOMAIN out : i \in Nat /\ out[i] \in Messages
  OBVIOUS
<1> QED
  BY <1>1 DEF Messages, Signals

(* The session is given up. *)
LEMMA GivesUp ==
    ASSUME NEW it, Agreed(it), NEW phase \in ShortcutPhases \ {"active", "partial"}, NEW enabled \in BOOLEAN
    PROVE  Agreed([it EXCEPT !.phase = phase, !.enabled = enabled, !.session = NoSession, !.pending = {},
                             !.bindings = {}, !.live = it.live \ {it.session}, !.bound = it.bound \ {it.session}])
<1> DEFINE new == [it EXCEPT !.phase = phase, !.enabled = enabled, !.session = NoSession, !.pending = {},
                             !.bindings = {}, !.live = it.live \ {it.session}, !.bound = it.bound \ {it.session}]
<1>1. it \in States
  BY DEF Agreed
<1>2. /\ new \in States /\ new.phase = phase /\ new.session = 0 /\ new.pending = {} /\ new.out = it.out
      /\ new.live = it.live \ {it.session} /\ new.bound = it.bound \ {it.session} /\ new.asked = it.asked
      /\ new.sequence = it.sequence /\ new.bindings = {}
  BY <1>1 DEF States, NoSession
<1> HIDE DEF new
<1>3. TokensGiven(new)
  BY <1>1, <1>2 DEF Agreed, TokensGiven, States
<1>4. OneOut(new) /\ GrantComing(new) /\ GrantHeld(new) /\ LiveOrEnding(new)
  BY <1>2 DEF OneOut, NoSession, GrantComing, GrantHeld, Works, LiveOrEnding
<1>5. AskedOnce(new)
  BY <1>1, <1>2 DEF Agreed, AskedOnce, AskedWell, TokensGiven, NoSession
<1>6. OutInOrder(new)
  BY <1>1, <1>2 DEF Agreed, OutInOrder, TokensGiven
<1>7. GrabsKnown(new)
  BY <1>1, <1>2 DEF Agreed, GrabsKnown
<1>8. Agreed(new)
  BY <1>2, <1>3, <1>4, <1>5, <1>6, <1>7 DEF Agreed
<1> QED
  BY <1>8 DEF new

(* What the service reports changes. *)
LEMMA Reports ==
    ASSUME NEW it, Agreed(it), NEW phase \in ShortcutPhases, NEW bindings \in SUBSET ShortcutIds,
           NEW pending \in SUBSET it.pending, bindings # {} => it.session # NoSession,
           phase \in {"active", "partial"} =>
              /\ bindings # {}
              /\ it.session \in it.bound \/ \E i \in DOMAIN it.out : Ends(it.out[i], it.session)
    PROVE  Agreed([it EXCEPT !.phase = phase, !.bindings = bindings, !.pending = pending])
<1> DEFINE new == [it EXCEPT !.phase = phase, !.bindings = bindings, !.pending = pending]
<1>1. it \in States
  BY DEF Agreed
<1>2. /\ new \in States /\ new.phase = phase /\ new.session = it.session /\ new.pending = pending /\ new.out = it.out
      /\ new.live = it.live /\ new.bound = it.bound /\ new.asked = it.asked /\ new.bindings = bindings
      /\ new.sequence = it.sequence /\ new.enabled = it.enabled
  BY <1>1 DEF States
<1> HIDE DEF new
<1>3. TokensGiven(new) /\ OneOut(new) /\ GrabsKnown(new)
  BY <1>2 DEF Agreed, TokensGiven, OneOut, GrabsKnown
<1>4. GrantHeld(new) /\ LiveOrEnding(new)
  BY <1>2 DEF Agreed, GrantHeld, Works, OneOut, LiveOrEnding
<1>5. AskedOnce(new)
  BY <1>2 DEF Agreed, AskedOnce, AskedWell
<1>6. OutInOrder(new)
  BY <1>2 DEF Agreed, OutInOrder
<1>7. GrantComing(new)
  BY <1>2 DEF Agreed, GrantComing, GrantsNews
<1>8. Agreed(new)
  BY <1>2, <1>3, <1>4, <1>5, <1>6, <1>7 DEF Agreed
<1> QED
  BY <1>8 DEF new

(* The main loop takes a message, whose end of a session was heeded.       *)
LEMMA Takes ==
    ASSUME NEW it, Agreed(it), it.out # <<>>,
           it.session = NoSession \/ ~SessionEnds(Head(it.out), it.session),
           Works(it) => ~Ends(Head(it.out), it.session)
    PROVE  Agreed([it EXCEPT !.out = Tail(it.out)])
<1> DEFINE out == Tail(it.out)
           new == [it EXCEPT !.out = out]
<1>1. it \in States /\ it.out \in Seq(Messages)
  BY DEF Agreed, States
<1>2. /\ out \in Seq(Messages) /\ Head(it.out) = it.out[1] /\ 1 \in DOMAIN it.out
      /\ \A i \in DOMAIN out : i + 1 \in DOMAIN it.out /\ out[i] = it.out[i + 1]
      /\ \A i \in DOMAIN it.out : i # 1 => i - 1 \in DOMAIN out /\ out[i - 1] = it.out[i]
  BY <1>1, QueuePops
<1>3. DOMAIN it.out \subseteq Nat /\ DOMAIN out \subseteq Nat
  BY <1>1, <1>2
<1> HIDE DEF out
<1>4. /\ new \in States /\ new.phase = it.phase /\ new.session = it.session /\ new.pending = it.pending
      /\ new.live = it.live /\ new.bound = it.bound /\ new.asked = it.asked /\ new.bindings = it.bindings
      /\ new.sequence = it.sequence /\ new.enabled = it.enabled /\ new.out = out
  BY <1>1, <1>2 DEF States
<1> HIDE DEF new
<1>5. TokensGiven(new)
  BY <1>2, <1>4 DEF Agreed, TokensGiven
<1>6. OneOut(new) /\ GrabsKnown(new)
  BY <1>4 DEF Agreed, OneOut, GrabsKnown
<1>7. AskedOnce(new)
  BY <1>2, <1>4 DEF Agreed, AskedOnce, AskedWell
<1>8. OutInOrder(new)
  <2> SUFFICES ASSUME NEW i \in DOMAIN out
               PROVE  /\ out[i].type = "response" =>
                           /\ out[i].token # it.session
                           /\ \A j \in DOMAIN out : /\ out[j].type = "response" /\ out[j].token = out[i].token => i = j
                                                    /\ out[j].type = "changed" => out[j].token # out[i].token
                      /\ out[i].type = "closed" => out[i].token \notin it.live
                      /\ out[i].type = "owner" /\ out[i].code # 1 =>
                           /\ it.session \notin it.live
                           /\ \A j \in DOMAIN out : j < i /\ out[j].type = "response" => out[j].token \notin it.live
    BY <1>4 DEF OutInOrder
  <2>1. /\ i + 1 \in DOMAIN it.out /\ out[i] = it.out[i + 1] /\ i \in Nat
        /\ \A j \in DOMAIN out : j + 1 \in DOMAIN it.out /\ out[j] = it.out[j + 1] /\ j \in Nat
    BY <1>2, <1>3
  <2> QED
    BY <2>1 DEF Agreed, OutInOrder
<1>9. GrantComing(new)
  <2> SUFFICES ASSUME NEW i \in DOMAIN out, it.session # NoSession, GrantsNews(it, out[i]), it.session \notin it.bound
               PROVE  \E j \in DOMAIN out : SessionEnds(out[j], it.session) \/ (j > i /\ Ends(out[j], it.session))
    BY <1>4 DEF GrantComing, GrantsNews
  <2>1. i + 1 \in DOMAIN it.out /\ out[i] = it.out[i + 1] /\ i \in Nat
    BY <1>2, <1>3
  <2>2. PICK j \in DOMAIN it.out : SessionEnds(it.out[j], it.session) \/ (j > i + 1 /\ Ends(it.out[j], it.session))
    BY <2>1 DEF Agreed, GrantComing
  <2>3. j # 1
    BY <1>2, <2>1, <2>2
  <2>4. j - 1 \in DOMAIN out /\ out[j - 1] = it.out[j] /\ j \in Nat
    BY <1>2, <1>3, <2>3
  <2>5. j > i + 1 => j - 1 > i
    BY <2>1, <2>4
  <2> QED
    BY <2>2, <2>4, <2>5
<1>10. GrantHeld(new)
  <2> SUFFICES ASSUME Works(it), it.session \notin it.bound PROVE \E j \in DOMAIN out : Ends(out[j], it.session)
    BY <1>4 DEF Agreed, GrantHeld, Works
  <2>1. PICK j \in DOMAIN it.out : Ends(it.out[j], it.session)
    BY DEF Agreed, GrantHeld
  <2>2. j # 1
    BY <1>2, <2>1
  <2> QED
    BY <1>2, <2>1, <2>2
<1>11. LiveOrEnding(new)
  <2>1. ASSUME it.session # NoSession, it.session \notin it.live
        PROVE  \E i \in DOMAIN out : SessionEnds(out[i], it.session)
    BY <1>2, <2>1 DEF Agreed, LiveOrEnding
  <2>2. ASSUME NEW i \in DOMAIN out, out[i].type = "response", out[i].code = 0, out[i].token \notin it.live,
               \E p \in it.pending : p.kind = "Create" /\ p.token = out[i].token
        PROVE  \E j \in DOMAIN out : j > i /\ SessionEnds(out[j], out[i].token)
    <3>1. i + 1 \in DOMAIN it.out /\ out[i] = it.out[i + 1] /\ i \in Nat
      BY <1>2, <1>3
    <3>2. PICK j \in DOMAIN it.out : j > i + 1 /\ SessionEnds(it.out[j], out[i].token)
      BY <2>2, <3>1 DEF Agreed, LiveOrEnding
    <3>3. j \in Nat /\ j # 1 /\ j - 1 > i
      BY <1>3, <3>1, <3>2
    <3> QED
      BY <1>2, <3>2, <3>3
  <2> QED
    BY <1>4, <2>1, <2>2 DEF LiveOrEnding
<1>12. Agreed(new)
  BY <1>11, <1>4, <1>5, <1>6, <1>7, <1>8, <1>9, <1>10 DEF Agreed
<1> QED
  BY <1>12 DEF new, out

(* A request is made, or a request of the portal is forgotten.             *)
LEMMA Requests ==
    ASSUME NEW it, Agreed(it), it.enabled, NEW kind \in RequestKinds, NEW moved \in BOOLEAN,
           kind = "Create" <=> it.session = NoSession
    PROVE  LET token == it.sequence + 1 IN
           Agreed([it EXCEPT !.sequence = token, !.pending = {[token |-> token, kind |-> kind, moved |-> FALSE]},
                             !.asked = it.asked \cup {[token |-> token, kind |-> kind, session |-> it.session,
                                                       moved |-> moved, stage |-> "sent"]}])
<1> DEFINE token == it.sequence + 1
           p == [token |-> token, kind |-> kind, moved |-> FALSE]
           r == [token |-> token, kind |-> kind, session |-> it.session, moved |-> moved, stage |-> "sent"]
           new == [it EXCEPT !.sequence = token, !.pending = {p}, !.asked = it.asked \cup {r}]
<1>1. it \in States
  BY DEF Agreed
<1>2. it.sequence \in Nat /\ it.session \in Nat /\ token \in Nat /\ token > it.sequence
  BY <1>1 DEF States
<1>3. /\ p \in PendingOnes /\ p.token = token /\ p.kind = kind
      /\ r \in AskedOnes /\ r.token = token /\ r.kind = kind /\ r.session = it.session
  BY <1>2 DEF PendingOnes, AskedOnes
<1> HIDE DEF p, r, token
<1>4. /\ new \in States /\ new.phase = it.phase /\ new.session = it.session /\ new.pending = {p} /\ new.out = it.out
      /\ new.live = it.live /\ new.bound = it.bound /\ new.asked = it.asked \cup {r} /\ new.bindings = it.bindings
      /\ new.sequence = token /\ new.enabled = it.enabled
  BY <1>1, <1>2, <1>3 DEF States
<1> HIDE DEF new
<1>5. /\ it.session # token /\ token # 0
      /\ \A q \in it.pending : q.token # token
      /\ \A q \in it.asked : q.token # token /\ q.session # token
      /\ token \notin it.live /\ it.session <= token
      /\ \A i \in DOMAIN it.out : it.out[i].token # token
  <2>1. /\ it.pending \subseteq PendingOnes /\ it.asked \subseteq AskedOnes /\ it.live \subseteq Nat
        /\ \A i \in DOMAIN it.out : it.out[i].token \in Nat
    BY <1>1, QueueHolds DEF States
  <2> QED
    BY <1>2, <2>1 DEF Agreed, TokensGiven, PendingOnes, AskedOnes, token
<1>6. TokensGiven(new)
  <2>1. /\ \A q \in it.asked : q.token \in Nat /\ q.session \in Nat
        /\ it.live \subseteq Nat /\ \A i \in DOMAIN it.out : it.out[i].token \in Nat
    BY <1>1, QueueHolds DEF States, AskedOnes
  <2> QED
    BY <1>2, <1>3, <1>4, <1>5, <2>1 DEF Agreed, TokensGiven
<1>7. OneOut(new) /\ GrabsKnown(new)
  BY <1>3, <1>4 DEF Agreed, OneOut, GrabsKnown
<1>8. GrantHeld(new)
  BY <1>4 DEF Agreed, GrantHeld, Works
<1>9. AskedOnce(new)
  <2>1. ASSUME NEW q \in it.asked PROVE AskedWell(new, q)
    BY <1>3, <1>4, <1>5 DEF Agreed, AskedOnce, AskedWell
  <2>2. AskedWell(new, r)
    BY <1>3, <1>4, <1>5 DEF Agreed, OutInOrder, AskedWell
  <2> QED
    BY <1>4, <2>1, <2>2 DEF AskedOnce
<1>10. OutInOrder(new)
  BY <1>4 DEF Agreed, OutInOrder
<1>11. GrantComing(new)
  BY <1>3, <1>4, <1>5 DEF Agreed, GrantComing, GrantsNews
<1>12. LiveOrEnding(new)
  BY <1>3, <1>4, <1>5 DEF Agreed, LiveOrEnding
<1>13. Agreed(new)
  BY <1>12, <1>4, <1>6, <1>7, <1>8, <1>9, <1>10, <1>11 DEF Agreed
<1> QED
  BY <1>13 DEF new, p, r, token

(* Requests go on at the portal, or end there. *)
LEMMA AskedGoOn ==
    ASSUME NEW it, Agreed(it), NEW asked \in SUBSET AskedOnes,
           \A r \in asked : \E q \in it.asked : r.token = q.token /\ r.kind = q.kind /\ r.session = q.session,
           \A q, r \in asked : q.token = r.token => q = r
    PROVE  Agreed([it EXCEPT !.asked = asked])
<1> DEFINE new == [it EXCEPT !.asked = asked]
<1>1. it \in States
  BY DEF Agreed
<1>2. /\ new \in States /\ new.phase = it.phase /\ new.session = it.session /\ new.pending = it.pending /\ new.out = it.out
      /\ new.live = it.live /\ new.bound = it.bound /\ new.asked = asked /\ new.bindings = it.bindings
      /\ new.sequence = it.sequence /\ new.enabled = it.enabled
  BY <1>1 DEF States
<1> HIDE DEF new
<1>3. TokensGiven(new) /\ OneOut(new) /\ GrabsKnown(new)
  BY <1>2 DEF Agreed, TokensGiven, OneOut, GrabsKnown
<1>4. OutInOrder(new) /\ GrantHeld(new)
  BY <1>2 DEF Agreed, OutInOrder, GrantHeld, Works
<1>5. GrantComing(new) /\ LiveOrEnding(new)
  BY <1>2 DEF Agreed, GrantComing, GrantsNews, LiveOrEnding
<1>6. AskedOnce(new)
  <2> SUFFICES ASSUME NEW r \in asked PROVE AskedWell(new, r)
    BY <1>2 DEF AskedOnce
  <2>1. PICK was \in it.asked : r.token = was.token /\ r.kind = was.kind /\ r.session = was.session
    OBVIOUS
  <2>2. ASSUME NEW q \in asked PROVE q.session # r.token
    <3>1. PICK other \in it.asked : q.session = other.session
      OBVIOUS
    <3> QED
      BY <2>1, <3>1 DEF Agreed, AskedOnce, AskedWell
  <2> QED
    BY <1>2, <2>1, <2>2 DEF Agreed, AskedOnce, AskedWell
<1>7. Agreed(new)
  BY <1>2, <1>3, <1>4, <1>5, <1>6 DEF Agreed
<1> QED
  BY <1>7 DEF new

(* The session that was asked for begins. *)
LEMMA Begins ==
    ASSUME NEW it, Agreed(it), it.session = NoSession, it.pending = {}, it.enabled,
           NEW token \in Nat \ {0}, token <= it.sequence,
           token \notin it.live => \E i \in DOMAIN it.out : SessionEnds(it.out[i], token),
           \A r \in it.asked : r.token # token /\ r.session # token,
           \A i \in DOMAIN it.out : /\ it.out[i].type \in {"response", "changed"} => it.out[i].token # token
                                    /\ it.out[i].type = "owner" /\ it.out[i].code # 1 => token \notin it.live
    PROVE  Agreed([it EXCEPT !.session = token])
<1> DEFINE new == [it EXCEPT !.session = token]
<1>1. it \in States
  BY DEF Agreed
<1>2. /\ new \in States /\ new.phase = it.phase /\ new.session = token /\ new.pending = {} /\ new.out = it.out
      /\ new.live = it.live /\ new.bound = it.bound /\ new.asked = it.asked /\ new.bindings = it.bindings
      /\ new.sequence = it.sequence /\ new.enabled = it.enabled
  BY <1>1 DEF States
<1> HIDE DEF new
<1>3. TokensGiven(new) /\ OneOut(new)
  BY <1>2 DEF Agreed, TokensGiven, OneOut
<1>4. it.bound = {} /\ GrabsKnown(new)
  BY <1>2 DEF Agreed, GrabsKnown, TokensGiven, NoSession
<1>5. GrantHeld(new) /\ ~Works(it)
  BY <1>2 DEF Agreed, GrantHeld, Works
<1>6. AskedOnce(new)
  BY <1>2 DEF Agreed, AskedOnce, AskedWell, TokensGiven, NoSession
<1>7. OutInOrder(new)
  BY <1>2 DEF Agreed, OutInOrder
<1>8. GrantComing(new) /\ LiveOrEnding(new)
  BY <1>2 DEF GrantComing, GrantsNews, LiveOrEnding
<1>9. Agreed(new)
  BY <1>2, <1>3, <1>4, <1>5, <1>6, <1>7, <1>8 DEF Agreed
<1> QED
  BY <1>9 DEF new

(* The portal sends; with what it sends sessions or their keys may end.    *)
LEMMA Sends ==
    ASSUME NEW it, Agreed(it), NEW m \in Messages, m.token <= it.sequence,
           NEW live \in SUBSET it.live, NEW bound \in SUBSET it.bound, bound \subseteq live,
           \A s \in it.live \ live : SessionEnds(m, s),
           \A s \in it.bound \ bound : Ends(m, s),
           m.type = "response" =>
              /\ m.token # 0 /\ m.token # it.session
              /\ \A r \in it.asked : r.token # m.token /\ r.session # m.token
              /\ \A i \in DOMAIN it.out : it.out[i].type \in {"response", "changed"} => it.out[i].token # m.token
              /\ \A p \in it.pending : p.token = m.token =>
                    /\ p.kind = "Bind" /\ m.ids \ {"moved"} # {} /\ it.session \in live => it.session \in bound
                    /\ p.kind = "Create" /\ m.code = 0 => m.token \in live,
           m.type = "changed" => /\ m.token = it.session /\ m.token # 0 /\ (m.ids # {} => m.token \in bound),
           m.type = "closed" => m.token \notin live /\ \A r \in it.asked : r.token # m.token,
           m.type = "owner" /\ m.code # 1 => live = {}
    PROVE  Agreed([it EXCEPT !.out = Append(it.out, m), !.live = live, !.bound = bound])
<1> DEFINE out == Append(it.out, m)
           last == Len(it.out) + 1
           new == [it EXCEPT !.out = out, !.live = live, !.bound = bound]
<1>1. it \in States /\ it.out \in Seq(Messages) /\ Len(it.out) \in Nat
  BY DEF Agreed, States
<1>2. /\ out \in Seq(Messages)
      /\ \A i \in DOMAIN it.out : i \in DOMAIN out /\ out[i] = it.out[i] /\ i \in Nat /\ i < last
      /\ last \in DOMAIN out /\ out[last] = m /\ last \in Nat
      /\ \A i \in DOMAIN out : i \in DOMAIN it.out \/ i = last
  BY <1>1, QueueTakes
<1> HIDE DEF out, last
<1>3. /\ new \in States /\ new.phase = it.phase /\ new.session = it.session /\ new.pending = it.pending
      /\ new.live = live /\ new.bound = bound /\ new.asked = it.asked /\ new.bindings = it.bindings
      /\ new.sequence = it.sequence /\ new.enabled = it.enabled /\ new.out = out
  BY <1>1, <1>2 DEF States
<1> HIDE DEF new
<1>4. TokensGiven(new)
  BY <1>2, <1>3 DEF Agreed, TokensGiven
<1>5. OneOut(new) /\ GrabsKnown(new)
  BY <1>3 DEF Agreed, OneOut, GrabsKnown
<1>6. AskedOnce(new)
  BY <1>2, <1>3 DEF Agreed, AskedOnce, AskedWell
<1>7. OutInOrder(new)
  <2>1. ASSUME NEW i \in DOMAIN it.out
        PROVE  /\ it.out[i].type = "response" =>
                    /\ it.out[i].token # it.session
                    /\ \A j \in DOMAIN out : /\ out[j].type = "response" /\ out[j].token = it.out[i].token => i = j
                                             /\ out[j].type = "changed" => out[j].token # it.out[i].token
               /\ it.out[i].type = "closed" => it.out[i].token \notin live
               /\ it.out[i].type = "owner" /\ it.out[i].code # 1 =>
                    /\ it.session \notin live
                    /\ \A j \in DOMAIN out : j < i /\ out[j].type = "response" => out[j].token \notin live
    BY <1>2 DEF Agreed, OutInOrder
  <2>2. /\ m.type = "response" =>
             \A j \in DOMAIN out : /\ out[j].type = "response" /\ out[j].token = m.token => last = j
                                   /\ out[j].type = "changed" => out[j].token # m.token
        /\ m.type = "closed" => m.token \notin live
        /\ m.type = "owner" /\ m.code # 1 => live = {}
    BY <1>2
  <2> QED
    BY <1>2, <1>3, <2>1, <2>2 DEF OutInOrder
<1>8. GrantHeld(new)
  BY <1>2, <1>3 DEF Agreed, GrantHeld, Works
<1>9. LiveOrEnding(new)
  BY <1>2, <1>3 DEF Agreed, LiveOrEnding
<1>10. GrantComing(new)
  <2>1. ASSUME NEW i \in DOMAIN it.out, it.session # NoSession, GrantsNews(it, it.out[i]), it.session \notin bound
        PROVE  \E j \in DOMAIN out : SessionEnds(out[j], it.session) \/ (j > i /\ Ends(out[j], it.session))
    BY <1>2, <2>1 DEF Agreed, GrantComing
  <2>2. ASSUME it.session # NoSession, GrantsNews(it, m), it.session \notin bound
        PROVE  \E j \in DOMAIN out : SessionEnds(out[j], it.session)
    <3>1. it.session \notin live
      BY <2>2 DEF GrantsNews
    <3> QED
      BY <1>3, <1>9, <2>2, <3>1 DEF LiveOrEnding
  <2> QED
    BY <1>2, <1>3, <2>1, <2>2 DEF GrantComing, GrantsNews
<1>11. Agreed(new)
  BY <1>3, <1>4, <1>5, <1>6, <1>7, <1>8, <1>9, <1>10 DEF Agreed
<1> QED
  BY <1>11 DEF new, out

(* A session begins at the portal. *)
LEMMA Lives ==
    ASSUME NEW it, Agreed(it), NEW token \in Nat \ {0}, token <= it.sequence, token # it.session,
           \A r \in it.asked : r.token # token /\ r.session # token,
           \A i \in DOMAIN it.out : it.out[i].type \in {"response", "closed"} => it.out[i].token # token
    PROVE  Agreed([it EXCEPT !.live = it.live \cup {token}])
<1> DEFINE new == [it EXCEPT !.live = it.live \cup {token}]
<1>1. it \in States
  BY DEF Agreed
<1>2. /\ new \in States /\ new.phase = it.phase /\ new.session = it.session /\ new.pending = it.pending /\ new.out = it.out
      /\ new.live = it.live \cup {token} /\ new.bound = it.bound /\ new.asked = it.asked /\ new.bindings = it.bindings
      /\ new.sequence = it.sequence /\ new.enabled = it.enabled
  BY <1>1 DEF States
<1> HIDE DEF new
<1>3. TokensGiven(new) /\ OneOut(new) /\ GrabsKnown(new) /\ GrantHeld(new)
  BY <1>2 DEF Agreed, TokensGiven, OneOut, GrabsKnown, GrantHeld, Works
<1>4. AskedOnce(new)
  BY <1>2 DEF Agreed, AskedOnce, AskedWell
<1>5. OutInOrder(new)
  BY <1>2 DEF Agreed, OutInOrder
<1>6. GrantComing(new) /\ LiveOrEnding(new)
  BY <1>2 DEF Agreed, GrantComing, GrantsNews, LiveOrEnding
<1>7. Agreed(new)
  BY <1>2, <1>3, <1>4, <1>5, <1>6 DEF Agreed
<1> QED
  BY <1>7 DEF new

(* The portal grabs the keys of the session. *)
LEMMA Grabs ==
    ASSUME NEW it, Agreed(it), it.session \in it.live
    PROVE  Agreed([it EXCEPT !.bound = it.bound \cup {it.session}])
<1> DEFINE new == [it EXCEPT !.bound = it.bound \cup {it.session}]
<1>1. it \in States
  BY DEF Agreed
<1>2. /\ new \in States /\ new.phase = it.phase /\ new.session = it.session /\ new.pending = it.pending /\ new.out = it.out
      /\ new.bound = it.bound \cup {it.session} /\ new.live = it.live /\ new.asked = it.asked /\ new.bindings = it.bindings
      /\ new.sequence = it.sequence /\ new.enabled = it.enabled
  BY <1>1 DEF States
<1> HIDE DEF new
<1>3. TokensGiven(new) /\ OneOut(new) /\ GrabsKnown(new) /\ GrantHeld(new)
  BY <1>2 DEF Agreed, TokensGiven, OneOut, GrabsKnown, GrantHeld, Works
<1>4. AskedOnce(new) /\ OutInOrder(new)
  BY <1>2 DEF Agreed, AskedOnce, AskedWell, OutInOrder
<1>5. GrantComing(new) /\ LiveOrEnding(new)
  BY <1>2 DEF Agreed, GrantComing, LiveOrEnding
<1>6. Agreed(new)
  BY <1>2, <1>3, <1>4, <1>5 DEF Agreed
<1> QED
  BY <1>6 DEF new

(* A reply says where the response of the pending request will be.         *)
LEMMA Follows ==
    ASSUME NEW it, Agreed(it), NEW pending \in SUBSET PendingOnes,
           \A p \in pending : \E q \in it.pending : p.token = q.token /\ p.kind = q.kind,
           \A p, q \in pending : p = q
    PROVE  Agreed([it EXCEPT !.pending = pending])
<1> DEFINE new == [it EXCEPT !.pending = pending]
<1>1. it \in States
  BY DEF Agreed
<1>2. /\ new \in States /\ new.phase = it.phase /\ new.session = it.session /\ new.pending = pending /\ new.out = it.out
      /\ new.live = it.live /\ new.bound = it.bound /\ new.asked = it.asked /\ new.bindings = it.bindings
      /\ new.sequence = it.sequence /\ new.enabled = it.enabled
  BY <1>1 DEF States
<1> HIDE DEF new
<1>3. TokensGiven(new) /\ GrabsKnown(new) /\ GrantHeld(new) /\ OutInOrder(new)
  BY <1>2 DEF Agreed, TokensGiven, GrabsKnown, GrantHeld, Works, OutInOrder
<1>4. OneOut(new)
  BY <1>2 DEF Agreed, OneOut
<1>5. AskedOnce(new)
  <2>1. ASSUME NEW r \in it.asked, NEW p \in pending, p.token = r.token PROVE p.kind = r.kind /\ r.session = it.session
    <3>1. PICK q \in it.pending : p.token = q.token /\ p.kind = q.kind
      OBVIOUS
    <3> QED
      BY ZenonT(60), <2>1, <3>1 DEF Agreed, AskedOnce, AskedWell
  <2> QED
    BY <1>2, <2>1 DEF Agreed, AskedOnce, AskedWell
<1>6. GrantComing(new)
  <2>1. \A m : GrantsNews(new, m) => GrantsNews(it, m)
    BY <1>2 DEF GrantsNews
  <2> QED
    BY <1>2, <2>1 DEF Agreed, GrantComing
<1>7. LiveOrEnding(new)
  <2>1. \A token : (\E p \in pending : p.kind = "Create" /\ p.token = token)
                     => \E p \in it.pending : p.kind = "Create" /\ p.token = token
    OBVIOUS
  <2> QED
    BY <1>2, <2>1 DEF Agreed, LiveOrEnding
<1>8. Agreed(new)
  BY <1>2, <1>3, <1>4, <1>5, <1>6, <1>7 DEF Agreed
<1> QED
  BY <1>8 DEF new

(* Nothing asked, nothing known. *)
Bare(phase, enabled, sequence) ==
    [phase |-> phase, enabled |-> enabled, session |-> NoSession, pending |-> {}, bindings |-> {},
     sequence |-> sequence, live |-> {}, bound |-> {}, asked |-> {}, out |-> <<>>]

LEMMA BareAgrees ==
    ASSUME NEW phase \in ShortcutPhases \ {"active", "partial"}, NEW enabled \in BOOLEAN, NEW sequence \in Nat
    PROVE  Agreed(Bare(phase, enabled, sequence))
<1> DEFINE new == Bare(phase, enabled, sequence)
<1>1. <<>> \in Seq(Messages) /\ DOMAIN <<>> = {}
  OBVIOUS
<1>2. /\ new \in States /\ new.phase = phase /\ new.session = 0 /\ new.pending = {} /\ DOMAIN new.out = {}
      /\ new.live = {} /\ new.bound = {} /\ new.asked = {} /\ new.bindings = {}
      /\ new.sequence = sequence /\ new.enabled = enabled
  BY <1>1 DEF States, Bare, NoSession
<1> HIDE DEF new
<1>3. TokensGiven(new) /\ OneOut(new) /\ AskedOnce(new) /\ OutInOrder(new) /\ GrantComing(new) /\ GrantHeld(new)
      /\ GrabsKnown(new) /\ LiveOrEnding(new)
  BY <1>2 DEF TokensGiven, OneOut, AskedOnce, AskedWell, OutInOrder, GrantComing, GrantHeld, Works, GrabsKnown, LiveOrEnding, NoSession
<1>4. Agreed(new)
  BY <1>2, <1>3 DEF Agreed
<1> QED
  BY <1>4 DEF new

(* Connect, when nothing is out and there is no session. *)
LEMMA Connects ==
    ASSUME NEW it, Agreed(it), it.enabled, it.session = NoSession, it.sequence = scSequence, it.pending = {},
           it.asked = ptAsked, scSequence <= MaxTokens, it.bindings = {}, Connect
    PROVE  /\ Agreed([it EXCEPT !.phase = scPhase', !.pending = scPending', !.sequence = scSequence', !.asked = ptAsked'])
           /\ scSequence' <= MaxTokens
<1>1. it \in States /\ scSequence \in Nat
  BY DEF Agreed, States
<1>2. CASE scPhase' = "unavailable" /\ scPending' = {} /\ UNCHANGED <<scSequence, ptAsked>>
  <2>1. Agreed([it EXCEPT !.phase = "unavailable", !.bindings = {}, !.pending = {}])
    BY Reports DEF ShortcutPhases
  <2>2. [it EXCEPT !.phase = scPhase', !.pending = scPending', !.sequence = scSequence', !.asked = ptAsked']
          = [it EXCEPT !.phase = "unavailable", !.bindings = {}, !.pending = {}]
    BY <1>1, <1>2 DEF States
  <2> QED
    BY SMTT(25), <1>2, <2>1, <2>2
<1>3. CASE scPhase' = "connecting" /\ Request("Create", NoSession, ptAsked)
  <2> DEFINE mid == [it EXCEPT !.phase = "connecting", !.bindings = {}, !.pending = {}]
             token == scSequence + 1
  <2>1. Agreed(mid) /\ mid.enabled /\ mid.session = NoSession /\ mid.sequence = scSequence /\ mid.asked = ptAsked
        /\ mid \in States
    BY <1>1, Reports DEF ShortcutPhases, States
  <2>2. PICK moved \in BOOLEAN :
            ptAsked' = ptAsked \cup {[token |-> token, kind |-> "Create", session |-> NoSession,
                                      moved |-> moved, stage |-> "sent"]}
    BY <1>3 DEF Request
  <2>3. scPending' = {[token |-> token, kind |-> "Create", moved |-> FALSE]} /\ scSequence' = token
        /\ scPhase' = "connecting" /\ scSequence < MaxTokens
    BY <1>3 DEF Request
  <2>4. [it EXCEPT !.phase = scPhase', !.pending = scPending', !.sequence = scSequence', !.asked = ptAsked']
          = [mid EXCEPT !.sequence = scSequence', !.pending = scPending', !.asked = ptAsked']
    BY <1>1, <2>3 DEF States
  <2> HIDE DEF mid
  <2>5. Agreed([mid EXCEPT !.sequence = scSequence', !.pending = scPending', !.asked = ptAsked'])
    BY <2>1, <2>2, <2>3, Requests DEF RequestKinds
  <2>6. scSequence' <= MaxTokens
    BY <1>1, <2>3, ShortcutsAssumption
  <2> QED
    BY <2>4, <2>5, <2>6
<1> QED
  BY <1>2, <1>3 DEF Connect

-----------------------------------------------------------------------------
(* The handlers. *)
LEMMA NowIs ==
    ASSUME ShortcutsInv
    PROVE  /\ Agreed(Now) /\ Now \in States /\ scSequence <= MaxTokens /\ scGate \subseteq ShortcutIds /\ ptUp \in BOOLEAN
           /\ scPhase \in ShortcutPhases /\ scEnabled \in BOOLEAN /\ scSession \in Nat /\ scPending \subseteq PendingOnes
           /\ scBindings \subseteq ShortcutIds /\ scSequence \in Nat /\ ptAsked \subseteq AskedOnes
           /\ ptOut \in Seq(Messages) /\ Len(ptOut) <= MaxSignals
           /\ \A p, q \in scPending : p = q
BY DEF ShortcutsInv, Agreed, Now, States, OneOut

LEMMA NowWillBe ==
    ASSUME NEW it \in States, it.phase = scPhase', it.enabled = scEnabled', it.session = scSession', it.pending = scPending',
           it.bindings = scBindings', it.sequence = scSequence', it.live = ptLive', it.bound = ptBound',
           it.asked = ptAsked', it.out = ptOut'
    PROVE  Now' = it
BY DEF States, Now

LEMMA NowHas ==
    /\ Now.phase = scPhase /\ Now.enabled = scEnabled /\ Now.session = scSession /\ Now.pending = scPending
    /\ Now.bindings = scBindings /\ Now.sequence = scSequence /\ Now.live = ptLive /\ Now.bound = ptBound
    /\ Now.asked = ptAsked /\ Now.out = ptOut
BY DEF Now

LEMMA EnableKeeps == ASSUME ShortcutsInv, Enable PROVE ShortcutsInv'
<1>1. CASE scPending = {} /\ scBindings = {}
  <2> DEFINE closed == [Now EXCEPT !.phase = "unavailable", !.enabled = TRUE, !.session = NoSession, !.pending = {},
                                   !.bindings = {}, !.live = Now.live \ {Now.session},
                                   !.bound = Now.bound \ {Now.session}]
  <2>1. Agreed(closed)
    BY NowIs, GivesUp DEF ShortcutPhases
  <2>2. /\ scEnabled' = TRUE /\ CloseSession /\ Connect /\ ptOut' = ptOut /\ ptUp' = ptUp
    BY <1>1 DEF Enable
  <2>3. /\ closed.enabled /\ closed.session = NoSession /\ closed.sequence = scSequence /\ closed.pending = {}
        /\ closed.asked = ptAsked /\ closed.bindings = {}
    BY <1>1 DEF Now
  <2>4. Now' = [closed EXCEPT !.phase = scPhase', !.pending = scPending', !.sequence = scSequence', !.asked = ptAsked']
    <3> DEFINE it == [closed EXCEPT !.phase = scPhase', !.pending = scPending', !.sequence = scSequence', !.asked = ptAsked']
    <3>1. it \in States
      BY <1>1, <2>1, <2>2, <2>3, NowIs, Connects DEF Agreed
    <3>2. closed \in States
      BY <2>1 DEF Agreed
    <3>3. /\ it.phase = scPhase' /\ it.pending = scPending' /\ it.sequence = scSequence' /\ it.asked = ptAsked'
          /\ it.enabled = closed.enabled /\ it.session = closed.session /\ it.bindings = closed.bindings
          /\ it.live = closed.live /\ it.bound = closed.bound /\ it.out = closed.out
      BY <3>2 DEF States
    <3>4. /\ closed.live = ptLive' /\ closed.bound = ptBound' /\ closed.out = ptOut' /\ closed.enabled = scEnabled'
          /\ closed.session = scSession' /\ closed.bindings = scBindings'
      BY <2>2, NowIs, NowHas DEF States, CloseSession
    <3> HIDE DEF it, closed
    <3>5. Now' = it
      BY <3>1, <3>3, <3>4, NowWillBe
    <3> QED
      BY <3>5 DEF it
  <2> HIDE DEF closed
  <2>5. Agreed(Now') /\ scSequence' <= MaxTokens
    BY <1>1, <2>1, <2>2, <2>3, <2>4, NowIs, Connects
  <2> QED
    BY <2>2, <2>5, NowIs DEF ShortcutsInv, CloseSession
<1>2. CASE ~(scPending = {} /\ scBindings = {})
  <2>1. scEnabled
    BY <1>2, NowIs DEF Agreed, Now, OneOut
  <2> QED
    BY <1>2, <2>1, NowIs DEF Enable, ShortcutsInv, Now
<1> QED
  BY <1>1, <1>2

(* The requests that are left at the portal were there before.             *)
WereAsked(asked) ==
    /\ asked \subseteq AskedOnes
    /\ \A r \in asked : \E q \in ptAsked : r.token = q.token /\ r.kind = q.kind /\ r.session = q.session
    /\ \A q, r \in asked : q.token = r.token => q = r

LEMMA FewerAsked == ASSUME ShortcutsInv, NEW asked \in SUBSET ptAsked PROVE WereAsked(asked)
BY NowIs, NowHas DEF Agreed, AskedOnce, AskedWell, WereAsked

WillBe(it) ==
    /\ it.phase = scPhase' /\ it.enabled = scEnabled' /\ it.session = scSession' /\ it.pending = scPending'
    /\ it.bindings = scBindings' /\ it.sequence = scSequence' /\ it.live = ptLive' /\ it.bound = ptBound'
    /\ it.asked = ptAsked'

(* The service gives up its session, with its requests or without; the     *)
(* messages are as they were.                                              *)
LEMMA StandsDown ==
    ASSUME ShortcutsInv, scEnabled' \in BOOLEAN, scPhase' \in ShortcutPhases \ {"active", "partial"},
           scPending' = {}, WereAsked(ptAsked'), scSequence' = scSequence,
           scSession' = NoSession, scBindings' = {}, ptLive' = ptLive \ {scSession}, ptBound' = ptBound \ {scSession}
    PROVE  \E it \in States : Agreed(it) /\ WillBe(it) /\ it.out = ptOut
<1> DEFINE closed == [Now EXCEPT !.phase = scPhase', !.enabled = scEnabled', !.session = NoSession, !.pending = {},
                                 !.bindings = {}, !.live = Now.live \ {Now.session},
                                 !.bound = Now.bound \ {Now.session}]
           it == [closed EXCEPT !.asked = ptAsked']
<1>1. Agreed(closed) /\ closed \in States
  BY NowIs, GivesUp DEF Agreed
<1>2. /\ closed.asked = ptAsked /\ closed.live = ptLive' /\ closed.bound = ptBound' /\ closed.out = ptOut
      /\ closed.enabled = scEnabled' /\ closed.session = scSession' /\ closed.bindings = scBindings'
      /\ closed.sequence = scSequence' /\ closed.phase = scPhase' /\ closed.pending = scPending'
  BY NowIs, NowHas DEF States
<1> HIDE DEF closed
<1>3. Agreed(it) /\ it \in States
  BY <1>1, <1>2, AskedGoOn DEF Agreed, WereAsked
<1>4. WillBe(it) /\ it.out = ptOut
  BY <1>1, <1>2 DEF States, WillBe
<1> QED
  BY <1>3, <1>4

LEMMA DisableKeeps == ASSUME ShortcutsInv, Disable \/ AuthorizationTimesOut PROVE ShortcutsInv'
<1>1. CASE \E phase \in {"disabled", "timeout"} : scEnabled' = FALSE /\ StandDown(phase) /\ UNCHANGED <<scSequence, ptUp, ptOut>>
  <2>1. /\ scEnabled' = FALSE /\ scPhase' \in {"disabled", "timeout"} /\ scPending' = {} /\ ptAsked' \subseteq ptAsked
        /\ CloseSession /\ UNCHANGED <<scSequence, ptUp, ptOut>>
    BY <1>1 DEF StandDown, CancelPending
  <2>2. Agreed(Now')
    <3>1. PICK it \in States : Agreed(it) /\ WillBe(it) /\ it.out = ptOut
      BY <2>1, FewerAsked, StandsDown DEF ShortcutPhases, CloseSession
    <3> QED
      BY <2>1, <3>1, NowWillBe DEF WillBe
  <2> QED
    BY <2>1, <2>2, NowIs DEF ShortcutsInv, CloseSession
<1>2. CASE scPhase' = "timeout" /\ UNCHANGED <<scEnabled, scSession, scPending, scBindings, scGate, ptLive, ptBound, ptAsked>>
           /\ UNCHANGED <<scSequence, ptUp, ptOut>>
  <2> DEFINE it == [Now EXCEPT !.phase = "timeout", !.bindings = scBindings, !.pending = scPending]
  <2>1. Agreed(it) /\ it \in States
    <3>1. scBindings # {} => scSession # NoSession
      BY NowIs, NowHas DEF Agreed, OneOut
    <3>2. Agreed(it)
      BY <3>1, NowIs, NowHas, Reports DEF ShortcutPhases
    <3> QED
      BY <3>2 DEF Agreed
  <2>2. Now' = it
    <3>1. /\ it.phase = "timeout" /\ it.pending = scPending /\ it.sequence = scSequence /\ it.asked = ptAsked
          /\ it.enabled = scEnabled /\ it.session = scSession /\ it.bindings = scBindings
          /\ it.live = ptLive /\ it.bound = ptBound /\ it.out = ptOut
      BY NowIs, NowHas DEF States
    <3> HIDE DEF it
    <3> QED
      BY <1>2, <2>1, <3>1, NowWillBe
  <2> QED
    BY <1>2, <2>1, <2>2, NowIs DEF ShortcutsInv
<1> QED
  BY <1>1, <1>2 DEF Disable, AuthorizationTimesOut

LEMMA RestartKeeps == ASSUME ShortcutsInv, ServiceRestarts PROVE ShortcutsInv'
<1>1. /\ ForgetSession /\ ptLive' = {} /\ ptBound' = {} /\ ptOut' = <<>> /\ UNCHANGED <<scEnabled, ptUp>>
  BY DEF ServiceRestarts
<1>2. Len(<<>>) = 0 /\ 0 <= MaxSignals
  BY ShortcutsAssumption
<1>3. CASE scPhase' \in {"disabled", "unavailable"} /\ scPending' = {} /\ ptAsked' = {} /\ UNCHANGED scSequence
  <2>1. Agreed(Bare(scPhase', scEnabled, scSequence))
    BY <1>3, NowIs, BareAgrees DEF ShortcutPhases
  <2>2. Now' = Bare(scPhase', scEnabled, scSequence)
    BY <1>1, <1>3 DEF Now, Bare, ForgetSession
  <2> QED
    BY <1>1, <1>2, <1>3, <2>1, <2>2, NowIs DEF ShortcutsInv, ForgetSession
<1>4. CASE scEnabled /\ scPhase' = "connecting" /\ Request("Create", NoSession, {})
  <2> DEFINE bare == Bare("connecting", scEnabled, scSequence)
             token == scSequence + 1
  <2>1. Agreed(bare) /\ bare.enabled /\ bare.session = NoSession /\ bare.sequence = scSequence /\ bare.asked = {}
    BY <1>4, NowIs, BareAgrees DEF ShortcutPhases, Bare
  <2>2. PICK moved \in BOOLEAN :
            ptAsked' = {} \cup {[token |-> token, kind |-> "Create", session |-> NoSession,
                                 moved |-> moved, stage |-> "sent"]}
    BY <1>4 DEF Request
  <2>3. scPending' = {[token |-> token, kind |-> "Create", moved |-> FALSE]} /\ scSequence' = token
        /\ scSequence < MaxTokens
    BY <1>4 DEF Request
  <2>4. Agreed([bare EXCEPT !.sequence = scSequence', !.pending = scPending', !.asked = ptAsked'])
    <3> HIDE DEF bare
    <3> QED
      BY <2>1, <2>2, <2>3, Requests DEF RequestKinds
  <2>5. Now' = [bare EXCEPT !.sequence = scSequence', !.pending = scPending', !.asked = ptAsked']
    <3> DEFINE it == [bare EXCEPT !.sequence = scSequence', !.pending = scPending', !.asked = ptAsked']
    <3>1. it \in States /\ bare \in States
      BY <2>1, <2>4 DEF Agreed
    <3>2. /\ it.phase = bare.phase /\ it.pending = scPending' /\ it.sequence = scSequence' /\ it.asked = ptAsked'
          /\ it.enabled = bare.enabled /\ it.session = bare.session /\ it.bindings = bare.bindings
          /\ it.live = bare.live /\ it.bound = bare.bound /\ it.out = bare.out
      BY <3>1 DEF States
    <3>3. /\ bare.phase = scPhase' /\ bare.live = ptLive' /\ bare.bound = ptBound' /\ bare.out = ptOut'
          /\ bare.enabled = scEnabled' /\ bare.session = scSession' /\ bare.bindings = scBindings'
      BY <1>1, <1>4 DEF Bare, ForgetSession
    <3> HIDE DEF it, bare
    <3>4. Now' = it
      BY <3>1, <3>2, <3>3, NowWillBe
    <3> QED
      BY <3>4 DEF it
  <2>6. scSequence' <= MaxTokens
    BY <2>3, NowIs, ShortcutsAssumption
  <2> QED
    BY <1>1, <1>2, <2>5, <2>4, <2>6, NowIs DEF ShortcutsInv, ForgetSession
<1> QED
  BY <1>3, <1>4 DEF ServiceRestarts

LEMMA CallTimesOutKeeps == ASSUME ShortcutsInv, NEW r \in ptAsked, CallTimesOut(r) PROVE ShortcutsInv'
<1> DEFINE late == [r EXCEPT !.stage = "late"]
           asked == (ptAsked \ {r}) \cup {late}
<1>1. ptAsked' = asked /\ UNCHANGED <<scEnabled, scSequence, ptUp, ptOut>>
  BY DEF CallTimesOut
<1>2. late \in AskedOnes /\ late.token = r.token /\ late.kind = r.kind /\ late.session = r.session
  BY NowIs DEF AskedOnes
<1> HIDE DEF late
<1>3. /\ asked \in SUBSET AskedOnes
      /\ \A q \in asked : \E was \in ptAsked : q.token = was.token /\ q.kind = was.kind /\ q.session = was.session
      /\ \A p, q \in asked : p.token = q.token => p = q
  <2>1. \A q, p \in ptAsked : q.token = p.token => q = p
    BY NowIs DEF Agreed, AskedOnce, AskedWell, Now
  <2> QED
    BY <1>2, <2>1, NowIs
<1> HIDE DEF asked
<1>4. CASE UNCHANGED <<scPending, scPhase, scSession, scBindings, scGate, ptLive, ptBound>>
  <2>1. Now' = [Now EXCEPT !.asked = asked]
    BY <1>1, <1>4 DEF Now
  <2>2. Now.asked = ptAsked
    BY DEF Now
  <2>3. Agreed([Now EXCEPT !.asked = asked])
    BY <1>3, <2>2, NowIs, AskedGoOn
  <2> QED
    BY <1>1, <1>4, <2>1, <2>3, NowIs DEF ShortcutsInv
<1>5. CASE /\ \E p \in scPending : p.token = r.token
           /\ scPending' = {p \in scPending : p.token # r.token} /\ scPhase' = "unavailable" /\ CloseSession
  <2>1. scPending' = {}
    BY <1>5, NowIs
  <2>2. PICK it \in States : Agreed(it) /\ WillBe(it) /\ it.out = ptOut
    BY <1>1, <1>3, <1>5, <2>1, NowIs, StandsDown DEF ShortcutPhases, CloseSession, WereAsked
  <2>3. Now' = it
    BY <1>1, <2>2, NowWillBe DEF WillBe
  <2> QED
    BY <1>1, <1>5, <2>2, <2>3, NowIs DEF ShortcutsInv, CloseSession
<1> QED
  BY <1>4, <1>5 DEF CallTimesOut

(* The handler of a message: what it changes, and then the message is gone. *)
LEMMA Handled ==
    ASSUME ShortcutsInv, NEW it, Agreed(it), WillBe(it), it.out = ptOut, ptOut # <<>>, ptOut' = Tail(ptOut),
           it.session = NoSession \/ ~SessionEnds(Head(ptOut), it.session),
           Works(it) => ~Ends(Head(ptOut), it.session),
           scSequence' <= MaxTokens, scGate' \subseteq ShortcutIds, ptUp' = ptUp
    PROVE  ShortcutsInv'
<1> DEFINE new == [it EXCEPT !.out = Tail(it.out)]
<1>1. Agreed(new) /\ new \in States /\ it \in States
  BY Takes DEF Agreed
<1>2. WillBe(new) /\ new.out = ptOut'
  BY <1>1 DEF WillBe, States
<1> HIDE DEF new
<1>3. Now' = new
  BY <1>1, <1>2, NowWillBe DEF WillBe
<1>4. Len(ptOut') <= MaxSignals
  <2>1. Len(ptOut) \in Nat \ {0} /\ Len(Tail(ptOut)) = Len(ptOut) - 1 /\ Len(ptOut) <= MaxSignals
    BY NowIs
  <2> QED
    BY <2>1, ShortcutsAssumption
<1> QED
  BY <1>1, <1>3, <1>4, NowIs DEF ShortcutsInv

(* A message that was taken and of which the service keeps its state.      *)
LEMMA Taken ==
    ASSUME ShortcutsInv, ptOut # <<>>, ~SessionEnds(Head(ptOut), scSession),
           scPhase \in {"active", "partial"} => ~Ends(Head(ptOut), scSession)
    PROVE  LET it == [Now EXCEPT !.out = Tail(ptOut)] IN
           /\ Agreed(it) /\ it \in States /\ it.phase = scPhase /\ it.enabled = scEnabled /\ it.session = scSession
           /\ it.pending = scPending /\ it.bindings = scBindings /\ it.sequence = scSequence /\ it.live = ptLive
           /\ it.bound = ptBound /\ it.asked = ptAsked /\ it.out = Tail(ptOut)
<1> DEFINE it == [Now EXCEPT !.out = Tail(Now.out)]
<1>1. Agreed(it) /\ it \in States
  <2>1. Agreed(it)
    BY NowIs, NowHas, Takes DEF Works
  <2> QED
    BY <2>1 DEF Agreed
<1>2. /\ it.phase = scPhase /\ it.enabled = scEnabled /\ it.session = scSession
      /\ it.pending = scPending /\ it.bindings = scBindings /\ it.sequence = scSequence /\ it.live = ptLive
      /\ it.bound = ptBound /\ it.asked = ptAsked /\ it.out = Tail(ptOut)
  BY NowIs, NowHas DEF States
<1> QED
  BY <1>1, <1>2, NowHas

LEMMA ShorterStill ==
    ASSUME ShortcutsInv, ptOut # <<>>, ptOut' = Tail(ptOut) PROVE Len(ptOut') <= MaxSignals
<1>1. Len(ptOut) \in Nat \ {0} /\ Len(Tail(ptOut)) = Len(ptOut) - 1 /\ Len(ptOut) <= MaxSignals
  BY NowIs
<1> QED
  BY <1>1, ShortcutsAssumption

LEMMA HeadIs ==
    ASSUME ShortcutsInv, ptOut # <<>>
    PROVE  /\ Next1 = ptOut[1] /\ 1 \in DOMAIN ptOut /\ Next1 \in Messages /\ Next1 = Head(ptOut)
           /\ \A i \in DOMAIN Tail(ptOut) : i + 1 \in DOMAIN ptOut /\ Tail(ptOut)[i] = ptOut[i + 1] /\ i \in Nat
           /\ \A i \in DOMAIN ptOut : i # 1 => i - 1 \in DOMAIN Tail(ptOut) /\ Tail(ptOut)[i - 1] = ptOut[i]
<1>1. ptOut \in Seq(Messages) /\ Tail(ptOut) \in Seq(Messages)
  BY NowIs, QueuePops
<1> QED
  BY <1>1, QueuePops, QueueHolds DEF Next1

LEMMA QuietMessagesKeep == ASSUME ShortcutsInv, OnStaleResponse \/ OnKey PROVE ShortcutsInv'
<1>1. /\ ptOut # <<>> /\ ptOut' = Tail(ptOut) /\ Next1.type \in {"response", "key"} /\ ptUp' = ptUp
      /\ UNCHANGED <<scPhase, scEnabled, scSession, scPending, scBindings, scSequence, ptLive, ptBound, ptAsked>>
  BY DEF OnStaleResponse, OnKey, Took, service, portal
<1>2. scGate' \subseteq ShortcutIds
  BY NowIs DEF OnStaleResponse, OnKey, service
<1>3. ~Ends(Head(ptOut), scSession)
  BY <1>1 DEF Next1, Ends, SessionEnds
<1>4. WillBe(Now)
  BY <1>1, NowHas DEF WillBe
<1> QED
  BY <1>1, <1>2, <1>3, <1>4, NowIs, NowHas, Handled DEF Ends

LEMMA ReplyKeeps == ASSUME ShortcutsInv, OnReply PROVE ShortcutsInv'
<1> DEFINE mine == {p \in scPending : p.token = Next1.token /\ ~p.moved}
           moved == "moved" \in Next1.ids
           pending == (scPending \ mine) \cup {[p EXCEPT !.moved = moved] : p \in mine}
<1>1. /\ ptOut # <<>> /\ ptOut' = Tail(ptOut) /\ Next1.type = "reply" /\ UNCHANGED <<scEnabled, scSequence, ptUp, ptAsked>>
  BY DEF OnReply, Took
<1>2. ~Ends(Head(ptOut), scSession) /\ ~SessionEnds(Head(ptOut), scSession)
  BY <1>1 DEF Next1, Ends, SessionEnds
<1>3. CASE scPending' = pending /\ UNCHANGED <<scPhase, scSession, scBindings, scGate, ptLive, ptBound>>
  <2> DEFINE it == [Now EXCEPT !.pending = pending]
  <2>1. moved \in BOOLEAN
    OBVIOUS
  <2> HIDE DEF moved
  <2>2. /\ \A p \in mine : [p EXCEPT !.moved = moved] \in PendingOnes /\ [p EXCEPT !.moved = moved].token = p.token
                           /\ [p EXCEPT !.moved = moved].kind = p.kind
        /\ mine \subseteq scPending
    BY <2>1, NowIs DEF PendingOnes
  <2>3. /\ pending \in SUBSET PendingOnes
        /\ \A p \in pending : \E q \in scPending : p.token = q.token /\ p.kind = q.kind
        /\ \A p, q \in pending : p = q
    BY ZenonT(60), <2>2, NowIs
  <2> HIDE DEF pending
  <2>4. Agreed(it) /\ it \in States
    <3>1. Agreed(it)
      BY <2>3, NowIs, NowHas, Follows
    <3> QED
      BY <3>1 DEF Agreed
  <2>5. WillBe(it) /\ it.out = ptOut /\ it.session = scSession
    BY <1>1, <1>3, NowIs, NowHas DEF WillBe, States
  <2> HIDE DEF it
  <2> QED
    BY <1>1, <1>2, <1>3, <2>4, <2>5, NowIs, Handled
<1>4. CASE mine # {} /\ scPending' = scPending \ mine /\ scPhase' = "unavailable" /\ CloseSession
  <2>1. scPending' = {} /\ WereAsked(ptAsked')
    BY <1>1, <1>4, NowIs, FewerAsked
  <2>2. PICK it \in States : Agreed(it) /\ WillBe(it) /\ it.out = ptOut
    BY <1>1, <1>4, <2>1, NowIs, StandsDown DEF ShortcutPhases, CloseSession
  <2>3. it.session = NoSession /\ ~Works(it) /\ scGate' = {}
    BY <1>4, <2>2 DEF WillBe, CloseSession, Works
  <2> QED
    BY <1>1, <2>2, <2>3, NowIs, Handled
<1> QED
  BY <1>3, <1>4 DEF OnReply

LEMMA RefusedKeeps == ASSUME ShortcutsInv, OnRefused PROVE ShortcutsInv'
<1>1. /\ ptOut # <<>> /\ ptOut' = Tail(ptOut) /\ UNCHANGED <<scSequence, ptUp, ptAsked>> /\ CloseSession
      /\ scEnabled' \in BOOLEAN /\ scPhase' \in {"denied", "unavailable"}
      /\ \E p \in scPending : scPending' = scPending \ {p}
  BY NowIs DEF OnRefused, Took, Answered
<1>2. scPending' = {} /\ WereAsked(ptAsked')
  BY <1>1, NowIs, FewerAsked
<1>3. PICK it \in States : Agreed(it) /\ WillBe(it) /\ it.out = ptOut
  BY <1>1, <1>2, NowIs, StandsDown DEF ShortcutPhases, CloseSession
<1>4. it.session = NoSession /\ ~Works(it) /\ scGate' = {}
  BY <1>1, <1>3 DEF WillBe, CloseSession, Works
<1> QED
  BY <1>1, <1>3, <1>4, NowIs, Handled

LEMMA ClosedKeeps == ASSUME ShortcutsInv, OnClosed PROVE ShortcutsInv'
<1>1. /\ ptOut # <<>> /\ ptOut' = Tail(ptOut) /\ Next1.type = "closed"
      /\ UNCHANGED <<scEnabled, scSequence, ptUp, ptLive, ptBound>>
  BY DEF OnClosed, Took
<1>2. CASE scSession = Next1.token /\ scSession # NoSession /\ CancelPending /\ ForgetSession /\ scPhase' = "closed"
  <2>1. scSession \notin ptLive /\ ptBound \subseteq ptLive
    BY <1>1, <1>2, NowIs, NowHas, HeadIs DEF Agreed, OutInOrder, GrabsKnown
  <2>2. scPending' = {} /\ WereAsked(ptAsked')
    BY <1>2, FewerAsked DEF CancelPending
  <2>3. ptLive' = ptLive \ {scSession} /\ ptBound' = ptBound \ {scSession}
    BY <1>1, <2>1
  <2>4. PICK it \in States : Agreed(it) /\ WillBe(it) /\ it.out = ptOut
    BY <1>1, <1>2, <2>2, <2>3, NowIs, StandsDown DEF ShortcutPhases, ForgetSession
  <2>5. it.session = NoSession /\ ~Works(it) /\ scGate' = {}
    BY <1>2, <2>4 DEF WillBe, ForgetSession, Works
  <2> QED
    BY <1>1, <2>4, <2>5, NowIs, Handled
<1>3. CASE ~(scSession = Next1.token /\ scSession # NoSession)
           /\ UNCHANGED <<scPhase, scSession, scPending, scBindings, scGate, ptAsked>>
  <2>1. WillBe(Now) /\ Now.out = ptOut /\ Now.session = scSession
    BY <1>1, <1>3, NowHas DEF WillBe
  <2>2. scSession = NoSession \/ ~Ends(Head(ptOut), scSession)
    BY <1>1, <1>3 DEF Next1, Ends, SessionEnds
  <2>3. Works(Now) => scSession # NoSession
    BY NowIs, NowHas DEF Agreed, GrantHeld
  <2> QED
    BY <1>1, <1>3, <2>1, <2>2, <2>3, NowIs, Handled DEF Ends
<1> QED
  BY <1>2, <1>3 DEF OnClosed

(* The answered request goes out of the way; a response ends nothing.      *)
LEMMA Responded ==
    ASSUME ShortcutsInv, Took("response"), NEW phase \in ShortcutPhases \ {"active", "partial"}
    PROVE  \E it \in States :
             /\ Agreed(it) /\ it.phase = phase /\ it.enabled = scEnabled /\ it.session = scSession
             /\ it.pending = {} /\ it.bindings = scBindings /\ it.sequence = scSequence /\ it.live = ptLive
             /\ it.bound = ptBound /\ it.asked = ptAsked /\ it.out = Tail(ptOut)
<1> DEFINE popped == [Now EXCEPT !.out = Tail(ptOut)]
           it == [popped EXCEPT !.phase = phase, !.bindings = popped.bindings, !.pending = {}]
<1>1. ptOut # <<>> /\ Next1.type = "response"
  BY DEF Took
<1>2. ~SessionEnds(Head(ptOut), scSession) /\ ~Ends(Head(ptOut), scSession)
  BY <1>1 DEF Next1, SessionEnds, Ends
<1>3. /\ Agreed(popped) /\ popped \in States /\ popped.enabled = scEnabled /\ popped.session = scSession
      /\ popped.bindings = scBindings /\ popped.sequence = scSequence /\ popped.live = ptLive
      /\ popped.bound = ptBound /\ popped.asked = ptAsked /\ popped.out = Tail(ptOut)
  BY <1>1, <1>2, Taken
<1> HIDE DEF popped
<1>4. popped.bindings \in SUBSET ShortcutIds /\ (popped.bindings # {} => popped.session # NoSession)
  BY <1>3, NowIs DEF Agreed, OneOut
<1>5. Agreed(it)
  BY <1>3, <1>4, Reports
<1>6. /\ it.phase = phase /\ it.enabled = scEnabled /\ it.session = scSession
      /\ it.pending = {} /\ it.bindings = scBindings /\ it.sequence = scSequence /\ it.live = ptLive
      /\ it.bound = ptBound /\ it.asked = ptAsked /\ it.out = Tail(ptOut)
  BY <1>3 DEF States
<1> HIDE DEF it
<1> QED
  BY <1>5, <1>6 DEF Agreed

(* And the next one is made. *)
LEMMA AsksNext ==
    ASSUME ShortcutsInv, NEW it \in States, Agreed(it), it.enabled, it.sequence = scSequence, it.asked = ptAsked,
           NEW kind \in RequestKinds, kind = "Create" <=> it.session = NoSession, Request(kind, it.session, ptAsked),
           it.phase = scPhase', it.enabled = scEnabled', it.session = scSession',
           it.bindings = scBindings', it.live = ptLive', it.bound = ptBound', it.out = ptOut',
           Len(ptOut') <= MaxSignals, scGate' \subseteq ShortcutIds, ptUp' = ptUp
    PROVE  ShortcutsInv'
<1> DEFINE token == scSequence + 1
           new == [it EXCEPT !.sequence = scSequence', !.pending = scPending', !.asked = ptAsked']
<1>1. PICK moved \in BOOLEAN :
          ptAsked' = ptAsked \cup {[token |-> token, kind |-> kind, session |-> it.session,
                                    moved |-> moved, stage |-> "sent"]}
  BY DEF Request
<1>2. scPending' = {[token |-> token, kind |-> kind, moved |-> FALSE]} /\ scSequence' = token
      /\ scSequence < MaxTokens
  BY DEF Request
<1>3. Agreed(new)
  BY <1>1, <1>2, Requests
<1>4. /\ new.phase = it.phase /\ new.enabled = it.enabled /\ new.session = it.session /\ new.bindings = it.bindings
      /\ new.live = it.live /\ new.bound = it.bound /\ new.out = it.out
      /\ new.sequence = scSequence' /\ new.pending = scPending' /\ new.asked = ptAsked'
  BY DEF States
<1> HIDE DEF new
<1>5. Now' = new
  BY <1>3, <1>4, NowWillBe DEF Agreed
<1>6. scSequence' <= MaxTokens
  BY <1>2, NowIs, ShortcutsAssumption
<1> QED
  BY <1>3, <1>5, <1>6, NowIs DEF ShortcutsInv

LEMMA ListedKeeps == ASSUME ShortcutsInv, OnListed PROVE ShortcutsInv'
<1>1. /\ Took("response") /\ scSession # NoSession /\ scPhase' = "authorizing" /\ Request("Bind", scSession, ptAsked)
      /\ UNCHANGED <<scEnabled, scSession, scBindings, scGate, ptUp, ptLive, ptBound>>
  BY DEF OnListed, Bind
<1>2. PICK it \in States :
        /\ Agreed(it) /\ it.phase = "authorizing" /\ it.enabled = scEnabled /\ it.session = scSession
        /\ it.pending = {} /\ it.bindings = scBindings /\ it.sequence = scSequence /\ it.live = ptLive
        /\ it.bound = ptBound /\ it.asked = ptAsked /\ it.out = Tail(ptOut)
  BY ZenonT(60), <1>1, Responded DEF ShortcutPhases
<1>3. scEnabled /\ scGate \subseteq ShortcutIds
  BY <1>1, NowIs, NowHas DEF Agreed, OneOut
<1>4. Len(ptOut') <= MaxSignals /\ ptOut' = Tail(ptOut)
  BY <1>1, ShorterStill DEF Took
<1> QED
  BY <1>1, <1>2, <1>3, <1>4, AsksNext DEF RequestKinds

LEMMA CreatedKeeps == ASSUME ShortcutsInv, OnCreated PROVE ShortcutsInv'
<1> DEFINE token == Next1.token
<1>1. /\ Took("response") /\ scSession' = token /\ Request("List", token, ptAsked)
      /\ UNCHANGED <<scPhase, scEnabled, scBindings, scGate, ptUp, ptLive, ptBound>>
      /\ ptOut # <<>> /\ ptOut' = Tail(ptOut) /\ Next1.type = "response" /\ Next1.code = 0
  BY DEF OnCreated, Took
<1>2. PICK p \in scPending : p.token = token /\ p.kind = "Create"
  BY DEF OnCreated, Answered
<1>3. scSession = NoSession /\ scEnabled /\ scPhase \in ShortcutPhases \ {"active", "partial"}
  BY <1>2, NowIs, NowHas DEF Agreed, OneOut, GrantHeld, Works
<1>4. PICK it \in States :
        /\ Agreed(it) /\ it.phase = scPhase /\ it.enabled = scEnabled /\ it.session = scSession
        /\ it.pending = {} /\ it.bindings = scBindings /\ it.sequence = scSequence /\ it.live = ptLive
        /\ it.bound = ptBound /\ it.asked = ptAsked /\ it.out = Tail(ptOut)
  BY <1>1, <1>3, Responded
<1>5. token \in Nat \ {0} /\ token <= scSequence
  BY <1>1, NowIs, NowHas, HeadIs, QueueHolds DEF Agreed, TokensGiven
<1>6. \A r \in ptAsked : r.token # token /\ r.session # token
  BY <1>1, NowIs, NowHas, HeadIs DEF Agreed, AskedOnce, AskedWell
<1>7. \A i \in DOMAIN it.out : /\ it.out[i].type \in {"response", "changed"} => it.out[i].token # token
                               /\ it.out[i].type = "owner" /\ it.out[i].code # 1 => token \notin it.live
  <2> SUFFICES ASSUME NEW i \in DOMAIN Tail(ptOut)
               PROVE  LET m == Tail(ptOut)[i] IN
                      /\ m.type \in {"response", "changed"} => m.token # token
                      /\ m.type = "owner" /\ m.code # 1 => token \notin ptLive
    BY <1>4
  <2>1. i + 1 \in DOMAIN ptOut /\ Tail(ptOut)[i] = ptOut[i + 1] /\ i \in Nat /\ i + 1 # 1 /\ 1 < i + 1 /\ 1 \in DOMAIN ptOut
        /\ i # 0
    <3>1. Tail(ptOut) \in Seq(Messages)
      BY <1>1, NowIs, QueuePops
    <3>2. i \in Nat \ {0}
      BY <3>1
    <3> QED
      BY <1>1, <3>2, HeadIs
  <2> QED
    BY <1>1, <2>1, NowIs, NowHas, HeadIs DEF Agreed, OutInOrder
<1>8. token \notin it.live => \E i \in DOMAIN it.out : SessionEnds(it.out[i], token)
  <2> SUFFICES ASSUME token \notin ptLive PROVE \E i \in DOMAIN Tail(ptOut) : SessionEnds(Tail(ptOut)[i], token)
    BY <1>4
  <2>1. PICK j \in DOMAIN ptOut : j > 1 /\ SessionEnds(ptOut[j], token)
    BY <1>1, <1>2, NowIs, NowHas, HeadIs DEF Agreed, LiveOrEnding
  <2> QED
    BY <1>1, <2>1, NowIs, HeadIs
<1> DEFINE new == [it EXCEPT !.session = token]
<1>9. Agreed(new) /\ new \in States
  <2>1. Agreed(new)
    BY <1>3, <1>4, <1>5, <1>6, <1>7, <1>8, Begins
  <2> QED
    BY <2>1 DEF Agreed
<1>10. /\ new.phase = scPhase /\ new.enabled = scEnabled /\ new.session = token
       /\ new.bindings = scBindings /\ new.sequence = scSequence /\ new.live = ptLive
       /\ new.bound = ptBound /\ new.asked = ptAsked /\ new.out = Tail(ptOut)
  BY <1>4 DEF States
<1> HIDE DEF new
<1>11. Len(ptOut') <= MaxSignals /\ scGate \subseteq ShortcutIds
  BY <1>1, NowIs, ShorterStill
<1> QED
  BY <1>1, <1>3, <1>5, <1>9, <1>10, <1>11, AsksNext DEF RequestKinds, NoSession

LEMMA UnusableKeeps == ASSUME ShortcutsInv, OnUnusable PROVE ShortcutsInv'
<1>1. /\ ptOut # <<>> /\ ptOut' = Tail(ptOut) /\ Next1.type = "response" /\ scPhase' \in {scPhase, "error"}
      /\ UNCHANGED <<scEnabled, scSession, scBindings, scGate, scSequence, ptUp, ptLive, ptBound, ptAsked>>
      /\ \E p \in scPending : scPending' = scPending \ {p}
  BY DEF OnUnusable, Took, Answered, portal
<1>2. ~Ends(Head(ptOut), scSession) /\ ~SessionEnds(Head(ptOut), scSession)
  BY <1>1 DEF Next1, Ends, SessionEnds
<1> DEFINE it == [Now EXCEPT !.phase = scPhase', !.bindings = scBindings, !.pending = scPending']
<1>3. /\ scPhase' \in ShortcutPhases
      /\ scPhase' \in {"active", "partial"} =>
           scBindings # {} /\ (scSession \in ptBound \/ \E i \in DOMAIN ptOut : Ends(ptOut[i], scSession))
      /\ scBindings # {} => scSession # NoSession
  BY <1>1, NowIs, NowHas DEF Agreed, GrantHeld, Works, OneOut, ShortcutPhases
<1>4. Agreed(it) /\ it \in States
  <2>1. Agreed(it)
    BY <1>1, <1>3, NowIs, NowHas, Reports
  <2> QED
    BY <2>1 DEF Agreed
<1>5. WillBe(it) /\ it.out = ptOut /\ it.session = scSession
  BY <1>1, NowIs, NowHas DEF WillBe, States
<1> HIDE DEF it
<1> QED
  BY <1>1, <1>2, <1>4, <1>5, NowIs, Handled

LEMMA BoundKeeps == ASSUME ShortcutsInv, OnBound PROVE ShortcutsInv'
<1>1. /\ Took("response") /\ ptOut # <<>> /\ ptOut' = Tail(ptOut) /\ Next1.type = "response"
      /\ UNCHANGED <<scEnabled, scSession, scSequence, ptUp, ptLive, ptBound, ptAsked>> /\ ApplyBindings(Granted)
  BY DEF OnBound, Took, portal
<1>2. PICK p \in scPending : p.token = Next1.token /\ p.kind = "Bind" /\ scPending' = scPending \ {p}
  BY DEF OnBound, Answered
<1>3. scSession # NoSession /\ scEnabled /\ scPending' = {}
  BY <1>2, NowIs, NowHas DEF Agreed, OneOut
<1>4. PICK it \in States :
        /\ Agreed(it) /\ it.phase = "closed" /\ it.enabled = scEnabled /\ it.session = scSession
        /\ it.pending = {} /\ it.bindings = scBindings /\ it.sequence = scSequence /\ it.live = ptLive
        /\ it.bound = ptBound /\ it.asked = ptAsked /\ it.out = Tail(ptOut)
  BY <1>1, Responded DEF ShortcutPhases
<1>5. Granted # {} => scSession \in ptBound \/ \E i \in DOMAIN Tail(ptOut) : Ends(Tail(ptOut)[i], scSession)
  <2> SUFFICES ASSUME Granted # {}, scSession \notin ptBound
               PROVE  \E i \in DOMAIN Tail(ptOut) : Ends(Tail(ptOut)[i], scSession)
    OBVIOUS
  <2>1. GrantsNews(Now, ptOut[1]) /\ Next1 = ptOut[1] /\ 1 \in DOMAIN ptOut
    BY <1>1, <1>2, HeadIs, NowHas DEF GrantsNews, Granted
  <2>2. PICK j \in DOMAIN ptOut : SessionEnds(ptOut[j], scSession) \/ (j > 1 /\ Ends(ptOut[j], scSession))
    BY <1>3, <2>1, NowIs, NowHas DEF Agreed, GrantComing
  <2>3. j # 1 /\ Ends(ptOut[j], scSession)
    BY <1>1, <2>1, <2>2 DEF SessionEnds, Ends
  <2> QED
    BY <1>1, <2>3, NowIs, HeadIs
<1>6. Granted \subseteq ShortcutIds
  BY <1>1, NowIs, HeadIs, QueueHolds DEF Granted
<1>7. /\ scBindings' = Granted /\ scGate' = {} /\ scPhase' \in ShortcutPhases
      /\ scPhase' \in {"active", "partial"} => Granted # {}
  BY <1>1, ShortcutsAssumption DEF ApplyBindings, ShortcutPhases
<1> DEFINE new == [it EXCEPT !.phase = scPhase', !.bindings = Granted, !.pending = it.pending]
<1>8. Agreed(new)
  BY <1>3, <1>4, <1>5, <1>6, <1>7, Reports
<1>9. /\ new.phase = scPhase' /\ new.enabled = scEnabled' /\ new.session = scSession' /\ new.pending = scPending'
      /\ new.bindings = scBindings' /\ new.sequence = scSequence' /\ new.live = ptLive'
      /\ new.bound = ptBound' /\ new.asked = ptAsked' /\ new.out = ptOut'
  BY <1>1, <1>3, <1>4, <1>7 DEF States
<1> HIDE DEF new
<1>10. Now' = new
  BY <1>8, <1>9, NowWillBe DEF Agreed
<1>11. Len(ptOut') <= MaxSignals
  BY <1>1, ShorterStill
<1> QED
  BY <1>1, <1>7, <1>8, <1>10, <1>11, NowIs DEF ShortcutsInv

LEMMA ChangedKeeps == ASSUME ShortcutsInv, OnChanged PROVE ShortcutsInv'
<1>1. /\ ptOut # <<>> /\ ptOut' = Tail(ptOut) /\ Next1.type = "changed"
      /\ UNCHANGED <<scEnabled, scSession, scPending, scSequence, ptUp, ptLive, ptBound, ptAsked>>
  BY DEF OnChanged, Took, portal
<1>2. Len(ptOut') <= MaxSignals /\ ~SessionEnds(Head(ptOut), scSession)
  BY <1>1, ShorterStill DEF Next1, SessionEnds
<1>3. CASE scSession # Next1.token /\ UNCHANGED <<scBindings, scGate, scPhase>>
  <2>1. WillBe(Now) /\ Now.out = ptOut /\ Now.session = scSession
    BY <1>1, <1>3, NowHas DEF WillBe
  <2>2. ~Ends(Head(ptOut), scSession)
    BY <1>1, <1>3 DEF Next1, Ends, SessionEnds
  <2> QED
    BY <1>1, <1>2, <1>3, <2>1, <2>2, NowIs, Handled
<1>4. CASE scSession = Next1.token /\ ApplyBindings(Granted)
  <2>1. scSession # NoSession /\ scEnabled
    BY <1>1, <1>4, NowIs, NowHas, HeadIs DEF Agreed, TokensGiven, OneOut, NoSession
  <2> DEFINE mid == [Now EXCEPT !.phase = "closed", !.bindings = scBindings, !.pending = scPending]
             popped == [mid EXCEPT !.out = Tail(mid.out)]
             new == [popped EXCEPT !.phase = scPhase', !.bindings = Granted, !.pending = popped.pending]
  <2>2. Agreed(mid) /\ mid \in States
    <3>1. Agreed(mid)
      BY <2>1, NowIs, NowHas, Reports DEF ShortcutPhases
    <3> QED
      BY SMTT(25), <3>1 DEF Agreed
  <2>3. /\ mid.phase = "closed" /\ mid.enabled = scEnabled /\ mid.session = scSession
        /\ mid.pending = scPending /\ mid.bindings = scBindings /\ mid.sequence = scSequence /\ mid.live = ptLive
        /\ mid.bound = ptBound /\ mid.asked = ptAsked /\ mid.out = ptOut
    BY NowIs, NowHas DEF States
  <2> HIDE DEF mid
  <2>4. Agreed(popped) /\ popped \in States
    <3>1. Agreed(popped)
      BY <1>1, <1>2, <2>2, <2>3, Takes DEF Works
    <3> QED
      BY <3>1 DEF Agreed
  <2>5. /\ popped.enabled = scEnabled /\ popped.session = scSession
        /\ popped.pending = scPending /\ popped.sequence = scSequence /\ popped.live = ptLive
        /\ popped.bound = ptBound /\ popped.asked = ptAsked /\ popped.out = Tail(ptOut)
    BY <2>2, <2>3 DEF States
  <2> HIDE DEF popped
  <2>6. Granted # {} => scSession \in ptBound \/ \E i \in DOMAIN Tail(ptOut) : Ends(Tail(ptOut)[i], scSession)
    <3> SUFFICES ASSUME Granted # {}, scSession \notin ptBound
                 PROVE  \E i \in DOMAIN Tail(ptOut) : Ends(Tail(ptOut)[i], scSession)
      OBVIOUS
    <3>1. GrantsNews(Now, ptOut[1]) /\ Next1 = ptOut[1] /\ 1 \in DOMAIN ptOut
      BY <1>1, <1>4, HeadIs, NowHas DEF GrantsNews, Granted
    <3>2. PICK j \in DOMAIN ptOut : SessionEnds(ptOut[j], scSession) \/ (j > 1 /\ Ends(ptOut[j], scSession))
      BY <2>1, <3>1, NowIs, NowHas DEF Agreed, GrantComing
    <3>3. j # 1 /\ Ends(ptOut[j], scSession)
      BY <1>1, <3>1, <3>2 DEF SessionEnds, Ends
    <3> QED
      BY <1>1, <3>3, NowIs, HeadIs
  <2>7. Granted \subseteq ShortcutIds
    BY <1>1, NowIs, HeadIs, QueueHolds DEF Granted
  <2>8. /\ scBindings' = Granted /\ scGate' = {} /\ scPhase' \in ShortcutPhases
        /\ scPhase' \in {"active", "partial"} => Granted # {}
    BY <1>4, ShortcutsAssumption DEF ApplyBindings, ShortcutPhases
  <2>9. Agreed(new)
    BY <2>1, <2>4, <2>5, <2>6, <2>7, <2>8, Reports
  <2>10. /\ new.phase = scPhase' /\ new.enabled = scEnabled' /\ new.session = scSession' /\ new.pending = scPending'
         /\ new.bindings = scBindings' /\ new.sequence = scSequence' /\ new.live = ptLive'
         /\ new.bound = ptBound' /\ new.asked = ptAsked' /\ new.out = ptOut'
    BY <1>1, <2>4, <2>5, <2>8 DEF States
  <2> HIDE DEF new
  <2>11. Now' = new
    BY <2>9, <2>10, NowWillBe DEF Agreed
  <2> QED
    BY <1>1, <1>2, <2>8, <2>9, <2>11, NowIs DEF ShortcutsInv
<1> QED
  BY <1>3, <1>4 DEF OnChanged

LEMMA OwnerKeeps == ASSUME ShortcutsInv, OnOwner PROVE ShortcutsInv'
<1>1. ptOut # <<>> /\ ptOut' = Tail(ptOut) /\ Next1.type = "owner" /\ UNCHANGED <<ptUp, ptLive, ptBound>>
  BY DEF OnOwner, Took
<1>2. Len(ptOut') <= MaxSignals /\ Next1 = Head(ptOut) /\ Next1 = ptOut[1] /\ 1 \in DOMAIN ptOut
  BY <1>1, NowIs, ShorterStill, HeadIs
<1>3. CASE Next1.code = 1 /\ UNCHANGED <<service, ptAsked>>
  <2>1. WillBe(Now) /\ Now.out = ptOut /\ Now.session = scSession /\ UNCHANGED <<scGate, scSequence>>
    BY <1>1, <1>3, NowHas DEF WillBe, service
  <2>2. ~Ends(Head(ptOut), scSession) /\ ~SessionEnds(Head(ptOut), scSession)
    BY <1>1, <1>3 DEF Next1, Ends, SessionEnds
  <2> QED
    BY <1>1, <2>1, <2>2, NowIs, Handled
<1>4. ASSUME ~(Next1.code = 1 /\ (scPending # {} \/ scSession # NoSession)) PROVE scSession \notin ptLive /\ ptBound \subseteq ptLive
  <2>1. ptBound \subseteq ptLive /\ 0 \notin ptLive
    BY NowIs, NowHas DEF Agreed, GrabsKnown, TokensGiven
  <2>2. CASE scSession = NoSession
    BY <2>1, <2>2 DEF NoSession
  <2>3. CASE Next1.code # 1
    BY <1>1, <1>2, <2>1, <2>3, NowIs, NowHas DEF Agreed, OutInOrder
  <2> QED
    BY <1>4, <2>2, <2>3
<1>5. CASE ~(Next1.code = 1 /\ (scPending # {} \/ scSession # NoSession)) /\ ~(Next1.code # 0 /\ scEnabled)
  <2>1. /\ ForgetSession /\ scPending' = {} /\ scPhase' = (IF scEnabled THEN "reconnecting" ELSE scPhase)
        /\ UNCHANGED <<scEnabled, scSequence, ptAsked>>
    BY <1>5 DEF OnOwner
  <2>2. scPhase' \in ShortcutPhases \ {"active", "partial"}
    BY <2>1, NowIs, NowHas DEF Agreed, GrantHeld, Works, ShortcutPhases
  <2>3. scSession \notin ptLive /\ ptBound \subseteq ptLive
    BY <1>4, <1>5
  <2>4. WereAsked(ptAsked') /\ ptLive' = ptLive \ {scSession} /\ ptBound' = ptBound \ {scSession}
    BY <1>1, <2>1, <2>3, FewerAsked
  <2>5. PICK it \in States : Agreed(it) /\ WillBe(it) /\ it.out = ptOut
    BY <2>1, <2>2, <2>4, NowIs, StandsDown DEF ForgetSession
  <2>6. it.session = NoSession /\ ~Works(it) /\ scGate' = {}
    BY <2>1, <2>2, <2>5 DEF WillBe, ForgetSession, Works
  <2> QED
    BY <1>1, <2>1, <2>5, <2>6, NowIs, Handled
<1>6. CASE ~(Next1.code = 1 /\ (scPending # {} \/ scSession # NoSession)) /\ Next1.code # 0 /\ scEnabled
  <2>1. ForgetSession /\ Connect /\ UNCHANGED scEnabled
    BY <1>6 DEF OnOwner
  <2> DEFINE closed == [Now EXCEPT !.phase = "reconnecting", !.enabled = TRUE, !.session = NoSession, !.pending = {},
                                   !.bindings = {}, !.live = Now.live \ {Now.session},
                                   !.bound = Now.bound \ {Now.session}]
             it == [closed EXCEPT !.out = Tail(closed.out)]
             new == [it EXCEPT !.phase = scPhase', !.pending = scPending', !.sequence = scSequence', !.asked = ptAsked']
  <2>2. Agreed(closed) /\ closed \in States
    BY NowIs, GivesUp DEF Agreed, ShortcutPhases
  <2>3. /\ closed.phase = "reconnecting" /\ closed.enabled /\ closed.session = NoSession /\ closed.pending = {}
        /\ closed.bindings = {} /\ closed.sequence = scSequence /\ closed.live = ptLive \ {scSession}
        /\ closed.bound = ptBound \ {scSession} /\ closed.asked = ptAsked /\ closed.out = ptOut
    BY NowIs, NowHas DEF States
  <2> HIDE DEF closed
  <2>4. Agreed(it) /\ it \in States
    <3>1. Agreed(it)
      BY <1>1, <2>2, <2>3, Takes DEF Works
    <3> QED
      BY <3>1 DEF Agreed
  <2>5. /\ it.enabled /\ it.session = NoSession /\ it.pending = {} /\ it.bindings = {} /\ it.sequence = scSequence
        /\ it.live = ptLive \ {scSession} /\ it.bound = ptBound \ {scSession} /\ it.asked = ptAsked /\ it.out = Tail(ptOut)
    BY <2>2, <2>3 DEF States
  <2> HIDE DEF it
  <2>6. Agreed(new) /\ scSequence' <= MaxTokens /\ new \in States
    <3>1. Agreed(new) /\ scSequence' <= MaxTokens
      BY <2>1, <2>4, <2>5, NowIs, Connects
    <3> QED
      BY <3>1 DEF Agreed
  <2>7. /\ new.phase = scPhase' /\ new.pending = scPending' /\ new.sequence = scSequence' /\ new.asked = ptAsked'
        /\ new.enabled = it.enabled /\ new.session = it.session /\ new.bindings = it.bindings
        /\ new.live = it.live /\ new.bound = it.bound /\ new.out = it.out
    BY <2>4 DEF States
  <2> HIDE DEF new
  <2>8. it.live = ptLive /\ it.bound = ptBound /\ scEnabled' = it.enabled
    BY <1>4, <1>6, <2>1, <2>4, <2>5 DEF States
  <2>9. Now' = new /\ scGate' = {}
    BY <1>1, <2>1, <2>5, <2>6, <2>7, <2>8, NowWillBe DEF ForgetSession
  <2> QED
    BY <1>1, <1>2, <2>6, <2>9, NowIs DEF ShortcutsInv
<1> QED
  BY <1>3, <1>5, <1>6 DEF OnOwner

-----------------------------------------------------------------------------
(* The portal. *)

(* What the portal did before it sends. *)
LEMMA Sent ==
    ASSUME ShortcutsInv, NEW it, Agreed(it), NEW m \in Messages, it.out = ptOut, Send(m), UNCHANGED service,
           it.phase = scPhase, it.enabled = scEnabled, it.session = scSession, it.pending = scPending,
           it.bindings = scBindings, it.sequence = scSequence, it.asked = ptAsked', ptUp' \in BOOLEAN,
           m.token <= scSequence, ptLive' \in SUBSET it.live, ptBound' \in SUBSET it.bound, ptBound' \subseteq ptLive',
           \A s \in it.live \ ptLive' : SessionEnds(m, s),
           \A s \in it.bound \ ptBound' : Ends(m, s),
           m.type = "response" =>
              /\ m.token # 0 /\ m.token # scSession
              /\ \A r \in ptAsked' : r.token # m.token /\ r.session # m.token
              /\ \A i \in DOMAIN ptOut : ptOut[i].type \in {"response", "changed"} => ptOut[i].token # m.token
              /\ \A p \in scPending : p.token = m.token =>
                    /\ p.kind = "Bind" /\ m.ids \ {"moved"} # {} /\ scSession \in ptLive' => scSession \in ptBound'
                    /\ p.kind = "Create" /\ m.code = 0 => m.token \in ptLive',
           m.type = "changed" => /\ m.token = scSession /\ m.token # 0 /\ (m.ids # {} => m.token \in ptBound'),
           m.type = "closed" => m.token \notin ptLive' /\ \A r \in ptAsked' : r.token # m.token,
           m.type = "owner" /\ m.code # 1 => ptLive' = {}
    PROVE  ShortcutsInv'
<1> DEFINE new == [it EXCEPT !.out = Append(it.out, m), !.live = ptLive', !.bound = ptBound']
<1>1. Agreed(new) /\ new \in States /\ it \in States
  <2>1. Agreed(new)
    BY Sends
  <2> QED
    BY SMTT(25), <2>1 DEF Agreed
<1>2. ptOut' = Append(ptOut, m) /\ Len(ptOut) < MaxSignals
  BY DEF Send
<1>3. /\ new.phase = it.phase /\ new.enabled = it.enabled /\ new.session = it.session /\ new.pending = it.pending
      /\ new.bindings = it.bindings /\ new.sequence = it.sequence /\ new.live = ptLive' /\ new.bound = ptBound'
      /\ new.asked = it.asked /\ new.out = ptOut'
  BY <1>1, <1>2 DEF States
<1> HIDE DEF new
<1>4. Now' = new
  BY <1>1, <1>3, NowWillBe DEF service
<1>5. Len(ptOut') <= MaxSignals
  <2>1. Len(ptOut) \in Nat /\ Len(ptOut') = Len(ptOut) + 1
    BY <1>2, NowIs
  <2> QED
    BY <1>2, <2>1, ShortcutsAssumption
<1> QED
  BY <1>1, <1>4, <1>5, NowIs DEF ShortcutsInv, service

LEMMA SignalIs ==
    ASSUME NEW type \in {"reply", "response", "changed", "closed", "owner", "key"}, NEW token \in Nat,
           NEW code \in {0, 1, 2}, NEW ids \in SUBSET (ShortcutIds \cup {"moved"})
    PROVE  LET m == Signal(type, token, code, ids) IN
           m \in Messages /\ m.type = type /\ m.token = token /\ m.code = code /\ m.ids = ids
BY DEF Signal, Messages, Signals

(* Messages about nothing the service holds. *)
LEMMA PortalTalksKeeps ==
    ASSUME ShortcutsInv,
           PortalStarts \/ PortalStops \/ (\E s \in ptBound, id \in ShortcutIds : UserPressesKey(s, id))
    PROVE  ShortcutsInv'
<1>1. ptBound \subseteq {scSession} /\ ptBound \subseteq ptLive /\ 0 <= scSequence /\ scSession <= scSequence /\ Now.asked = ptAsked
  BY NowIs, NowHas DEF Agreed, GrabsKnown, TokensGiven
<1>2. CASE PortalStarts
  <2>1. Signal("owner", 0, 1, {}) \in Messages /\ Signal("owner", 0, 1, {}).type = "owner"
        /\ Signal("owner", 0, 1, {}).token = 0 /\ Signal("owner", 0, 1, {}).code = 1
    BY SignalIs
  <2> QED
    BY <1>1, <1>2, <2>1, NowIs, NowHas, Sent DEF PortalStarts
<1>3. CASE \E s \in ptBound, id \in ShortcutIds : UserPressesKey(s, id)
  <2>1. PICK s \in ptBound, id \in ShortcutIds : UserPressesKey(s, id)
    BY <1>3
  <2>2. PICK code \in {0, 1} : Send(Signal("key", s, code, {id})) /\ UNCHANGED <<service, portal>>
    BY <2>1 DEF UserPressesKey
  <2> DEFINE m == Signal("key", s, code, {id})
  <2>3. m \in Messages /\ m.type = "key" /\ m.token = s
    BY <1>1, NowIs, SignalIs
  <2> HIDE DEF m
  <2>4. s <= scSequence
    BY <1>1
  <2> QED
    BY <1>1, <2>2, <2>3, <2>4, NowIs, NowHas, Sent DEF portal, m
<1>4. CASE PortalStops
  <2>1. PICK code \in {0, 2} : Send(Signal("owner", 0, code, {}))
    BY <1>4 DEF PortalStops
  <2> DEFINE m == Signal("owner", 0, code, {})
             it == [Now EXCEPT !.asked = {}]
  <2>2. m \in Messages /\ m.type = "owner" /\ m.token = 0 /\ m.code # 1
    BY SignalIs
  <2>3. Send(m) /\ UNCHANGED service /\ ptUp' \in BOOLEAN /\ ptLive' = {} /\ ptBound' = {} /\ ptAsked' = {}
    BY <1>4, <2>1, NowIs DEF PortalStops
  <2>4. Agreed(it) /\ it \in States
    <3>1. Agreed(it)
      BY NowIs, AskedGoOn
    <3> QED
      BY <3>1 DEF Agreed
  <2>5. /\ it.phase = scPhase /\ it.enabled = scEnabled /\ it.session = scSession
        /\ it.pending = scPending /\ it.bindings = scBindings /\ it.sequence = scSequence /\ it.live = ptLive
        /\ it.bound = ptBound /\ it.asked = {} /\ it.out = ptOut
    BY NowIs, NowHas DEF States
  <2> HIDE DEF m, it
  <2>6. \A s : SessionEnds(m, s) /\ Ends(m, s)
    BY <2>2 DEF SessionEnds, Ends
  <2> QED
    BY <1>1, <2>2, <2>3, <2>4, <2>5, <2>6, NowIs, Sent
<1> QED
  BY <1>2, <1>3, <1>4

LEMMA SessionSideKeeps ==
    ASSUME ShortcutsInv,
           (\E s \in ptLive : PortalClosesSession(s)) \/ (\E s \in ptBound : UserRebinds(s))
    PROVE  ShortcutsInv'
<1>1. /\ ptBound \subseteq {scSession} /\ ptBound \subseteq ptLive /\ ptLive \subseteq Nat \ {0}
      /\ \A s \in ptLive : s <= scSequence /\ \A r \in ptAsked : r.token # s
  BY NowIs, NowHas DEF Agreed, GrabsKnown, TokensGiven, States, AskedOnce, AskedWell
<1>2. ASSUME NEW s \in ptLive, PortalClosesSession(s) PROVE ShortcutsInv'
  <2> DEFINE m == Signal("closed", s, 0, {})
  <2>1. m \in Messages /\ m.type = "closed" /\ m.token = s
    BY <1>1, SignalIs
  <2>2. Send(m) /\ UNCHANGED <<service, ptUp, ptAsked>> /\ ptLive' = ptLive \ {s} /\ ptBound' = ptBound \ {s}
    BY <1>2 DEF PortalClosesSession
  <2> HIDE DEF m
  <2>3. SessionEnds(m, s) /\ Ends(m, s)
    BY <2>1 DEF SessionEnds, Ends
  <2> QED
    BY <1>1, <2>1, <2>2, <2>3, NowIs, NowHas, Sent
<1>3. ASSUME NEW s \in ptBound, UserRebinds(s) PROVE ShortcutsInv'
  <2>1. PICK ids \in SUBSET ShortcutIds :
            /\ Send(Signal("changed", s, 0, ids))
            /\ ptBound' = IF ids = {} THEN ptBound \ {s} ELSE ptBound \cup {s}
    BY <1>3 DEF UserRebinds
  <2> DEFINE m == Signal("changed", s, 0, ids)
  <2>2. m \in Messages /\ m.type = "changed" /\ m.token = s /\ m.ids = ids
    BY <1>1, SignalIs
  <2>3. UNCHANGED <<service, ptUp, ptLive, ptAsked>>
    BY <1>3 DEF UserRebinds
  <2>4. Send(m)
    BY <2>1
  <2> HIDE DEF m
  <2>5. Ends(m, s) /\ s = scSession /\ s # 0 /\ s <= scSequence
    BY <1>1, <2>2 DEF SessionEnds, Ends
  <2> QED
    BY ZenonT(60), <1>1, <2>1, <2>2, <2>3, <2>4, <2>5, NowIs, NowHas, Sent
<1> QED
  BY <1>2, <1>3

LEMMA PortalTakesCallKeeps == ASSUME ShortcutsInv, NEW r \in ptAsked, PortalTakesCall(r) PROVE ShortcutsInv'
<1> DEFINE open == [r EXCEPT !.stage = "open"]
           it == [Now EXCEPT !.asked = ptAsked']
<1>1. UNCHANGED <<service, ptUp, ptLive, ptBound>> /\ ptAsked' \in {(ptAsked \ {r}) \cup {open}, ptAsked \ {r}}
  BY DEF PortalTakesCall
<1>2. open \in AskedOnes /\ open.token = r.token /\ open.kind = r.kind /\ open.session = r.session
  BY NowIs DEF AskedOnes
<1>3. r.token \in Nat /\ r.token <= scSequence
  BY NowIs, NowHas DEF AskedOnes, Agreed, TokensGiven
<1> HIDE DEF open
<1>4. /\ ptAsked' \in SUBSET AskedOnes
      /\ \A q \in ptAsked' : \E was \in ptAsked : q.token = was.token /\ q.kind = was.kind /\ q.session = was.session
      /\ \A p, q \in ptAsked' : p.token = q.token => p = q
  <2>1. \A q, p \in ptAsked : q.token = p.token => q = p
    BY NowIs, NowHas DEF Agreed, AskedOnce, AskedWell
  <2>2. CASE ptAsked' = (ptAsked \ {r}) \cup {open}
    BY <1>2, <2>1, <2>2, NowIs
  <2>3. CASE ptAsked' = ptAsked \ {r}
    BY <2>1, <2>3, NowIs
  <2> QED
    BY <1>1, <2>2, <2>3
<1>5. Agreed(it) /\ it \in States
  <2>1. Agreed(it)
    BY <1>4, NowIs, NowHas, AskedGoOn
  <2> QED
    BY <2>1 DEF Agreed
<1>6. /\ it.phase = scPhase /\ it.enabled = scEnabled /\ it.session = scSession
      /\ it.pending = scPending /\ it.bindings = scBindings /\ it.sequence = scSequence /\ it.live = ptLive
      /\ it.bound = ptBound /\ it.asked = ptAsked' /\ it.out = ptOut
  BY <1>5, NowIs, NowHas DEF States
<1>7. ptBound \subseteq ptLive
  BY NowIs, NowHas DEF Agreed, GrabsKnown
<1> HIDE DEF it
<1>8. ASSUME NEW code \in {0, 2}, NEW ids \in SUBSET {"moved"}, Send(Signal("reply", r.token, code, ids)) PROVE ShortcutsInv'
  <2> DEFINE m == Signal("reply", r.token, code, ids)
  <2>1. m \in Messages /\ m.type = "reply" /\ m.token = r.token
    BY <1>3, SignalIs
  <2>2. Send(m)
    BY <1>8
  <2> HIDE DEF m
  <2> QED
    BY <1>1, <1>3, <1>5, <1>6, <1>7, <2>1, <2>2, NowIs, Sent
<1>9. CASE UNCHANGED ptOut
  <2>1. Now' = it
    BY <1>1, <1>5, <1>6, <1>9, NowWillBe DEF service
  <2> QED
    BY <1>1, <1>5, <1>9, <2>1, NowIs DEF ShortcutsInv, service
<1>10. Tag(r, {}) \in SUBSET {"moved"}
  BY DEF Tag
<1> QED
  BY <1>8, <1>9, <1>10 DEF PortalTakesCall

LEMMA PortalAnswersKeeps == ASSUME ShortcutsInv, NEW r \in ptAsked, PortalAnswers(r) PROVE ShortcutsInv'
<1> DEFINE done == [Now EXCEPT !.asked = ptAsked']
<1>1. UNCHANGED <<service, ptUp>> /\ ptAsked' = ptAsked \ {r}
  BY DEF PortalAnswers
<1>2. /\ r.token \in Nat \ {0} /\ r.token <= scSequence /\ r.session \in Nat /\ r.kind \in RequestKinds
      /\ r.token # scSession /\ r.token \notin ptLive /\ ptBound \subseteq ptLive /\ ptAsked \subseteq AskedOnes
      /\ \A q \in ptAsked \ {r} : q.token # r.token /\ q.session # r.token
      /\ \A i \in DOMAIN ptOut : ptOut[i].type \in {"response", "changed", "closed"} => ptOut[i].token # r.token
      /\ \A p \in scPending : p.token = r.token => p.kind = r.kind /\ r.session = scSession
      /\ r.kind = "Bind" /\ r.session \in ptLive => r.session = scSession
  BY NowIs, NowHas DEF AskedOnes, Agreed, TokensGiven, AskedOnce, AskedWell, GrabsKnown
<1>3. Agreed(done) /\ done \in States
  <2>1. \A q, p \in ptAsked : q.token = p.token => q = p
    BY NowIs, NowHas DEF Agreed, AskedOnce, AskedWell
  <2>2. Agreed(done)
    BY <1>1, <1>2, <2>1, NowIs, NowHas, AskedGoOn
  <2> QED
    BY <2>2 DEF Agreed
<1>4. /\ done.phase = scPhase /\ done.enabled = scEnabled /\ done.session = scSession
      /\ done.pending = scPending /\ done.bindings = scBindings /\ done.sequence = scSequence /\ done.live = ptLive
      /\ done.bound = ptBound /\ done.asked = ptAsked' /\ done.out = ptOut
  BY <1>3, NowIs, NowHas DEF States
<1> HIDE DEF done
<1>5. ASSUME NEW code \in {0, 1, 2}, NEW ids \in SUBSET ShortcutIds, Send(Signal("response", r.token, code, Tag(r, ids))),
             NEW it, Agreed(it), it.phase = scPhase, it.enabled = scEnabled, it.session = scSession,
             it.pending = scPending, it.bindings = scBindings, it.sequence = scSequence, it.live = ptLive',
             it.bound = ptBound', it.asked = ptAsked', it.out = ptOut, ptBound' \subseteq ptLive',
             ids # {} => r.kind = "Bind" /\ (r.session \in ptLive' => r.session \in ptBound'),
             r.kind = "Create" /\ code = 0 => r.token \in ptLive'
      PROVE  ShortcutsInv'
  <2> DEFINE m == Signal("response", r.token, code, Tag(r, ids))
  <2>1. Tag(r, ids) \in SUBSET (ShortcutIds \cup {"moved"}) /\ Tag(r, ids) \ {"moved"} \subseteq ids
    BY DEF Tag
  <2>2. m \in Messages /\ m.type = "response" /\ m.token = r.token /\ m.code = code /\ m.ids = Tag(r, ids)
    BY <1>2, <2>1, SignalIs
  <2>3. Send(m)
    BY <1>5
  <2> HIDE DEF m
  <2>4. \A p \in scPending : p.token = m.token =>
            /\ p.kind = "Bind" /\ m.ids \ {"moved"} # {} /\ scSession \in ptLive' => scSession \in ptBound'
            /\ p.kind = "Create" /\ m.code = 0 => m.token \in ptLive'
    BY <1>2, <1>5, <2>1, <2>2
  <2> QED
    BY <1>1, <1>2, <1>5, <2>2, <2>3, <2>4, NowIs, Sent
<1>6. CASE \E code \in {1, 2} : Send(Signal("response", r.token, code, Tag(r, {}))) /\ UNCHANGED <<ptLive, ptBound>>
  BY <1>2, <1>3, <1>4, <1>5, <1>6
<1>7. CASE r.kind = "List" /\ Send(Signal("response", r.token, 0, Tag(r, {}))) /\ UNCHANGED <<ptLive, ptBound>>
  BY <1>2, <1>3, <1>4, <1>5, <1>7
<1>8. CASE /\ r.kind = "Create" /\ ptLive' = ptLive \cup {r.token}
           /\ Send(Signal("response", r.token, 0, Tag(r, {}))) /\ UNCHANGED ptBound
  <2> DEFINE it == [done EXCEPT !.live = done.live \cup {r.token}]
  <2>1. Agreed(it)
    BY <1>1, <1>2, <1>3, <1>4, Lives
  <2>2. it.phase = done.phase /\ it.enabled = done.enabled /\ it.session = done.session /\ it.pending = done.pending
        /\ it.bindings = done.bindings /\ it.sequence = done.sequence /\ it.live = ptLive' /\ it.bound = done.bound
        /\ it.asked = done.asked /\ it.out = done.out
    BY <1>3, <1>4, <1>8 DEF States
  <2> HIDE DEF it
  <2> QED
    BY <1>2, <1>4, <1>5, <1>8, <2>1, <2>2
<1>9. CASE /\ r.kind = "Bind" /\ UNCHANGED ptLive
           /\ \E ids \in SUBSET ShortcutIds :
                /\ Send(Signal("response", r.token, 0, Tag(r, ids)))
                /\ ptBound' = IF ids # {} THEN ptBound \cup ({r.session} \cap ptLive) ELSE ptBound
  <2>1. PICK ids \in SUBSET ShortcutIds :
                /\ Send(Signal("response", r.token, 0, Tag(r, ids)))
                /\ ptBound' = IF ids # {} THEN ptBound \cup ({r.session} \cap ptLive) ELSE ptBound
    BY <1>9
  <2>2. CASE ids = {} \/ r.session \notin ptLive
    <3>1. ptBound' = ptBound
      BY <2>1, <2>2
    <3> QED
      BY <1>2, <1>3, <1>4, <1>5, <1>9, <2>1, <2>2, <3>1
  <2>3. CASE ids # {} /\ r.session \in ptLive
    <3> DEFINE it == [done EXCEPT !.bound = done.bound \cup {done.session}]
    <3>1. ptBound' = ptBound \cup {scSession} /\ r.session = scSession
      BY <1>2, <1>9, <2>1, <2>3
    <3>2. Agreed(it)
      BY <1>3, <1>4, <2>3, <3>1, Grabs
    <3>3. it.phase = done.phase /\ it.enabled = done.enabled /\ it.session = done.session /\ it.pending = done.pending
          /\ it.bindings = done.bindings /\ it.sequence = done.sequence /\ it.live = done.live /\ it.bound = ptBound'
          /\ it.asked = done.asked /\ it.out = done.out
      BY <1>3, <1>4, <3>1 DEF States
    <3> HIDE DEF it
    <3> QED
      BY <1>2, <1>4, <1>5, <1>9, <2>1, <2>3, <3>1, <3>2, <3>3
  <2> QED
    BY <2>2, <2>3
<1> QED
  BY <1>6, <1>7, <1>8, <1>9 DEF PortalAnswers

-----------------------------------------------------------------------------
LEMMA ShortcutsStart == ShortcutsInit => ShortcutsInv
<1> SUFFICES ASSUME ShortcutsInit PROVE ShortcutsInv
  OBVIOUS
<1>1. /\ Now = [phase |-> "disabled", enabled |-> FALSE, session |-> 0, pending |-> {}, bindings |-> {}, sequence |-> 0,
                live |-> {}, bound |-> {}, asked |-> {}, out |-> <<>>]
  BY DEF ShortcutsInit, Now, NoSession
<1>2. <<>> \in Seq(Messages) /\ Len(<<>>) = 0 /\ DOMAIN <<>> = {}
  OBVIOUS
<1>3. Now \in States
  BY <1>1, <1>2 DEF States, ShortcutPhases
<1>4. TokensGiven(Now) /\ OneOut(Now) /\ AskedOnce(Now) /\ OutInOrder(Now)
  BY <1>1, <1>2 DEF TokensGiven, OneOut, AskedOnce, OutInOrder, NoSession
<1>5. GrantComing(Now) /\ GrantHeld(Now) /\ GrabsKnown(Now) /\ LiveOrEnding(Now)
  BY <1>1, <1>2 DEF GrantComing, GrantHeld, GrabsKnown, LiveOrEnding, NoSession, Works
<1> QED
  BY <1>2, <1>3, <1>4, <1>5, ShortcutsAssumption DEF ShortcutsInv, Agreed, ShortcutsInit

LEMMA ShortcutsStep == ShortcutsInv /\ [ShortcutsNext]_scVars => ShortcutsInv'
<1> SUFFICES ASSUME ShortcutsInv, [ShortcutsNext]_scVars PROVE ShortcutsInv'
  OBVIOUS
<1>1. CASE UNCHANGED scVars
  <2>1. Now' = Now
    BY <1>1 DEF Now, scVars, service, portal
  <2> QED
    BY <1>1, <2>1 DEF ShortcutsInv, scVars, service, portal
<1>2. CASE ShortcutsNext
  BY <1>2, EnableKeeps, DisableKeeps, RestartKeeps, CallTimesOutKeeps, QuietMessagesKeep, ReplyKeeps, RefusedKeeps,
     ClosedKeeps, ListedKeeps, CreatedKeeps, UnusableKeeps, BoundKeeps, ChangedKeeps, OwnerKeeps, PortalTalksKeeps, SessionSideKeeps,
     PortalTakesCallKeeps, PortalAnswersKeeps DEF ShortcutsNext
<1> QED
  BY <1>1, <1>2

LEMMA ShortcutsInvAgree == ShortcutsInv /\ HeldBound => ShortcutsTypeOK /\ GrantsAgree
<1> SUFFICES ASSUME ShortcutsInv, scGate \subseteq scBindings PROVE ShortcutsTypeOK /\ GrantsAgree
  BY DEF HeldBound
<1>1. /\ scSession \in 0..MaxTokens /\ scSequence \in 0..MaxTokens
      /\ scPending \subseteq [token : 1..MaxTokens, kind : RequestKinds, moved : BOOLEAN]
      /\ ptLive \subseteq 1..MaxTokens /\ ptBound \subseteq ptLive
      /\ ptAsked \subseteq [token : 1..MaxTokens, kind : RequestKinds, session : 0..MaxTokens,
                            moved : BOOLEAN, stage : {"sent", "late", "open"}]
  BY NowIs, NowHas, ShortcutsAssumption DEF Agreed, TokensGiven, PendingOnes, AskedOnes, States, GrabsKnown
<1>2. Cardinality(scPending) <= 1
  <2>1. CASE scPending = {}
    BY <2>1, FS_EmptySet
  <2>2. ASSUME NEW p \in scPending PROVE Cardinality(scPending) = 1
    <3>1. scPending = {p}
      BY NowIs
    <3> QED
      BY <3>1, FS_Singleton
  <2> QED
    BY <2>1, <2>2
<1>3. ShortcutsTypeOK
  BY <1>1, <1>2, NowIs DEF ShortcutsTypeOK
<1>4. DOMAIN ptOut = 1 .. Len(ptOut)
  BY NowIs
<1>5. GrantsAgree
  BY <1>4, NowIs, NowHas DEF Agreed, GrantHeld, GrabsKnown, GrantsAgree, EndComing, Works, Ends, SessionEnds
<1> QED
  BY <1>3, <1>5

LEMMA GateStep == HeldBound /\ [ShortcutsNext]_scVars => HeldBound'
<1> SUFFICES ASSUME scGate \subseteq scBindings, [ShortcutsNext]_scVars PROVE scGate' \subseteq scBindings'
  BY DEF HeldBound
<1>1. CASE UNCHANGED <<scGate, scBindings>>
  BY <1>1
<1>2. CASE scGate' = {}
  BY <1>2
<1>3. CASE OnKey
  BY <1>3 DEF OnKey
<1>4. CASE Enable \/ Disable \/ AuthorizationTimesOut \/ ServiceRestarts
  BY <1>1, <1>2, <1>4 DEF Enable, Disable, AuthorizationTimesOut, ServiceRestarts, StandDown, CloseSession, ForgetSession
<1>5. CASE OnReply \/ OnStaleResponse \/ OnRefused \/ OnListed \/ OnCreated \/ OnUnusable \/ OnBound
  BY <1>1, <1>2, <1>5
     DEF OnReply, OnStaleResponse, OnRefused, OnListed, OnCreated, OnUnusable, OnBound, CloseSession, ApplyBindings, service
<1>6. CASE OnChanged \/ OnClosed \/ OnOwner
  BY <1>1, <1>2, <1>6 DEF OnChanged, OnClosed, OnOwner, ApplyBindings, ForgetSession, service
<1>7. CASE \E r \in ptAsked : CallTimesOut(r) \/ PortalTakesCall(r) \/ PortalAnswers(r)
  BY <1>1, <1>2, <1>7 DEF CallTimesOut, PortalTakesCall, PortalAnswers, CloseSession, service
<1>8. CASE \/ (\E s \in ptLive : PortalClosesSession(s)) \/ (\E s \in ptBound : UserRebinds(s))
           \/ (\E s \in ptBound, id \in ShortcutIds : UserPressesKey(s, id)) \/ PortalStops \/ PortalStarts
  BY <1>1, <1>8 DEF PortalClosesSession, UserRebinds, UserPressesKey, PortalStops, PortalStarts, service
<1> QED
  BY <1>1, <1>3, <1>4, <1>5, <1>6, <1>7, <1>8 DEF ShortcutsNext, scVars, service

(* For every set of shortcuts, every number of requests and every length   *)
(* of the queue of the main loop, service and portal agree on the grants   *)
(* (portal_shortcuts.rs), whatever order calls, replies, signals, timers   *)
(* and restarts come in.                                                   *)
THEOREM GrantsKept == ShortcutsSpec => [](ShortcutsTypeOK /\ GrantsAgree)
<1>1. ShortcutsInit => ShortcutsInv /\ HeldBound
  BY ShortcutsStart DEF ShortcutsInit, HeldBound
<1>2. ShortcutsInv /\ HeldBound /\ [ShortcutsNext]_scVars => ShortcutsInv' /\ HeldBound'
  BY ShortcutsStep, GateStep
<1>3. ShortcutsInv /\ HeldBound => ShortcutsTypeOK /\ GrantsAgree
  BY ShortcutsInvAgree
<1> QED
  BY <1>1, <1>2, <1>3, PTL DEF ShortcutsSpec

-----------------------------------------------------------------------------
(* The bindings of niri: a command works on the file it read, unless the    *)
(* user raced it, and has a whole backup of it before it writes.            *)
Texts == [own : [DefaultShortcuts -> KeyUses], blocks : Seq(SUBSET DefaultShortcuts), closed : BOOLEAN, whole : BOOLEAN]
NiriCommands == [step : {"install", "remove", "backup", "write", "validate", "restore"}, kind : {"install", "remove"},
                 text : Texts, new : Texts]
Alone(text) == \A i, j \in DOMAIN text.blocks : i # j => text.blocks[i] \intersect text.blocks[j] = {}
BindsAll(text) ==
    \A a \in DefaultShortcuts : a \in nbElsewhere \/ (\E i \in DOMAIN text.blocks : a \in text.blocks[i]) \/ text.own[a] = "bound"

NiriTyped ==
    /\ nbFile \in Texts /\ nbOwn \in [DefaultShortcuts -> KeyUses] /\ nbBackup \in Texts \union {NoBackup}
    /\ nbIncluded \in BOOLEAN /\ nbElsewhere \subseteq DefaultShortcuts
    /\ nbCommand = NoCommand \/ nbCommand \in NiriCommands
    /\ nbOutcome \in {"None", "Ok", "Installed", "Removed", "Conflict", "Unavailable", "Error"}
    /\ nbCommands \in 0 .. MaxCommands /\ nbHandEdits \in 0 .. MaxHandEdits
    /\ nbRaced \in BOOLEAN /\ nbOverCut \in BOOLEAN
    /\ Len(nbFile.blocks) <= nbCommands
    /\ nbCommand # NoCommand => Len(nbCommand.text.blocks) < nbCommands /\ Len(nbCommand.new.blocks) <= nbCommands

(* The managed blocks never bind a shortcut twice, raced or not. *)
BlocksAlone == Alone(nbFile) /\ (nbCommand # NoCommand => Alone(nbCommand.text) /\ Alone(nbCommand.new))

CommandTrue(c) ==
    /\ c.text.whole => c.text.own = nbOwn
    /\ c.step \in {"install", "remove"} => c.kind = c.step
    /\ c.step \in {"install", "remove", "backup", "write"} => c.text = nbFile
    /\ c.step \notin {"install", "remove"} =>
         /\ c.new.own = c.text.own /\ c.new.whole = c.text.whole
         /\ c.kind = "install" => BindsAll(c.new)
    /\ c.step \in {"write", "validate", "restore"} => nbOverCut \/ (nbBackup = c.text /\ c.text.whole)
    /\ c.step = "validate" => nbFile = c.new

NotRaced ==
    ~nbRaced =>
        /\ nbFile.whole => nbFile.own = nbOwn
        /\ nbCommand # NoCommand => CommandTrue(nbCommand)
        /\ ~nbOverCut => HoldsOwn(nbFile) \/ HoldsOwn(nbBackup)
        /\ ~nbOverCut /\ nbCommand = NoCommand =>
             /\ nbOutcome \in {"Installed", "Removed"} => HoldsOwn(nbFile)
             /\ nbOutcome = "Installed" => BindsAll(nbFile)

NiriInv == NiriTyped /\ BlocksAlone /\ NotRaced

LEMMA NotABackup == \A text \in Texts : text # NoBackup
<1> SUFFICES ASSUME NEW text \in Texts, text = NoBackup PROVE FALSE
  OBVIOUS
<1>1. DOMAIN text = {"own", "blocks", "closed", "whole"}
  BY DEF Texts
<1>2. DOMAIN NoBackup = {"own"}
  BY DEF NoBackup
<1> QED
  BY <1>1, <1>2

LEMMA RunningOrNot ==
    ASSUME NiriInv
    PROVE  /\ CommandAt("none") => nbCommand = NoCommand
           /\ \A step \in {"install", "remove", "backup", "write", "validate", "restore"} :
                 CommandAt(step) => nbCommand \in NiriCommands /\ nbCommand # NoCommand /\ nbCommand.step = step
           /\ nbCommand = NoCommand => CommandAt("none")
           /\ \A command \in NiriCommands : command # NoCommand
<1>1. NoCommand.step = "none" /\ \A command \in NiriCommands : command.step # "none"
  BY DEF NoCommand, NiriCommands
<1>2. \A command \in NiriCommands : command # NoCommand
  BY <1>1
<1> QED
  BY <1>1, <1>2 DEF CommandAt, NiriInv, NiriTyped

LEMMA CommandMoves ==
    ASSUME NiriInv, nbCommand \in NiriCommands,
           NEW step \in {"install", "remove", "backup", "write", "validate", "restore"}
    PROVE  LET c == [nbCommand EXCEPT !.step = step] IN
           /\ c \in NiriCommands /\ c.step = step /\ c.kind = nbCommand.kind /\ c.text = nbCommand.text /\ c.new = nbCommand.new
           /\ nbCommand.text \in Texts /\ nbCommand.new \in Texts /\ nbCommand.kind \in {"install", "remove"}
BY DEF NiriCommands

(* A command comes to its end, the file as it is. *)
LEMMA CommandEndsKeeps ==
    ASSUME NiriInv, NEW status \in {"None", "Ok", "Conflict", "Unavailable", "Error"}, CommandEnds(status),
           UNCHANGED <<nbFile, nbBackup, nbIncluded, nbElsewhere, nbHandEdits, nbOwn, nbRaced, nbOverCut>>,
           nbCommands' \in 0 .. MaxCommands, nbCommands <= nbCommands'
    PROVE  NiriInv'
<1>1. NiriTyped'
  BY DEF NiriInv, NiriTyped, CommandEnds, Texts
<1>2. BlocksAlone'
  BY DEF NiriInv, BlocksAlone, CommandEnds, Alone
<1>3. NotRaced'
  BY DEF NiriInv, NotRaced, CommandEnds, HoldsOwn
<1> QED
  BY <1>1, <1>2, <1>3 DEF NiriInv

LEMMA ReadKeybindsKeeps == ASSUME NiriInv, NEW kind \in {"install", "remove"}, ReadKeybinds(kind) PROVE NiriInv'
<1>1. /\ nbCommands' = nbCommands + 1 /\ nbCommand = NoCommand /\ nbCommands < MaxCommands
      /\ UNCHANGED <<nbFile, nbBackup, nbIncluded, nbElsewhere, nbHandEdits, nbOwn, nbRaced, nbOverCut>>
  BY RunningOrNot DEF ReadKeybinds
<1>2. nbCommands \in Nat /\ nbCommands' \in 0 .. MaxCommands /\ nbCommands <= nbCommands' /\ nbFile \in Texts
  BY <1>1, NiriAssumption DEF NiriInv, NiriTyped
<1>3. CASE CommandEnds("Unavailable") \/ CommandEnds("Error")
  BY <1>1, <1>2, <1>3, CommandEndsKeeps
<1>4. CASE nbCommand' = [step |-> kind, kind |-> kind, text |-> nbFile, new |-> nbFile] /\ UNCHANGED nbOutcome
  <2>1. /\ nbCommand' \in NiriCommands /\ nbCommand'.step = kind /\ nbCommand'.kind = kind
        /\ nbCommand'.text = nbFile /\ nbCommand'.new = nbFile /\ nbCommand' # NoCommand
    BY <1>2, <1>4, RunningOrNot DEF NiriCommands
  <2>2. Len(nbFile.blocks) \in Nat
    BY <1>2 DEF Texts
  <2>3. NiriTyped'
    BY <1>1, <1>2, <1>4, <2>1, <2>2 DEF NiriInv, NiriTyped
  <2>4. BlocksAlone'
    BY <1>1, <2>1 DEF NiriInv, BlocksAlone, Alone
  <2>5. NotRaced'
    BY <1>1, <2>1 DEF NiriInv, NotRaced, CommandTrue, HoldsOwn
  <2> QED
    BY <2>3, <2>4, <2>5 DEF NiriInv
<1> QED
  BY <1>3, <1>4 DEF ReadKeybinds

(* What install writes: one more block, of shortcuts in none of the others, *)
(* and with it every shortcut is bound.                                     *)
LEMMA BlockAdded ==
    ASSUME NEW text \in Texts, NEW additions \in SUBSET DefaultShortcuts
    PROVE  LET new == WithBlock(text, additions) IN
           /\ new \in Texts /\ new.own = text.own /\ new.whole = text.whole
           /\ Len(new.blocks) = Len(text.blocks) + 1 /\ Len(text.blocks) \in Nat
           /\ Alone(text) /\ additions \intersect ManagedIn(text) = {} => Alone(new)
           /\ \A a \in additions \union ManagedIn(text) : \E i \in DOMAIN new.blocks : a \in new.blocks[i]
<1> DEFINE new == WithBlock(text, additions)
           old == text.blocks
           last == Len(old) + 1
<1>1. old \in Seq(SUBSET DefaultShortcuts) /\ Len(old) \in Nat /\ DOMAIN old = 1 .. Len(old)
  BY DEF Texts
<1>2. /\ new.blocks = Append(old, additions) /\ new.own = text.own /\ new.whole = text.whole
      /\ Append(old, additions) \in Seq(SUBSET DefaultShortcuts)
  BY <1>1 DEF WithBlock, Texts
<1>3. new \in Texts
  BY <1>1, <1>2 DEF WithBlock, Texts
<1>4. /\ Len(new.blocks) = last /\ DOMAIN new.blocks = 1 .. last /\ new.blocks[last] = additions
      /\ \A i \in 1 .. Len(old) : new.blocks[i] = old[i]
  BY <1>1, <1>2
<1>5. \A a : a \in ManagedIn(text) <=> \E i \in 1 .. Len(old) : a \in old[i]
  BY <1>1 DEF ManagedIn, Range
<1> HIDE DEF new, old
<1>6. ASSUME Alone(text), additions \intersect ManagedIn(text) = {} PROVE Alone(new)
  <2> SUFFICES ASSUME NEW i \in 1 .. last, NEW j \in 1 .. last, i # j
               PROVE  new.blocks[i] \intersect new.blocks[j] = {}
    BY <1>4 DEF Alone
  <2>1. CASE i # last /\ j # last
    <3>1. i \in 1 .. Len(old) /\ j \in 1 .. Len(old)
      BY <1>1, <2>1
    <3> QED
      BY <1>1, <1>4, <1>6, <3>1 DEF Alone, old
  <2>2. CASE i = last
    <3>1. j \in 1 .. Len(old)
      BY <1>1, <2>2
    <3> QED
      BY <1>4, <1>5, <1>6, <2>2, <3>1
  <2>3. CASE j = last
    <3>1. i \in 1 .. Len(old)
      BY <1>1, <2>3
    <3> QED
      BY <1>4, <1>5, <1>6, <2>3, <3>1
  <2> QED
    BY <2>1, <2>2, <2>3
<1>7. \A a \in additions \union ManagedIn(text) : \E i \in DOMAIN new.blocks : a \in new.blocks[i]
  <2>1. last \in DOMAIN new.blocks /\ \A i \in 1 .. Len(old) : i \in DOMAIN new.blocks
    BY <1>1, <1>4
  <2> QED
    BY <1>4, <1>5, <2>1
<1> QED
  BY <1>1, <1>2, <1>3, <1>4, <1>6, <1>7 DEF new, old

LEMMA BlockRemoved ==
    ASSUME NEW text \in Texts, text.blocks # <<>>
    PROVE  LET new == WithoutBlock(text) IN
           /\ new \in Texts /\ new.own = text.own /\ new.whole = text.whole
           /\ Len(text.blocks) \in Nat /\ Len(new.blocks) = Len(text.blocks) - 1
           /\ Alone(text) => Alone(new)
<1> DEFINE new == WithoutBlock(text)
           old == text.blocks
<1>1. old \in Seq(SUBSET DefaultShortcuts) /\ Len(old) \in Nat \ {0} /\ DOMAIN old = 1 .. Len(old)
  BY DEF Texts
<1>2. new.blocks = Tail(old) /\ new.own = text.own /\ new.whole = text.whole /\ new \in Texts
  <2>1. new = [text EXCEPT !.blocks = Tail(old)]
    BY DEF WithoutBlock
  <2>2. Tail(old) \in Seq(SUBSET DefaultShortcuts)
    BY <1>1
  <2> QED
    BY <2>1, <2>2 DEF Texts
<1>3. Len(Tail(old)) = Len(old) - 1 /\ \A i \in 1 .. Len(old) - 1 : Tail(old)[i] = old[i + 1]
  BY <1>1
<1>4. DOMAIN Tail(old) = 1 .. Len(old) - 1
  BY <1>1
<1> HIDE DEF new, old
<1>5. Alone(text) => Alone(new)
  <2> SUFFICES ASSUME Alone(text), NEW i \in 1 .. Len(old) - 1, NEW j \in 1 .. Len(old) - 1, i # j
               PROVE  Tail(old)[i] \intersect Tail(old)[j] = {}
    BY <1>2, <1>4 DEF Alone
  <2>1. i + 1 \in DOMAIN old /\ j + 1 \in DOMAIN old /\ i + 1 # j + 1
    BY <1>1
  <2> QED
    BY <1>3, <2>1 DEF Alone, old
<1> QED
  BY <1>1, <1>2, <1>3, <1>5 DEF new, old

LEMMA PlanInstallKeeps == ASSUME NiriInv, PlanInstall PROVE NiriInv'
<1>1. /\ nbCommand \in NiriCommands /\ nbCommand # NoCommand /\ nbCommand.step = "install"
      /\ UNCHANGED <<nbFile, nbBackup, nbIncluded, nbElsewhere, nbCommands, nbHandEdits, nbOwn, nbRaced, nbOverCut>>
  BY RunningOrNot DEF PlanInstall
<1>2. CASE CommandEnds("Conflict") \/ CommandEnds("Ok")
  <2>1. nbCommands' = nbCommands /\ nbCommands \in 0 .. MaxCommands
    BY <1>1 DEF NiriInv, NiriTyped
  <2> QED
    BY <1>1, <1>2, <2>1, CommandEndsKeeps
<1>3. CASE /\ TakenKeys = {} /\ UNCHANGED nbOutcome
           /\ nbCommand' = [nbCommand EXCEPT !.step = "backup", !.new = WithBlock(nbCommand.text, MissingShortcuts)]
  <2> DEFINE text == nbCommand.text
             new == WithBlock(text, MissingShortcuts)
  <2>1. text \in Texts /\ nbCommand.kind \in {"install", "remove"} /\ MissingShortcuts \in SUBSET DefaultShortcuts
    BY <1>1, CommandMoves DEF MissingShortcuts
  <2>2. MissingShortcuts \intersect ManagedIn(text) = {}
    BY <1>3 DEF TakenKeys, BindingKeys
  <2>3. /\ new \in Texts /\ new.own = text.own /\ new.whole = text.whole
        /\ Len(new.blocks) = Len(text.blocks) + 1 /\ Len(text.blocks) \in Nat
        /\ Alone(text) => Alone(new)
        /\ \A a \in MissingShortcuts \union ManagedIn(text) : \E i \in DOMAIN new.blocks : a \in new.blocks[i]
    BY <2>1, <2>2, BlockAdded
  <2> HIDE DEF new
  <2>4. /\ nbCommand' \in NiriCommands /\ nbCommand'.step = "backup" /\ nbCommand'.kind = nbCommand.kind
        /\ nbCommand'.text = text /\ nbCommand'.new = new /\ nbCommand' # NoCommand
    <3>1. nbCommand' = [nbCommand EXCEPT !.step = "backup", !.new = new]
      BY <1>3 DEF new
    <3>2. /\ nbCommand' \in NiriCommands /\ nbCommand'.step = "backup" /\ nbCommand'.kind = nbCommand.kind
          /\ nbCommand'.text = text /\ nbCommand'.new = new
      BY <1>1, <2>3, <3>1 DEF NiriCommands
    <3> QED
      BY <3>2, RunningOrNot
  <2>5. NiriTyped'
    BY <1>1, <1>3, <2>3, <2>4 DEF NiriInv, NiriTyped
  <2>6. BlocksAlone'
    BY <1>1, <2>3, <2>4 DEF NiriInv, BlocksAlone, Alone
  <2>7. ASSUME ~nbRaced PROVE CommandTrue(nbCommand)'
    <3>1. text = nbFile /\ (text.whole => text.own = nbOwn)
      BY <1>1, <2>7 DEF NiriInv, NotRaced, CommandTrue
    <3>2. BindsAll(new)
      BY <2>3, <3>1 DEF BindsAll, MissingShortcuts, DiscoverActive
    <3> QED
      BY <1>1, <2>3, <2>4, <3>1, <3>2 DEF CommandTrue, BindsAll
  <2>8. NotRaced'
    BY <1>1, <2>4, <2>7 DEF NiriInv, NotRaced, HoldsOwn
  <2> QED
    BY <2>5, <2>6, <2>8 DEF NiriInv
<1> QED
  BY <1>2, <1>3 DEF PlanInstall

LEMMA PlanRemovalKeeps == ASSUME NiriInv, PlanRemoval PROVE NiriInv'
<1>1. /\ nbCommand \in NiriCommands /\ nbCommand # NoCommand /\ nbCommand.step = "remove"
      /\ UNCHANGED <<nbFile, nbBackup, nbIncluded, nbElsewhere, nbCommands, nbHandEdits, nbOwn, nbRaced, nbOverCut>>
  BY RunningOrNot DEF PlanRemoval
<1>2. CASE CommandEnds("Ok")
  <2>1. nbCommands' = nbCommands /\ nbCommands \in 0 .. MaxCommands
    BY <1>1 DEF NiriInv, NiriTyped
  <2> QED
    BY <1>1, <1>2, <2>1, CommandEndsKeeps
<1>3. CASE /\ nbCommand.text.blocks # <<>> /\ UNCHANGED nbOutcome
           /\ nbCommand' = [nbCommand EXCEPT !.step = "backup", !.new = WithoutBlock(nbCommand.text)]
  <2> DEFINE text == nbCommand.text
             new == WithoutBlock(text)
  <2>1. text \in Texts /\ nbCommand.kind \in {"install", "remove"}
    BY <1>1, CommandMoves
  <2>2. /\ new \in Texts /\ new.own = text.own /\ new.whole = text.whole
        /\ Len(text.blocks) \in Nat /\ Len(new.blocks) = Len(text.blocks) - 1
        /\ Alone(text) => Alone(new)
    BY <1>3, <2>1, BlockRemoved
  <2> HIDE DEF new
  <2>3. /\ nbCommand' \in NiriCommands /\ nbCommand'.step = "backup" /\ nbCommand'.kind = nbCommand.kind
        /\ nbCommand'.text = text /\ nbCommand'.new = new /\ nbCommand' # NoCommand
    <3>1. nbCommand' = [nbCommand EXCEPT !.step = "backup", !.new = new]
      BY <1>3 DEF new
    <3>2. /\ nbCommand' \in NiriCommands /\ nbCommand'.step = "backup" /\ nbCommand'.kind = nbCommand.kind
          /\ nbCommand'.text = text /\ nbCommand'.new = new
      BY <1>1, <2>2, <3>1 DEF NiriCommands
    <3> QED
      BY <3>2, RunningOrNot
  <2>4. NiriTyped'
    BY <1>1, <1>3, <2>2, <2>3 DEF NiriInv, NiriTyped
  <2>5. BlocksAlone'
    BY <1>1, <2>2, <2>3 DEF NiriInv, BlocksAlone, Alone
  <2>6. NotRaced'
    BY <1>1, <2>2, <2>3 DEF NiriInv, NotRaced, HoldsOwn, CommandTrue
  <2> QED
    BY <2>4, <2>5, <2>6 DEF NiriInv
<1> QED
  BY <1>2, <1>3 DEF PlanRemoval

(* What a failed write leaves is the old text, or one with its end cut.    *)
LEMMA FailedWriteLeaves ==
    ASSUME NEW new \in Texts, NEW old, NEW left \in AfterFailedWrite(old, new)
    PROVE  /\ left = old \/ (left \in Texts /\ ~left.whole)
           /\ left # old => Len(left.blocks) <= Len(new.blocks) /\ (Alone(new) => Alone(left))
<1>1. Len(new.blocks) \in Nat
  BY DEF Texts
<1>2. CASE left = EmptyText
  <2>1. <<>> \in Seq(SUBSET DefaultShortcuts) /\ Len(<<>>) = 0 /\ DOMAIN <<>> = {}
    OBVIOUS
  <2>2. left.blocks = <<>> /\ left.whole = FALSE /\ left \in Texts
    BY <1>2, <2>1 DEF EmptyText, Texts, KeyUses
  <2> QED
    BY <1>1, <2>1, <2>2 DEF Alone
<1>3. ASSUME NEW closed \in BOOLEAN, left = [new EXCEPT !.closed = closed, !.whole = FALSE]
      PROVE  /\ left \in Texts /\ ~left.whole
             /\ Len(left.blocks) <= Len(new.blocks) /\ (Alone(new) => Alone(left))
  <2>1. left \in Texts /\ left.whole = FALSE /\ left.blocks = new.blocks
    BY <1>3 DEF Texts
  <2> QED
    BY <1>1, <2>1 DEF Alone
<1>4. new.closed \in BOOLEAN
  BY DEF Texts
<1> QED
  BY <1>2, <1>3, <1>4 DEF AfterFailedWrite

(* A command goes on with another step. *)
LEMMA CommandGoesOn ==
    ASSUME NiriInv, NEW step \in {"write", "validate", "restore"}, CommandGoes(step),
           nbCommand \in NiriCommands, nbCommand # NoCommand
    PROVE  /\ nbCommand' \in NiriCommands /\ nbCommand'.step = step /\ nbCommand'.kind = nbCommand.kind
           /\ nbCommand'.text = nbCommand.text /\ nbCommand'.new = nbCommand.new /\ nbCommand' # NoCommand
           /\ nbOutcome' = nbOutcome
BY CommandMoves, RunningOrNot DEF CommandGoes

LEMMA WriteBackupKeeps == ASSUME NiriInv, WriteBackup PROVE NiriInv'
<1> DEFINE c == nbCommand
<1>1. /\ c \in NiriCommands /\ c # NoCommand /\ c.step = "backup" /\ c.text \in Texts /\ c.new \in Texts
      /\ c.kind \in {"install", "remove"} /\ nbOverCut' = (nbOverCut \/ ~c.text.whole)
      /\ UNCHANGED <<nbFile, nbIncluded, nbElsewhere, nbCommands, nbHandEdits, nbOwn, nbRaced>>
  BY RunningOrNot, CommandMoves DEF WriteBackup
<1>2. nbOverCut' \in BOOLEAN /\ (~nbOverCut' => ~nbOverCut /\ c.text.whole)
  BY <1>1 DEF NiriInv, NiriTyped
<1>3. ~nbRaced => CommandTrue(c)
  BY <1>1 DEF NiriInv, NotRaced
<1>4. ~nbRaced /\ ~nbOverCut' => HoldsOwn(nbFile)
  BY <1>1, <1>2, <1>3, NotABackup DEF CommandTrue, HoldsOwn
<1>5. CASE nbBackup' = c.text /\ CommandGoes("write")
  <2>1. /\ nbCommand' \in NiriCommands /\ nbCommand'.step = "write" /\ nbCommand'.kind = c.kind
        /\ nbCommand'.text = c.text /\ nbCommand'.new = c.new /\ nbCommand' # NoCommand /\ nbOutcome' = nbOutcome
    BY <1>1, <1>5, CommandGoesOn
  <2>2. NiriTyped'
    BY <1>1, <1>2, <1>5, <2>1 DEF NiriInv, NiriTyped
  <2>3. BlocksAlone'
    BY <1>1, <2>1 DEF NiriInv, BlocksAlone, Alone
  <2>4. ~nbRaced => CommandTrue(nbCommand)'
    BY <1>1, <1>2, <1>3, <1>5, <2>1 DEF CommandTrue, BindsAll
  <2>5. NotRaced'
    BY <1>1, <1>4, <2>1, <2>4 DEF NiriInv, NotRaced, HoldsOwn
  <2> QED
    BY <2>2, <2>3, <2>5 DEF NiriInv
<1>6. CASE nbBackup' \in AfterFailedWrite(nbBackup, c.text) /\ CommandEnds("Error")
  <2>1. nbBackup' \in Texts \union {NoBackup}
    BY <1>1, <1>6, FailedWriteLeaves DEF NiriInv, NiriTyped
  <2>2. nbCommand' = NoCommand /\ nbOutcome' = "Error"
    BY <1>6 DEF CommandEnds
  <2>3. NiriTyped'
    BY <1>1, <1>2, <2>1, <2>2 DEF NiriInv, NiriTyped
  <2>4. BlocksAlone'
    BY <1>1, <2>2 DEF NiriInv, BlocksAlone, Alone
  <2>5. NotRaced'
    BY <1>1, <1>4, <2>2 DEF NiriInv, NotRaced, HoldsOwn
  <2> QED
    BY <2>3, <2>4, <2>5 DEF NiriInv
<1> QED
  BY <1>5, <1>6 DEF WriteBackup

LEMMA WriteKeybindsKeeps == ASSUME NiriInv, WriteKeybinds PROVE NiriInv'
<1> DEFINE c == nbCommand
<1>1. /\ c \in NiriCommands /\ c # NoCommand /\ c.step = "write" /\ c.text \in Texts /\ c.new \in Texts
      /\ c.kind \in {"install", "remove"}
      /\ UNCHANGED <<nbBackup, nbIncluded, nbElsewhere, nbCommands, nbHandEdits, nbOwn, nbRaced, nbOverCut>>
  BY RunningOrNot, CommandMoves DEF WriteKeybinds
<1>2. ~nbRaced => CommandTrue(c)
  BY <1>1 DEF NiriInv, NotRaced
<1>3. ~nbRaced /\ ~nbOverCut => HoldsOwn(nbBackup)
  BY <1>1, <1>2, NotABackup DEF CommandTrue, HoldsOwn
<1>4. CASE nbFile' = c.new /\ CommandGoes("validate")
  <2>1. /\ nbCommand' \in NiriCommands /\ nbCommand'.step = "validate" /\ nbCommand'.kind = c.kind
        /\ nbCommand'.text = c.text /\ nbCommand'.new = c.new /\ nbCommand' # NoCommand /\ nbOutcome' = nbOutcome
    BY <1>1, <1>4, CommandGoesOn
  <2>2. NiriTyped'
    BY <1>1, <1>4, <2>1 DEF NiriInv, NiriTyped
  <2>3. BlocksAlone'
    BY <1>1, <1>4, <2>1 DEF NiriInv, BlocksAlone, Alone
  <2>4. ~nbRaced => CommandTrue(nbCommand)'
    BY <1>1, <1>2, <1>4, <2>1 DEF CommandTrue, BindsAll
  <2>5. NotRaced'
    BY <1>1, <1>2, <1>3, <1>4, <2>1, <2>4 DEF NotRaced, HoldsOwn, CommandTrue
  <2> QED
    BY <2>2, <2>3, <2>5 DEF NiriInv
<1>5. CASE nbFile' \in AfterFailedWrite(nbFile, c.new) /\ CommandEnds("Error")
  <2>1. /\ nbFile' = nbFile \/ (nbFile' \in Texts /\ ~nbFile'.whole)
        /\ nbFile' # nbFile => Len(nbFile'.blocks) <= Len(c.new.blocks) /\ (Alone(c.new) => Alone(nbFile'))
    BY <1>1, <1>5, FailedWriteLeaves
  <2>2. nbCommand' = NoCommand /\ nbOutcome' = "Error"
    BY <1>5 DEF CommandEnds
  <2>3. Len(nbFile'.blocks) <= nbCommands /\ nbFile' \in Texts
    <3>1. Len(c.new.blocks) <= nbCommands /\ Len(nbFile.blocks) <= nbCommands /\ nbFile \in Texts /\ nbCommands \in Nat
      BY <1>1 DEF NiriInv, NiriTyped
    <3>2. nbFile' \in Texts
      BY <2>1, <3>1
    <3>3. Len(c.new.blocks) \in Nat /\ Len(nbFile'.blocks) \in Nat
      BY <1>1, <3>2 DEF Texts
    <3> QED
      BY <2>1, <3>1, <3>2, <3>3
  <2>4. NiriTyped'
    BY <1>1, <2>2, <2>3 DEF NiriInv, NiriTyped
  <2>5. Alone(nbFile')
    BY <1>1, <2>1 DEF NiriInv, BlocksAlone
  <2>6. BlocksAlone'
    BY <2>2, <2>5 DEF BlocksAlone, Alone
  <2>7. NotRaced'
    BY <1>1, <1>3, <2>1, <2>2 DEF NiriInv, NotRaced, HoldsOwn
  <2> QED
    BY <2>4, <2>6, <2>7 DEF NiriInv
<1> QED
  BY <1>4, <1>5 DEF WriteKeybinds

LEMMA ValidateKeeps == ASSUME NiriInv, ValidateKeybinds PROVE NiriInv'
<1> DEFINE c == nbCommand
<1>1. /\ c \in NiriCommands /\ c # NoCommand /\ c.step = "validate" /\ c.text \in Texts /\ c.new \in Texts
      /\ c.kind \in {"install", "remove"}
      /\ UNCHANGED <<nbFile, nbBackup, nbIncluded, nbElsewhere, nbCommands, nbHandEdits, nbOwn, nbRaced, nbOverCut>>
  BY RunningOrNot, CommandMoves DEF ValidateKeybinds
<1>2. ~nbRaced => CommandTrue(c)
  BY <1>1 DEF NiriInv, NotRaced
<1>3. CASE CommandEnds(IF nbCommand.kind = "install" THEN "Installed" ELSE "Removed")
  <2>1. /\ nbCommand' = NoCommand /\ nbOutcome' \in {"Installed", "Removed"} /\ (nbOutcome' = "Installed" => c.kind = "install")
    BY <1>3 DEF CommandEnds
  <2>2. NiriTyped'
    BY <1>1, <2>1 DEF NiriInv, NiriTyped
  <2>3. BlocksAlone'
    BY <1>1, <2>1 DEF NiriInv, BlocksAlone, Alone
  <2>4. ~nbRaced /\ ~nbOverCut => HoldsOwn(nbFile)
    BY <1>1, <1>2, NotABackup DEF CommandTrue, HoldsOwn
  <2>5. ~nbRaced /\ ~nbOverCut /\ c.kind = "install" => BindsAll(nbFile)
    BY <1>1, <1>2 DEF CommandTrue
  <2>6. NotRaced'
    BY <1>1, <2>1, <2>4, <2>5 DEF NiriInv, NotRaced, HoldsOwn, BindsAll
  <2> QED
    BY <2>2, <2>3, <2>6 DEF NiriInv
<1>4. CASE CommandGoes("restore")
  <2>1. /\ nbCommand' \in NiriCommands /\ nbCommand'.step = "restore" /\ nbCommand'.kind = c.kind
        /\ nbCommand'.text = c.text /\ nbCommand'.new = c.new /\ nbCommand' # NoCommand /\ nbOutcome' = nbOutcome
    BY <1>1, <1>4, CommandGoesOn
  <2>2. NiriTyped'
    BY <1>1, <2>1 DEF NiriInv, NiriTyped
  <2>3. BlocksAlone'
    BY <1>1, <2>1 DEF NiriInv, BlocksAlone, Alone
  <2>4. ~nbRaced => CommandTrue(nbCommand)'
    BY <1>1, <1>2, <2>1 DEF CommandTrue, BindsAll
  <2>5. NotRaced'
    BY <1>1, <2>1, <2>4 DEF NiriInv, NotRaced, HoldsOwn
  <2> QED
    BY <2>2, <2>3, <2>5 DEF NiriInv
<1> QED
  BY <1>3, <1>4 DEF ValidateKeybinds

LEMMA RestoreKeeps == ASSUME NiriInv, RestoreKeybinds PROVE NiriInv'
<1> DEFINE c == nbCommand
<1>1. /\ c \in NiriCommands /\ c # NoCommand /\ c.step = "restore" /\ c.text \in Texts
      /\ nbCommand' = NoCommand /\ nbOutcome' = "Error"
      /\ UNCHANGED <<nbBackup, nbIncluded, nbElsewhere, nbCommands, nbHandEdits, nbOwn, nbRaced, nbOverCut>>
      /\ nbFile' \in {c.text} \union AfterFailedWrite(nbFile, c.text)
  BY RunningOrNot, CommandMoves DEF RestoreKeybinds, CommandEnds
<1>2. ~nbRaced => CommandTrue(c)
  BY <1>1 DEF NiriInv, NotRaced
<1>3. ~nbRaced /\ ~nbOverCut => HoldsOwn(nbBackup)
  BY <1>1, <1>2, NotABackup DEF CommandTrue, HoldsOwn
<1>4. /\ nbFile' = nbFile \/ nbFile' = c.text \/ (nbFile' \in Texts /\ ~nbFile'.whole)
      /\ nbFile' # nbFile => Len(nbFile'.blocks) <= Len(c.text.blocks) /\ (Alone(c.text) => Alone(nbFile'))
  <2>1. Len(c.text.blocks) \in Nat
    BY <1>1 DEF Texts
  <2>2. CASE nbFile' = c.text
    BY <2>1, <2>2
  <2>3. CASE nbFile' \in AfterFailedWrite(nbFile, c.text)
    BY <1>1, <2>3, FailedWriteLeaves
  <2> QED
    BY <1>1, <2>2, <2>3
<1>5. Len(nbFile'.blocks) <= nbCommands /\ nbFile' \in Texts
  <2>1. Len(c.text.blocks) < nbCommands /\ Len(nbFile.blocks) <= nbCommands /\ nbFile \in Texts /\ nbCommands \in Nat
    BY <1>1 DEF NiriInv, NiriTyped
  <2>2. nbFile' \in Texts
    BY <1>1, <1>4, <2>1
  <2>3. Len(c.text.blocks) \in Nat /\ Len(nbFile'.blocks) \in Nat
    BY <1>1, <2>2 DEF Texts
  <2> QED
    BY <1>4, <2>1, <2>2, <2>3
<1>6. NiriTyped'
  BY <1>1, <1>5 DEF NiriInv, NiriTyped
<1>7. Alone(nbFile')
  BY <1>1, <1>4 DEF NiriInv, BlocksAlone
<1>8. BlocksAlone'
  BY <1>1, <1>7 DEF BlocksAlone, Alone
<1>9. NotRaced'
  BY <1>1, <1>2, <1>3, <1>4 DEF NiriInv, NotRaced, HoldsOwn, CommandTrue
<1> QED
  BY <1>6, <1>8, <1>9 DEF NiriInv

LEMMA KilledKeeps == ASSUME NiriInv, CommandKilled PROVE NiriInv'
<1>1. /\ CommandEnds("None") /\ nbCommands' = nbCommands
      /\ UNCHANGED <<nbFile, nbBackup, nbIncluded, nbElsewhere, nbHandEdits, nbOwn, nbRaced, nbOverCut>>
  BY DEF CommandKilled
<1>2. nbCommands \in 0 .. MaxCommands
  BY DEF NiriInv, NiriTyped
<1> QED
  BY <1>1, <1>2, CommandEndsKeeps

LEMMA EditKeeps == ASSUME NiriInv, EditKeybinds PROVE NiriInv'
<1>1. /\ nbHandEdits' \in 0 .. MaxHandEdits /\ nbOutcome' = "None" /\ nbOverCut' = FALSE
      /\ nbRaced' = (nbCommand # NoCommand)
      /\ UNCHANGED <<nbBackup, nbIncluded, nbElsewhere, nbCommand, nbCommands>>
  <2>1. nbRaced' = (nbCommand # NoCommand)
    <3>1. CommandAt("none") <=> nbCommand = NoCommand
      BY RunningOrNot
    <3> QED
      BY <3>1 DEF EditKeybinds
  <2>2. nbHandEdits' \in 0 .. MaxHandEdits
    <3>1. nbHandEdits < MaxHandEdits /\ nbHandEdits' = nbHandEdits + 1
      BY DEF EditKeybinds
    <3>2. nbHandEdits \in 0 .. MaxHandEdits
      BY DEF NiriInv, NiriTyped
    <3> QED
      BY <3>1, <3>2, NiriAssumption
  <2> QED
    BY <2>1, <2>2 DEF EditKeybinds
<1>2. /\ nbFile \in Texts /\ Len(nbFile.blocks) <= nbCommands /\ Alone(nbFile) /\ nbOwn \in [DefaultShortcuts -> KeyUses]
  BY DEF NiriInv, NiriTyped, BlocksAlone
<1>3. /\ nbOwn' \in [DefaultShortcuts -> KeyUses] /\ nbFile' \in Texts /\ nbFile'.own = nbOwn' /\ nbFile'.whole = TRUE
      /\ Len(nbFile'.blocks) = Len(nbFile.blocks) /\ Alone(nbFile')
  <2>1. CASE /\ \E a \in DefaultShortcuts, use \in KeyUses : nbOwn' = [nbOwn EXCEPT ![a] = use]
             /\ nbFile' = [nbFile EXCEPT !.own = nbOwn', !.closed = TRUE, !.whole = TRUE]
    <3>1. nbOwn' \in [DefaultShortcuts -> KeyUses]
      BY <1>2, <2>1
    <3>2. nbFile' \in Texts /\ nbFile'.own = nbOwn' /\ nbFile'.whole = TRUE /\ nbFile'.blocks = nbFile.blocks
      BY <1>2, <2>1, <3>1 DEF Texts
    <3> QED
      BY <1>2, <3>1, <3>2 DEF Alone
  <2>2. ASSUME NEW i \in DOMAIN nbFile.blocks, NEW a \in DefaultShortcuts, UNCHANGED nbOwn,
               nbFile' = [nbFile EXCEPT !.blocks[i] = @ \ {a}, !.own = nbOwn, !.closed = TRUE, !.whole = TRUE]
        PROVE  /\ nbFile' \in Texts /\ nbFile'.own = nbOwn /\ nbFile'.whole = TRUE
               /\ Len(nbFile'.blocks) = Len(nbFile.blocks) /\ Alone(nbFile')
    <3> DEFINE old == nbFile.blocks
               blocks == [old EXCEPT ![i] = old[i] \ {a}]
    <3>1. old \in Seq(SUBSET DefaultShortcuts) /\ i \in 1 .. Len(old) /\ old[i] \in SUBSET DefaultShortcuts
      BY <1>2 DEF Texts
    <3>2. /\ blocks \in Seq(SUBSET DefaultShortcuts) /\ Len(blocks) = Len(old) /\ DOMAIN blocks = DOMAIN old
          /\ \A j \in DOMAIN old : blocks[j] \subseteq old[j]
      BY <3>1
    <3>3. nbFile' = [own |-> nbOwn, blocks |-> blocks, closed |-> TRUE, whole |-> TRUE]
      BY <1>2, <2>2 DEF Texts
    <3> HIDE DEF blocks
    <3> QED
      BY <1>2, <3>2, <3>3 DEF Alone, Texts
  <2> QED
    BY <1>2, <2>1, <2>2 DEF EditKeybinds
<1>4. NiriTyped'
  BY <1>1, <1>2, <1>3 DEF NiriInv, NiriTyped
<1>5. BlocksAlone'
  BY <1>1, <1>3 DEF NiriInv, BlocksAlone, Alone
<1>6. NotRaced'
  BY <1>1, <1>3, NotABackup DEF NotRaced, HoldsOwn
<1> QED
  BY <1>4, <1>5, <1>6 DEF NiriInv

LEMMA BindsElsewhereKeeps == ASSUME NiriInv, NEW a \in DefaultShortcuts, BindsElsewhere(a) PROVE NiriInv'
<1>1. /\ nbHandEdits' \in 0 .. MaxHandEdits /\ nbElsewhere' = nbElsewhere \union {a}
      /\ UNCHANGED <<nbFile, nbBackup, nbIncluded, nbCommand, nbOutcome, nbCommands, nbOwn, nbRaced, nbOverCut>>
  BY NiriAssumption DEF BindsElsewhere, NiriInv, NiriTyped
<1>2. NiriTyped'
  BY <1>1 DEF NiriInv, NiriTyped
<1>3. BlocksAlone'
  BY <1>1 DEF NiriInv, BlocksAlone, Alone
<1>4. NotRaced'
  BY <1>1 DEF NiriInv, NotRaced, CommandTrue, HoldsOwn, BindsAll
<1> QED
  BY <1>2, <1>3, <1>4 DEF NiriInv

LEMMA NiriStart == NiriInit => NiriInv
<1> SUFFICES ASSUME NiriInit PROVE NiriInv
  OBVIOUS
<1>1. <<>> \in Seq(SUBSET DefaultShortcuts) /\ Len(<<>>) = 0 /\ DOMAIN <<>> = {}
  OBVIOUS
<1>2. nbFile \in Texts /\ nbFile.blocks = <<>> /\ nbFile.own = nbOwn /\ nbFile.whole = TRUE
  BY <1>1 DEF NiriInit, Texts
<1>3. NiriTyped
  <2>1. nbOwn \in [DefaultShortcuts -> KeyUses] /\ nbIncluded \in BOOLEAN /\ nbBackup = NoBackup
    BY DEF NiriInit
  <2>2. /\ nbElsewhere = {} /\ nbCommand = NoCommand /\ nbOutcome = "None" /\ nbCommands = 0 /\ nbHandEdits = 0
        /\ nbRaced = FALSE /\ nbOverCut = FALSE
    BY DEF NiriInit
  <2>3. nbCommands \in 0 .. MaxCommands /\ nbHandEdits \in 0 .. MaxHandEdits /\ Len(nbFile.blocks) <= nbCommands
    BY <1>1, <1>2, <2>2, NiriAssumption
  <2> QED
    BY <1>2, <2>1, <2>2, <2>3 DEF NiriTyped
<1>4. BlocksAlone
  BY <1>1, <1>2 DEF NiriInit, BlocksAlone, Alone
<1>5. NotRaced
  BY <1>2, NotABackup DEF NiriInit, NotRaced, HoldsOwn
<1> QED
  BY <1>3, <1>4, <1>5 DEF NiriInv

LEMMA NiriStep == NiriInv /\ [NiriNext]_nbVars => NiriInv'
<1> SUFFICES ASSUME NiriInv, [NiriNext]_nbVars PROVE NiriInv'
  OBVIOUS
<1>1. CASE UNCHANGED nbVars
  BY <1>1 DEF nbVars, NiriInv, NiriTyped, BlocksAlone, Alone, NotRaced, CommandTrue, HoldsOwn, BindsAll
<1>2. CASE NiriNext
  BY <1>2, ReadKeybindsKeeps, PlanInstallKeeps, PlanRemovalKeeps, WriteBackupKeeps, WriteKeybindsKeeps, ValidateKeeps,
     RestoreKeeps, KilledKeeps, EditKeeps, BindsElsewhereKeeps DEF NiriNext
<1> QED
  BY <1>1, <1>2

LEMMA NiriInvSafe == NiriInv => NiriTypeOK /\ BindingsSafe
<1> SUFFICES ASSUME NiriInv PROVE NiriTypeOK /\ BindingsSafe
  OBVIOUS
<1>1. nbFile \in KeybindTexts(nbFile.own)
  <2> DEFINE blocks == nbFile.blocks
  <2>1. /\ blocks \in Seq(SUBSET DefaultShortcuts) /\ Len(blocks) \in Nat /\ Len(blocks) <= nbCommands
        /\ nbCommands \in 0 .. MaxCommands /\ nbFile.closed \in BOOLEAN /\ nbFile.whole \in BOOLEAN
    BY DEF NiriInv, NiriTyped, Texts
  <2>2. blocks \in [1 .. Len(blocks) -> SUBSET DefaultShortcuts] /\ Len(blocks) \in 0 .. MaxCommands
    BY <2>1, NiriAssumption
  <2>3. blocks \in BoundedSeq(SUBSET DefaultShortcuts, MaxCommands)
    BY <2>2 DEF BoundedSeq, SeqOf
  <2>4. nbFile = [own |-> nbFile.own, blocks |-> blocks, closed |-> nbFile.closed, whole |-> nbFile.whole]
    BY DEF NiriInv, NiriTyped, Texts
  <2> QED
    BY <2>1, <2>3, <2>4 DEF KeybindTexts
<1>2. nbCommand.step \in {"none", "install", "remove", "backup", "write", "validate", "restore"}
  BY DEF NiriInv, NiriTyped, NiriCommands, NoCommand
<1>3. nbBackup = NoBackup \/ nbBackup.own \in [DefaultShortcuts -> KeyUses]
  BY DEF NiriInv, NiriTyped, Texts
<1>4. NiriTypeOK
  BY <1>1, <1>2, <1>3 DEF NiriTypeOK, NiriInv, NiriTyped
<1>5. OwnBindingsKept
  BY DEF OwnBindingsKept, NiriInv, NotRaced
<1>6. ReportTrue
  <2>1. BindsAll(nbFile) => DefaultShortcuts \subseteq DiscoverActive
    BY DEF BindsAll, DiscoverActive, ManagedIn, Range
  <2>2. CommandAt("none") => nbCommand = NoCommand
    BY RunningOrNot
  <2> QED
    BY <2>1, <2>2 DEF ReportTrue, NiriInv, NotRaced, BlocksAlone, Alone
<1> QED
  BY <1>4, <1>5, <1>6 DEF BindingsSafe

(* For any shortcuts and any number of commands and edits, what the user    *)
(* wrote in keybinds.kdl is in the file or whole in its backup, and what    *)
(* install and remove report is so (shortcuts/niri.rs).                     *)
THEOREM BindingsKept == NiriSpec => [](NiriTypeOK /\ BindingsSafe)
<1>1. NiriInit => NiriInv
  BY NiriStart
<1>2. NiriInv /\ [NiriNext]_nbVars => NiriInv'
  BY NiriStep
<1>3. NiriInv => NiriTypeOK /\ BindingsSafe
  BY NiriInvSafe
<1> QED
  BY <1>1, <1>2, <1>3, PTL DEF NiriSpec

-----------------------------------------------------------------------------
(* The preparation of a picture (ImagePrep). A function defined by         *)
(* recursion over 0 .. n exists, and takes its first value and its steps:  *)
(* there is no least number for which it would not.                        *)
LEMMA LeastNat ==
    ASSUME NEW T \in SUBSET Nat, T # {}
    PROVE  \E x \in T : \A y \in T : x <= y
<1> DEFINE R == OpToRel(<, Nat)
<1>1. \A x, y \in Nat : x < y => <<x, y>> \in R
  BY DEF OpToRel
<1>2. IsWellFoundedOn(R, Nat)
  BY NatLessThanWellFounded
<1> HIDE DEF R
<1>3. PICK x \in T : \A y \in T : ~(<<y, x>> \in R)
  BY <1>2, WFMin
<1>4. \A y \in T : ~(y < x)
  BY <1>1, <1>3
<1> QED
  BY <1>4

(* The columns that have entered, one more.                                 *)
SlideNext(row, half, maximum, g, i) ==
    IF i = 0 THEN [queue |-> <<>>, out |-> <<>>]
    ELSE SlideOn(g[i - 1], row, i, half, maximum)

SlideRun(row, half, maximum, n, g) == g = [i \in 0 .. n |-> SlideNext(row, half, maximum, g, i)]

LEMMA SlideIsThere ==
    ASSUME NEW row, NEW half, NEW maximum, NEW n \in Nat
    PROVE  \E g : SlideRun(row, half, maximum, n, g)
<1> SUFFICES \E g : g = [i \in 0 .. n |-> SlideNext(row, half, maximum, g, i)]
  BY DEF SlideRun
<1> DEFINE T == {k \in Nat : ~ \E g : g = [i \in 0 .. k |-> SlideNext(row, half, maximum, g, i)]}
<1> SUFFICES ASSUME T # {} PROVE FALSE
  OBVIOUS
<1>1. PICK t \in T : \A k \in T : t <= k
  BY LeastNat
<1>2. CASE t = 0
  <2> DEFINE g == [i \in 0 .. 0 |-> [queue |-> <<>>, out |-> <<>>]]
  <2>1. g = [i \in 0 .. 0 |-> SlideNext(row, half, maximum, g, i)]
    BY DEF SlideNext
  <2> HIDE DEF g
  <2>2. \E f : f = [i \in 0 .. t |-> SlideNext(row, half, maximum, f, i)]
    BY <1>2, <2>1
  <2> QED
    BY <2>2
<1>3. CASE t # 0
  <2>1. t - 1 \in Nat /\ t - 1 \notin T /\ t \in Nat
    BY <1>1, <1>3
  <2>2. PICK g : g = [i \in 0 .. t - 1 |-> SlideNext(row, half, maximum, g, i)]
    BY <2>1
  <2> DEFINE last == SlideNext(row, half, maximum, g, t)
             h == [i \in 0 .. t |-> IF i = t THEN last ELSE g[i]]
  <2>3. \A i \in 0 .. t : SlideNext(row, half, maximum, h, i) = h[i]
    <3> TAKE i \in 0 .. t
    <3>1. i # 0 => i - 1 \in 0 .. t /\ i - 1 # t /\ h[i - 1] = g[i - 1]
      BY <2>1
    <3>2. SlideNext(row, half, maximum, h, i) = SlideNext(row, half, maximum, g, i)
      BY <3>1 DEF SlideNext
    <3>3. i # t => g[i] = SlideNext(row, half, maximum, g, i)
      <4>1. i # t => i \in 0 .. t - 1
        BY <2>1
      <4>2. \A k \in 0 .. t - 1 : g[k] = SlideNext(row, half, maximum, g, k)
        BY <2>2
      <4> QED
        BY <4>1, <4>2
    <3> QED
      BY <3>2, <3>3
  <2> HIDE DEF last
  <2>4. h = [i \in 0 .. t |-> h[i]]
    OBVIOUS
  <2> HIDE DEF h
  <2>5. h = [i \in 0 .. t |-> SlideNext(row, half, maximum, h, i)]
    BY <2>3, <2>4
  <2> QED
    BY <2>5
<1> QED
  BY <1>2, <1>3

LEMMA SlideIs ==
    ASSUME NEW row \in Seq(Int), NEW half, NEW maximum
    PROVE  \E g : /\ DOMAIN g = 0 .. Len(row) /\ g[0] = [queue |-> <<>>, out |-> <<>>]
                  /\ \A i \in 1 .. Len(row) : g[i] = SlideOn(g[i - 1], row, i, half, maximum)
                  /\ Slide(row, half, maximum) = g[Len(row)]
<1>1. Len(row) \in Nat
  BY LenProperties
<1> DEFINE g == CHOOSE g : g = [i \in 0 .. Len(row) |-> SlideNext(row, half, maximum, g, i)]
<1>2. Slide(row, half, maximum) = g[Len(row)]
  BY DEF Slide, SlideNext
<1>0. \E f : SlideRun(row, half, maximum, Len(row), f)
  <2> HIDE DEF g
  <2> QED
    BY <1>1, SlideIsThere
<1>3. g = [i \in 0 .. Len(row) |-> SlideNext(row, half, maximum, g, i)]
  BY <1>0 DEF SlideRun
<1> HIDE DEF g
<1>4. DOMAIN g = 0 .. Len(row)
  BY <1>3
<1>5. \A i \in 0 .. Len(row) : g[i] = SlideNext(row, half, maximum, g, i)
  BY <1>3
<1>6. g[0] = [queue |-> <<>>, out |-> <<>>] /\ \A i \in 1 .. Len(row) : g[i] = SlideOn(g[i - 1], row, i, half, maximum)
  BY <1>1, <1>5 DEF SlideNext
<1> QED
  BY <1>2, <1>4, <1>6
LEMMA LevelsAre == MaxLevel \in Nat /\ MaxLevel + 1 \in Nat /\ Levels = 0 .. MaxLevel
BY PrepAssumption DEF Levels

(* The weights of the first greys.                                          *)
TotalNext(weights, g, i) ==
    IF i = 0 THEN 0
    ELSE g[i - 1] + weights[i - 1]

TotalRun(weights, n, g) == g = [i \in 0 .. n |-> TotalNext(weights, g, i)]

LEMMA TotalIsThere ==
    ASSUME NEW weights, NEW n \in Nat
    PROVE  \E g : TotalRun(weights, n, g)
<1> SUFFICES \E g : g = [i \in 0 .. n |-> TotalNext(weights, g, i)]
  BY DEF TotalRun
<1> DEFINE T == {k \in Nat : ~ \E g : g = [i \in 0 .. k |-> TotalNext(weights, g, i)]}
<1> SUFFICES ASSUME T # {} PROVE FALSE
  OBVIOUS
<1>1. PICK t \in T : \A k \in T : t <= k
  BY LeastNat
<1>2. CASE t = 0
  <2> DEFINE g == [i \in 0 .. 0 |-> 0]
  <2>1. g = [i \in 0 .. 0 |-> TotalNext(weights, g, i)]
    BY DEF TotalNext
  <2> HIDE DEF g
  <2>2. \E f : f = [i \in 0 .. t |-> TotalNext(weights, f, i)]
    BY <1>2, <2>1
  <2> QED
    BY <2>2
<1>3. CASE t # 0
  <2>1. t - 1 \in Nat /\ t - 1 \notin T /\ t \in Nat
    BY <1>1, <1>3
  <2>2. PICK g : g = [i \in 0 .. t - 1 |-> TotalNext(weights, g, i)]
    BY <2>1
  <2> DEFINE last == TotalNext(weights, g, t)
             h == [i \in 0 .. t |-> IF i = t THEN last ELSE g[i]]
  <2>3. \A i \in 0 .. t : TotalNext(weights, h, i) = h[i]
    <3> TAKE i \in 0 .. t
    <3>1. i # 0 => i - 1 \in 0 .. t /\ i - 1 # t /\ h[i - 1] = g[i - 1]
      BY <2>1
    <3>2. TotalNext(weights, h, i) = TotalNext(weights, g, i)
      BY <3>1 DEF TotalNext
    <3>3. i # t => g[i] = TotalNext(weights, g, i)
      <4>1. i # t => i \in 0 .. t - 1
        BY <2>1
      <4>2. \A k \in 0 .. t - 1 : g[k] = TotalNext(weights, g, k)
        BY <2>2
      <4> QED
        BY <4>1, <4>2
    <3> QED
      BY <3>2, <3>3
  <2> HIDE DEF last
  <2>4. h = [i \in 0 .. t |-> h[i]]
    OBVIOUS
  <2> HIDE DEF h
  <2>5. h = [i \in 0 .. t |-> TotalNext(weights, h, i)]
    BY <2>3, <2>4
  <2> QED
    BY <2>5
<1> QED
  BY <1>2, <1>3

LEMMA TotalIs ==
    ASSUME NEW weights
    PROVE  \E g : /\ DOMAIN g = 0 .. MaxLevel + 1 /\ g[0] = 0
                  /\ \A i \in 1 .. MaxLevel + 1 : g[i] = g[i - 1] + weights[i - 1]
                  /\ Total(weights) = g[MaxLevel + 1]
<1>1. MaxLevel + 1 \in Nat
  BY LevelsAre
<1> DEFINE g == CHOOSE g : g = [i \in 0 .. MaxLevel + 1 |-> TotalNext(weights, g, i)]
<1>2. Total(weights) = g[MaxLevel + 1]
  BY DEF Total, TotalNext
<1>0. \E f : TotalRun(weights, MaxLevel + 1, f)
  <2> HIDE DEF g
  <2> QED
    BY <1>1, TotalIsThere
<1>3. g = [i \in 0 .. MaxLevel + 1 |-> TotalNext(weights, g, i)]
  BY <1>0 DEF TotalRun
<1> HIDE DEF g
<1>4. DOMAIN g = 0 .. MaxLevel + 1
  BY <1>3
<1>5. \A i \in 0 .. MaxLevel + 1 : g[i] = TotalNext(weights, g, i)
  BY <1>3
<1>6. g[0] = 0 /\ \A i \in 1 .. MaxLevel + 1 : g[i] = g[i - 1] + weights[i - 1]
  BY <1>1, <1>5 DEF TotalNext
<1> QED
  BY <1>2, <1>4, <1>6

(* The greys that were looked at, one more.                                 *)
OtsuNext(counts, g, i) ==
    IF i = 0 THEN [below |-> 0, light |-> 0, top |-> 0, bottom |-> 0, best |-> 0]
    ELSE Visit(g[i - 1], counts, i - 1)

OtsuRun(counts, n, g) == g = [i \in 0 .. n |-> OtsuNext(counts, g, i)]

LEMMA OtsuIsThere ==
    ASSUME NEW counts, NEW n \in Nat
    PROVE  \E g : OtsuRun(counts, n, g)
<1> SUFFICES \E g : g = [i \in 0 .. n |-> OtsuNext(counts, g, i)]
  BY DEF OtsuRun
<1> DEFINE T == {k \in Nat : ~ \E g : g = [i \in 0 .. k |-> OtsuNext(counts, g, i)]}
<1> SUFFICES ASSUME T # {} PROVE FALSE
  OBVIOUS
<1>1. PICK t \in T : \A k \in T : t <= k
  BY LeastNat
<1>2. CASE t = 0
  <2> DEFINE g == [i \in 0 .. 0 |-> [below |-> 0, light |-> 0, top |-> 0, bottom |-> 0, best |-> 0]]
  <2>1. g = [i \in 0 .. 0 |-> OtsuNext(counts, g, i)]
    BY DEF OtsuNext
  <2> HIDE DEF g
  <2>2. \E f : f = [i \in 0 .. t |-> OtsuNext(counts, f, i)]
    BY <1>2, <2>1
  <2> QED
    BY <2>2
<1>3. CASE t # 0
  <2>1. t - 1 \in Nat /\ t - 1 \notin T /\ t \in Nat
    BY <1>1, <1>3
  <2>2. PICK g : g = [i \in 0 .. t - 1 |-> OtsuNext(counts, g, i)]
    BY <2>1
  <2> DEFINE last == OtsuNext(counts, g, t)
             h == [i \in 0 .. t |-> IF i = t THEN last ELSE g[i]]
  <2>3. \A i \in 0 .. t : OtsuNext(counts, h, i) = h[i]
    <3> TAKE i \in 0 .. t
    <3>1. i # 0 => i - 1 \in 0 .. t /\ i - 1 # t /\ h[i - 1] = g[i - 1]
      BY <2>1
    <3>2. OtsuNext(counts, h, i) = OtsuNext(counts, g, i)
      BY <3>1 DEF OtsuNext
    <3>3. i # t => g[i] = OtsuNext(counts, g, i)
      <4>1. i # t => i \in 0 .. t - 1
        BY <2>1
      <4>2. \A k \in 0 .. t - 1 : g[k] = OtsuNext(counts, g, k)
        BY <2>2
      <4> QED
        BY <4>1, <4>2
    <3> QED
      BY <3>2, <3>3
  <2> HIDE DEF last
  <2>4. h = [i \in 0 .. t |-> h[i]]
    OBVIOUS
  <2> HIDE DEF h
  <2>5. h = [i \in 0 .. t |-> OtsuNext(counts, h, i)]
    BY <2>3, <2>4
  <2> QED
    BY <2>5
<1> QED
  BY <1>2, <1>3

LEMMA OtsuIs ==
    ASSUME NEW counts
    PROVE  \E g : /\ DOMAIN g = 0 .. MaxLevel + 1 /\ g[0] = [below |-> 0, light |-> 0, top |-> 0, bottom |-> 0, best |-> 0]
                  /\ \A i \in 1 .. MaxLevel + 1 : g[i] = Visit(g[i - 1], counts, i - 1)
                  /\ Otsu(counts) = (IF Pixels(counts, Levels) = 0 THEN MaxLevel \div 2 ELSE g[MaxLevel + 1].best)
<1>1. MaxLevel + 1 \in Nat
  BY LevelsAre
<1> DEFINE g == CHOOSE g : g = [i \in 0 .. MaxLevel + 1 |-> OtsuNext(counts, g, i)]
<1>2. Otsu(counts) = (IF Pixels(counts, Levels) = 0 THEN MaxLevel \div 2 ELSE g[MaxLevel + 1].best)
  BY DEF Otsu, OtsuNext
<1>0. \E f : OtsuRun(counts, MaxLevel + 1, f)
  <2> HIDE DEF g
  <2> QED
    BY <1>1, OtsuIsThere
<1>3. g = [i \in 0 .. MaxLevel + 1 |-> OtsuNext(counts, g, i)]
  BY <1>0 DEF OtsuRun
<1> HIDE DEF g
<1>4. DOMAIN g = 0 .. MaxLevel + 1
  BY <1>3
<1>5. \A i \in 0 .. MaxLevel + 1 : g[i] = OtsuNext(counts, g, i)
  BY <1>3
<1>6. g[0] = [below |-> 0, light |-> 0, top |-> 0, bottom |-> 0, best |-> 0] /\ \A i \in 1 .. MaxLevel + 1 : g[i] = Visit(g[i - 1], counts, i - 1)
  BY <1>1, <1>5 DEF OtsuNext
<1> QED
  BY <1>2, <1>4, <1>6

(* The greys that were passed, one more.                                    *)
QuantileNext(counts, cut, high, g, i) ==
    IF i = 0 THEN [left |-> cut, found |-> NoGrey]
    ELSE Pass(g[i - 1], counts, IF high THEN MaxLevel + 1 - i ELSE i - 1)

QuantileRun(counts, cut, high, n, g) == g = [i \in 0 .. n |-> QuantileNext(counts, cut, high, g, i)]

LEMMA QuantileIsThere ==
    ASSUME NEW counts, NEW cut, NEW high, NEW n \in Nat
    PROVE  \E g : QuantileRun(counts, cut, high, n, g)
<1> SUFFICES \E g : g = [i \in 0 .. n |-> QuantileNext(counts, cut, high, g, i)]
  BY DEF QuantileRun
<1> DEFINE T == {k \in Nat : ~ \E g : g = [i \in 0 .. k |-> QuantileNext(counts, cut, high, g, i)]}
<1> SUFFICES ASSUME T # {} PROVE FALSE
  OBVIOUS
<1>1. PICK t \in T : \A k \in T : t <= k
  BY LeastNat
<1>2. CASE t = 0
  <2> DEFINE g == [i \in 0 .. 0 |-> [left |-> cut, found |-> NoGrey]]
  <2>1. g = [i \in 0 .. 0 |-> QuantileNext(counts, cut, high, g, i)]
    BY DEF QuantileNext
  <2> HIDE DEF g
  <2>2. \E f : f = [i \in 0 .. t |-> QuantileNext(counts, cut, high, f, i)]
    BY <1>2, <2>1
  <2> QED
    BY <2>2
<1>3. CASE t # 0
  <2>1. t - 1 \in Nat /\ t - 1 \notin T /\ t \in Nat
    BY <1>1, <1>3
  <2>2. PICK g : g = [i \in 0 .. t - 1 |-> QuantileNext(counts, cut, high, g, i)]
    BY <2>1
  <2> DEFINE last == QuantileNext(counts, cut, high, g, t)
             h == [i \in 0 .. t |-> IF i = t THEN last ELSE g[i]]
  <2>3. \A i \in 0 .. t : QuantileNext(counts, cut, high, h, i) = h[i]
    <3> TAKE i \in 0 .. t
    <3>1. i # 0 => i - 1 \in 0 .. t /\ i - 1 # t /\ h[i - 1] = g[i - 1]
      BY <2>1
    <3>2. QuantileNext(counts, cut, high, h, i) = QuantileNext(counts, cut, high, g, i)
      BY <3>1 DEF QuantileNext
    <3>3. i # t => g[i] = QuantileNext(counts, cut, high, g, i)
      <4>1. i # t => i \in 0 .. t - 1
        BY <2>1
      <4>2. \A k \in 0 .. t - 1 : g[k] = QuantileNext(counts, cut, high, g, k)
        BY <2>2
      <4> QED
        BY <4>1, <4>2
    <3> QED
      BY <3>2, <3>3
  <2> HIDE DEF last
  <2>4. h = [i \in 0 .. t |-> h[i]]
    OBVIOUS
  <2> HIDE DEF h
  <2>5. h = [i \in 0 .. t |-> QuantileNext(counts, cut, high, h, i)]
    BY <2>3, <2>4
  <2> QED
    BY <2>5
<1> QED
  BY <1>2, <1>3

LEMMA QuantileIs ==
    ASSUME NEW counts, NEW cut, NEW high
    PROVE  \E g : /\ DOMAIN g = 0 .. MaxLevel + 1 /\ g[0] = [left |-> cut, found |-> NoGrey]
                  /\ \A i \in 1 .. MaxLevel + 1 : g[i] = Pass(g[i - 1], counts, IF high THEN MaxLevel + 1 - i ELSE i - 1)
                  /\ Quantile(counts, cut, high) = g[MaxLevel + 1].found
<1>1. MaxLevel + 1 \in Nat
  BY LevelsAre
<1> DEFINE g == CHOOSE g : g = [i \in 0 .. MaxLevel + 1 |-> QuantileNext(counts, cut, high, g, i)]
<1>2. Quantile(counts, cut, high) = g[MaxLevel + 1].found
  BY DEF Quantile, QuantileNext
<1>0. \E f : QuantileRun(counts, cut, high, MaxLevel + 1, f)
  <2> HIDE DEF g
  <2> QED
    BY <1>1, QuantileIsThere
<1>3. g = [i \in 0 .. MaxLevel + 1 |-> QuantileNext(counts, cut, high, g, i)]
  BY <1>0 DEF QuantileRun
<1> HIDE DEF g
<1>4. DOMAIN g = 0 .. MaxLevel + 1
  BY <1>3
<1>5. \A i \in 0 .. MaxLevel + 1 : g[i] = QuantileNext(counts, cut, high, g, i)
  BY <1>3
<1>6. g[0] = [left |-> cut, found |-> NoGrey] /\ \A i \in 1 .. MaxLevel + 1 : g[i] = Pass(g[i - 1], counts, IF high THEN MaxLevel + 1 - i ELSE i - 1)
  BY <1>1, <1>5 DEF QuantileNext
<1> QED
  BY <1>2, <1>4, <1>6

(* The most of some numbers up to a bound, and the least of some.          *)
LEMMA MostUpTo ==
    ASSUME NEW n \in Nat, NEW T \in SUBSET (0 .. n), T # {}
    PROVE  Max(T) \in T /\ \A y \in T : y <= Max(T)
<1> DEFINE S == {n - y : y \in T}
<1>1. S \in SUBSET Nat /\ S # {}
  <2>1. \A y \in T : y \in 0 .. n /\ n - y \in Nat
    OBVIOUS
  <2> QED
    BY <2>1
<1>2. PICK s \in S : \A z \in S : s <= z
  <2> HIDE DEF S
  <2> QED
    BY <1>1, LeastNat
<1>3. PICK x \in T : s = n - x
  BY <1>2
<1>4. \A y \in T : x >= y
  <2> TAKE y \in T
  <2>1. s <= n - y /\ y \in 0 .. n /\ x \in 0 .. n
    BY <1>2
  <2> QED
    BY <1>3, <2>1
<1>5. x \in T /\ \E m \in T : \A y \in T : m >= y
  BY <1>4
<1>6. Max(T) \in T /\ \A y \in T : Max(T) >= y
  BY <1>5 DEF Max
<1> QED
  BY <1>6

LEMMA LeastIs ==
    ASSUME NEW T \in SUBSET Nat, T # {}
    PROVE  Min(T) \in T /\ \A y \in T : Min(T) <= y
<1>1. \E m \in T : \A y \in T : m =< y
  BY LeastNat
<1> QED
  BY <1>1 DEF Min

LEMMA MostIs ==
    ASSUME NEW S \in SUBSET Int, NEW m \in S, \A y \in S : y <= m PROVE Max(S) = m
<1>1. \A y \in S : m >= y
  OBVIOUS
<1>2. Max(S) \in S /\ \A y \in S : Max(S) >= y
  BY <1>1 DEF Max
<1>3. PICK k \in S : k = Max(S) /\ k >= m
  BY <1>2
<1>4. k \in Int /\ m \in Int /\ m >= k
  BY <1>1
<1>5. k = m
  BY <1>3, <1>4
<1> QED
  BY <1>3, <1>5

LEMMA FewestIs ==
    ASSUME NEW S \in SUBSET Int, NEW m \in S, \A y \in S : m <= y PROVE Min(S) = m
<1>1. \A y \in S : m =< y
  OBVIOUS
<1>2. Min(S) \in S /\ \A y \in S : Min(S) =< y
  BY <1>1 DEF Min
<1>3. PICK k \in S : k = Min(S) /\ k =< m
  BY <1>2
<1>4. k \in Int /\ m \in Int /\ m =< k
  BY <1>1
<1>5. k = m
  BY <1>3, <1>4
<1> QED
  BY <1>3, <1>5

-----------------------------------------------------------------------------
(* The queue: columns in order, each as good as those after it, and for    *)
(* every column of the window one that outlives it and is as good.         *)
QueueCovers(queue, row, x, lower, maximum) ==
    /\ queue \in Seq(1 .. x)
    /\ \A i, j \in 1 .. Len(queue) : i < j =>
         queue[i] < queue[j] /\ AtLeastAsGood(row[queue[i]], row[queue[j]], maximum)
    /\ \A c \in 1 .. x : c >= lower =>
         \E i \in 1 .. Len(queue) : queue[i] >= c /\ AtLeastAsGood(row[queue[i]], row[c], maximum)

LEMMA GoodOrder ==
    ASSUME NEW a \in Int, NEW b \in Int, NEW maximum
    PROVE  /\ AtLeastAsGood(a, a, maximum)
           /\ ~AtLeastAsGood(a, b, maximum) => AtLeastAsGood(b, a, maximum)
           /\ \A c \in Int : AtLeastAsGood(a, b, maximum) /\ AtLeastAsGood(b, c, maximum) => AtLeastAsGood(a, c, maximum)
BY DEF AtLeastAsGood

LEMMA QueueFacts ==
    ASSUME NEW row \in Seq(Int), NEW x \in 0 .. Len(row), NEW queue \in Seq(1 .. x)
    PROVE  /\ Len(queue) \in Nat /\ DOMAIN queue = 1 .. Len(queue) /\ Len(row) \in Nat
           /\ \A i \in 1 .. Len(queue) : queue[i] \in 1 .. x /\ queue[i] \in Int /\ row[queue[i]] \in Int
           /\ \A c \in 1 .. Len(row) : row[c] \in Int
<1>1. Len(queue) \in Nat /\ DOMAIN queue = 1 .. Len(queue) /\ Len(row) \in Nat
  BY LenProperties
<1>2. \A i \in 1 .. Len(queue) : queue[i] \in 1 .. x
  BY <1>1, ElementOfSeq
<1>3. \A c \in 1 .. Len(row) : row[c] \in Int
  BY <1>1, ElementOfSeq
<1>4. \A c \in 1 .. x : c \in 1 .. Len(row)
  BY <1>1
<1> QED
  BY <1>1, <1>2, <1>3, <1>4

(* A column enters.                                                        *)
LEMMA EnterHolds ==
    ASSUME NEW row \in Seq(Int), NEW x \in 1 .. Len(row), NEW maximum, NEW lower \in Int,
           NEW queue, QueueCovers(queue, row, x - 1, lower, maximum)
    PROVE  QueueCovers(Enter(queue, row, x, maximum), row, x, lower, maximum)
<1> DEFINE good == {i \in DOMAIN queue : AtLeastAsGood(row[queue[i]], row[x], maximum)}
           m == Max(good \union {0})
           head == SubSeq(queue, 1, m)
           new == Append(head, x)
<1>1. queue \in Seq(1 .. x - 1) /\ Len(row) \in Nat /\ x \in Nat /\ x - 1 \in 0 .. Len(row) /\ x >= 1
  BY LenProperties DEF QueueCovers
<1>2. /\ Len(queue) \in Nat /\ DOMAIN queue = 1 .. Len(queue)
      /\ \A i \in 1 .. Len(queue) : queue[i] \in 1 .. x - 1 /\ queue[i] \in Int /\ row[queue[i]] \in Int
      /\ row[x] \in Int
  BY <1>1, QueueFacts
<1>3. m \in 0 .. Len(queue) /\ (m = 0 \/ m \in good) /\ \A i \in good : i <= m
  <2>1. good \union {0} \in SUBSET (0 .. Len(queue)) /\ good \union {0} # {}
    BY <1>2
  <2> HIDE DEF good
  <2>2. m \in good \union {0} /\ \A y \in good \union {0} : y <= m
    BY <1>2, <2>1, MostUpTo
  <2> QED
    BY <2>1, <2>2
<1>4. Enter(queue, row, x, maximum) = new
  BY DEF Enter
<1> HIDE DEF m
<1>5. /\ head \in Seq(1 .. x - 1) /\ Len(head) = m /\ \A i \in 1 .. m : head[i] = queue[i]
  <2>1. \A i \in 1 .. m : queue[i] \in 1 .. x - 1
    BY <1>2, <1>3
  <2> QED
    BY <1>1, <1>2, <1>3, SubSeqProperties
<1> HIDE DEF head
<1>6. /\ new \in Seq(1 .. x) /\ Len(new) = m + 1 /\ new[m + 1] = x
      /\ \A i \in 1 .. m : new[i] = queue[i]
  <2>1. 1 .. x - 1 \subseteq 1 .. x /\ x \in 1 .. x
    BY <1>1
  <2>2. head \in Seq(1 .. x)
    BY <1>5, <2>1
  <2>3. new \in Seq(1 .. x) /\ Len(new) = Len(head) + 1 /\ new[Len(head) + 1] = x
        /\ \A i \in 1 .. Len(head) : new[i] = head[i]
    BY <2>1, <2>2, AppendProperties
  <2> QED
    BY <1>5, <2>3
<1> HIDE DEF new
<1>7. ASSUME NEW i \in 1 .. m PROVE queue[i] < x /\ AtLeastAsGood(row[queue[i]], row[x], maximum)
  <2>1. m \in good /\ i \in 1 .. Len(queue) /\ m \in 1 .. Len(queue)
    BY <1>2, <1>3
  <2>2. AtLeastAsGood(row[queue[m]], row[x], maximum)
    BY <2>1
  <2>3. i < m => AtLeastAsGood(row[queue[i]], row[queue[m]], maximum)
    BY <2>1 DEF QueueCovers
  <2>4. row[queue[i]] \in Int /\ row[queue[m]] \in Int /\ row[x] \in Int /\ queue[i] \in 1 .. x - 1 /\ i \in Int /\ m \in Int
    BY <1>2, <1>3, <2>1
  <2>5. i < m => AtLeastAsGood(row[queue[i]], row[x], maximum)
    BY <2>2, <2>3, <2>4, GoodOrder
  <2>6. i = m \/ i < m
    BY <1>3, <2>4
  <2>7. queue[i] < x
    BY <1>1, <2>4
  <2> QED
    BY <2>2, <2>5, <2>6, <2>7
<1>8. ASSUME NEW i \in 1 .. Len(new), NEW j \in 1 .. Len(new), i < j
      PROVE  new[i] < new[j] /\ AtLeastAsGood(row[new[i]], row[new[j]], maximum)
  <2>0. m \in Nat /\ i \in 1 .. m + 1 /\ j \in 1 .. m + 1 /\ i < j /\ Len(queue) \in Nat /\ m <= Len(queue)
    BY <1>2, <1>3, <1>6, <1>8
  <2>9. i \in 1 .. m /\ i \in 1 .. Len(queue)
    BY <2>0
  <2>1. i \in 1 .. m /\ new[i] = queue[i] /\ i \in 1 .. Len(queue)
    BY <1>6, <2>9
  <2>2. CASE j = m + 1
    BY <1>6, <1>7, <2>1, <2>2
  <2>3. CASE j # m + 1
    <3>0. j \in 1 .. m /\ j \in 1 .. Len(queue)
      BY <2>0, <2>3
    <3>1. j \in 1 .. m /\ new[j] = queue[j] /\ j \in 1 .. Len(queue)
      BY <1>6, <3>0
    <3> QED
      BY <1>8, <2>1, <3>1 DEF QueueCovers
  <2> QED
    BY <2>2, <2>3
<1>9. ASSUME NEW c \in 1 .. x, c >= lower
      PROVE  \E i \in 1 .. Len(new) : new[i] >= c /\ AtLeastAsGood(row[new[i]], row[c], maximum)
  <2>0. m + 1 \in 1 .. Len(new) /\ new[m + 1] = x /\ c \in Int /\ x >= c /\ m \in Nat
    BY <1>1, <1>3, <1>6
  <2>1. CASE c = x
    <3>1. AtLeastAsGood(row[new[m + 1]], row[c], maximum)
      BY <1>2, <2>0, <2>1, GoodOrder
    <3> QED
      BY <2>0, <3>1
  <2>2. CASE c # x
    <3>1. c \in 1 .. x - 1 /\ c \in 1 .. Len(row)
      BY <1>1, <2>2
    <3>2. PICK i \in 1 .. Len(queue) : queue[i] >= c /\ AtLeastAsGood(row[queue[i]], row[c], maximum)
      BY <1>9, <3>1 DEF QueueCovers
    <3>3. CASE i <= m
      <4>1. i \in 1 .. m /\ i \in 1 .. Len(new) /\ new[i] = queue[i]
        BY <1>2, <1>3, <1>6, <3>3
      <4> QED
        BY <3>2, <4>1
    <3>4. CASE ~(i <= m)
      <4>1. i \notin good /\ i \in DOMAIN queue
        BY <1>2, <1>3, <3>4
      <4>2. ~AtLeastAsGood(row[queue[i]], row[x], maximum)
        BY <4>1
      <4>3. row[queue[i]] \in Int /\ row[x] \in Int /\ row[c] \in Int
        BY <1>1, <1>2, <3>1, QueueFacts
      <4>4. AtLeastAsGood(row[x], row[c], maximum)
        BY <3>2, <4>2, <4>3, GoodOrder
      <4> QED
        BY <2>0, <4>4
    <3> QED
      BY <3>3, <3>4
  <2> QED
    BY <2>1, <2>2
<1> QED
  BY <1>4, <1>6, <1>8, <1>9 DEF QueueCovers

(* Columns that are no longer in the window leave.                         *)
LEMMA EvictHolds ==
    ASSUME NEW row \in Seq(Int), NEW x \in 1 .. Len(row), NEW maximum, NEW lower \in Int,
           NEW queue, QueueCovers(queue, row, x, lower, maximum),
           NEW centre \in Int, NEW half \in Int, centre - half >= lower, centre - half <= x
    PROVE  LET kept == Evict(queue, centre, half) IN
           /\ QueueCovers(kept, row, x, centre - half, maximum)
           /\ kept # <<>> /\ Head(kept) \in 1 .. x /\ Head(kept) >= centre - half
           /\ \A c \in 1 .. x : c >= centre - half => AtLeastAsGood(row[Head(kept)], row[c], maximum)
<1> DEFINE low == centre - half
           inside == {i \in DOMAIN queue : queue[i] >= low}
           n == Len(queue)
           m == Min(inside \union {n + 1})
           kept == SubSeq(queue, m, n)
<1>0. low \in Int /\ low >= lower /\ low <= x /\ lower \in Int
  OBVIOUS
<1>1. queue \in Seq(1 .. x) /\ Len(row) \in Nat /\ x \in Nat /\ x \in 0 .. Len(row) /\ x >= 1
  BY LenProperties DEF QueueCovers
<1>2. /\ n \in Nat /\ DOMAIN queue = 1 .. n
      /\ \A i \in 1 .. n : queue[i] \in 1 .. x /\ queue[i] \in Int /\ row[queue[i]] \in Int
      /\ \A c \in 1 .. Len(row) : row[c] \in Int
  BY <1>1, QueueFacts
<1>3. PICK last \in 1 .. n : queue[last] >= x
  <2>1. x \in 1 .. x /\ x >= lower
    BY <1>0, <1>1
  <2> QED
    BY <2>1 DEF QueueCovers
<1>4. Evict(queue, centre, half) = kept
  BY DEF Evict
<1> HIDE DEF low
<1>5. last \in inside
  BY <1>0, <1>1, <1>2, <1>3
<1>6. m \in inside /\ \A i \in inside : m <= i
  <2>1. inside \union {n + 1} \in SUBSET Nat /\ inside \union {n + 1} # {}
    BY <1>2
  <2>2. \A i \in inside : i \in 1 .. n
    BY <1>2
  <2> HIDE DEF inside, n
  <2>3. m \in inside \union {n + 1} /\ \A y \in inside \union {n + 1} : m <= y
    BY <2>1, LeastIs
  <2>4. last \in 1 .. n /\ n \in Nat /\ m <= last
    BY <1>2, <1>5, <2>2, <2>3
  <2>5. m # n + 1
    BY <2>4
  <2> QED
    BY <2>3, <2>5
<1> HIDE DEF m
<1>7. m \in 1 .. n /\ queue[m] >= low /\ n \in Nat
  BY <1>2, <1>6
<1>8. /\ kept \in Seq(1 .. x) /\ Len(kept) = n - m + 1
      /\ \A i \in 1 .. Len(kept) : kept[i] = queue[m + i - 1]
  <2>1. \A i \in m .. n : queue[i] \in 1 .. x
    BY <1>2, <1>7
  <2>2. m \in 1 .. n + 1 /\ n \in m - 1 .. n
    BY <1>7
  <2> QED
    BY <1>1, <1>7, <2>1, <2>2, SubSeqProperties
<1> HIDE DEF kept
<1>9. \A i \in 1 .. Len(kept) : m + i - 1 \in 1 .. n /\ i \in Int
  BY <1>7, <1>8
<1>10. ASSUME NEW i \in 1 .. Len(kept), NEW j \in 1 .. Len(kept), i < j
       PROVE  kept[i] < kept[j] /\ AtLeastAsGood(row[kept[i]], row[kept[j]], maximum)
  <2>1. m + i - 1 \in 1 .. n /\ m + j - 1 \in 1 .. n /\ m + i - 1 < m + j - 1
    BY <1>7, <1>9, <1>10
  <2> QED
    BY <1>8, <2>1 DEF QueueCovers
<1>11. ASSUME NEW c \in 1 .. x, c >= low
       PROVE  \E i \in 1 .. Len(kept) : kept[i] >= c /\ AtLeastAsGood(row[kept[i]], row[c], maximum)
  <2>0. c >= lower /\ c \in Int
    BY <1>0, <1>11
  <2>1. PICK k \in 1 .. n : queue[k] >= c /\ AtLeastAsGood(row[queue[k]], row[c], maximum)
    BY <2>0 DEF QueueCovers
  <2>2. k \in inside /\ m <= k
    <3>1. queue[k] \in Int /\ c \in Int
      BY <1>2
    <3>2. queue[k] >= low
      BY <1>0, <1>11, <2>1, <3>1
    <3> QED
      BY <1>2, <1>6, <3>2
  <2>3. k - m + 1 \in 1 .. Len(kept) /\ m + (k - m + 1) - 1 = k
    <3>1. m \in Nat /\ n \in Nat /\ k \in Nat /\ m <= k /\ k <= n /\ Len(kept) = n - m + 1
      BY <1>7, <1>8, <2>2
    <3> HIDE DEF n
    <3> QED
      BY <3>1
  <2> QED
    BY <1>8, <2>1, <2>3
<1>12. QueueCovers(kept, row, x, low, maximum)
  BY <1>8, <1>10, <1>11 DEF QueueCovers
<1>13. kept # <<>> /\ Head(kept) = kept[1] /\ kept[1] = queue[m] /\ 1 \in 1 .. Len(kept)
  <2>1. Len(kept) >= 1 /\ Len(kept) \in Nat
    BY <1>7, <1>8
  <2>2. kept # <<>>
    BY <2>1, EmptySeq
  <2>3. m + 1 - 1 = m
    BY <1>7
  <2> QED
    BY <1>8, <2>1, <2>2, <2>3, HeadTailProperties
<1>14. ASSUME NEW c \in 1 .. x, c >= low PROVE AtLeastAsGood(row[kept[1]], row[c], maximum)
  <2>1. PICK i \in 1 .. Len(kept) : kept[i] >= c /\ AtLeastAsGood(row[kept[i]], row[c], maximum)
    BY <1>11, <1>14
  <2>2. i # 1 => AtLeastAsGood(row[kept[1]], row[kept[i]], maximum)
    <3>1. i # 1 => 1 < i
      OBVIOUS
    <3> QED
      BY <1>10, <1>13, <3>1
  <2>3. c \in 1 .. Len(row)
    BY <1>1
  <2>4. row[kept[i]] \in Int /\ row[kept[1]] \in Int /\ row[c] \in Int
    BY <1>2, <1>8, <1>9, <1>13, <2>3
  <2> QED
    BY <2>1, <2>2, <2>4, GoodOrder
<1> QED
  BY <1>2, <1>4, <1>7, <1>12, <1>13, <1>14 DEF low

(* What holds at 0 and goes on from each number to the next holds up to n. *)
LEMMA Steps ==
    ASSUME NEW n \in Nat, NEW S, 0 \in S, \A k \in 1 .. n : k - 1 \in S => k \in S
    PROVE  \A k \in 0 .. n : k \in S
<1> DEFINE T == {k \in 0 .. n : k \notin S}
<1>1. T \in SUBSET Nat
  OBVIOUS
<1>2. ASSUME T # {} PROVE FALSE
  <2> HIDE DEF T
  <2>1. PICK k \in T : \A y \in T : k <= y
    BY <1>1, <1>2, LeastNat
  <2> USE DEF T
  <2>2. k \in 1 .. n /\ k - 1 \in 0 .. n
    BY <2>1
  <2>3. k - 1 \in S
    BY <2>1, <2>2
  <2> QED
    BY <2>1, <2>2, <2>3
<1> QED
  BY <1>2

-----------------------------------------------------------------------------
(* The best of a window that ends at lower and upper. *)
Best(row, v, lower, upper, maximum) ==
    /\ \E k \in 1 .. Len(row) : lower <= k /\ k <= upper /\ v = row[k]
    /\ \A c \in 1 .. Len(row) : lower <= c /\ c <= upper => AtLeastAsGood(v, row[c], maximum)

LEMMA ExtremeIs ==
    ASSUME NEW row \in Seq(Int), NEW v, NEW centre \in Int, NEW half \in Int, NEW maximum,
           Best(row, v, centre - half, centre + half, maximum)
    PROVE  WindowExtreme(row, centre, half, maximum) = v
<1> DEFINE values == {row[x] : x \in {x \in DOMAIN row : centre - half <= x /\ x <= centre + half}}
<1>1. DOMAIN row = 1 .. Len(row) /\ \A x \in 1 .. Len(row) : row[x] \in Int
  BY LenProperties, ElementOfSeq
<1>2. values \in SUBSET Int /\ v \in values
  BY <1>1 DEF Best
<1>3. \A w \in values : AtLeastAsGood(v, w, maximum)
  BY <1>1 DEF Best
<1>4. WindowExtreme(row, centre, half, maximum) = IF maximum THEN Max(values) ELSE Min(values)
  BY DEF WindowExtreme
<1> HIDE DEF values
<1>5. CASE maximum
  <2>1. \A w \in values : w <= v
    BY <1>2, <1>3, <1>5 DEF AtLeastAsGood
  <2> QED
    BY <1>2, <1>4, <1>5, <2>1, MostIs
<1>6. CASE ~maximum
  <2>1. \A w \in values : v <= w
    BY <1>2, <1>3, <1>6 DEF AtLeastAsGood
  <2> QED
    BY <1>2, <1>4, <1>6, <2>1, FewestIs
<1> QED
  BY <1>5, <1>6

(* What has left is the best of its window, and the queue holds for the    *)
(* windows to come.                                                        *)
SlideHolds(state, row, x, half, maximum) ==
    /\ QueueCovers(state.queue, row, x, x - half - half, maximum)
    /\ state.out \in Seq(Int) /\ Len(state.out) = IF x > half THEN x - half ELSE 0
    /\ \A c \in 1 .. Len(state.out) : Best(row, state.out[c], c - half, c + half, maximum)

LEMMA SlideOnHolds ==
    ASSUME NEW row \in Seq(Int), NEW x \in 1 .. Len(row), NEW half \in Nat, NEW maximum,
           NEW state, SlideHolds(state, row, x - 1, half, maximum)
    PROVE  SlideHolds(SlideOn(state, row, x, half, maximum), row, x, half, maximum)
<1> DEFINE entered == Enter(state.queue, row, x, maximum)
           kept == Evict(entered, x - half, half)
           lower == x - 1 - half - half
           new == SlideOn(state, row, x, half, maximum)
<1>1. /\ Len(row) \in Nat /\ x \in Int /\ lower \in Int /\ x >= 1 /\ x <= Len(row)
      /\ \A c \in 1 .. Len(row) : row[c] \in Int
  BY LenProperties, ElementOfSeq
<1>2. QueueCovers(state.queue, row, x - 1, lower, maximum)
  BY DEF SlideHolds
<1> HIDE DEF lower
<1>3. QueueCovers(entered, row, x, lower, maximum)
  BY <1>1, <1>2, EnterHolds
<1> HIDE DEF entered
<1>4. new = IF x > half THEN [queue |-> kept, out |-> Append(state.out, row[Head(kept)])]
            ELSE [queue |-> entered, out |-> state.out]
  BY DEF SlideOn, entered
<1> HIDE DEF new
<1>5. CASE x > half
  <2>0. /\ x - half \in Int /\ half \in Int /\ (x - half) - half >= lower /\ (x - half) - half <= x
        /\ x - half >= 1 /\ x - half <= x
    BY <1>1, <1>5 DEF lower
  <2>1. /\ QueueCovers(kept, row, x, (x - half) - half, maximum)
        /\ Head(kept) \in 1 .. x /\ Head(kept) >= (x - half) - half
        /\ \A c \in 1 .. x : c >= (x - half) - half => AtLeastAsGood(row[Head(kept)], row[c], maximum)
    BY <1>1, <1>3, <2>0, EvictHolds
  <2> HIDE DEF kept
  <2>2. Head(kept) \in 1 .. Len(row) /\ row[Head(kept)] \in Int
    BY <1>1, <2>1
  <2>3. Best(row, row[Head(kept)], (x - half) - half, (x - half) + half, maximum)
    <3>1. (x - half) + half = x
      BY <1>1
    <3>2. (x - half) - half <= Head(kept) /\ Head(kept) <= x
      BY <1>1, <2>1
    <3>3. ASSUME NEW c \in 1 .. Len(row), (x - half) - half <= c, c <= x
          PROVE  AtLeastAsGood(row[Head(kept)], row[c], maximum)
      <4>1. c \in 1 .. x /\ c >= (x - half) - half
        BY <1>1, <3>3
      <4> QED
        BY <2>1, <4>1
    <3> QED
      BY <2>2, <3>1, <3>2, <3>3 DEF Best
  <2>4. /\ state.out \in Seq(Int) /\ Len(state.out) = x - half - 1
    <3>1. x - 1 > half => Len(state.out) = x - 1 - half
      BY DEF SlideHolds
    <3>2. ~(x - 1 > half) => Len(state.out) = 0
      BY DEF SlideHolds
    <3>3. ~(x - 1 > half) => x - half - 1 = 0
      BY <1>1, <1>5
    <3>4. x - 1 - half = x - half - 1
      BY <1>1
    <3> QED
      BY <3>1, <3>2, <3>3, <3>4 DEF SlideHolds
  <2> DEFINE out == Append(state.out, row[Head(kept)])
  <2>5. /\ out \in Seq(Int) /\ Len(out) = x - half /\ out[x - half] = row[Head(kept)]
        /\ \A c \in 1 .. Len(state.out) : out[c] = state.out[c]
    <3>1. /\ out \in Seq(Int) /\ Len(out) = Len(state.out) + 1 /\ out[Len(state.out) + 1] = row[Head(kept)]
          /\ \A c \in 1 .. Len(state.out) : out[c] = state.out[c]
      BY <2>2, <2>4, AppendProperties
    <3>2. (x - half - 1) + 1 = x - half
      BY <1>1
    <3> QED
      BY <2>4, <3>1, <3>2
  <2> HIDE DEF out
  <2>6. ASSUME NEW c \in 1 .. Len(out) PROVE Best(row, out[c], c - half, c + half, maximum)
    <3>1. CASE c = x - half
      BY <2>3, <2>5, <3>1
    <3>2. CASE c # x - half
      <4>1. c \in 1 .. Len(state.out)
        BY <2>0, <2>4, <2>5, <3>2
      <4> QED
        BY <2>5, <4>1 DEF SlideHolds
    <3> QED
      BY <3>1, <3>2
  <2>7. new.queue = kept /\ new.out = out
    BY <1>4, <1>5 DEF out
  <2>8. QueueCovers(new.queue, row, x, x - half - half, maximum)
    BY <2>1, <2>7
  <2>9. new.out \in Seq(Int) /\ Len(new.out) = IF x > half THEN x - half ELSE 0
    BY <1>5, <2>5, <2>7
  <2>10. \A c \in 1 .. Len(new.out) : Best(row, new.out[c], c - half, c + half, maximum)
    BY <2>6, <2>7
  <2> QED
    BY <2>8, <2>9, <2>10 DEF SlideHolds, new
<1>6. CASE ~(x > half)
  <2>1. new.queue = entered /\ new.out = state.out
    BY <1>4, <1>6
  <2>2. QueueCovers(entered, row, x, x - half - half, maximum)
    <3>1. \A c \in 1 .. x : c >= x - half - half => c >= lower
      BY <1>1 DEF lower
    <3> QED
      BY <1>3, <3>1 DEF QueueCovers
  <2>3. ~(x - 1 > half)
    BY <1>1, <1>6
  <2>4. state.out \in Seq(Int) /\ Len(state.out) = 0
    BY <2>3 DEF SlideHolds
  <2>5. Len(new.out) = (IF x > half THEN x - half ELSE 0) /\ new.out \in Seq(Int)
    BY <1>6, <2>1, <2>4
  <2>6. \A c \in 1 .. Len(new.out) : Best(row, new.out[c], c - half, c + half, maximum)
    BY <2>1, <2>4
  <2>7. QueueCovers(new.queue, row, x, x - half - half, maximum)
    BY <2>1, <2>2
  <2> QED
    BY <2>5, <2>6, <2>7 DEF SlideHolds, new
<1> QED
  BY <1>5, <1>6

LEMMA SlideTrue ==
    ASSUME NEW row \in Seq(Int), NEW half \in Nat, NEW maximum
    PROVE  SlideHolds(Slide(row, half, maximum), row, Len(row), half, maximum)
<1>1. PICK g : /\ g[0] = [queue |-> <<>>, out |-> <<>>]
               /\ \A i \in 1 .. Len(row) : g[i] = SlideOn(g[i - 1], row, i, half, maximum)
               /\ Slide(row, half, maximum) = g[Len(row)]
  BY SlideIs
<1>2. Len(row) \in Nat
  BY LenProperties
<1> DEFINE S == {i \in 0 .. Len(row) : SlideHolds(g[i], row, i, half, maximum)}
<1>3. 0 \in S
  <2>1. g[0].queue = <<>> /\ g[0].out = <<>>
    BY <1>1
  <2>2. <<>> \in Seq(1 .. 0) /\ <<>> \in Seq(Int) /\ Len(<<>>) = 0 /\ 1 .. 0 = {}
    BY EmptySeq
  <2>3. QueueCovers(<<>>, row, 0, 0 - half - half, maximum)
    BY <2>2 DEF QueueCovers
  <2>4. ~(0 > half)
    OBVIOUS
  <2>5. SlideHolds(g[0], row, 0, half, maximum)
    BY <2>1, <2>2, <2>3, <2>4 DEF SlideHolds
  <2> QED
    BY <1>2, <2>5
<1>4. \A i \in 1 .. Len(row) : i - 1 \in S => i \in S
  <2> TAKE i \in 1 .. Len(row)
  <2> HAVE i - 1 \in S
  <2>1. SlideHolds(g[i - 1], row, i - 1, half, maximum)
    OBVIOUS
  <2>2. SlideHolds(g[i], row, i, half, maximum)
    BY <1>1, <2>1, SlideOnHolds
  <2> QED
    BY <1>2, <2>2
<1>5. \A i \in 0 .. Len(row) : i \in S
  <2> HIDE DEF S
  <2> QED
    BY <1>2, <1>3, <1>4, Steps
<1>6. Len(row) \in S
  BY <1>2, <1>5
<1> QED
  BY <1>1, <1>6

(* What the queue leaves is the best of each window, also of those that    *)
(* the edge cuts off.                                                      *)
LEMMA RowIs ==
    ASSUME NEW row \in Seq(Int), NEW half \in Nat, NEW maximum
    PROVE  /\ DOMAIN RowExtremes(row, half, maximum) = 1 .. Len(row)
           /\ \A x \in 1 .. Len(row) : Best(row, RowExtremes(row, half, maximum)[x], x - half, x + half, maximum)
<1> DEFINE slid == Slide(row, half, maximum)
           n == Len(row)
           out == RowExtremes(row, half, maximum)
<1>1. n \in Nat /\ DOMAIN row = 1 .. n /\ \A c \in 1 .. n : row[c] \in Int
  BY LenProperties, ElementOfSeq
<1>2. out = [x \in DOMAIN row |->
                IF x <= Len(slid.out) THEN slid.out[x]
                ELSE LET kept == Evict(slid.queue, x, half) IN IF kept = <<>> THEN row[x] ELSE row[Head(kept)]]
  BY DEF RowExtremes
<1>3. SlideHolds(slid, row, n, half, maximum)
  BY SlideTrue
<1> HIDE DEF slid
<1>4. ASSUME NEW x \in 1 .. n PROVE Best(row, out[x], x - half, x + half, maximum)
  <2>0. x \in Int /\ Len(slid.out) \in Nat /\ Len(slid.out) = IF n > half THEN n - half ELSE 0
    BY <1>3, LenProperties DEF SlideHolds
  <2>1. CASE x <= Len(slid.out)
    <3>1. x \in 1 .. Len(slid.out) /\ out[x] = slid.out[x]
      BY <1>1, <1>2, <2>0, <2>1
    <3> QED
      BY <1>3, <3>1 DEF SlideHolds
  <2>2. CASE ~(x <= Len(slid.out))
    <3> DEFINE kept == Evict(slid.queue, x, half)
    <3>0. n \in 1 .. n /\ n - half - half \in Int /\ half \in Int
      BY <1>1
    <3>1. x - half >= n - half - half /\ x - half <= n /\ x + half >= n
      BY <1>1, <2>0, <2>2
    <3>2. QueueCovers(slid.queue, row, n, n - half - half, maximum)
      BY <1>3 DEF SlideHolds
    <3> HIDE DEF n
    <3>3. /\ kept # <<>> /\ Head(kept) \in 1 .. n /\ Head(kept) >= x - half
          /\ \A c \in 1 .. n : c >= x - half => AtLeastAsGood(row[Head(kept)], row[c], maximum)
      <4>1. n = Len(row)
        BY DEF n
      <4> QED
        BY <2>0, <3>0, <3>1, <3>2, <4>1, EvictHolds
    <3>4. out[x] = row[Head(kept)]
      BY <1>1, <1>2, <2>2, <3>3
    <3> HIDE DEF kept, out
    <3>5. x - half <= Head(kept) /\ Head(kept) <= x + half
      BY <1>1, <2>0, <3>1, <3>3
    <3>6. \A c \in 1 .. n : x - half <= c => AtLeastAsGood(row[Head(kept)], row[c], maximum)
      BY <1>1, <2>0, <3>3
    <3> QED
      BY <3>3, <3>4, <3>5, <3>6 DEF Best, n
  <2> QED
    BY <2>1, <2>2
<1> QED
  BY <1>1, <1>2, <1>4

-----------------------------------------------------------------------------
(* The kernel: to either side as far below as above.                       *)
LEMMA ChordIs ==
    ASSUME NEW size \in Nat, NEW dy \in -(size \div 2) .. (size \div 2)
    PROVE  HalfChord(size, dy) \in Nat /\ HalfChord(size, -dy) = HalfChord(size, dy)
<1> DEFINE r == size \div 2
           left == r * r - dy * dy
           T == {d \in Nat : 4 * left < (2 * d + 1) * (2 * d + 1)}
           Rounded(d) == 4 * left < (2 * d + 1) * (2 * d + 1) /\ (d = 0 \/ (2 * d - 1) * (2 * d - 1) <= 4 * left)
<1>1. r \in Nat
  OBVIOUS
<1> HIDE DEF r
<1>2. dy \in Int
  BY <1>1 DEF r
<1>3. dy * dy \in Nat /\ left \in Int /\ left <= r * r
  <2>1. dy * dy \in Int /\ dy * dy >= 0 /\ r * r \in Int
    BY <1>1, <1>2
  <2> QED
    BY <2>1
<1> HIDE DEF left
<1>4. r \in T
  <2>1. (2 * r + 1) * (2 * r + 1) = 4 * (r * r) + 4 * r + 1 /\ r * r \in Int
    BY <1>1
  <2> QED
    BY <1>1, <1>3, <2>1
<1>5. PICK d \in T : \A e \in T : d <= e
  <2>1. T \in SUBSET Nat /\ T # {}
    BY <1>4
  <2> HIDE DEF T
  <2> QED
    BY <2>1, LeastNat
<1>6. d \in 0 .. r /\ Rounded(d)
  <2>1. d \in Nat /\ d <= r /\ 4 * left < (2 * d + 1) * (2 * d + 1)
    BY <1>4, <1>5
  <2>2. ASSUME d # 0 PROVE (2 * d - 1) * (2 * d - 1) <= 4 * left
    <3>1. d - 1 \in Nat /\ d - 1 \notin T
      BY <1>5, <2>1, <2>2
    <3>2. ~(4 * left < (2 * (d - 1) + 1) * (2 * (d - 1) + 1))
      BY <3>1
    <3>3. 2 * (d - 1) + 1 = 2 * d - 1 /\ (2 * d - 1) * (2 * d - 1) \in Int
      BY <2>1
    <3> QED
      BY <1>3, <3>2, <3>3
  <2> QED
    BY <1>1, <2>1, <2>2
<1>7. HalfChord(size, dy) = CHOOSE e \in 0 .. r : Rounded(e)
  BY DEF HalfChord, r, left
<1>8. HalfChord(size, -dy) = CHOOSE e \in 0 .. r : Rounded(e)
  <2>1. (-dy) * (-dy) = dy * dy
    BY <1>2
  <2> QED
    BY <2>1 DEF HalfChord, r, left
<1> HIDE DEF Rounded
<1>9. (CHOOSE e \in 0 .. r : Rounded(e)) \in 0 .. r
  BY <1>6
<1> QED
  BY <1>1, <1>7, <1>8, <1>9

(* A place under the kernel of another; each is then under the other's.    *)
Under(size, y, x, v, u) ==
    /\ v - y \in -(size \div 2) .. (size \div 2)
    /\ x - HalfChord(size, v - y) <= u /\ u <= x + HalfChord(size, v - y)

LEMMA UnderEachOther ==
    ASSUME NEW size \in Nat, NEW y \in Int, NEW x \in Int, NEW v \in Int, NEW u \in Int, Under(size, y, x, v, u)
    PROVE  Under(size, v, u, y, x)
<1> DEFINE r == size \div 2
           h == HalfChord(size, v - y)
<1>1. r \in Nat /\ v - y \in -r .. r
  BY DEF Under
<1>2. h \in Nat /\ HalfChord(size, -(v - y)) = h
  BY <1>1, ChordIs
<1>3. x - h <= u /\ u <= x + h
  BY DEF Under
<1> HIDE DEF r, h
<1>4. -(v - y) = y - v /\ y - v \in -r .. r /\ u - h <= x /\ x <= u + h
  BY <1>1, <1>2, <1>3
<1> QED
  BY <1>2, <1>4 DEF Under, r

Sides == 1 .. ImageSide

LEMMA ImagesAre ==
    /\ ImageSide \in Nat /\ Shades \subseteq 0 .. MaxLevel /\ MaxLevel \in Nat
    /\ \A image \in Images : /\ DOMAIN image = Sides
                             /\ \A y \in Sides : /\ image[y] \in Seq(Int) /\ Len(image[y]) = ImageSide
                                                 /\ \A x \in Sides : image[y][x] \in Shades /\ image[y][x] \in Int
<1>1. ImageSide \in Nat /\ Shades \subseteq 0 .. MaxLevel /\ MaxLevel \in Nat
  BY PrepAssumption
<1>2. ASSUME NEW image \in Images, NEW y \in Sides
      PROVE  /\ image[y] \in Seq(Int) /\ Len(image[y]) = ImageSide
             /\ \A x \in Sides : image[y][x] \in Shades /\ image[y][x] \in Int
  <2>1. image[y] \in [1 .. ImageSide -> Shades]
    BY DEF Images, Sides
  <2>2. \A x \in Sides : image[y][x] \in Shades /\ image[y][x] \in Int
    <3>1. \A x \in Sides : image[y][x] \in Shades
      BY <2>1 DEF Sides
    <3>2. \A shade \in Shades : shade \in Int
      BY <1>1
    <3> QED
      BY <3>1, <3>2
  <2>3. image[y] \in [1 .. ImageSide -> Int]
    <3>1. DOMAIN image[y] = 1 .. ImageSide /\ image[y] = [x \in 1 .. ImageSide |-> image[y][x]]
      BY <2>1
    <3> QED
      BY <2>2, <3>1 DEF Sides
  <2>4. image[y] \in Seq(Int)
    BY <1>1, <2>3 DEF Seq
  <2> QED
    BY <1>1, <2>2, <2>3, <2>4, LenProperties
<1> QED
  BY <1>1, <1>2 DEF Images, Sides

(* The pictures that are the best of what is under the kernel.             *)
Spreads(image, size, maximum, new) ==
    \A y, x \in Sides :
        /\ \E v, u \in Sides : Under(size, y, x, v, u) /\ new[y][x] = image[v][u]
        /\ \A v, u \in Sides : Under(size, y, x, v, u) => AtLeastAsGood(new[y][x], image[v][u], maximum)

LEMMA MorphIs ==
    ASSUME NEW image \in Images, NEW size \in Nat, NEW maximum
    PROVE  Morph(image, size, maximum) \in Images /\ Spreads(image, size, maximum, Morph(image, size, maximum))
<1> DEFINE r == size \div 2
           rows == [dy \in -r .. r |-> [y \in DOMAIN image |-> RowExtremes(image[y], HalfChord(size, dy), maximum)]]
           Reached(y, x) == {rows[dy][y + dy][x] : dy \in {dy \in -r .. r : y + dy \in DOMAIN image}}
           new == Morph(image, size, maximum)
<1>0. r \in Nat
  OBVIOUS
<1>1. new = [y \in DOMAIN image |-> [x \in DOMAIN image[y] |->
               IF maximum THEN Max(Reached(y, x)) ELSE Min(Reached(y, x))]]
  BY DEF Morph
<1>2. DOMAIN image = Sides /\ \A y \in Sides : DOMAIN image[y] = Sides
  <2>1. \A y \in Sides : image[y] \in Seq(Int) /\ Len(image[y]) = ImageSide
    BY ImagesAre
  <2> QED
    BY <2>1, ImagesAre, LenProperties DEF Sides
<1> HIDE DEF new
<1>3. ASSUME NEW y \in Sides, NEW x \in Sides, NEW dy \in -r .. r, y + dy \in Sides
      PROVE  LET w == rows[dy][y + dy][x] IN
             /\ \E u \in Sides : Under(size, y, x, y + dy, u) /\ w = image[y + dy][u]
             /\ \A u \in Sides : Under(size, y, x, y + dy, u) => AtLeastAsGood(w, image[y + dy][u], maximum)
  <2> DEFINE h == HalfChord(size, dy)
             row == image[y + dy]
             w == RowExtremes(row, h, maximum)[x]
  <2>1. rows[dy][y + dy][x] = w
    BY <1>2, <1>3
  <2>2. y \in Int /\ x \in Int /\ dy \in Int /\ (y + dy) - y = dy
    BY <1>0, ImagesAre DEF Sides
  <2>3. h \in Nat
    BY ChordIs
  <2>4. row \in Seq(Int) /\ Len(row) = ImageSide
    BY <1>3, ImagesAre
  <2>5. \A u : Under(size, y, x, y + dy, u) <=> (x - h <= u /\ u <= x + h)
    BY <2>2 DEF Under
  <2> HIDE DEF rows, w, h, r, row
  <2>6. x \in 1 .. Len(row)
    BY <2>4 DEF Sides
  <2>7. Best(row, w, x - h, x + h, maximum)
    BY <2>3, <2>4, <2>6, RowIs DEF w
  <2>8. /\ \E u \in Sides : x - h <= u /\ u <= x + h /\ w = row[u]
        /\ \A u \in Sides : x - h <= u /\ u <= x + h => AtLeastAsGood(w, row[u], maximum)
    BY <2>4, <2>7 DEF Best, Sides
  <2> QED
    BY <2>1, <2>5, <2>8 DEF row
<1>4. ASSUME NEW y \in Sides, NEW x \in Sides
      PROVE  /\ Reached(y, x) \in SUBSET Shades /\ Reached(y, x) # {}
             /\ \A dy \in -r .. r : y + dy \in Sides => rows[dy][y + dy][x] \in Reached(y, x)
             /\ \A w \in Reached(y, x) : \E dy \in -r .. r : y + dy \in Sides /\ w = rows[dy][y + dy][x]
  <2>1. \A dy \in -r .. r : y + dy \in Sides => rows[dy][y + dy][x] \in Shades
    <3> TAKE dy \in -r .. r
    <3> HAVE y + dy \in Sides
    <3> HIDE DEF rows
    <3>1. PICK u \in Sides : rows[dy][y + dy][x] = image[y + dy][u]
      BY <1>3
    <3> QED
      BY <3>1, ImagesAre
  <2>2. 0 \in -r .. r /\ y + 0 = y
    BY <1>0, ImagesAre DEF Sides
  <2> HIDE DEF rows
  <2> QED
    BY <1>2, <2>1, <2>2
<1>5. ASSUME NEW y \in Sides, NEW x \in Sides
      PROVE  /\ new[y][x] \in Reached(y, x)
             /\ \A w \in Reached(y, x) : AtLeastAsGood(new[y][x], w, maximum)
  <2> DEFINE values == Reached(y, x)
  <2>1. values \in SUBSET Shades /\ values # {}
    BY <1>4
  <2>2. new[y][x] = IF maximum THEN Max(values) ELSE Min(values)
    BY <1>1, <1>2
  <2> HIDE DEF values
  <2>3. values \in SUBSET (0 .. MaxLevel) /\ values \in SUBSET Nat
    BY <2>1, ImagesAre
  <2>4. Max(values) \in values /\ \A w \in values : w <= Max(values)
    BY <2>1, <2>3, ImagesAre, MostUpTo
  <2>5. Min(values) \in values /\ \A w \in values : Min(values) <= w
    BY <2>1, <2>3, LeastIs
  <2>6. new[y][x] \in values /\ \A w \in values : AtLeastAsGood(new[y][x], w, maximum)
    BY <2>2, <2>3, <2>4, <2>5 DEF AtLeastAsGood
  <2> QED
    BY <2>6 DEF values
<1>6. new \in Images
  <2>1. \A y, x \in Sides : new[y][x] \in Shades
    BY <1>4, <1>5
  <2>2. new = [y \in Sides |-> [x \in Sides |-> new[y][x]]]
    BY <1>1, <1>2
  <2>3. [y \in Sides |-> [x \in Sides |-> new[y][x]]] \in [Sides -> [Sides -> Shades]]
    BY <2>1
  <2>4. Images = [Sides -> [Sides -> Shades]]
    BY DEF Images, Sides
  <2> QED
    BY <2>2, <2>3, <2>4
<1>7. ASSUME NEW y \in Sides, NEW x \in Sides
      PROVE  \E v, u \in Sides : Under(size, y, x, v, u) /\ new[y][x] = image[v][u]
  <2> HIDE DEF rows
  <2>1. new[y][x] \in Reached(y, x)
    <3> HIDE DEF Reached
    <3> QED
      BY <1>5
  <2>2. PICK dy \in -r .. r : y + dy \in Sides /\ new[y][x] = rows[dy][y + dy][x]
    BY <1>4, <2>1
  <2>3. PICK u \in Sides : Under(size, y, x, y + dy, u) /\ rows[dy][y + dy][x] = image[y + dy][u]
    BY <1>3, <2>2
  <2> QED
    BY <2>2, <2>3
<1>8. ASSUME NEW y \in Sides, NEW x \in Sides, NEW v \in Sides, NEW u \in Sides, Under(size, y, x, v, u)
      PROVE  AtLeastAsGood(new[y][x], image[v][u], maximum)
  <2> DEFINE dy == v - y
  <2>1. dy \in -r .. r /\ y + dy = v /\ dy \in Int
    BY <1>8, ImagesAre DEF Under, Sides
  <2> HIDE DEF dy, rows
  <2>2. Under(size, y, x, y + dy, u)
    BY <1>8, <2>1
  <2> DEFINE w == rows[dy][y + dy][x]
  <2>3. w \in Reached(y, x)
    BY <1>4, <2>1
  <2>4. AtLeastAsGood(w, image[v][u], maximum)
    BY <1>3, <2>1, <2>2
  <2>5. AtLeastAsGood(new[y][x], w, maximum)
    BY <1>5, <2>3
  <2>6. w \in Int /\ image[v][u] \in Int /\ new[y][x] \in Int
    <3> HIDE DEF Reached, w
    <3>1. w \in Shades
      BY <1>4, <2>3
    <3>2. w \in Int
      BY <3>1, ImagesAre
    <3>3. image[v][u] \in Int
      BY ImagesAre
    <3>4. new[y][x] \in Int
      BY <1>6, ImagesAre
    <3> QED
      BY <3>2, <3>3, <3>4
  <2> HIDE DEF w
  <2> QED
    BY <2>4, <2>5, <2>6, GoodOrder
<1> QED
  BY <1>6, <1>7, <1>8 DEF Spreads, new

-----------------------------------------------------------------------------
(* A closing darkens nothing, and closing again changes nothing: what      *)
(* spreads light and what spreads dark are adjoint, because each place is  *)
(* under the kernel of those under its own.                                *)
LEMMA CloseTrue ==
    ASSUME NEW image \in Images, NEW size \in Nat
    PROVE  /\ Close(image, size) \in Images
           /\ \A y, x \in Sides : Close(image, size)[y][x] >= image[y][x]
           /\ Close(Close(image, size), size) = Close(image, size)
<1> DEFINE light == Morph(image, size, TRUE)
           closed == Morph(light, size, FALSE)
           again == Morph(closed, size, TRUE)
<1>1. light \in Images /\ Spreads(image, size, TRUE, light)
  BY MorphIs
<1> HIDE DEF light
<1>2. closed \in Images /\ Spreads(light, size, FALSE, closed)
  BY <1>1, MorphIs
<1> HIDE DEF closed
<1>3. again \in Images /\ Spreads(closed, size, TRUE, again)
  BY <1>2, MorphIs
<1> HIDE DEF again
<1>4. /\ \A y \in Sides : y \in Int
      /\ \A y, x \in Sides : image[y][x] \in Int /\ light[y][x] \in Int /\ closed[y][x] \in Int /\ again[y][x] \in Int
  BY <1>1, <1>2, <1>3, ImagesAre DEF Sides
<1>5. \A y, x, v, u \in Sides : Under(size, y, x, v, u) => Under(size, v, u, y, x)
  BY <1>4, UnderEachOther
<1>6. ASSUME NEW y \in Sides, NEW x \in Sides PROVE closed[y][x] >= image[y][x]
  <2>1. PICK v \in Sides, u \in Sides : Under(size, y, x, v, u) /\ closed[y][x] = light[v][u]
    BY <1>2 DEF Spreads
  <2>2. Under(size, v, u, y, x)
    BY <1>5, <2>1
  <2>3. light[v][u] >= image[y][x]
    BY <1>1, <2>2 DEF Spreads, AtLeastAsGood
  <2> QED
    BY <2>1, <2>3
<1>7. ASSUME NEW y \in Sides, NEW x \in Sides PROVE again[y][x] = light[y][x]
  <2>1. PICK v \in Sides, u \in Sides : Under(size, y, x, v, u) /\ again[y][x] = closed[v][u]
    BY <1>3 DEF Spreads
  <2>2. Under(size, v, u, y, x)
    BY <1>5, <2>1
  <2>3. closed[v][u] <= light[y][x]
    BY <1>2, <2>2 DEF Spreads, AtLeastAsGood
  <2>4. PICK a \in Sides, b \in Sides : Under(size, y, x, a, b) /\ light[y][x] = image[a][b]
    BY <1>1 DEF Spreads
  <2>5. again[y][x] >= closed[a][b]
    BY <1>3, <2>4 DEF Spreads, AtLeastAsGood
  <2>6. closed[a][b] >= image[a][b]
    BY <1>6
  <2>7. again[y][x] \in Int /\ light[y][x] \in Int /\ closed[a][b] \in Int
    BY <1>4
  <2> QED
    BY <2>1, <2>3, <2>4, <2>5, <2>6, <2>7
<1>8. again = light
  <2>1. again \in [Sides -> [Sides -> Shades]] /\ light \in [Sides -> [Sides -> Shades]]
    BY <1>1, <1>3 DEF Images, Sides
  <2>2. \A y \in Sides : again[y] = light[y]
    <3> TAKE y \in Sides
    <3>1. again[y] \in [Sides -> Shades] /\ light[y] \in [Sides -> Shades]
      BY <2>1
    <3> QED
      BY <1>7, <3>1
  <2> QED
    BY <2>1, <2>2
<1>9. Close(image, size) = closed /\ Close(closed, size) = Morph(again, size, FALSE)
  BY DEF Close, closed, light, again
<1>10. Morph(light, size, FALSE) = closed
  BY DEF closed
<1> QED
  BY <1>2, <1>6, <1>8, <1>9, <1>10

-----------------------------------------------------------------------------
(* Sums over greys.                                                        *)
Weights == [Levels -> Int]

LEMMA TotalAdds ==
    ASSUME NEW u \in Weights, NEW v \in Weights, NEW w \in Weights, \A grey \in Levels : u[grey] = v[grey] + w[grey]
    PROVE  Total(v) \in Int /\ Total(w) \in Int /\ Total(u) = Total(v) + Total(w)
<1> DEFINE n == MaxLevel + 1
<1>0. n \in Nat /\ \A i \in 1 .. n : i - 1 \in Levels /\ i \in 0 .. n
  BY LevelsAre
<1>1. PICK f : f[0] = 0 /\ (\A i \in 1 .. n : f[i] = f[i - 1] + u[i - 1]) /\ Total(u) = f[n]
  BY TotalIs
<1>2. PICK g : g[0] = 0 /\ (\A i \in 1 .. n : g[i] = g[i - 1] + v[i - 1]) /\ Total(v) = g[n]
  BY TotalIs
<1>3. PICK h : h[0] = 0 /\ (\A i \in 1 .. n : h[i] = h[i - 1] + w[i - 1]) /\ Total(w) = h[n]
  BY TotalIs
<1> HIDE DEF n
<1> DEFINE S == {i \in 0 .. n : g[i] \in Int /\ h[i] \in Int /\ f[i] = g[i] + h[i]}
<1>4. 0 \in S
  BY <1>0, <1>1, <1>2, <1>3
<1>5. \A i \in 1 .. n : i - 1 \in S => i \in S
  <2> TAKE i \in 1 .. n
  <2> HAVE i - 1 \in S
  <2>1. g[i - 1] \in Int /\ h[i - 1] \in Int /\ f[i - 1] = g[i - 1] + h[i - 1]
    OBVIOUS
  <2>2. v[i - 1] \in Int /\ w[i - 1] \in Int /\ u[i - 1] = v[i - 1] + w[i - 1]
    BY <1>0 DEF Weights
  <2>3. f[i] = f[i - 1] + u[i - 1] /\ g[i] = g[i - 1] + v[i - 1] /\ h[i] = h[i - 1] + w[i - 1]
    BY <1>1, <1>2, <1>3
  <2>4. g[i] \in Int /\ h[i] \in Int /\ f[i] = g[i] + h[i]
    BY <2>1, <2>2, <2>3
  <2> QED
    BY <1>0, <2>4
<1>6. \A i \in 0 .. n : i \in S
  <2> HIDE DEF S
  <2> QED
    BY <1>0, <1>4, <1>5, Steps
<1>7. n \in S
  BY <1>0, <1>6
<1> QED
  BY <1>1, <1>2, <1>3, <1>7

LEMMA TotalOne ==
    ASSUME NEW w \in Weights, NEW grey \in Levels, \A other \in Levels : other # grey => w[other] = 0
    PROVE  Total(w) = w[grey]
<1> DEFINE n == MaxLevel + 1
<1>0. n \in Nat /\ grey \in Nat /\ grey < n /\ w[grey] \in Int /\ \A i \in 1 .. n : i - 1 \in Levels /\ i \in 0 .. n
  BY LevelsAre DEF Weights
<1>1. PICK f : f[0] = 0 /\ (\A i \in 1 .. n : f[i] = f[i - 1] + w[i - 1]) /\ Total(w) = f[n]
  BY TotalIs
<1> HIDE DEF n
<1> DEFINE S == {i \in 0 .. n : f[i] = IF i > grey THEN w[grey] ELSE 0}
<1>2. 0 \in S
  BY <1>0, <1>1
<1>3. \A i \in 1 .. n : i - 1 \in S => i \in S
  <2> TAKE i \in 1 .. n
  <2> HAVE i - 1 \in S
  <2>1. f[i] = f[i - 1] + w[i - 1] /\ f[i - 1] = (IF i - 1 > grey THEN w[grey] ELSE 0) /\ i \in Int
    BY <1>1
  <2>2. CASE i - 1 = grey
    BY <1>0, <2>1, <2>2
  <2>3. CASE i - 1 # grey
    <3>1. w[i - 1] = 0
      BY <1>0, <2>3
    <3>2. i > grey <=> i - 1 > grey
      BY <1>0, <2>1, <2>3
    <3> QED
      BY <1>0, <2>1, <3>1, <3>2
  <2> QED
    BY <2>2, <2>3
<1>4. \A i \in 0 .. n : i \in S
  <2> HIDE DEF S
  <2> QED
    BY <1>0, <1>2, <1>3, Steps
<1>5. n \in S
  BY <1>0, <1>4
<1> QED
  BY <1>0, <1>1, <1>5

LEMMA TotalNat ==
    ASSUME NEW w \in Weights, \A grey \in Levels : w[grey] >= 0 PROVE Total(w) \in Nat
<1> DEFINE n == MaxLevel + 1
<1>0. n \in Nat /\ \A i \in 1 .. n : i - 1 \in Levels /\ i \in 0 .. n /\ w[i - 1] \in Nat
  BY LevelsAre DEF Weights
<1>1. PICK f : f[0] = 0 /\ (\A i \in 1 .. n : f[i] = f[i - 1] + w[i - 1]) /\ Total(w) = f[n]
  BY TotalIs
<1> HIDE DEF n
<1> DEFINE S == {i \in 0 .. n : f[i] \in Nat}
<1>2. 0 \in S
  BY <1>0, <1>1
<1>3. \A i \in 1 .. n : i - 1 \in S => i \in S
  BY <1>0, <1>1
<1>4. \A i \in 0 .. n : i \in S
  <2> HIDE DEF S
  <2> QED
    BY <1>0, <1>2, <1>3, Steps
<1>5. n \in S
  BY <1>0, <1>4
<1> QED
  BY <1>1, <1>5

(* The pixels of some greys, and what they weigh.                          *)
Histograms == [Levels -> Nat]

LEMMA PixelsAre ==
    ASSUME NEW counts \in Histograms
    PROVE  /\ \A greys : Pixels(counts, greys) \in Nat /\ Light(counts, greys) \in Nat
           /\ Pixels(counts, {}) = 0 /\ Light(counts, {}) = 0
           /\ \A grey \in Levels : Pixels(counts, {grey}) = counts[grey] /\ Light(counts, {grey}) = grey * counts[grey]
           /\ \A a, b \in SUBSET Levels : a \cap b = {} =>
                /\ Pixels(counts, a \union b) = Pixels(counts, a) + Pixels(counts, b)
                /\ Light(counts, a \union b) = Light(counts, a) + Light(counts, b)
<1> DEFINE P(greys) == [grey \in Levels |-> IF grey \in greys THEN counts[grey] ELSE 0]
           L(greys) == [grey \in Levels |-> IF grey \in greys THEN grey * counts[grey] ELSE 0]
<1>1. \A grey \in Levels : grey \in Nat /\ counts[grey] \in Nat /\ grey * counts[grey] \in Nat
  <2> TAKE grey \in Levels
  <2>1. grey \in Nat /\ counts[grey] \in Nat
    BY LevelsAre DEF Histograms
  <2> QED
    BY <2>1
<1>2. \A greys : Pixels(counts, greys) = Total(P(greys)) /\ Light(counts, greys) = Total(L(greys))
  BY DEF Pixels, Light
<1>3. ASSUME NEW greys
      PROVE  /\ P(greys) \in Weights /\ L(greys) \in Weights
             /\ \A grey \in Levels : P(greys)[grey] >= 0 /\ L(greys)[grey] >= 0
  <2>1. \A grey \in Levels : P(greys)[grey] \in Nat /\ L(greys)[grey] \in Nat
    BY <1>1
  <2>2. P(greys) = [grey \in Levels |-> P(greys)[grey]] /\ L(greys) = [grey \in Levels |-> L(greys)[grey]]
    OBVIOUS
  <2> HIDE DEF P, L
  <2> QED
    BY <2>1, <2>2 DEF Weights
<1>4. ASSUME NEW greys PROVE Pixels(counts, greys) \in Nat /\ Light(counts, greys) \in Nat
  <2> HIDE DEF P, L
  <2> QED
    BY <1>2, <1>3, TotalNat
<1>5. ASSUME NEW grey \in Levels
      PROVE  Pixels(counts, {grey}) = counts[grey] /\ Light(counts, {grey}) = grey * counts[grey]
  <2>1. /\ P({grey})[grey] = counts[grey] /\ L({grey})[grey] = grey * counts[grey]
        /\ \A other \in Levels : other # grey => P({grey})[other] = 0 /\ L({grey})[other] = 0
    OBVIOUS
  <2>2. P({grey}) \in Weights /\ L({grey}) \in Weights
    <3> HIDE DEF P, L
    <3> QED
      BY <1>3
  <2> HIDE DEF P, L
  <2>3. Total(P({grey})) = P({grey})[grey]
    BY <2>1, <2>2, TotalOne
  <2>4. Total(L({grey})) = L({grey})[grey]
    BY <2>1, <2>2, TotalOne
  <2> QED
    BY <1>2, <2>1, <2>3, <2>4
<1>6. ASSUME NEW a \in SUBSET Levels, NEW b \in SUBSET Levels, a \cap b = {}
      PROVE  /\ Pixels(counts, a \union b) = Pixels(counts, a) + Pixels(counts, b)
             /\ Light(counts, a \union b) = Light(counts, a) + Light(counts, b)
  <2>1. ASSUME NEW grey \in Levels
        PROVE  /\ P(a \union b)[grey] = P(a)[grey] + P(b)[grey]
               /\ L(a \union b)[grey] = L(a)[grey] + L(b)[grey]
    <3>1. counts[grey] \in Nat /\ grey * counts[grey] \in Nat
      BY <1>1
    <3> DEFINE weight == grey * counts[grey]
    <3>2. weight \in Nat
      BY <3>1
    <3> HIDE DEF weight
    <3>3. /\ P(a \union b)[grey] = (IF grey \in a \/ grey \in b THEN counts[grey] ELSE 0)
          /\ P(a)[grey] = (IF grey \in a THEN counts[grey] ELSE 0) /\ P(b)[grey] = (IF grey \in b THEN counts[grey] ELSE 0)
      OBVIOUS
    <3>4. /\ L(a \union b)[grey] = (IF grey \in a \/ grey \in b THEN weight ELSE 0)
          /\ L(a)[grey] = (IF grey \in a THEN weight ELSE 0) /\ L(b)[grey] = (IF grey \in b THEN weight ELSE 0)
      BY DEF weight
    <3>5. ~(grey \in a /\ grey \in b)
      BY <1>6
    <3> HIDE DEF P, L
    <3> QED
      BY <3>1, <3>2, <3>3, <3>4, <3>5
  <2> HIDE DEF P, L
  <2>2. /\ P(a \union b) \in Weights /\ P(a) \in Weights /\ P(b) \in Weights
        /\ L(a \union b) \in Weights /\ L(a) \in Weights /\ L(b) \in Weights
    BY <1>3
  <2> DEFINE pu == P(a \union b) pa == P(a) pb == P(b) lu == L(a \union b) la == L(a) lb == L(b)
  <2>3. /\ pu \in Weights /\ pa \in Weights /\ pb \in Weights
        /\ lu \in Weights /\ la \in Weights /\ lb \in Weights
        /\ \A grey \in Levels : pu[grey] = pa[grey] + pb[grey]
        /\ \A grey \in Levels : lu[grey] = la[grey] + lb[grey]
    BY <2>1, <2>2
  <2> HIDE DEF pu, pa, pb, lu, la, lb
  <2>4. Total(pu) = Total(pa) + Total(pb)
    BY <2>3, TotalAdds
  <2>5. Total(lu) = Total(la) + Total(lb)
    BY <2>3, TotalAdds
  <2>6. /\ Pixels(counts, a \union b) = Total(pu) /\ Pixels(counts, a) = Total(pa) /\ Pixels(counts, b) = Total(pb)
        /\ Light(counts, a \union b) = Total(lu) /\ Light(counts, a) = Total(la) /\ Light(counts, b) = Total(lb)
    BY <1>2 DEF pu, pa, pb, lu, la, lb
  <2> QED
    BY <2>4, <2>5, <2>6
<1>7. Pixels(counts, {}) = 0 /\ Light(counts, {}) = 0
  <2>1. {} \in SUBSET Levels /\ {} \cap {} = {} /\ {} \union {} = {}
    OBVIOUS
  <2>2. /\ Pixels(counts, {} \union {}) = Pixels(counts, {}) + Pixels(counts, {})
        /\ Light(counts, {} \union {}) = Light(counts, {}) + Light(counts, {})
    BY <1>6, <2>1
  <2>3. /\ Pixels(counts, {}) = Pixels(counts, {}) + Pixels(counts, {})
        /\ Light(counts, {}) = Light(counts, {}) + Light(counts, {})
    BY <2>1, <2>2
  <2> DEFINE p == Pixels(counts, {}) l == Light(counts, {})
  <2>4. p \in Nat /\ l \in Nat
    BY <1>4
  <2>5. p = p + p /\ l = l + l
    BY <2>3
  <2> HIDE DEF p, l
  <2>6. p = 0 /\ l = 0
    BY <2>4, <2>5
  <2> QED
    BY <2>6 DEF p, l
<1> QED
  BY <1>4, <1>5, <1>6, <1>7

(* One more grey of those below a bound; and the others are the rest.      *)
First(n) == {grey \in Levels : grey < n}

LEMMA FirstGrows ==
    ASSUME NEW counts \in Histograms, NEW n \in 1 .. MaxLevel + 1
    PROVE  /\ n - 1 \in Levels /\ counts[n - 1] \in Nat /\ n \in Nat
           /\ Pixels(counts, First(n)) = Pixels(counts, First(n - 1)) + counts[n - 1]
           /\ Light(counts, First(n)) = Light(counts, First(n - 1)) + (n - 1) * counts[n - 1]
<1>1. n - 1 \in Levels /\ counts[n - 1] \in Nat /\ n \in Nat
  BY LevelsAre DEF Histograms
<1>2. First(n) = First(n - 1) \union {n - 1}
  BY <1>1, LevelsAre DEF First
<1>3. First(n - 1) \in SUBSET Levels /\ {n - 1} \in SUBSET Levels /\ First(n - 1) \cap {n - 1} = {}
  BY <1>1, LevelsAre DEF First
<1>4. /\ Pixels(counts, {n - 1}) = counts[n - 1] /\ Light(counts, {n - 1}) = (n - 1) * counts[n - 1]
  BY <1>1, PixelsAre
<1>5. /\ Pixels(counts, First(n - 1) \union {n - 1}) = Pixels(counts, First(n - 1)) + Pixels(counts, {n - 1})
      /\ Light(counts, First(n - 1) \union {n - 1}) = Light(counts, First(n - 1)) + Light(counts, {n - 1})
  BY <1>3, PixelsAre
<1> QED
  BY <1>1, <1>2, <1>4, <1>5

LEMMA FirstAndRest ==
    ASSUME NEW counts \in Histograms, NEW grey \in Levels
    PROVE  /\ Below(counts, grey) = First(grey + 1)
           /\ Pixels(counts, Levels) = Pixels(counts, Below(counts, grey)) + Pixels(counts, Above(counts, grey))
           /\ Light(counts, Levels) = Light(counts, Below(counts, grey)) + Light(counts, Above(counts, grey))
<1>1. /\ Below(counts, grey) = First(grey + 1) /\ Levels = Below(counts, grey) \union Above(counts, grey)
      /\ Below(counts, grey) \cap Above(counts, grey) = {}
      /\ Below(counts, grey) \in SUBSET Levels /\ Above(counts, grey) \in SUBSET Levels
  BY LevelsAre DEF First, Below, Above
<1> QED
  BY <1>1, PixelsAre

-----------------------------------------------------------------------------
(* The threshold: fractions by their products.                             *)
LEMMA ProductsKeepOrder ==
    ASSUME NEW a \in Int, NEW b \in Int, NEW d \in Int, d > 0
    PROVE  /\ a * d \in Int /\ b * d \in Int /\ (a * d < b * d => a < b)
           /\ (a <= b => a * d <= b * d) /\ (a < b => a * d < b * d)
OBVIOUS

LEMMA FractionsOrder ==
    ASSUME NEW a \in Int, NEW b \in Int, NEW c \in Int, NEW d \in Int, NEW e \in Int, NEW f \in Int,
           b > 0, d > 0, f > 0, c * b < a * d, e * d <= c * f
    PROVE  e * b < a * f
<1>1. c * b \in Int /\ a * d \in Int /\ e * d \in Int /\ c * f \in Int /\ e * b \in Int /\ a * f \in Int
  OBVIOUS
<1>2. (c * b) * f < (a * d) * f
  BY <1>1, ProductsKeepOrder
<1>3. (e * d) * b <= (c * f) * b
  BY <1>1, ProductsKeepOrder
<1>4. (c * b) * f = (c * f) * b /\ (a * d) * f = (a * f) * d /\ (e * d) * b = (e * b) * d
  OBVIOUS
<1>5. (c * f) * b \in Int /\ (a * f) * d \in Int /\ (e * b) * d \in Int
  BY <1>1
<1>6. (e * b) * d < (a * f) * d
  BY <1>2, <1>3, <1>4, <1>5
<1> QED
  BY <1>1, <1>6, ProductsKeepOrder

LEMMA SpreadIs ==
    ASSUME NEW counts \in Histograms, NEW grey \in Levels
    PROVE  LET below == Pixels(counts, First(grey + 1))
               light == Light(counts, First(grey + 1))
               above == Pixels(counts, Levels) - below
               spread == light * above - (Light(counts, Levels) - light) * below
               s == Spread(counts, grey)
           IN /\ s = [top |-> spread * spread, bottom |-> below * above]
              /\ s.top = spread * spread /\ s.bottom = below * above
              /\ s.top \in Int /\ s.bottom \in Int /\ below \in Nat /\ above \in Nat /\ light \in Nat
              /\ grey \in Splits(counts) <=> below # 0 /\ above # 0
              /\ grey \in Splits(counts) => s.bottom > 0
<1> DEFINE below == Pixels(counts, First(grey + 1))
           light == Light(counts, First(grey + 1))
           above == Pixels(counts, Levels) - below
           dark == Light(counts, Levels) - light
           spread == light * above - dark * below
           s == Spread(counts, grey)
<1>1. /\ below \in Nat /\ above \in Nat /\ light \in Nat /\ dark \in Nat
      /\ Pixels(counts, Below(counts, grey)) = below /\ Light(counts, Below(counts, grey)) = light
      /\ Pixels(counts, Above(counts, grey)) = above /\ Light(counts, Above(counts, grey)) = dark
  <2> DEFINE pa == Pixels(counts, Above(counts, grey))
             la == Light(counts, Above(counts, grey))
             p == Pixels(counts, Levels)
             l == Light(counts, Levels)
  <2>1. /\ Pixels(counts, Below(counts, grey)) = below /\ Light(counts, Below(counts, grey)) = light
        /\ p = below + pa /\ l = light + la
    BY FirstAndRest
  <2>2. pa \in Nat /\ la \in Nat /\ below \in Nat /\ light \in Nat
    BY PixelsAre
  <2> HIDE DEF pa, la, p, l, below, light
  <2>3. p - below = pa /\ l - light = la
    BY <2>1, <2>2
  <2> QED
    BY <2>1, <2>2, <2>3 DEF pa, la, p, l
<1>2. s = [top |-> spread * spread, bottom |-> below * above]
  BY <1>1 DEF Spread
<1> HIDE DEF below, above, light, dark
<1>3. spread \in Int /\ below * above \in Int
  BY <1>1
<1>4. (below # 0 /\ above # 0) <=> below * above > 0
  BY <1>1
<1> HIDE DEF spread
<1>5. s.top = spread * spread /\ s.bottom = below * above /\ s.top \in Int /\ s.bottom \in Int
  BY <1>2, <1>3
<1>6. grey \in Splits(counts) <=> s.bottom > 0
  BY DEF Splits
<1> QED
  BY <1>1, <1>2, <1>4, <1>5, <1>6 DEF spread, dark, above, below, light

(* The first of the best thresholds so far.                                *)
OtsuHolds(state, counts, n) ==
    /\ state = [below |-> state.below, light |-> state.light, top |-> state.top,
                bottom |-> state.bottom, best |-> state.best]
    /\ state.below = Pixels(counts, First(n)) /\ state.light = Light(counts, First(n))
    /\ \/ state.bottom = 0 /\ state.best = 0 /\ \A grey \in Splits(counts) : ~(grey < n)
       \/ /\ state.bottom # 0 /\ state.best \in Splits(counts) /\ state.best < n
          /\ Spread(counts, state.best) = [top |-> state.top, bottom |-> state.bottom]
          /\ \A grey \in Splits(counts) : grey < n =>
               /\ ~SeparatesBetter(Spread(counts, grey), Spread(counts, state.best))
               /\ grey < state.best => SeparatesBetter(Spread(counts, state.best), Spread(counts, grey))

LEMMA SplitIs ==
    ASSUME NEW counts \in Histograms, NEW grey \in Splits(counts)
    PROVE  /\ grey \in Levels /\ grey \in Int /\ Spread(counts, grey).top \in Int
           /\ Spread(counts, grey).bottom \in Int /\ Spread(counts, grey).bottom > 0
<1>1. grey \in Levels
  BY DEF Splits
<1>2. grey \in Int
  BY <1>1, LevelsAre
<1> QED
  BY <1>1, <1>2, SpreadIs

LEMMA VisitHolds ==
    ASSUME NEW counts \in Histograms, NEW n \in 1 .. MaxLevel + 1, NEW state, OtsuHolds(state, counts, n - 1)
    PROVE  OtsuHolds(Visit(state, counts, n - 1), counts, n)
<1> DEFINE grey == n - 1
           new == Visit(state, counts, grey)
           below == state.below + counts[grey]
           light == state.light + grey * counts[grey]
           above == Pixels(counts, Levels) - below
           spread == light * above - (Light(counts, Levels) - light) * below
           top == spread * spread
           bottom == below * above
           better == below # 0 /\ above # 0 /\ (state.bottom = 0 \/ top * state.bottom > state.top * bottom)
<1>1. new = IF better THEN [below |-> below, light |-> light, top |-> top, bottom |-> bottom, best |-> grey]
            ELSE [state EXCEPT !.below = below, !.light = light]
  BY DEF Visit
<1>2. /\ grey \in Levels /\ n \in Nat /\ grey \in Int /\ grey + 1 = n
      /\ below = Pixels(counts, First(n)) /\ light = Light(counts, First(n))
  <2>1. grey \in Levels /\ n \in Nat /\ grey \in Int /\ grey + 1 = n
    BY FirstGrows
  <2>2. state.below = Pixels(counts, First(grey)) /\ state.light = Light(counts, First(grey))
    BY DEF OtsuHolds
  <2> QED
    BY <2>1, <2>2, FirstGrows
<1>3. /\ Spread(counts, grey) = [top |-> top, bottom |-> bottom]
      /\ top \in Int /\ bottom \in Int
      /\ grey \in Splits(counts) <=> below # 0 /\ above # 0
      /\ grey \in Splits(counts) => bottom > 0
  <2> HIDE DEF below, light, grey
  <2>1. grey \in Levels /\ grey + 1 = n
    BY <1>2
  <2>2. below = Pixels(counts, First(grey + 1)) /\ light = Light(counts, First(grey + 1))
    BY <1>2
  <2> QED
    BY <2>1, <2>2, SpreadIs
<1>4. /\ new.below = Pixels(counts, First(n)) /\ new.light = Light(counts, First(n))
      /\ new = [below |-> new.below, light |-> new.light, top |-> new.top, bottom |-> new.bottom, best |-> new.best]
      /\ better => new.top = top /\ new.bottom = bottom /\ new.best = grey
      /\ ~better => new.top = state.top /\ new.bottom = state.bottom /\ new.best = state.best
  <2> HIDE DEF below, light, top, bottom, better, grey
  <2>1. CASE better
    BY <1>1, <1>2, <2>1
  <2>2. CASE ~better
    <3>1. state = [below |-> state.below, light |-> state.light, top |-> state.top,
                   bottom |-> state.bottom, best |-> state.best]
      BY DEF OtsuHolds
    <3>2. new = [below |-> below, light |-> light, top |-> state.top, bottom |-> state.bottom, best |-> state.best]
      BY <1>1, <2>2, <3>1
    <3> QED
      BY <1>2, <2>2, <3>2
  <2> QED
    BY <2>1, <2>2
<1>5. better <=> grey \in Splits(counts) /\ (state.bottom = 0 \/ top * state.bottom > state.top * bottom)
  BY <1>3
<1>6. \A other \in Splits(counts) : other < n <=> other < grey \/ other = grey
  <2> TAKE other \in Splits(counts)
  <2>1. other \in Int
    BY SplitIs
  <2> QED
    BY <1>2, <2>1
<1>7. /\ \/ state.bottom = 0 /\ state.best = 0 /\ \A other \in Splits(counts) : ~(other < grey)
         \/ /\ state.bottom # 0 /\ state.best \in Splits(counts) /\ state.best < grey
            /\ Spread(counts, state.best) = [top |-> state.top, bottom |-> state.bottom]
            /\ \A other \in Splits(counts) : other < grey =>
                 /\ ~SeparatesBetter(Spread(counts, other), Spread(counts, state.best))
                 /\ other < state.best => SeparatesBetter(Spread(counts, state.best), Spread(counts, other))
  BY DEF OtsuHolds
<1> HIDE DEF new, below, light, top, bottom, better, grey, above
<1>8. \/ new.bottom = 0 /\ new.best = 0 /\ \A other \in Splits(counts) : ~(other < n)
      \/ /\ new.bottom # 0 /\ new.best \in Splits(counts) /\ new.best < n
         /\ Spread(counts, new.best) = [top |-> new.top, bottom |-> new.bottom]
         /\ \A other \in Splits(counts) : other < n =>
              /\ ~SeparatesBetter(Spread(counts, other), Spread(counts, new.best))
              /\ other < new.best => SeparatesBetter(Spread(counts, new.best), Spread(counts, other))
  <2>1. CASE grey \notin Splits(counts)
    <3>1. new.top = state.top /\ new.bottom = state.bottom /\ new.best = state.best
      BY <1>4, <1>5, <2>1
    <3>2. \A other \in Splits(counts) : other < n <=> other < grey
      BY <1>6, <2>1
    <3>3. state.best \in Splits(counts) /\ state.best < grey => state.best < n
      BY <3>2
    <3> QED
      BY <1>7, <3>1, <3>2, <3>3
  <2>2. CASE grey \in Splits(counts) /\ state.bottom = 0
    <3>1. new.top = top /\ new.bottom = bottom /\ new.best = grey /\ bottom > 0 /\ bottom # 0
      BY <1>3, <1>4, <1>5, <2>2
    <3>2. \A other \in Splits(counts) : other < n => other = grey
      BY <1>6, <1>7, <2>2
    <3>3. ~SeparatesBetter(Spread(counts, grey), Spread(counts, grey)) /\ ~(grey < grey) /\ grey < n
      <4>1. top * bottom \in Int
        BY <1>3
      <4> QED
        BY <1>2, <1>3, <4>1 DEF SeparatesBetter
    <3> QED
      BY <1>3, <2>2, <3>1, <3>2, <3>3
  <2>3. CASE grey \in Splits(counts) /\ state.bottom # 0
    <3> DEFINE best == state.best
               bt == Spread(counts, best).top
               bb == Spread(counts, best).bottom
    <3>1. /\ best \in Splits(counts) /\ best < grey /\ bt = state.top /\ bb = state.bottom
          /\ Spread(counts, best) = [top |-> state.top, bottom |-> state.bottom]
          /\ \A other \in Splits(counts) : other < grey =>
               /\ ~SeparatesBetter(Spread(counts, other), Spread(counts, best))
               /\ other < best => SeparatesBetter(Spread(counts, best), Spread(counts, other))
      BY <1>7, <2>3
    <3>2. bt \in Int /\ bb \in Int /\ bb > 0 /\ best \in Int /\ best < n /\ top \in Int /\ bottom \in Int /\ bottom > 0
          /\ Spread(counts, grey).top = top /\ Spread(counts, grey).bottom = bottom
      <4>1. bt \in Int /\ bb \in Int /\ bb > 0 /\ best \in Int
        BY <3>1, SplitIs
      <4>2. best < n
        BY <1>2, <3>1, <4>1
      <4>3. /\ top \in Int /\ bottom \in Int /\ bottom > 0
            /\ Spread(counts, grey).top = top /\ Spread(counts, grey).bottom = bottom
        BY <1>3, <2>3
      <4> QED
        BY <4>1, <4>2, <4>3
    <3> HIDE DEF best, bt, bb
    <3>3. CASE top * state.bottom > state.top * bottom
      <4>1. new.top = top /\ new.bottom = bottom /\ new.best = grey /\ bottom # 0 /\ grey < n
        BY <1>2, <1>4, <1>5, <2>3, <3>2, <3>3
      <4>2. ASSUME NEW other \in Splits(counts), other < grey
            PROVE  /\ SeparatesBetter(Spread(counts, grey), Spread(counts, other))
                   /\ ~SeparatesBetter(Spread(counts, other), Spread(counts, grey))
        <5> DEFINE ot == Spread(counts, other).top
                   ob == Spread(counts, other).bottom
        <5>1. ot \in Int /\ ob \in Int /\ ob > 0
          BY SplitIs
        <5>2. ~(ot * bb > bt * ob)
          BY <3>1, <4>2 DEF SeparatesBetter, bt, bb
        <5>3. bt * bottom < top * bb
          <6>1. top * bb \in Int /\ bt * bottom \in Int
            BY <3>2
          <6> QED
            BY <3>1, <3>3, <6>1
        <5> HIDE DEF ot, ob
        <5>4. ot * bb \in Int /\ bt * ob \in Int /\ ot * bottom \in Int /\ top * ob \in Int
          BY <3>2, <5>1
        <5>5. ot * bb <= bt * ob
          BY <5>2, <5>4
        <5>6. ot * bottom < top * ob
          BY <3>2, <5>1, <5>3, <5>5, FractionsOrder
        <5>7. top * ob > ot * bottom /\ ~(ot * bottom > top * ob)
          BY <5>4, <5>6
        <5> QED
          BY <3>2, <5>7 DEF SeparatesBetter, ot, ob
      <4>3. ~SeparatesBetter(Spread(counts, grey), Spread(counts, grey)) /\ ~(grey < grey)
        <5>1. top * bottom \in Int
          BY <3>2
        <5> QED
          BY <1>2, <3>2, <5>1 DEF SeparatesBetter
      <4> QED
        BY <1>3, <1>6, <2>3, <4>1, <4>2, <4>3
    <3>4. CASE ~(top * state.bottom > state.top * bottom)
      <4>1. new.top = state.top /\ new.bottom = state.bottom /\ new.best = best
        BY <1>4, <1>5, <2>3, <3>4 DEF best
      <4>2. ~SeparatesBetter(Spread(counts, grey), Spread(counts, best)) /\ ~(grey < best)
        <5>1. ~SeparatesBetter(Spread(counts, grey), Spread(counts, best))
          BY <3>1, <3>2, <3>4 DEF SeparatesBetter, bt, bb
        <5> QED
          BY <1>2, <3>1, <3>2, <5>1
      <4> QED
        BY <1>6, <2>3, <3>1, <3>2, <4>1, <4>2
    <3> QED
      BY <3>3, <3>4
  <2> QED
    BY <2>1, <2>2, <2>3
<1>9. OtsuHolds(new, counts, n)
  BY <1>4, <1>8 DEF OtsuHolds
<1> QED
  BY <1>9 DEF new, grey

LEMMA OtsuTrue ==
    ASSUME NEW counts \in Histograms
    PROVE  IF Splits(counts) = {} THEN Otsu(counts) = (IF Pixels(counts, Levels) = 0 THEN MaxLevel \div 2 ELSE 0)
           ELSE /\ Otsu(counts) \in Splits(counts)
                /\ \A grey \in Splits(counts) :
                     /\ ~SeparatesBetter(Spread(counts, grey), Spread(counts, Otsu(counts)))
                     /\ grey < Otsu(counts) => SeparatesBetter(Spread(counts, Otsu(counts)), Spread(counts, grey))
<1> DEFINE n == MaxLevel + 1
<1>0. n \in Nat /\ \A grey \in Levels : grey < n
  BY LevelsAre
<1>1. PICK g : /\ g[0] = [below |-> 0, light |-> 0, top |-> 0, bottom |-> 0, best |-> 0]
               /\ \A i \in 1 .. n : g[i] = Visit(g[i - 1], counts, i - 1)
               /\ Otsu(counts) = IF Pixels(counts, Levels) = 0 THEN MaxLevel \div 2 ELSE g[n].best
  BY OtsuIs
<1> DEFINE S == {i \in 0 .. n : OtsuHolds(g[i], counts, i)}
<1>2. 0 \in S
  <2>1. First(0) = {}
    BY LevelsAre DEF First
  <2>2. \A grey \in Splits(counts) : ~(grey < 0)
    BY LevelsAre DEF Splits
  <2>3. OtsuHolds(g[0], counts, 0)
    BY <1>1, <2>1, <2>2, PixelsAre DEF OtsuHolds
  <2> QED
    BY <1>0, <2>3
<1>3. \A i \in 1 .. n : i - 1 \in S => i \in S
  <2> TAKE i \in 1 .. n
  <2> HAVE i - 1 \in S
  <2>1. OtsuHolds(g[i - 1], counts, i - 1)
    OBVIOUS
  <2>2. OtsuHolds(g[i], counts, i)
    BY <1>1, <2>1, VisitHolds
  <2> QED
    BY <1>0, <2>2
<1> HIDE DEF n
<1>4. \A i \in 0 .. n : i \in S
  <2> HIDE DEF S
  <2> QED
    BY <1>0, <1>2, <1>3, Steps
<1>5. OtsuHolds(g[n], counts, n)
  BY <1>0, <1>4
<1>6. \A grey \in Splits(counts) : grey < n
  BY <1>0 DEF Splits
<1>7. CASE Splits(counts) = {}
  <2>1. g[n].best = 0
    BY <1>5, <1>7 DEF OtsuHolds
  <2> QED
    BY <1>1, <1>7, <2>1
<1>8. CASE Splits(counts) # {}
  <2>1. PICK split \in Splits(counts) : TRUE
    BY <1>8
  <2>2. Pixels(counts, Levels) # 0
    <3>1. split \in Levels
      BY SplitIs
    <3> DEFINE below == Pixels(counts, First(split + 1))
               p == Pixels(counts, Levels)
    <3>2. below \in Nat /\ p - below \in Nat /\ below # 0
      BY <3>1, SpreadIs
    <3>3. p \in Nat
      BY PixelsAre
    <3> HIDE DEF below, p
    <3>4. p # 0
      BY <3>2, <3>3
    <3> QED
      BY <3>4 DEF p
  <2>3. Otsu(counts) = g[n].best
    BY <1>1, <2>2
  <2>4. /\ g[n].best \in Splits(counts)
        /\ \A grey \in Splits(counts) :
             /\ ~SeparatesBetter(Spread(counts, grey), Spread(counts, g[n].best))
             /\ grey < g[n].best => SeparatesBetter(Spread(counts, g[n].best), Spread(counts, grey))
    BY <1>5, <1>6, <2>1 DEF OtsuHolds
  <2> QED
    BY <1>8, <2>3, <2>4
<1> QED
  BY <1>7, <1>8

-----------------------------------------------------------------------------
(* Quantiles: the greys from one end.                                      *)
Enough(counts, cut, high) == {grey \in Levels : Pixels(counts, FromEnd(high, grey)) > cut}
InTurn(high, i) == IF high THEN MaxLevel + 1 - i ELSE i - 1
Seen(high, i) == {g \in Levels : IF high THEN g > MaxLevel - i ELSE g < i}

LEMMA PixelsGrow ==
    ASSUME NEW counts \in Histograms, NEW a \in SUBSET Levels, NEW b \in SUBSET Levels, a \subseteq b
    PROVE  /\ Pixels(counts, a) \in Nat /\ Pixels(counts, b) \in Nat /\ Pixels(counts, a) <= Pixels(counts, b)
<1> DEFINE c == b \ a
           pa == Pixels(counts, a)
           pb == Pixels(counts, b)
           pc == Pixels(counts, c)
<1>1. c \in SUBSET Levels /\ a \cap c = {} /\ a \union c = b
  OBVIOUS
<1> HIDE DEF c
<1>2. pa \in Nat /\ pb \in Nat /\ pc \in Nat
  BY PixelsAre
<1>3. Pixels(counts, a \union c) = pa + pc
  BY <1>1, PixelsAre
<1>4. pb = pa + pc
  BY <1>1, <1>3
<1> HIDE DEF pa, pb, pc
<1>5. pa <= pb
  BY <1>2, <1>4
<1> QED
  BY <1>2, <1>5 DEF pa, pb

LEMMA SeenGrows ==
    ASSUME NEW counts \in Histograms, NEW high \in BOOLEAN, NEW i \in 1 .. MaxLevel + 1
    PROVE  /\ InTurn(high, i) \in Levels /\ i \in Nat
           /\ Seen(high, i) = FromEnd(high, InTurn(high, i))
           /\ Seen(high, i) \in SUBSET Levels /\ Seen(high, i - 1) \in SUBSET Levels
           /\ counts[InTurn(high, i)] \in Nat
           /\ Pixels(counts, Seen(high, i - 1)) \in Nat
           /\ Pixels(counts, Seen(high, i)) = Pixels(counts, Seen(high, i - 1)) + counts[InTurn(high, i)]
<1>1. MaxLevel \in Nat /\ Levels = 0 .. MaxLevel /\ i \in Nat /\ i >= 1 /\ i <= MaxLevel + 1
  BY PrepAssumption DEF Levels
<1> DEFINE grey == InTurn(high, i)
<1>2. grey \in Levels
  BY <1>1 DEF InTurn
<1>3. Seen(high, i) = FromEnd(high, grey)
  <2>1. CASE high
    BY <1>1, <2>1 DEF Seen, FromEnd, InTurn
  <2>2. CASE ~high
    BY <1>1, <2>2 DEF Seen, FromEnd, InTurn
  <2> QED
    BY <2>1, <2>2
<1>4. Seen(high, i) = Seen(high, i - 1) \union {grey} /\ Seen(high, i - 1) \cap {grey} = {}
  <2>1. CASE high
    BY <1>1, <2>1 DEF Seen, InTurn
  <2>2. CASE ~high
    BY <1>1, <2>2 DEF Seen, InTurn
  <2> QED
    BY <2>1, <2>2
<1>5. Seen(high, i) \in SUBSET Levels /\ Seen(high, i - 1) \in SUBSET Levels
  BY DEF Seen
<1> HIDE DEF grey
<1>6. counts[grey] \in Nat
  BY <1>2 DEF Histograms
<1>7. Pixels(counts, {grey}) = counts[grey] /\ Pixels(counts, Seen(high, i - 1)) \in Nat
  BY <1>2, PixelsAre
<1>8. {grey} \in SUBSET Levels
  BY <1>2
<1>9. Pixels(counts, Seen(high, i - 1) \union {grey}) = Pixels(counts, Seen(high, i - 1)) + Pixels(counts, {grey})
  BY <1>4, <1>5, <1>8, PixelsAre
<1>10. Pixels(counts, Seen(high, i)) = Pixels(counts, Seen(high, i - 1)) + counts[grey]
  BY <1>4, <1>7, <1>9
<1> QED
  BY <1>1, <1>2, <1>3, <1>5, <1>6, <1>7, <1>10 DEF grey

(* Nothing is found while no more than the cut has been passed; what is    *)
(* found is the first grey with more.                                      *)
PassHolds(state, counts, cut, high, i) ==
    /\ state = [left |-> state.left, found |-> state.found]
    /\ \/ /\ state.found = NoGrey /\ state.left \in Nat
          /\ state.left = cut - Pixels(counts, Seen(high, i))
       \/ \E j \in 1 .. MaxLevel + 1 :
            /\ state.found = InTurn(high, j)
            /\ Pixels(counts, Seen(high, j)) > cut /\ Pixels(counts, Seen(high, j - 1)) <= cut

LEMMA PassKeeps ==
    ASSUME NEW counts \in Histograms, NEW cut \in Nat, NEW high \in BOOLEAN, NEW i \in 1 .. MaxLevel + 1,
           NEW state, PassHolds(state, counts, cut, high, i - 1)
    PROVE  PassHolds(Pass(state, counts, InTurn(high, i)), counts, cut, high, i)
<1> DEFINE grey == InTurn(high, i)
           new == Pass(state, counts, grey)
           before == Pixels(counts, Seen(high, i - 1))
           now == Pixels(counts, Seen(high, i))
           left == state.left
<1>1. /\ grey \in Levels /\ counts[grey] \in Nat /\ before \in Nat /\ now = before + counts[grey]
  BY SeenGrows
<1>2. new = IF state.found # NoGrey THEN state
            ELSE IF counts[grey] > left THEN [state EXCEPT !.found = grey]
            ELSE [state EXCEPT !.left = left - counts[grey]]
  BY DEF Pass
<1>3. state = [left |-> left, found |-> state.found]
  BY DEF PassHolds
<1>4. \/ state.found = NoGrey /\ left \in Nat /\ left = cut - before
      \/ \E j \in 1 .. MaxLevel + 1 :
            /\ state.found = InTurn(high, j)
            /\ Pixels(counts, Seen(high, j)) > cut /\ Pixels(counts, Seen(high, j - 1)) <= cut
  BY DEF PassHolds
<1>5. \A j \in 1 .. MaxLevel + 1 : InTurn(high, j) # NoGrey
  <2> TAKE j \in 1 .. MaxLevel + 1
  <2>1. InTurn(high, j) \in Levels
    BY SeenGrows
  <2> QED
    BY <2>1, LevelsAre DEF NoGrey
<1> HIDE DEF grey, new
<1>6. CASE state.found # NoGrey
  <2>1. new = state
    BY <1>2, <1>6
  <2> QED
    BY <1>3, <1>4, <1>6, <2>1 DEF PassHolds, new, grey
<1>7. CASE state.found = NoGrey
  <2>1. left \in Nat /\ left = cut - before
    BY <1>4, <1>5, <1>7
  <2> HIDE DEF before, now, left
  <2>2. CASE counts[grey] > left
    <3>1. new = [left |-> left, found |-> grey]
      BY <1>2, <1>3, <1>7, <2>2
    <3>2. now > cut /\ before <= cut
      BY <1>1, <2>1, <2>2
    <3>3. new.found = grey /\ new = [left |-> new.left, found |-> new.found]
      BY <3>1
    <3> QED
      BY <3>2, <3>3 DEF PassHolds, new, grey, now, before
  <2>3. CASE ~(counts[grey] > left)
    <3>1. new = [left |-> left - counts[grey], found |-> NoGrey]
      BY <1>2, <1>3, <1>7, <2>3
    <3>2. left - counts[grey] \in Nat /\ left - counts[grey] = cut - now
      BY <1>1, <2>1, <2>3
    <3>3. /\ new.found = NoGrey /\ new.left \in Nat /\ new.left = cut - now
          /\ new = [left |-> new.left, found |-> new.found]
      BY <3>1, <3>2
    <3> QED
      BY <3>3 DEF PassHolds, new, grey, now
  <2> QED
    BY <2>2, <2>3
<1> QED
  BY <1>6, <1>7

LEMMA QuantileTrue ==
    ASSUME NEW counts \in Histograms, NEW cut \in Nat, NEW high \in BOOLEAN
    PROVE  Quantile(counts, cut, high) =
              IF Enough(counts, cut, high) = {} THEN NoGrey
              ELSE IF high THEN Max(Enough(counts, cut, high)) ELSE Min(Enough(counts, cut, high))
<1> DEFINE n == MaxLevel + 1
           enough == Enough(counts, cut, high)
<1>0. n \in Nat /\ n = MaxLevel + 1 /\ MaxLevel \in Nat /\ Levels = 0 .. MaxLevel
  BY PrepAssumption DEF Levels
<1>1. PICK g : /\ g[0] = [left |-> cut, found |-> NoGrey]
               /\ \A i \in 1 .. n : g[i] = Pass(g[i - 1], counts, InTurn(high, i))
               /\ Quantile(counts, cut, high) = g[n].found
  BY QuantileIs DEF InTurn
<1> DEFINE S == {i \in 0 .. n : PassHolds(g[i], counts, cut, high, i)}
<1>2. 0 \in S
  <2>1. Seen(high, 0) = {}
    <3>1. CASE high
      BY <1>0, <3>1 DEF Seen
    <3>2. CASE ~high
      BY <1>0, <3>2 DEF Seen
    <3> QED
      BY <3>1, <3>2
  <2>2. Pixels(counts, Seen(high, 0)) = 0
    BY <2>1, PixelsAre
  <2>3. PassHolds(g[0], counts, cut, high, 0)
    BY <1>1, <2>2 DEF PassHolds
  <2> QED
    BY <1>0, <2>3
<1>3. \A i \in 1 .. n : i - 1 \in S => i \in S
  <2> TAKE i \in 1 .. n
  <2> HAVE i - 1 \in S
  <2>1. PassHolds(g[i - 1], counts, cut, high, i - 1)
    OBVIOUS
  <2>2. PassHolds(Pass(g[i - 1], counts, InTurn(high, i)), counts, cut, high, i)
    BY <2>1, PassKeeps
  <2> QED
    BY <1>0, <1>1, <2>2
<1> HIDE DEF n
<1>4. \A i \in 0 .. n : i \in S
  <2> HIDE DEF S
  <2> QED
    BY <1>0, <1>2, <1>3, Steps
<1>5. PassHolds(g[n], counts, cut, high, n)
  BY <1>0, <1>4
<1> HIDE DEF S
(* Every grey has its turn, and the later, the more has been seen.         *)
<1> DEFINE TurnOf(grey) == IF high THEN MaxLevel + 1 - grey ELSE grey + 1
<1>6. \A grey \in Levels : /\ TurnOf(grey) \in 1 .. n /\ InTurn(high, TurnOf(grey)) = grey
                           /\ Pixels(counts, FromEnd(high, grey)) = Pixels(counts, Seen(high, TurnOf(grey)))
  <2> TAKE grey \in Levels
  <2>1. TurnOf(grey) \in 1 .. n /\ InTurn(high, TurnOf(grey)) = grey
    BY <1>0 DEF InTurn
  <2> HIDE DEF TurnOf
  <2>2. Seen(high, TurnOf(grey)) = FromEnd(high, grey)
    BY <1>0, <2>1, SeenGrows
  <2> QED
    BY <2>1, <2>2
<1>7. ASSUME NEW i \in 0 .. n, NEW j \in 0 .. n, i <= j
      PROVE  /\ Pixels(counts, Seen(high, i)) \in Nat /\ Pixels(counts, Seen(high, j)) \in Nat
             /\ Pixels(counts, Seen(high, i)) <= Pixels(counts, Seen(high, j))
  <2>1. Seen(high, i) \subseteq Seen(high, j)
    <3>1. CASE high
      BY <1>0, <1>7, <3>1 DEF Seen
    <3>2. CASE ~high
      BY <1>0, <1>7, <3>2 DEF Seen
    <3> QED
      BY <3>1, <3>2
  <2>2. Seen(high, i) \in SUBSET Levels /\ Seen(high, j) \in SUBSET Levels
    BY DEF Seen
  <2> QED
    BY <2>1, <2>2, PixelsGrow
<1>8. enough \in SUBSET Levels /\ \A grey \in Levels : grey \in enough <=> Pixels(counts, FromEnd(high, grey)) > cut
  BY DEF Enough
<1>9. CASE g[n].found = NoGrey
  <2> DEFINE all == Pixels(counts, Seen(high, n))
  <2>1. all <= cut
    <3>1. all \in Nat
      BY <1>0, <1>7
    <3>2. ~ \E j \in 1 .. n : g[n].found = InTurn(high, j)
      <4> SUFFICES ASSUME NEW j \in 1 .. n, g[n].found = InTurn(high, j) PROVE FALSE
        OBVIOUS
      <4>1. InTurn(high, j) \in Levels
        BY <1>0, SeenGrows
      <4> QED
        BY <1>0, <1>9, <4>1 DEF NoGrey
    <3> DEFINE left == g[n].left
    <3>3. left \in Nat /\ left = cut - all
      BY <1>0, <1>5, <3>2 DEF PassHolds
    <3> HIDE DEF all, left
    <3> QED
      BY <3>1, <3>3
  <2>2. \A grey \in Levels : grey \notin enough
    <3> TAKE grey \in Levels
    <3> DEFINE p == Pixels(counts, Seen(high, TurnOf(grey)))
    <3>1. TurnOf(grey) \in 0 .. n /\ n \in 0 .. n /\ TurnOf(grey) <= n
      BY <1>0, <1>6
    <3>2. p \in Nat /\ all \in Nat /\ p <= all
      <4> HIDE DEF TurnOf
      <4> QED
        BY <1>7, <3>1
    <3>3. Pixels(counts, FromEnd(high, grey)) = p
      BY <1>6
    <3> HIDE DEF all, p
    <3>4. ~(p > cut)
      BY <2>1, <3>2
    <3> QED
      BY <1>8, <3>3, <3>4
  <2>3. enough = {}
    BY <1>8, <2>2
  <2> QED
    BY <1>1, <1>9, <2>3
<1>10. CASE g[n].found # NoGrey
  <2>1. PICK j \in 1 .. n : /\ g[n].found = InTurn(high, j)
                            /\ Pixels(counts, Seen(high, j)) > cut /\ Pixels(counts, Seen(high, j - 1)) <= cut
    BY <1>0, <1>5, <1>10 DEF PassHolds
  <2> DEFINE found == InTurn(high, j)
  <2>2. found \in Levels /\ TurnOf(found) = j
    BY <1>0 DEF InTurn
  <2>3. found \in enough
    <3> HIDE DEF found, TurnOf
    <3>1. Pixels(counts, FromEnd(high, found)) = Pixels(counts, Seen(high, j))
      BY <1>6, <2>2
    <3> QED
      BY <1>8, <2>1, <2>2, <3>1
  <2>4. ASSUME NEW grey \in enough PROVE TurnOf(grey) >= j
    <3> DEFINE k == TurnOf(grey)
               p == Pixels(counts, Seen(high, k))
               q == Pixels(counts, Seen(high, j - 1))
    <3>1. grey \in Levels /\ k \in 1 .. n
      BY <1>6, <1>8
    <3>2. Pixels(counts, FromEnd(high, grey)) = p /\ Pixels(counts, FromEnd(high, grey)) > cut
      BY <1>6, <1>8, <3>1
    <3> HIDE DEF k
    <3> SUFFICES ASSUME ~(k >= j) PROVE FALSE
      BY DEF k
    <3>3. k \in 0 .. n /\ j - 1 \in 0 .. n /\ k <= j - 1
      BY <1>0, <3>1
    <3>4. p \in Nat /\ q \in Nat /\ p <= q
      BY <1>7, <3>3
    <3>5. q <= cut /\ p > cut
      BY <2>1, <3>2
    <3> HIDE DEF p, q
    <3> QED
      BY <3>4, <3>5
  <2>5. enough \in SUBSET Int
    BY <1>0, <1>8
  <2>6. CASE high
    <3>1. \A grey \in enough : grey <= found
      <4> TAKE grey \in enough
      <4>1. grey \in Levels /\ TurnOf(grey) >= j
        BY <1>8, <2>4
      <4> QED
        BY <1>0, <2>6, <4>1 DEF InTurn
    <3> HIDE DEF enough, found
    <3>2. Max(enough) = found
      BY <2>3, <2>5, <3>1, MostIs
    <3> QED
      BY <1>1, <2>1, <2>3, <2>6, <3>2 DEF enough, found
  <2>7. CASE ~high
    <3>1. \A grey \in enough : found <= grey
      <4> TAKE grey \in enough
      <4>1. grey \in Levels /\ TurnOf(grey) >= j
        BY <1>8, <2>4
      <4> QED
        BY <1>0, <2>7, <4>1 DEF InTurn
    <3> HIDE DEF enough, found
    <3>2. Min(enough) = found
      BY <2>3, <2>5, <3>1, FewestIs
    <3> QED
      BY <1>1, <2>1, <2>3, <2>7, <3>2 DEF enough, found
  <2> QED
    BY <2>6, <2>7
<1> QED
  BY <1>9, <1>10

-----------------------------------------------------------------------------
(* What is asked for, and the answer.                                      *)
PrepGiven ==
    \/ \E n \in 1 .. MaxColumns : \E row \in [1 .. n -> Levels], half \in 0 .. MaxHalf, maximum \in BOOLEAN :
         prInput = [what |-> "row", row |-> row, half |-> half, maximum |-> maximum]
    \/ \E image \in Images, size \in KernelSizes :
         prInput = [what |-> "close", image |-> image, size |-> size]
    \/ \E counts \in [Levels -> 0 .. MaxCount] : prInput = [what |-> "otsu", counts |-> counts]
    \/ \E counts \in [Levels -> 0 .. MaxCount], cut \in 0 .. MaxCount, high \in BOOLEAN :
         prInput = [what |-> "quantile", counts |-> counts, cut |-> cut, high |-> high]

PrepInv == PrepGiven /\ PrepExact

LEMMA PrepStarts == PrepInit => PrepInv
<1> SUFFICES ASSUME PrepInit PROVE PrepInv
  OBVIOUS
<1>1. PrepGiven
  BY DEF PrepInit, PrepGiven
<1>2. prResult = <<>>
  BY DEF PrepInit
<1>3. PrepExact
  BY <1>2 DEF PrepExact
<1> QED
  BY <1>1, <1>3 DEF PrepInv

(* Each kind of question, answered.                                        *)
LEMMA RowAnswered ==
    ASSUME NEW n \in 1 .. MaxColumns, NEW row \in [1 .. n -> Levels], NEW half \in 0 .. MaxHalf, NEW maximum \in BOOLEAN,
           NEW in, in.what = "row", in.row = row, in.half = half, in.maximum = maximum
    PROVE  Exact(in, RowExtremes(row, half, maximum))
<1>1. row \in Seq(Int) /\ half \in Nat /\ DOMAIN row = 1 .. Len(row) /\ \A x \in DOMAIN row : x \in Int
  <2>1. Levels \subseteq Int /\ n \in Nat
    BY LevelsAre, PrepAssumption
  <2>2. row \in [1 .. n -> Int]
    BY <2>1
  <2>3. row \in Seq(Int)
    BY <2>1, <2>2
  <2>4. DOMAIN row = 1 .. Len(row)
    BY <2>3
  <2> QED
    BY <2>3, <2>4
<1> DEFINE out == RowExtremes(row, half, maximum)
<1>2. \A x \in DOMAIN row : Best(row, out[x], x - half, x + half, maximum)
  BY <1>1, RowIs
<1>3. \A x \in DOMAIN row : out[x] = WindowExtreme(row, x, half, maximum)
  <2> HIDE DEF out
  <2> TAKE x \in DOMAIN row
  <2>1. Best(row, out[x], x - half, x + half, maximum) /\ x \in Int /\ half \in Int
    BY <1>1, <1>2
  <2> QED
    BY <1>1, <2>1, ExtremeIs
<1>4. RowExact(row, half, maximum, out)
  BY <1>3 DEF RowExact
<1> QED
  BY <1>4 DEF Exact

LEMMA CloseAnswered ==
    ASSUME NEW image \in Images, NEW size \in KernelSizes,
           NEW in, in.what = "close", in.image = image, in.size = size
    PROVE  Exact(in, Close(image, size))
<1> DEFINE out == Close(image, size)
<1>1. size \in Nat
  BY PrepAssumption
<1>2. /\ \A y, x \in Sides : out[y][x] >= image[y][x]
      /\ Close(out, size) = out
  BY <1>1, CloseTrue
<1>3. DOMAIN image = Sides
  BY DEF Images, Sides
<1>4. CloseExact(image, size, out)
  BY <1>2, <1>3 DEF CloseExact
<1> QED
  BY <1>4 DEF Exact

LEMMA CountsAre == ASSUME NEW counts \in [Levels -> 0 .. MaxCount] PROVE counts \in Histograms
BY PrepAssumption DEF Histograms

LEMMA OtsuAnswered ==
    ASSUME NEW counts \in [Levels -> 0 .. MaxCount],
           NEW in, in.what = "otsu", in.counts = counts
    PROVE  Exact(in, Otsu(counts))
<1> DEFINE out == Otsu(counts)
<1>1. IF Splits(counts) = {} THEN out = (IF Pixels(counts, Levels) = 0 THEN MaxLevel \div 2 ELSE 0)
      ELSE /\ out \in Splits(counts)
           /\ \A grey \in Splits(counts) :
                /\ ~SeparatesBetter(Spread(counts, grey), Spread(counts, out))
                /\ grey < out => SeparatesBetter(Spread(counts, out), Spread(counts, grey))
  BY CountsAre, OtsuTrue
<1>2. OtsuExact(counts, out)
  BY <1>1 DEF OtsuExact
<1> QED
  BY <1>2 DEF Exact

LEMMA QuantileAnswered ==
    ASSUME NEW counts \in [Levels -> 0 .. MaxCount], NEW cut \in 0 .. MaxCount, NEW high \in BOOLEAN,
           NEW in, in.what = "quantile", in.counts = counts, in.cut = cut, in.high = high
    PROVE  Exact(in, Quantile(counts, cut, high))
<1> DEFINE out == Quantile(counts, cut, high)
           enough == Enough(counts, cut, high)
<1>1. cut \in Nat
  BY PrepAssumption
<1>2. out = IF enough = {} THEN NoGrey ELSE IF high THEN Max(enough) ELSE Min(enough)
  BY <1>1, CountsAre, QuantileTrue
<1>3. QuantileExact(counts, cut, high, out)
  BY <1>2 DEF Enough, QuantileExact
<1> QED
  BY <1>3 DEF Exact

LEMMA PrepSteps == PrepInv /\ [Prepare]_prVars => PrepInv'
<1> SUFFICES ASSUME PrepInv, [Prepare]_prVars PROVE PrepInv'
  OBVIOUS
<1>1. CASE UNCHANGED prVars
  BY <1>1 DEF prVars, PrepInv, PrepGiven, PrepExact
<1>2. CASE Prepare
  <2>1. prInput' = prInput /\ PrepGiven'
    BY <1>2 DEF Prepare, PrepInv, PrepGiven
  <2>2. CASE \E n \in 1 .. MaxColumns : \E row \in [1 .. n -> Levels], half \in 0 .. MaxHalf, maximum \in BOOLEAN :
               prInput = [what |-> "row", row |-> row, half |-> half, maximum |-> maximum]
    <3>0. PICK n \in 1 .. MaxColumns :
               \E row \in [1 .. n -> Levels], half \in 0 .. MaxHalf, maximum \in BOOLEAN :
                  prInput = [what |-> "row", row |-> row, half |-> half, maximum |-> maximum]
      BY <2>2
    <3>1. PICK row \in [1 .. n -> Levels], half \in 0 .. MaxHalf, maximum \in BOOLEAN :
               prInput = [what |-> "row", row |-> row, half |-> half, maximum |-> maximum]
      BY <3>0
    <3>2. prResult' = <<RowExtremes(row, half, maximum)>>
      BY <1>2, <3>1 DEF Prepare
    <3>3. Exact(prInput, RowExtremes(row, half, maximum))
      BY <3>1, RowAnswered
    <3> QED
      BY <2>1, <3>2, <3>3 DEF PrepInv, PrepExact
  <2>3. CASE \E image \in Images, size \in KernelSizes :
               prInput = [what |-> "close", image |-> image, size |-> size]
    <3>1. PICK image \in Images, size \in KernelSizes :
               prInput = [what |-> "close", image |-> image, size |-> size]
      BY <2>3
    <3>2. prResult' = <<Close(image, size)>>
      BY <1>2, <3>1 DEF Prepare
    <3>3. Exact(prInput, Close(image, size))
      BY <3>1, CloseAnswered
    <3> QED
      BY <2>1, <3>2, <3>3 DEF PrepInv, PrepExact
  <2>4. CASE \E counts \in [Levels -> 0 .. MaxCount] : prInput = [what |-> "otsu", counts |-> counts]
    <3>1. PICK counts \in [Levels -> 0 .. MaxCount] : prInput = [what |-> "otsu", counts |-> counts]
      BY <2>4
    <3>2. prResult' = <<Otsu(counts)>>
      BY <1>2, <3>1 DEF Prepare
    <3>3. Exact(prInput, Otsu(counts))
      BY <3>1, OtsuAnswered
    <3> QED
      BY <2>1, <3>2, <3>3 DEF PrepInv, PrepExact
  <2>5. CASE \E counts \in [Levels -> 0 .. MaxCount], cut \in 0 .. MaxCount, high \in BOOLEAN :
               prInput = [what |-> "quantile", counts |-> counts, cut |-> cut, high |-> high]
    <3>1. PICK counts \in [Levels -> 0 .. MaxCount], cut \in 0 .. MaxCount, high \in BOOLEAN :
               prInput = [what |-> "quantile", counts |-> counts, cut |-> cut, high |-> high]
      BY <2>5
    <3>2. prResult' = <<Quantile(counts, cut, high)>>
      BY <1>2, <3>1 DEF Prepare
    <3>3. Exact(prInput, Quantile(counts, cut, high))
      BY <3>1, QuantileAnswered
    <3> QED
      BY <2>1, <3>2, <3>3 DEF PrepInv, PrepExact
  <2> QED
    BY <2>2, <2>3, <2>4, <2>5 DEF PrepInv, PrepGiven
<1> QED
  BY <1>1, <1>2

(* The queue leaves the extreme of every window, a closing darkens nothing *)
(* and changes nothing when repeated, the threshold is the first of the    *)
(* best and a quantile the first grey past the cut: for every row, window, *)
(* picture, histogram and cut (prep.rs).                                   *)
THEOREM PrepTrue == PrepSpec => []PrepExact
<1>1. PrepInv => PrepExact
  BY DEF PrepInv
<1> QED
  BY <1>1, PrepStarts, PrepSteps, PTL DEF PrepSpec
===============================================================================
