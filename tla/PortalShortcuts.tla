-------------------------- MODULE PortalShortcuts --------------------------
(* The application's global shortcuts (vellum-ui/src/portal_shortcuts.rs):  *)
(* the service that asks the desktop portal for a session and for bindings, *)
(* and the portal it talks to.  Calls reach the portal at once; what the    *)
(* portal and the bus send back waits in ptOut, in order, until the main    *)
(* loop dispatches it, so the service may change its mind in between.  A    *)
(* session is named by the token of the CreateSession call (the code passes *)
(* one token for both handles).                                             *)
EXTENDS Naturals, Sequences, FiniteSets

CONSTANTS ShortcutIds,    \* SPECS: the actions that can be bound
          MaxTokens,      \* bound: requests the service ever makes
          MaxSignals      \* bound: messages waiting in the main loop

ASSUME ShortcutsAssumption ==
         /\ ShortcutIds # {}
         /\ MaxTokens \in Nat \ {0} /\ MaxSignals \in Nat \ {0}

VARIABLES
    scPhase,       \* what GetStatus reports
    scEnabled,     \* the stored preference (shortcuts.json and its cell)
    scSession,     \* the session handle, 0 for none
    scPending,     \* requests waiting for their Response: [token, kind, moved]
    scBindings,    \* the actions the portal says are bound
    scGate,        \* keys held down: pressed and not yet released
    scSequence,    \* the last token
    ptUp,          \* the portal owns its bus name
    ptLive,        \* the portal's sessions
    ptBound,       \* the sessions for which the portal grabs keys
    ptAsked,       \* requests at the portal: [token, kind, session, moved, stage]
    ptOut          \* replies and signals not yet dispatched

service == <<scPhase, scEnabled, scSession, scPending, scBindings, scGate, scSequence>>
portal  == <<ptUp, ptLive, ptBound, ptAsked>>
scVars  == <<service, portal, ptOut>>

NoSession == 0
Signal(type, token, code, ids) == [type |-> type, token |-> token, code |-> code, ids |-> ids]
Send(m) == Len(ptOut) < MaxSignals /\ ptOut' = Append(ptOut, m)

(* Where a request's Response is signalled: an old portal answers the call  *)
(* with a path of its own (moved), which the reply tells the service.       *)
Awaits(p, r) == p.token = r.token /\ p.moved = r.moved

---------------------------------------------------------------------------
(* What the handlers are made of. *)

(* request: a pending entry under the expected path, and the call. *)
Request(kind, session, rest) ==
  /\ scSequence < MaxTokens
  /\ scSequence' = scSequence + 1
  /\ scPending' = {[token |-> scSequence + 1, kind |-> kind, moved |-> FALSE]}
  /\ \E moved \in BOOLEAN :
       ptAsked' = rest \cup {[token |-> scSequence + 1, kind |-> kind, session |-> session,
                              moved |-> moved, stage |-> "sent"]}

(* close_session: forget the grants, and tell the portal of the session.    *)
CloseSession ==
  /\ scGate' = {} /\ scBindings' = {} /\ scSession' = NoSession
  /\ ptLive' = ptLive \ {scSession}
  /\ ptBound' = ptBound \ {scSession}

(* The session is gone already, or the portal is: nobody to tell. *)
ForgetSession == scGate' = {} /\ scBindings' = {} /\ scSession' = NoSession

(* Mutation: a request that is out is left to be answered.                  *)
CancelPendingNot == UNCHANGED <<scPending, ptAsked>>

(* cancel_pending: close every pending request.  The portal only knows the  *)
(* paths it gave out itself.                                                *)
CancelPending ==
  /\ scPending' = {}
  /\ ptAsked' = {r \in ptAsked : \A p \in scPending : ~Awaits(p, r)}

(* initialize, when nothing is pending and no session is open: register,    *)
(* read the version (either may fail), ask for a session.                   *)
Connect ==
  \/ /\ scPhase' = "unavailable" /\ scPending' = {}
     /\ UNCHANGED <<scSequence, ptAsked>>
  \/ /\ ptUp
     /\ scPhase' = "connecting"
     /\ Request("Create", NoSession, ptAsked)

(* bind: ask for every action on the open session. *)
Bind == /\ scPhase' = "authorizing"
        /\ Request("Bind", scSession, ptAsked)

(* apply_bindings: the portal's answer replaces what was known. *)
ApplyBindings(ids) ==
  /\ scBindings' = ids /\ scGate' = {}
  /\ scPhase' = IF ids = ShortcutIds THEN "active" ELSE IF ids # {} THEN "partial" ELSE "unavailable"

---------------------------------------------------------------------------
(* Methods on the bus, the timer and the life of the service. *)

(* enable: an empty grant leaves a session but nothing usable, so a retry   *)
(* closes it; a pending request is left to end.                             *)
Enable ==
  /\ scEnabled' = TRUE
  /\ IF scPending = {} /\ scBindings = {}
     THEN CloseSession /\ Connect
     ELSE UNCHANGED <<scPhase, scSession, scPending, scBindings, scGate, scSequence, ptLive, ptBound, ptAsked>>
  /\ UNCHANGED <<ptUp, ptOut>>

StandDown(phase) == CancelPending /\ CloseSession /\ scPhase' = phase

Disable ==
  /\ scEnabled' = FALSE
  /\ StandDown("disabled")
  /\ UNCHANGED <<scSequence, ptUp, ptOut>>

(* 180 s without a Response: disable, whose write of the preference may     *)
(* fail; then everything stays open and only the phase says "timeout".      *)
AuthorizationTimesOut ==
  /\ scPending # {}
  /\ \/ scEnabled' = FALSE /\ StandDown("timeout")
     \/ /\ scPhase' = "timeout"
        /\ UNCHANGED <<scEnabled, scSession, scPending, scBindings, scGate, ptLive, ptBound, ptAsked>>
  /\ UNCHANGED <<scSequence, ptUp, ptOut>>

(* The 5 s of the call itself: the portal may still take it. *)
CallTimesOut(r) ==
  /\ r.stage = "sent"
  /\ ptAsked' = (ptAsked \ {r}) \cup {[r EXCEPT !.stage = "late"]}
  /\ IF \E p \in scPending : p.token = r.token
     THEN /\ scPending' = {p \in scPending : p.token # r.token}
          /\ scPhase' = "unavailable"
          /\ CloseSession
     ELSE UNCHANGED <<scPending, scPhase, scSession, scBindings, scGate, ptLive, ptBound>>
  /\ UNCHANGED <<scEnabled, scSequence, ptUp, ptOut>>

(* The service ends (superseded, crash, log-out) and a later request starts *)
(* it again: the portal drops a vanished client's sessions, run_service     *)
(* reads the preference.                                                    *)
ServiceRestarts ==
  /\ ForgetSession
  /\ ptLive' = {} /\ ptBound' = {} /\ ptOut' = <<>>
  /\ \/ ~scEnabled /\ scPhase' = "disabled" /\ scPending' = {} /\ ptAsked' = {} /\ UNCHANGED scSequence
     \/ scEnabled /\ scPhase' = "unavailable" /\ scPending' = {} /\ ptAsked' = {} /\ UNCHANGED scSequence
     \/ scEnabled /\ ptUp /\ scPhase' = "connecting" /\ Request("Create", NoSession, {})
  /\ UNCHANGED <<scEnabled, ptUp>>

---------------------------------------------------------------------------
(* Replies and signals, one per turn of the main loop. *)

Next1 == Head(ptOut)
Took(type) == ptOut # <<>> /\ Next1.type = type /\ ptOut' = Tail(ptOut)

(* The call's reply: an error ends the attempt, a moved path is followed;   *)
(* neither counts for a request that was answered or cancelled meanwhile.   *)
OnReply ==
  /\ Took("reply")
  /\ LET mine == {p \in scPending : p.token = Next1.token /\ ~p.moved}
     IN IF Next1.code = 0 \/ mine = {}
        THEN /\ scPending' = (scPending \ mine) \cup {[p EXCEPT !.moved = "moved" \in Next1.ids] : p \in mine}
             /\ UNCHANGED <<scPhase, scSession, scBindings, scGate, ptLive, ptBound>>
        ELSE scPending' = scPending \ mine /\ scPhase' = "unavailable" /\ CloseSession
  /\ UNCHANGED <<scEnabled, scSequence, ptUp, ptAsked>>

Answered == {p \in scPending : p.token = Next1.token /\ p.moved = ("moved" \in Next1.ids)}
Granted  == Next1.ids \ {"moved"}

(* response, of a request that is not pending (any more): ignored. *)
OnStaleResponse ==
  /\ Took("response")
  /\ Answered = {}
  /\ UNCHANGED <<service, portal>>

(* response, refused: the session is given up, and on 1 (the user said no)  *)
(* the preference too, if it can be stored.  A failed List is no refusal.   *)
OnRefused ==
  /\ Took("response")
  /\ \E p \in Answered :
       /\ Next1.code # 0 /\ ~(p.kind = "List" /\ Next1.code # 1)
       /\ scPending' = scPending \ {p}
       /\ CloseSession
       /\ IF Next1.code = 1 THEN scEnabled' \in {FALSE, scEnabled} /\ scPhase' = "denied"
                            ELSE scPhase' = "unavailable" /\ UNCHANGED scEnabled
  /\ UNCHANGED <<scSequence, ptUp, ptAsked>>

OnListed ==
  /\ Took("response")
  /\ \E p \in Answered : p.kind = "List" /\ Next1.code # 1
  /\ scSession # NoSession /\ Bind
  /\ UNCHANGED <<scEnabled, scSession, scBindings, scGate, ptUp, ptLive, ptBound>>

OnCreated ==
  /\ Took("response")
  /\ \E p \in Answered : p.kind = "Create" /\ Next1.code = 0
  /\ scSession' = Next1.token
  /\ Request("List", Next1.token, ptAsked)
  /\ UNCHANGED <<scPhase, scEnabled, scBindings, scGate, ptUp, ptLive, ptBound>>

(* An answer that cannot be used: no number for a code, or a session that   *)
(* was not named, or not by a path.  The request is over all the same.      *)
OnUnusable ==
  /\ Took("response")
  /\ \E p \in Answered :
       /\ scPending' = scPending \ {p}
       /\ \/ UNCHANGED scPhase
          \/ p.kind = "Create" /\ Next1.code = 0 /\ scPhase' = "error"
  /\ UNCHANGED <<scEnabled, scSession, scBindings, scGate, scSequence, portal>>

OnBound ==
  /\ Took("response")
  /\ \E p \in Answered :
       /\ p.kind = "Bind" /\ Next1.code = 0
       /\ scPending' = scPending \ {p}
       /\ ApplyBindings(Granted)
  /\ UNCHANGED <<scEnabled, scSession, scSequence, portal>>

(* ShortcutsChanged of the current session. *)
OnChanged ==
  /\ Took("changed")
  /\ IF scSession = Next1.token THEN ApplyBindings(Granted)
                                ELSE UNCHANGED <<scBindings, scGate, scPhase>>
  /\ UNCHANGED <<scEnabled, scSession, scPending, scSequence, portal>>

(* Session.Closed of the current session: an outstanding Bind belongs to a  *)
(* dead session and is cancelled with it.                                   *)
OnClosed ==
  /\ Took("closed")
  /\ IF scSession = Next1.token /\ scSession # NoSession
     THEN CancelPending /\ ForgetSession /\ scPhase' = "closed"
     ELSE UNCHANGED <<scPhase, scSession, scPending, scBindings, scGate, ptAsked>>
  /\ UNCHANGED <<scEnabled, scSequence, ptUp, ptLive, ptBound>>

(* NameOwnerChanged, of a portal that left (0), came (1) or took the name   *)
(* from another (2).  Its own start, caused by our call, is no news while a *)
(* request or a session is there; otherwise everything known of the old     *)
(* portal is dropped and, with a new one and a preference, asked again.     *)
OnOwner ==
  /\ Took("owner")
  /\ IF Next1.code = 1 /\ (scPending # {} \/ scSession # NoSession)
     THEN UNCHANGED <<service, ptAsked>>
     ELSE /\ ForgetSession
          /\ IF Next1.code # 0 /\ scEnabled
             THEN Connect
             ELSE /\ scPending' = {}
                  /\ scPhase' = IF scEnabled THEN "reconnecting" ELSE scPhase
                  /\ UNCHANGED <<scSequence, ptAsked>>
          /\ UNCHANGED scEnabled
  /\ UNCHANGED <<ptUp, ptLive, ptBound>>

(* activated: a bound key of the current session runs its action once per   *)
(* press; a release opens the gate again.                                   *)
OnKey ==
  /\ Took("key")
  /\ LET ids == Next1.ids
     IN scGate' = IF scSession # Next1.token THEN scGate
                  ELSE IF Next1.code = 0 THEN scGate \ ids
                  ELSE scGate \cup (ids \cap scBindings)
  /\ UNCHANGED <<scPhase, scEnabled, scSession, scPending, scBindings, scSequence, portal>>

---------------------------------------------------------------------------
(* The portal and the bus, as far as the service can see them. *)

Tag(r, ids) == IF r.moved THEN ids \cup {"moved"} ELSE ids

PortalTakesCall(r) ==
  /\ r.stage \in {"sent", "late"}
  /\ \/ /\ ptAsked' = (ptAsked \ {r}) \cup {[r EXCEPT !.stage = "open"]}
        /\ IF r.stage = "sent" THEN Send(Signal("reply", r.token, 0, Tag(r, {}))) ELSE UNCHANGED ptOut
     \/ /\ ptAsked' = ptAsked \ {r}
        /\ IF r.stage = "sent" THEN Send(Signal("reply", r.token, 2, {})) ELSE UNCHANGED ptOut
  /\ UNCHANGED <<service, ptUp, ptLive, ptBound>>

(* The user, or a backend, answers.  A grant may cover only some actions;   *)
(* one for a session that was closed meanwhile grabs nothing.               *)
PortalAnswers(r) ==
  /\ r.stage = "open"
  /\ ptAsked' = ptAsked \ {r}
  /\ \/ /\ \E code \in {1, 2} : Send(Signal("response", r.token, code, Tag(r, {})))
        /\ UNCHANGED <<ptLive, ptBound>>
     \/ /\ r.kind = "Create" /\ ptLive' = ptLive \cup {r.token}
        /\ Send(Signal("response", r.token, 0, Tag(r, {})))
        /\ UNCHANGED ptBound
     \/ /\ r.kind = "List" /\ Send(Signal("response", r.token, 0, Tag(r, {})))
        /\ UNCHANGED <<ptLive, ptBound>>
     \/ /\ r.kind = "Bind"
        /\ \E ids \in SUBSET ShortcutIds :
             /\ Send(Signal("response", r.token, 0, Tag(r, ids)))
             /\ ptBound' = IF ids # {} THEN ptBound \cup ({r.session} \cap ptLive) ELSE ptBound
        /\ UNCHANGED ptLive
  /\ UNCHANGED <<service, ptUp>>

(* The user edits the bindings in the system settings, or ConfigureShortcuts *)
(* opened them.                                                             *)
UserRebinds(s) ==
  /\ \E ids \in SUBSET ShortcutIds :
       /\ Send(Signal("changed", s, 0, ids))
       /\ ptBound' = IF ids = {} THEN ptBound \ {s} ELSE ptBound \cup {s}
  /\ UNCHANGED <<service, ptUp, ptLive, ptAsked>>

PortalClosesSession(s) ==
  /\ ptLive' = ptLive \ {s} /\ ptBound' = ptBound \ {s}
  /\ Send(Signal("closed", s, 0, {}))
  /\ UNCHANGED <<service, ptUp, ptAsked>>

UserPressesKey(s, id) ==
  /\ \E code \in {0, 1} : Send(Signal("key", s, code, {id}))
  /\ UNCHANGED <<service, portal>>

(* It ends, or another takes its name; what it knew goes with it. *)
PortalStops ==
  /\ ptUp
  /\ ptLive' = {} /\ ptBound' = {} /\ ptAsked' = {}
  /\ \/ ptUp' = FALSE /\ Send(Signal("owner", 0, 0, {}))
     \/ UNCHANGED ptUp /\ Send(Signal("owner", 0, 2, {}))
  /\ UNCHANGED service

PortalStarts ==
  /\ ~ptUp
  /\ ptUp' = TRUE
  /\ Send(Signal("owner", 0, 1, {}))
  /\ UNCHANGED <<service, ptLive, ptBound, ptAsked>>

---------------------------------------------------------------------------
ShortcutsInit ==
  /\ scPhase = "disabled" /\ scEnabled = FALSE /\ scSession = NoSession /\ scPending = {}
  /\ scBindings = {} /\ scGate = {} /\ scSequence = 0
  /\ ptUp = TRUE /\ ptLive = {} /\ ptBound = {} /\ ptAsked = {} /\ ptOut = <<>>

ShortcutsNext ==
  \/ Enable \/ Disable \/ AuthorizationTimesOut \/ ServiceRestarts
  \/ OnReply \/ OnStaleResponse \/ OnRefused \/ OnListed \/ OnCreated \/ OnUnusable \/ OnBound
  \/ OnChanged \/ OnClosed \/ OnOwner \/ OnKey
  \/ \E r \in ptAsked : CallTimesOut(r) \/ PortalTakesCall(r) \/ PortalAnswers(r)
  \/ \E s \in ptLive : PortalClosesSession(s)
  \/ \E s \in ptBound : UserRebinds(s)
  \/ \E s \in ptBound, id \in ShortcutIds : UserPressesKey(s, id)
  \/ PortalStops \/ PortalStarts

ShortcutsSpec == ShortcutsInit /\ [][ShortcutsNext]_scVars

---------------------------------------------------------------------------
ShortcutPhases == {"disabled", "connecting", "unavailable", "authorizing", "active", "partial",
                   "denied", "closed", "timeout", "reconnecting", "error"}
RequestKinds == {"Create", "List", "Bind"}

(* Every variable keeps its type, and at most one request is ever pending   *)
(* (initialize and bind each start from none).                              *)
ShortcutsTypeOK ==
  /\ scPhase \in ShortcutPhases /\ scEnabled \in BOOLEAN
  /\ scSession \in 0..MaxTokens /\ scSequence \in 0..MaxTokens
  /\ scPending \subseteq [token : 1..MaxTokens, kind : RequestKinds, moved : BOOLEAN]
  /\ Cardinality(scPending) <= 1
  /\ scBindings \subseteq ShortcutIds /\ scGate \subseteq ShortcutIds
  /\ ptUp \in BOOLEAN /\ ptLive \subseteq 1..MaxTokens /\ ptBound \subseteq ptLive
  /\ ptAsked \subseteq [token : 1..MaxTokens, kind : RequestKinds, session : 0..MaxTokens,
                        moved : BOOLEAN, stage : {"sent", "late", "open"}]
  /\ Len(ptOut) <= MaxSignals

(* What waits in the main loop and will end the session's grants. *)
EndComing(s) == \E i \in 1..Len(ptOut) :
                  \/ ptOut[i].type = "owner" /\ ptOut[i].code # 1
                  \/ ptOut[i].type \in {"closed", "changed"} /\ ptOut[i].token = s

(* The service and the portal agree on the grants.  "active" and "partial"  *)
(* are reported only with the preference on, bindings, and a session whose  *)
(* keys the portal grabs, or whose end is already waiting in the main loop; *)
(* and the portal grabs keys for no session but the service's: no path      *)
(* (timeout, denial, disable, a lost call, a late answer) leaves a grab     *)
(* nobody tracks.  Only a bound key counts as held: no hold outlives the    *)
(* grant it came under.                                                     *)
GrantsAgree ==
  /\ scPhase \in {"active", "partial"} =>
       /\ scEnabled /\ scBindings # {} /\ scSession # NoSession
       /\ scSession \in ptBound \/ EndComing(scSession)
  /\ ptBound \subseteq {scSession}
  /\ scGate \subseteq scBindings
=============================================================================
