----------------------------- MODULE ModelPicker -----------------------------
(***************************************************************************)
(* The model names of the settings window (vellum-ui/src/model_picker.rs   *)
(* and the two requests of panel.rs that ask the endpoint for them): an    *)
(* entry, a list with a search field and a keyboard cursor, and answers    *)
(* that refill the list at any moment, also under an open list.            *)
(***************************************************************************)
EXTENDS Naturals, Sequences, SequencesExt

CONSTANTS ModelNames, ListAnswers, MaxPicks

ASSUME PickerAssumption ==
    /\ ModelNames \subseteq Nat \ {0} /\ ListAnswers \subseteq Seq(ModelNames)
    /\ MaxPicks \in Nat

VARIABLES mpEntry,   \* the entry's text: a name, 0 when blank
          mpModels,  \* what the list may show
          mpList,    \* rows shown, cursor and highlighted row (0: none), open
          mpSearch,  \* the search text (0: empty), and a refill still to come
          mpFetch,   \* the request in flight and its answer
          mpButtons, \* probing, and which buttons may be pressed
          mpFetched, mpHint, mpProbe,
          mpPanel, mpPicks

mpVars == <<mpEntry, mpModels, mpList, mpSearch, mpFetch, mpButtons, mpFetched, mpHint, mpProbe, mpPanel, mpPicks>>

NoFetch == [kind |-> "none"]
Empty == <<>>

(* What is taken of a list, by the places in it.                           *)
Picked(models, places) ==
    LET kept[i \in 0 .. Len(models)] ==
            IF i = 0 THEN Empty
            ELSE IF i \in places THEN Append(kept[i - 1], models[i]) ELSE kept[i - 1]
    IN  kept[Len(models)]

(* filter_models: a query matches the names that contain it.               *)
FilterModels(models, query) ==
    IF query = 0 THEN models ELSE Picked(models, {i \in DOMAIN models : models[i] = query})

(* dedupe_models: the first of equal names, in the endpoint's order.       *)
DedupeModels(models) ==
    Picked(models, {i \in DOMAIN models : \A j \in 1 .. i - 1 : models[j] # models[i]})

(* next_cursor, with rows from 1. *)
NextCursor(cursor, down, count) ==
    IF count = 0 THEN 0
    ELSE IF cursor = 0 THEN (IF down THEN 1 ELSE count)
    ELSE IF down THEN (IF cursor < count THEN cursor + 1 ELSE count)
    ELSE IF cursor > 1 THEN cursor - 1 ELSE 1

(* ListState::highlight: the row and the cursor move together. *)
Highlight(list, row) == [list EXCEPT !.lit = row, !.cursor = row]

(* Mutation: the cursor stays where it was. *)
RefillRows(list, models, query) == [list EXCEPT !.rows = FilterModels(models, query)]

(* ListState::refill. *)
Refill(list, models, query) ==
    LET rows == FilterModels(models, query) IN
    Highlight([list EXCEPT !.rows = rows], IF rows = Empty THEN 0 ELSE 1)

(* ListState::highlight_current. *)
HighlightCurrent(list, entry) ==
    Highlight(list, IF entry \in ToSet(list.rows) THEN CHOOSE i \in 1 .. Len(list.rows) : list.rows[i] = entry
                    ELSE IF list.rows = Empty THEN 0 ELSE 1)

(* refresh_model_hint: nothing to say before a list was fetched. *)
Hinted(entry, fetched) ==
    IF fetched = Empty THEN mpHint
    ELSE IF entry = 0 THEN "blank"
    ELSE IF entry \in ToSet(fetched) THEN "listed" ELSE "unlisted"

PickerInit ==
    /\ mpEntry \in ModelNames \cup {0} /\ mpModels = Empty
    /\ mpList = [rows |-> Empty, cursor |-> 0, lit |-> 0, open |-> FALSE]
    /\ mpSearch = [text |-> 0, pending |-> FALSE]
    /\ mpFetch = NoFetch /\ mpButtons = [probing |-> FALSE, test |-> TRUE, fetch |-> TRUE]
    /\ mpFetched = Empty /\ mpHint = "none" /\ mpProbe = "none"
    /\ mpPanel = TRUE /\ mpPicks = 0

Picks == mpPanel /\ mpPicks < MaxPicks /\ mpPicks' = mpPicks + 1
ListRests == UNCHANGED <<mpModels, mpList, mpSearch>>
RequestRests == UNCHANGED <<mpFetch, mpButtons, mpFetched, mpProbe>>

-----------------------------------------------------------------------------
(* The entry and the list. *)

TypeName ==
    /\ Picks /\ ~mpList.open
    /\ \E name \in ModelNames \cup {0} : mpEntry' = name /\ mpHint' = Hinted(name, mpFetched)
    /\ ListRests /\ RequestRests /\ UNCHANGED mpPanel

(* The map handler of the popover: the whole list, at the current name.    *)
OpenList ==
    /\ Picks /\ ~mpList.open
    /\ mpSearch' = [text |-> 0, pending |-> FALSE]
    /\ mpList' = HighlightCurrent(Refill([mpList EXCEPT !.open = TRUE], mpModels, 0), mpEntry)
    /\ RequestRests /\ UNCHANGED <<mpEntry, mpModels, mpHint, mpPanel>>

(* Text in the search field refills later; clearing it refills at once.    *)
TypeSearch ==
    /\ Picks /\ mpList.open
    /\ \E query \in ModelNames \cup {0} :
          /\ query # mpSearch.text
          /\ mpSearch' = [text |-> query, pending |-> query # 0]
          /\ mpList' = IF query = 0 THEN Refill(mpList, mpModels, 0) ELSE mpList
    /\ RequestRests /\ UNCHANGED <<mpEntry, mpModels, mpHint, mpPanel>>

SearchChanged ==
    /\ mpPanel /\ mpSearch.pending /\ mpSearch' = [mpSearch EXCEPT !.pending = FALSE]
    /\ mpList' = Refill(mpList, mpModels, mpSearch.text)
    /\ RequestRests /\ UNCHANGED <<mpEntry, mpModels, mpHint, mpPanel, mpPicks>>

(* ListState::step, with the arrow keys. *)
StepCursor ==
    /\ Picks /\ mpList.open
    /\ \E down \in BOOLEAN :
          LET next == NextCursor(mpList.cursor, down, Len(mpList.rows)) IN
          mpList' = IF next = mpList.cursor THEN mpList ELSE Highlight(mpList, next)
    /\ RequestRests /\ UNCHANGED <<mpEntry, mpModels, mpSearch, mpHint, mpPanel>>

(* commit: by a click on a row, or by a key for the row under the cursor.  *)
CommitName(row) ==
    /\ Picks /\ mpList.open /\ row \in 1 .. Len(mpList.rows)
    /\ mpEntry' = mpList.rows[row] /\ mpHint' = Hinted(mpEntry', mpFetched)
    /\ mpList' = [mpList EXCEPT !.open = FALSE]
    /\ RequestRests /\ UNCHANGED <<mpModels, mpSearch, mpPanel>>

CommitCursor == mpList.cursor # 0 /\ CommitName(mpList.cursor)
RowActivated == \E row \in 1 .. Len(mpList.rows) : CommitName(row)

DismissList ==
    /\ mpList.open /\ mpList' = [mpList EXCEPT !.open = FALSE]
    /\ RequestRests /\ UNCHANGED <<mpEntry, mpModels, mpSearch, mpHint, mpPanel, mpPicks>>

-----------------------------------------------------------------------------
(* The requests: one at a time, each with a button of its own. *)

TestConnection ==
    /\ Picks /\ ~mpList.open /\ mpButtons.test
    /\ IF mpButtons.probing THEN UNCHANGED <<mpButtons, mpFetch, mpProbe>>
       ELSE /\ mpButtons' = [mpButtons EXCEPT !.probing = TRUE, !.test = FALSE]
            /\ mpFetch' = [kind |-> "probe", answered |-> FALSE, ok |-> FALSE, models |-> Empty]
            /\ mpProbe' = "testing"
    /\ ListRests /\ UNCHANGED <<mpEntry, mpFetched, mpHint, mpPanel>>

FetchModels ==
    /\ Picks /\ ~mpList.open /\ mpButtons.fetch
    /\ IF mpButtons.probing THEN UNCHANGED <<mpButtons, mpFetch, mpHint>>
       ELSE /\ mpButtons' = [mpButtons EXCEPT !.probing = TRUE, !.fetch = FALSE]
            /\ mpFetch' = [kind |-> "models", answered |-> FALSE, ok |-> FALSE, models |-> Empty]
            /\ mpHint' = "fetching"
    /\ ListRests /\ UNCHANGED <<mpEntry, mpFetched, mpProbe, mpPanel>>

EndpointAnswers ==
    /\ mpFetch # NoFetch /\ ~mpFetch.answered
    /\ \/ \E models \in ListAnswers : mpFetch' = [mpFetch EXCEPT !.answered = TRUE, !.ok = TRUE, !.models = models]
       \/ mpFetch' = [mpFetch EXCEPT !.answered = TRUE]
    /\ ListRests /\ UNCHANGED <<mpEntry, mpButtons, mpFetched, mpHint, mpProbe, mpPanel, mpPicks>>

(* show_probe and probe_message: judged by the name in the entry now.      *)
ShowProbe ==
    /\ mpPanel /\ mpFetch # NoFetch /\ mpFetch.kind = "probe" /\ mpFetch.answered
    /\ mpFetch' = NoFetch /\ mpButtons' = [mpButtons EXCEPT !.probing = FALSE, !.test = TRUE]
    /\ mpProbe' = IF ~mpFetch.ok THEN "failed"
                  ELSE IF mpFetch.models = Empty \/ mpEntry \in ToSet(mpFetch.models) \cup {0} THEN "ok" ELSE "unlisted"
    /\ ListRests /\ UNCHANGED <<mpEntry, mpFetched, mpHint, mpPanel, mpPicks>>

(* show_models: set_models refills the list, which may be open.            *)
ShowModels ==
    /\ mpPanel /\ mpFetch # NoFetch /\ mpFetch.kind = "models" /\ mpFetch.answered
    /\ mpFetch' = NoFetch /\ mpButtons' = [mpButtons EXCEPT !.probing = FALSE, !.fetch = TRUE]
    /\ \/ ~mpFetch.ok /\ mpHint' = "failed" /\ UNCHANGED <<mpModels, mpList, mpSearch, mpFetched>>
       \/ mpFetch.ok /\ mpFetch.models = Empty /\ mpHint' = "empty" /\ UNCHANGED <<mpModels, mpList, mpSearch, mpFetched>>
       \/ /\ mpFetch.ok /\ mpFetch.models # Empty
          /\ mpModels' = DedupeModels(mpFetch.models) /\ mpFetched' = mpFetch.models
          /\ mpSearch' = [text |-> 0, pending |-> FALSE] /\ mpList' = Refill(mpList, mpModels', 0)
          /\ mpHint' = Hinted(mpEntry, mpFetched')
    /\ UNCHANGED <<mpEntry, mpProbe, mpPanel, mpPicks>>

(* The answer for a panel that is gone finds nobody. *)
AnswerLost ==
    /\ ~mpPanel /\ mpFetch # NoFetch /\ mpFetch.answered /\ mpFetch' = NoFetch
    /\ ListRests /\ UNCHANGED <<mpEntry, mpButtons, mpFetched, mpHint, mpProbe, mpPanel, mpPicks>>

PanelCloses ==
    /\ mpPanel /\ mpPanel' = FALSE /\ mpList' = [mpList EXCEPT !.open = FALSE]
    /\ RequestRests /\ UNCHANGED <<mpEntry, mpModels, mpSearch, mpHint, mpPicks>>

PickerNext ==
    \/ TypeName \/ OpenList \/ TypeSearch \/ SearchChanged \/ StepCursor
    \/ CommitCursor \/ RowActivated \/ DismissList
    \/ TestConnection \/ FetchModels \/ EndpointAnswers \/ ShowProbe \/ ShowModels \/ AnswerLost \/ PanelCloses

PickerSpec == PickerInit /\ [][PickerNext]_mpVars

-----------------------------------------------------------------------------
PickerTypeOK ==
    /\ mpEntry \in ModelNames \cup {0} /\ mpModels \in Seq(ModelNames)
    /\ mpList \in [rows : Seq(ModelNames), cursor : Nat, lit : Nat, open : BOOLEAN]
    /\ mpSearch \in [text : ModelNames \cup {0}, pending : BOOLEAN]
    /\ mpFetch = NoFetch \/ mpFetch \in [kind : {"probe", "models"}, answered : BOOLEAN, ok : BOOLEAN, models : Seq(ModelNames)]
    /\ mpButtons \in [probing : BOOLEAN, test : BOOLEAN, fetch : BOOLEAN]
    /\ mpFetched \in Seq(ModelNames) /\ mpPanel \in BOOLEAN /\ mpPicks \in 0 .. MaxPicks
    /\ mpHint \in {"none", "fetching", "blank", "listed", "unlisted", "empty", "failed"}
    /\ mpProbe \in {"none", "testing", "ok", "unlisted", "failed"}

(* The highlighted row is a row of the list and the one Enter would take;  *)
(* an open list with rows always has one; and the rows are those the       *)
(* search field asks for, of the newest models, unless its refill is still *)
(* to come.                                                                *)
CursorIsShown ==
    /\ mpList.lit = mpList.cursor /\ mpList.cursor \in 0 .. Len(mpList.rows)
    /\ mpList.open /\ mpList.rows # Empty => mpList.cursor # 0
    /\ ~mpSearch.pending => mpList.rows = FilterModels(mpModels, mpSearch.text)
    /\ \A i, j \in 1 .. Len(mpList.rows) : i # j => mpList.rows[i] # mpList.rows[j]

(* While the panel is open, a button stays disabled exactly while its own  *)
(* request is in flight: no answer leaves the panel unable to ask again.   *)
ButtonsReturn ==
    mpPanel => /\ mpButtons.probing = (mpFetch # NoFetch)
               /\ mpButtons.test = (mpFetch = NoFetch \/ mpFetch.kind = "models")
               /\ mpButtons.fetch = (mpFetch = NoFetch \/ mpFetch.kind = "probe")

(* The line under the name says "in the list" only of a name in the list   *)
(* that was fetched, however the name came there.                          *)
HintTrue ==
    /\ mpHint = "listed" => mpEntry \in ToSet(mpFetched)
    /\ mpHint = "unlisted" => mpEntry \notin ToSet(mpFetched)
=============================================================================
