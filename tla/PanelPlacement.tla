---------------------------- MODULE PanelPlacement ----------------------------
(***************************************************************************)
(* Where the control panel of a long shot stands (recorder.rs).  The screen *)
(* is recorded while the panel is on it, so a panel over the selection is  *)
(* a panel in the picture.  The panel is chosen by the gaps around the     *)
(* selection, mapped by the compositor with whatever size it gives, and    *)
(* looked at once more before the first frame is taken.                    *)
(***************************************************************************)
EXTENDS Integers, FiniteSetsExt

CONSTANTS PanelScreens,     \* sizes of the screen, <<width, height>>
          PanelSizes,       \* measured: [full, compact, horizontal, vertical |-> <<width, height>>]
          PanelHint,        \* what the overlay takes the rails to be: [horizontal, vertical]
          PanelMargin

(* The envelope the overlay reckons with is at least as large as the rails *)
(* are (recorder.rs, MICRO_HINT_HORIZONTAL and MICRO_HINT_VERTICAL).       *)
ASSUME PanelAssumption ==
    /\ PanelMargin \in Nat
    /\ PanelScreens \subseteq (Nat \ {0}) \X (Nat \ {0})
    /\ PanelSizes \subseteq [full : Nat \X Nat, compact : Nat \X Nat, horizontal : Nat \X Nat, vertical : Nat \X Nat]
    /\ PanelHint \in [horizontal : Nat \X Nat, vertical : Nat \X Nat]
    /\ \A sizes \in PanelSizes, axis \in {1, 2} :
          /\ sizes.horizontal[axis] <= PanelHint.horizontal[axis]
          /\ sizes.vertical[axis] <= PanelHint.vertical[axis]

VARIABLES cpStage,
          cpGiven,        \* selection, screen, sizes, one output, layer shell
          cpPlacement,    \* kind and edge
          cpPanel,        \* the window: whether it is mapped, and where
          cpMoved         \* KWin has put it where it belongs

cpVars == <<cpStage, cpGiven, cpPlacement, cpPanel, cpMoved>>

PanelEdges == {"top", "bottom", "left", "right"}
Along == {"top", "bottom"}
NoPlacement == [kind |-> "hidden", edge |-> "none"]
NoPanel == [mapped |-> FALSE, x |-> 0, y |-> 0, w |-> 0, h |-> 0]
Selections(screen) == {rect \in [x : 0 .. screen[1], y : 0 .. screen[2], w : 1 .. screen[1], h : 1 .. screen[2]] :
                          rect.x < screen[1] /\ rect.y < screen[2] /\ rect.x + rect.w <= screen[1] + 1}

PanelInit ==
    /\ cpStage = "measure" /\ cpPlacement = NoPlacement /\ cpPanel = NoPanel /\ cpMoved = FALSE
    /\ \E screen \in PanelScreens, sizes \in PanelSizes, layered, single \in BOOLEAN :
        \E rect \in Selections(screen) :
            cpGiven = [screen |-> screen, sizes |-> sizes, layered |-> layered, single |-> single, rect |-> rect]

-----------------------------------------------------------------------------
(* The choice *)

Wide == cpGiven.screen[1]
High == cpGiven.screen[2]
Sel == cpGiven.rect

(* selection_fits_screen, and single_output_for_selection *)
SelectionFits == Sel.x + Sel.w <= Wide /\ Sel.y + Sel.h <= High
Proven == cpGiven.single /\ SelectionFits

Gap(edge) ==
    CASE edge = "top" -> Sel.y
      [] edge = "bottom" -> High - (Sel.y + Sel.h)
      [] edge = "left" -> Sel.x
      [] edge = "right" -> Wide - (Sel.x + Sel.w)

Need(edge, size) == IF edge \in Along THEN size[2] ELSE size[1]

(* edge_has_room *)
RoomAt(edge, size) ==
    /\ size[1] <= Wide /\ size[2] <= High
    /\ Gap(edge) >= Need(edge, size) + PanelMargin

(* micro_panel_edge: a rail of its own shape for each pair of edges. *)
RailOf(rails, edge) == IF edge \in Along THEN rails.horizontal ELSE rails.vertical
RailFits(rails, edge) ==
    LET rail == RailOf(rails, edge) IN
    /\ IF edge \in Along THEN rail[1] <= Wide ELSE rail[2] <= High
    /\ Gap(edge) >= Need(edge, rail) + PanelMargin

EdgeRank == [edge \in PanelEdges |-> CASE edge = "top" -> 1 [] edge = "bottom" -> 2 [] edge = "left" -> 3 [] OTHER -> 4]

(* max_by_key: the most room to spare, the last one of equals. *)
Roomiest(edges, slack) ==
    CHOOSE edge \in edges : \A other \in edges \ {edge} :
        slack[edge] > slack[other] \/ (slack[edge] = slack[other] /\ EdgeRank[edge] > EdgeRank[other])

EdgesFor(size) == {edge \in PanelEdges : RoomAt(edge, size)}
EdgesForRail(rails) == {edge \in PanelEdges : RailFits(rails, edge)}

PanelAt(kind, edges, slack) == [kind |-> kind, edge |-> Roomiest(edges, slack)]
Slack(size) == [edge \in PanelEdges |-> Gap(edge) - Need(edge, size)]
RailSlack(rails) == [edge \in PanelEdges |-> Gap(edge) - Need(edge, RailOf(rails, edge))]

(* choose_placement *)
PanelChoice ==
    LET sizes == cpGiven.sizes IN
    IF ~Proven THEN NoPlacement
    ELSE IF EdgesFor(sizes.full) # {} THEN PanelAt("full", EdgesFor(sizes.full), Slack(sizes.full))
    ELSE IF EdgesFor(sizes.compact) # {} THEN PanelAt("compact", EdgesFor(sizes.compact), Slack(sizes.compact))
    ELSE IF EdgesForRail(sizes) # {} THEN PanelAt("rail", EdgesForRail(sizes), RailSlack(sizes))
    ELSE NoPlacement

(* selection_panel_notice: what the overlay promises before the measuring. *)
ControlExpected == SelectionFits /\ EdgesForRail(PanelHint) # {}

Expected ==
    CASE cpPlacement.kind = "full" -> cpGiven.sizes.full
      [] cpPlacement.kind = "compact" -> cpGiven.sizes.compact
      [] cpPlacement.kind = "rail" -> RailOf(cpGiven.sizes, cpPlacement.edge)

-----------------------------------------------------------------------------
(* The window *)

ChoosePanel ==
    /\ cpStage = "measure"
    /\ cpPlacement' = PanelChoice
    /\ cpStage' = IF PanelChoice.kind = "hidden" THEN "hidden" ELSE "present"
    /\ UNCHANGED <<cpGiven, cpPanel, cpMoved>>

(* The compositor may give more, or less, than was asked for. *)
Allocations == {<<Expected[1] + dw, Expected[2] + dh>> : dw, dh \in {-1, 0, 1}}
OnScreen(place, length, most) == Max({0, Min({place, most - length})})

(* Where a layer surface lies that is anchored to one edge, and where      *)
(* place_kde_panel wants it.                                               *)
Anchored(size, x, y) ==
    LET edge == cpPlacement.edge IN
    [mapped |-> TRUE, w |-> size[1], h |-> size[2],
     x |-> CASE edge = "left" -> PanelMargin [] edge = "right" -> Wide - size[1] - PanelMargin [] OTHER -> x,
     y |-> CASE edge = "top" -> PanelMargin [] edge = "bottom" -> High - size[2] - PanelMargin [] OTHER -> y]

(* Without the layer shell a window appears wherever KWin likes. *)
MapPanel ==
    /\ cpStage = "present" /\ ~cpPanel.mapped
    /\ \E size \in Allocations :
        IF cpGiven.layered
        THEN cpPanel' = Anchored(size, (Wide - size[1]) \div 2, (High - size[2]) \div 2)
        ELSE \E x \in {0, Sel.x}, y \in {0, Sel.y} :
                cpPanel' = [mapped |-> TRUE, x |-> x, y |-> y, w |-> size[1], h |-> size[2]]
    /\ UNCHANGED <<cpStage, cpGiven, cpPlacement, cpMoved>>

(* place_kde_panel, 60 ms after the map: KWin obeys, or cannot be asked. *)
PlaceByKWin ==
    /\ cpPanel.mapped /\ ~cpGiven.layered /\ ~cpMoved
    /\ Expected[1] <= Wide /\ Expected[2] <= High
    /\ cpPanel' = Anchored(Expected,
                    OnScreen(Sel.x + Sel.w \div 2 - Expected[1] \div 2, Expected[1], Wide),
                    OnScreen(Sel.y + Sel.h \div 2 - Expected[2] \div 2, Expected[2], High))
    /\ cpMoved' = TRUE
    /\ UNCHANGED <<cpStage, cpGiven, cpPlacement>>

(* Mutation: the size that was asked for is taken for the one given. *)
AllocationAsMeasured == RoomAt(cpPlacement.edge, Expected)

AllocationSafe == RoomAt(cpPlacement.edge, <<cpPanel.w, cpPanel.h>>)

(* verify_panel_then_start, 300 ms after the panel was presented: without  *)
(* a window, or with one of another size that does not fit, the panel is   *)
(* closed before a frame is taken.                                         *)
VerifyPanel ==
    /\ cpStage = "present"
    /\ IF /\ cpPanel.mapped /\ cpPanel.w >= Expected[1] /\ cpPanel.h >= Expected[2]
          /\ AllocationSafe
       THEN cpStage' = "sampling" /\ UNCHANGED cpPanel
       ELSE cpStage' = "hidden" /\ cpPanel' = NoPanel
    /\ UNCHANGED <<cpGiven, cpPlacement, cpMoved>>

PanelNext == ChoosePanel \/ MapPanel \/ PlaceByKWin \/ VerifyPanel

PanelSpec == PanelInit /\ [][PanelNext]_cpVars

-----------------------------------------------------------------------------
PanelTypeOK ==
    /\ cpStage \in {"measure", "present", "sampling", "hidden"}
    /\ cpPlacement.kind \in {"full", "compact", "rail", "hidden"}
    /\ cpPlacement.edge \in PanelEdges \union {"none"}
    /\ cpMoved \in BOOLEAN

Area(rect) == (rect.x .. rect.x + rect.w - 1) \X (rect.y .. rect.y + rect.h - 1)
Screen == [x |-> 0, y |-> 0, w |-> Wide, h |-> High]

(* While frames are taken no point of the panel lies in the selection, nor *)
(* outside the screen, where the panel stands at its edge; a KDE panel     *)
(* that KWin did not move is out of this program's hands.                  *)
PanelOutside ==
    cpStage = "sampling" /\ cpPanel.mapped /\ (cpGiven.layered \/ cpMoved) =>
        /\ Area(cpPanel) \intersect Area(Sel) = {}
        /\ Area(cpPanel) \subseteq Area(Screen)

(* The strip of the screen at an edge that a panel takes. *)
Strip(edge, size) ==
    LET depth == Need(edge, size) + PanelMargin IN
    CASE edge = "top" -> [Screen EXCEPT !.h = depth]
      [] edge = "bottom" -> [Screen EXCEPT !.y = High - depth, !.h = depth]
      [] edge = "left" -> [Screen EXCEPT !.w = depth]
      [] edge = "right" -> [Screen EXCEPT !.x = Wide - depth, !.w = depth]

FreeStrip(size) ==
    size[1] <= Wide /\ size[2] <= High /\
    \E edge \in PanelEdges :
        Area(Strip(edge, size)) \subseteq Area(Screen) /\ Area(Strip(edge, size)) \intersect Area(Sel) = {}

(* The best panel that some strip of the screen has room for is the one    *)
(* chosen, and the overlay promises a control only when there will be one. *)
PanelOffered ==
    cpStage = "present" \/ (cpStage = "hidden" /\ cpPlacement = NoPlacement) =>
        /\ cpPlacement.kind = "full" <=> (Proven /\ FreeStrip(cpGiven.sizes.full))
        /\ cpPlacement.kind = "compact" => FreeStrip(cpGiven.sizes.compact)
        /\ Proven /\ FreeStrip(cpGiven.sizes.compact) => cpPlacement.kind \in {"full", "compact"}
        /\ Proven /\ ControlExpected => cpPlacement.kind # "hidden"

(* PanelOutside and PanelOffered, for every selection and every size that  *)
(* the panel turns out to have.                                            *)
PanelSafe == PanelOutside /\ PanelOffered
=============================================================================
