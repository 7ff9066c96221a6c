---------------------------- MODULE ToolbarLayout ----------------------------
(***************************************************************************)
(* The layout of the toolbar over the capture overlay (toolbar.rs): how    *)
(* its buttons are fitted to the width of the screen, packed into rows and *)
(* placed beside the selection.  The overlay holds the keyboard, so a      *)
(* button off the screen cannot be reached at all.  Lengths are half       *)
(* pixels of the source, so that its steps of 0.5 are whole.               *)
(***************************************************************************)
EXTENDS Integers, Sequences, SequencesExt, FiniteSetsExt

CONSTANTS BarButtons,      \* sequences of [label |-> width, break |-> BOOLEAN]
          BarScreens,      \* <<width, height>>
          BarSelections,   \* [x, y, w, h]
          BarSpacing,      \* the widest: [pad, gap, group, inner]
          BarTightest,     \* the floors of the same
          ButtonHeight, RowGap, EdgeMargin, BarMargin, BarPad

ASSUME ToolbarAssumption ==
    /\ {BarSpacing, BarTightest} \subseteq [pad : Nat, gap : Nat, group : Nat, inner : Nat]
    /\ \A part \in {"pad", "gap", "group", "inner"} : BarTightest[part] <= BarSpacing[part]
    /\ 2 * (BarSpacing.inner - BarTightest.inner) <= BarSpacing.pad - BarTightest.pad
    /\ {RowGap, EdgeMargin, BarMargin, BarPad} \subseteq Nat
    /\ {ButtonHeight, BarTightest.pad} \subseteq Nat \ {0}
    /\ \A buttons \in BarButtons : buttons \in Seq([label : Nat, break : BOOLEAN])
    /\ BarScreens \subseteq Nat \X Nat /\ BarSelections \subseteq [x : Nat, y : Nat, w : Nat, h : Nat]
    /\ \A screen \in BarScreens, sel \in BarSelections : sel.y <= screen[2]

VARIABLES tbGiven,    \* the buttons, the screen and the selection
          tbBar,      \* the slab
          tbButtons   \* the places of the buttons, in their order

tbVars == <<tbGiven, tbBar, tbButtons>>

NoBar == [x |-> 0, y |-> 0, w |-> 0, h |-> 0]

ToolbarInit ==
    /\ tbGiven \in [buttons : BarButtons, screen : BarScreens, sel : BarSelections]
    /\ tbBar = NoBar /\ tbButtons = <<>>

(* Spacing::tighter, so many times; the badges of keys start off, so there *)
(* is no more to give once the padding is at its floor, and nor has the    *)
(* inner padding.                                                          *)
Tighter(steps) ==
    [pad   |-> Max({BarSpacing.pad - 2 * steps, BarTightest.pad}),
     gap   |-> Max({BarSpacing.gap - steps, BarTightest.gap}),
     group |-> Max({BarSpacing.group - steps, BarTightest.group}),
     inner |-> Max({BarSpacing.inner - steps, BarTightest.inner})]

ButtonWidth(button, spacing) == button.label + 2 * spacing.pad

(* What a button takes that is not the first of its row. *)
Lead(button, spacing) == spacing.gap + (IF button.break THEN spacing.group ELSE 0)

(* Mutation: the gap before a group is left out of the sum. *)
PackedWidthNoGroups(buttons, spacing, first) ==
    LET sum[last \in first .. Len(buttons)] ==
            IF last = first THEN ButtonWidth(buttons[first], spacing)
            ELSE sum[last - 1] + spacing.gap + ButtonWidth(buttons[last], spacing)
    IN sum

(* row_width of a row from its first button to any other; of them all it   *)
(* is bar_width.                                                           *)
PackedWidth(buttons, spacing, first) ==
    LET sum[last \in first .. Len(buttons)] ==
            IF last = first THEN ButtonWidth(buttons[first], spacing)
            ELSE sum[last - 1] + Lead(buttons[last], spacing) + ButtonWidth(buttons[last], spacing)
    IN sum

Target == Max({tbGiven.screen[1] - 2 * EdgeMargin, 0})

(* The loop of layout: the first spacing that fits, or the tightest. *)
FitsBar(buttons, spacing) == PackedWidth(buttons, spacing, 1)[Len(buttons)] + 2 * spacing.inner <= Target
Fitted ==
    Tighter(Min({steps \in 0 .. BarSpacing.pad :
                    FitsBar(tbGiven.buttons, Tighter(steps)) \/ Tighter(steps).pad <= BarTightest.pad}))

(* pack_rows, and how far in its row each button is placed: a row takes    *)
(* what fits, and at least one button.                                     *)
PackRows(buttons, spacing, avail) ==
    LET at[i \in DOMAIN buttons] ==
            IF i = 1 THEN [row |-> 1, first |-> 1, x |-> 0]
            ELSE LET before == at[i - 1] IN
                 IF PackedWidth(buttons, spacing, before.first)[i] <= avail
                 THEN [before EXCEPT !.x = @ + ButtonWidth(buttons[i - 1], spacing) + Lead(buttons[i], spacing)]
                 ELSE [row |-> before.row + 1, first |-> i, x |-> 0]
    IN at

BarPlace(width, height) ==
    LET sel == tbGiven.sel
        wide == tbGiven.screen[1]
        high == tbGiven.screen[2]
        x == Min({Max({sel.x + sel.w \div 2 - width \div 2, EdgeMargin}),
                     Max({wide - width - EdgeMargin, EdgeMargin})})
        below == sel.y + sel.h + BarMargin
        above == sel.y - BarMargin - height
        y == IF below + height <= high - EdgeMargin THEN below
             ELSE IF above >= EdgeMargin THEN above
             ELSE Max({Min({sel.y + sel.h - height - EdgeMargin, high - height - EdgeMargin}), EdgeMargin})
    IN [x |-> x, y |-> y, w |-> width, h |-> height]

(* A row is as wide as the widest of its beginnings. *)
LayoutToolbar ==
    /\ tbBar = NoBar /\ tbGiven.buttons # <<>>
    /\ LET buttons == tbGiven.buttons
           spacing == Fitted
           at == PackRows(buttons, spacing, Max({Target - 2 * spacing.inner, 1}))
           width == Max({PackedWidth(buttons, spacing, at[i].first)[i] : i \in DOMAIN buttons}) + 2 * spacing.inner
           rows == at[Len(buttons)].row
           bar == BarPlace(width, rows * ButtonHeight + (rows - 1) * RowGap + 2 * BarPad)
       IN /\ tbBar' = bar
          /\ tbButtons' = [i \in DOMAIN buttons |->
                [x |-> bar.x + spacing.inner + at[i].x,
                 y |-> bar.y + BarPad + (at[i].row - 1) * (ButtonHeight + RowGap),
                 w |-> ButtonWidth(buttons[i], spacing), h |-> ButtonHeight]]
    /\ UNCHANGED tbGiven

ToolbarNext == LayoutToolbar

ToolbarSpec == ToolbarInit /\ [][ToolbarNext]_tbVars

-----------------------------------------------------------------------------
Within(inner, outer) ==
    /\ outer.x <= inner.x /\ inner.x + inner.w <= outer.x + outer.w
    /\ outer.y <= inner.y /\ inner.y + inner.h <= outer.y + outer.h
Apart(a, b) ==
    a.x + a.w <= b.x \/ b.x + b.w <= a.x \/ a.y + a.h <= b.y \/ b.y + b.h <= a.y

WholeScreen == [x |-> 0, y |-> 0, w |-> tbGiven.screen[1], h |-> tbGiven.screen[2]]
Laid == tbBar # NoBar

(* The screen is wide enough for every single button, and high enough for  *)
(* the bar that came out.                                                  *)
ScreenSuffices ==
    /\ \A i \in DOMAIN tbGiven.buttons :
        ButtonWidth(tbGiven.buttons[i], BarTightest) + 2 * BarTightest.inner + 2 * EdgeMargin <= tbGiven.screen[1]
    /\ tbBar.h + 2 * EdgeMargin <= tbGiven.screen[2]

(* Every button is there once, inside the slab and clear of the others, in *)
(* the order of reading; where the screen suffices all of them are on it;  *)
(* and where there is room below or above, the bar leaves the selection    *)
(* free (layout, pack_rows, bar_width).                                    *)
ToolbarReachable ==
    Laid =>
        /\ Len(tbButtons) = Len(tbGiven.buttons)
        /\ \A i \in DOMAIN tbButtons : Within(tbButtons[i], tbBar)
        /\ \A i, j \in DOMAIN tbButtons : i < j =>
            /\ Apart(tbButtons[i], tbButtons[j])
            /\ tbButtons[i].y < tbButtons[j].y \/ (tbButtons[i].y = tbButtons[j].y /\ tbButtons[i].x < tbButtons[j].x)
        /\ ScreenSuffices => \A i \in DOMAIN tbButtons : Within(tbButtons[i], WholeScreen)
        /\ \/ tbGiven.sel.y + tbGiven.sel.h + BarMargin + tbBar.h <= tbGiven.screen[2] - EdgeMargin
           \/ tbGiven.sel.y - BarMargin - tbBar.h >= EdgeMargin
           => Apart(tbBar, tbGiven.sel)
=============================================================================
