----------------------------- MODULE PreviewView -----------------------------
(***************************************************************************)
(* What the preview of a long picture shows of it (preview.rs): the view   *)
(* with its zoom, its scroll position and its bars, the tiles it is drawn  *)
(* from, and the timer that takes over what an editor has committed.       *)
(* Lengths on the screen are whole; a scale is a number of ScaleUnits,     *)
(* where the source has fractions.                                         *)
(***************************************************************************)
EXTENDS Integers, Sequences, SequencesExt, FiniteSetsExt

CONSTANTS PictureSizes,    \* of the revisions, <<width, height>>
          WindowSizes,     \* of the drawing area
          ViewPad,         \* PAD
          ScaleUnit,       \* the scale 1, so many parts
          LeastScale, MostScale,
          TileRows,
          CacheLimit,      \* CACHE_BYTES, in pixels
          MaxRevisions

ASSUME PreviewAssumption ==
    /\ {ViewPad, ScaleUnit, LeastScale, MostScale, TileRows, CacheLimit, MaxRevisions} \subseteq Nat
    /\ 0 < LeastScale /\ LeastScale <= ScaleUnit /\ ScaleUnit <= MostScale /\ TileRows > 0 /\ ViewPad > 0
    /\ PictureSizes \union WindowSizes \subseteq (Nat \ {0}) \X (Nat \ {0})

VARIABLES pvDocument,    \* revision and size of what is committed
          pvShown,       \* the same of what the viewer has
          pvView,        \* vw, vh, scale, x, y, fit
          pvTiles,       \* the cache, the one used longest ago first
          pvDrawn        \* the tiles of the last drawing, or ToDraw

pvVars == <<pvDocument, pvShown, pvView, pvTiles, pvDrawn>>

ToDraw == <<>>

-----------------------------------------------------------------------------
(* Viewport *)

Scaled(length, scale) == (length * scale) \div ScaleUnit

Limits(size, view) ==
    [x |-> Max({Scaled(size[1], view.scale) + 2 * ViewPad - view.vw, 0}),
     y |-> Max({Scaled(size[2], view.scale) + 2 * ViewPad - view.vh, 0})]

ToLimits(size, view) ==
    LET limits == Limits(size, view) IN
    [view EXCEPT !.x = Max({0, Min({@, limits.x})}), !.y = Max({0, Min({@, limits.y})})]

Between(low, value, high) == Max({low, Min({value, high})})

(* resize: a view that fits the width changes its scale with it. *)
ResizedTo(size, view, area) ==
    LET fitted == Between(LeastScale, (ScaleUnit * Max({area[1] - 2 * ViewPad, 0})) \div size[1], ScaleUnit)
        sized == [view EXCEPT !.vw = area[1], !.vh = area[2]]
    IN ToLimits(size, IF view.fit THEN [sized EXCEPT !.scale = fitted, !.y = (@ * fitted) \div view.scale]
                      ELSE sized)

FitWidth(size, view) == [ResizedTo(size, [view EXCEPT !.fit = TRUE], <<view.vw, view.vh>>) EXCEPT !.x = 0]

BaseX(size, view) == Max({(view.vw - Scaled(size[1], view.scale)) \div 2, ViewPad})

(* zoom: the point under the pointer stays, as far as the limits allow. *)
Zoomed(size, view, scale, pointer) ==
    LET new == [view EXCEPT !.scale = Between(LeastScale, scale, MostScale), !.fit = FALSE]
        point == <<pointer[1] - (BaseX(size, view) - view.x), pointer[2] - (ViewPad - view.y)>>
    IN ToLimits(size,
        [new EXCEPT !.x = BaseX(size, new) + (point[1] * new.scale) \div view.scale - pointer[1],
                    !.y = ViewPad + (point[2] * new.scale) \div view.scale - pointer[2]])

(* visible_rows: rounded down at the top and up at the bottom. *)
VisibleTop(size, view) == Min({(Max({view.y - ViewPad, 0}) * ScaleUnit) \div view.scale, size[2]})
VisibleBottom(size, view) ==
    Min({(Max({view.y + view.vh - ViewPad, 0}) * ScaleUnit + view.scale - 1) \div view.scale, size[2]})

NewView == [vw |-> 1, vh |-> 1, scale |-> ScaleUnit, x |-> 0, y |-> 0, fit |-> TRUE]

-----------------------------------------------------------------------------
(* TileCache *)

TileAt(row) == [row |-> row, revision |-> pvShown.revision,
                bytes |-> pvShown.size[1] * (Min({row + TileRows, pvShown.size[2]}) - row)]

(* The bytes of the first tiles, by their number. *)
BytesOf(tiles) ==
    LET sum[n \in 0 .. Len(tiles)] == IF n = 0 THEN 0 ELSE sum[n - 1] + tiles[n].bytes IN sum

TotalBytes(tiles) == BytesOf(tiles)[Len(tiles)]

(* The tiles used longest ago leave until the new one fits. *)
RoomFor(tiles, bytes) ==
    LET fits == {n \in 0 .. Len(tiles) : TotalBytes(tiles) - BytesOf(tiles)[n] + bytes <= CacheLimit}
        gone == Min(fits \union {Len(tiles)})
    IN SubSeq(tiles, gone + 1, Len(tiles))

(* get: a tile at hand is used again; a new one is kept if it fits at all. *)
GetTile(tiles, row) ==
    LET known == {i \in DOMAIN tiles : tiles[i].row = row}
        new == TileAt(row)
    IN IF known # {} THEN LET i == Min(known) IN [tile |-> tiles[i], tiles |-> Append(RemoveAt(tiles, i), tiles[i])]
       ELSE [tile |-> new,
             tiles |-> LET kept == RoomFor(tiles, new.bytes)
                       IN IF new.bytes <= CacheLimit THEN Append(kept, new) ELSE kept]

-----------------------------------------------------------------------------
PreviewInit ==
    /\ \E size \in PictureSizes, area \in WindowSizes :
        /\ pvDocument = [revision |-> 1, size |-> size]
        /\ pvShown = pvDocument
        /\ pvView = ResizedTo(size, NewView, area)
    /\ pvTiles = <<>> /\ pvDrawn = ToDraw

(* A commit of an editor, to another size if it crops. *)
CommitElsewhere ==
    /\ pvDocument.revision < MaxRevisions
    /\ \E size \in PictureSizes : pvDocument' = [revision |-> pvDocument.revision + 1, size |-> size]
    /\ UNCHANGED <<pvShown, pvView, pvTiles, pvDrawn>>

(* sync *)
Present(view) == pvView' = view /\ pvDrawn' = ToDraw

ResizeArea ==
    /\ \E area \in WindowSizes : Present(ResizedTo(pvShown.size, pvView, area))
    /\ UNCHANGED <<pvDocument, pvShown, pvTiles>>

ViewLimits == Limits(pvShown.size, pvView)

(* The wheel and the keys move by a step, the bars and the map to a place. *)
ScrollView ==
    /\ \/ \E dx, dy \in {-3, 0, 3} :
            Present(ToLimits(pvShown.size, [pvView EXCEPT !.x = @ + dx, !.y = @ + dy]))
       \/ \E to \in {0, ViewLimits.y \div 2, ViewLimits.y} : Present([pvView EXCEPT !.y = to])
       \/ \E to \in {0, ViewLimits.x} : Present([pvView EXCEPT !.x = to])
    /\ UNCHANGED <<pvDocument, pvShown, pvTiles>>

ZoomView ==
    /\ \/ \E scale \in {pvView.scale * 2, pvView.scale \div 2, ScaleUnit} :
            Present(Zoomed(pvShown.size, pvView, scale, <<pvView.vw \div 2, pvView.vh \div 2>>))
       \/ Present(FitWidth(pvShown.size, pvView))
    /\ UNCHANGED <<pvDocument, pvShown, pvTiles>>

(* Mutation: the tiles stay when the picture changes. *)
KeptTiles == pvTiles

FreshTiles == <<>>

(* refresh_document, by the timer and before every action. *)
TakeRevision ==
    /\ pvDocument.revision # pvShown.revision
    /\ pvShown' = pvDocument
    /\ Present(ResizedTo(pvDocument.size, NewView, <<pvView.vw, pvView.vh>>))
    /\ pvTiles' = FreshTiles
    /\ UNCHANGED pvDocument

(* The cache and what is drawn after so many rows of tiles, from the first. *)
DrawnRows(tiles, first, count) ==
    LET got[n \in 0 .. count] ==
            IF n = 0 THEN [tiles |-> tiles, drawn |-> {}]
            ELSE LET next == GetTile(got[n - 1].tiles, (first + n - 1) * TileRows)
                 IN [tiles |-> next.tiles, drawn |-> got[n - 1].drawn \union {next.tile}]
    IN got

(* draw: the tiles of the visible rows, from the top. *)
DrawTiles ==
    /\ pvDrawn = ToDraw
    /\ LET first == VisibleTop(pvShown.size, pvView) \div TileRows
           bottom == VisibleBottom(pvShown.size, pvView)
           count == Max({0, (bottom - first * TileRows + TileRows - 1) \div TileRows})
           all == DrawnRows(pvTiles, first, count)[count]
       IN pvTiles' = all.tiles /\ pvDrawn' = <<all.drawn>>
    /\ UNCHANGED <<pvDocument, pvShown, pvView>>

PreviewNext == CommitElsewhere \/ ResizeArea \/ ScrollView \/ ZoomView \/ TakeRevision \/ DrawTiles

PreviewSpec == PreviewInit /\ [][PreviewNext]_pvVars

-----------------------------------------------------------------------------
PreviewTypeOK ==
    /\ pvShown.size \in PictureSizes /\ pvDocument.size \in PictureSizes
    /\ pvShown.revision \in 1 .. pvDocument.revision
    /\ <<pvView.vw, pvView.vh>> \in WindowSizes
    /\ pvView.scale \in LeastScale .. MostScale

(* The view is never scrolled past the picture and its margin, and both    *)
(* ends of the picture can be scrolled to.                                 *)
ViewInside ==
    LET size == pvShown.size
        limits == ViewLimits
    IN
    /\ pvView.x \in 0 .. limits.x /\ pvView.y \in 0 .. limits.y
    /\ pvView.y = 0 => VisibleTop(size, pvView) = 0
    /\ pvView.y = limits.y => VisibleBottom(size, pvView) = size[2]

(* Where a row of the picture stands on the screen, by the origin. *)
RowShows(row) ==
    LET top == ScaleUnit * (ViewPad - pvView.y) + row * pvView.scale
    IN top < ScaleUnit * pvView.vh /\ top + pvView.scale > 0

(* Every row of the picture that is in the window was drawn, and from the  *)
(* picture the viewer has, not from one before it.                         *)
DrawnTrue ==
    pvDrawn # ToDraw =>
        /\ \A tile \in pvDrawn[1] : tile.revision = pvShown.revision
        /\ \A row \in 0 .. pvShown.size[2] - 1 :
            RowShows(row) => \E tile \in pvDrawn[1] : tile.row <= row /\ row < tile.row + TileRows

CacheBounded ==
    /\ TotalBytes(pvTiles) <= CacheLimit
    /\ \A i, j \in DOMAIN pvTiles : pvTiles[i].row = pvTiles[j].row => i = j

(* What the preview shows is the picture it has, all of it can be reached, *)
(* and the cache stays within its bytes, however the user zooms, scrolls   *)
(* and resizes while the picture is edited elsewhere (preview.rs).         *)
PreviewSound == ViewInside /\ DrawnTrue /\ CacheBounded
=============================================================================
