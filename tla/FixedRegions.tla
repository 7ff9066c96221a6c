---------------------------- MODULE FixedRegions ----------------------------
(***************************************************************************)
(* How the stitcher learns which edges of the view do not scroll           *)
(* (vellum-stitch/src/fixed_regions.rs): headers, footers and side bars.   *)
(* Matching ignores what it reports and the picture has it only once, so   *)
(* content taken for such a band is lost from the picture.  A transition   *)
(* is the rows and the sampled columns that did not change in it.          *)
(***************************************************************************)
EXTENDS Integers, Sequences, SequencesExt, FiniteSetsExt

CONSTANTS FixedRows, FixedColumns,   \* rows of the view, sampled columns
          Transitions,               \* [rows, columns], what a transition may leave unchanged
          WindowLen, ReadyAfter,     \* WINDOW, READY_AFTER
          ConsensusPercent,          \* CONSENSUS
          MostPercent,               \* MAX_BAND_FRACTION
          LeastRows, LeastColumns,   \* the thinnest bands
          PixelWidth                 \* of the picture

ASSUME FixedAssumption ==
    /\ {FixedRows, FixedColumns, WindowLen, ReadyAfter, LeastRows, LeastColumns, PixelWidth} \subseteq Nat \ {0}
    /\ {ConsensusPercent, MostPercent} \subseteq 1 .. 100 /\ ReadyAfter <= WindowLen
    /\ Transitions \subseteq [rows : SUBSET (1 .. FixedRows), columns : SUBSET (1 .. FixedColumns)]
    /\ (100 - ConsensusPercent) * WindowLen < 200   \* 20 * 6: two that disagree are too many
    /\ 2 * MostPercent < 100

VARIABLE frWindow    \* the transitions kept, the oldest first

frVars == <<frWindow>>

FixedInit == frWindow = <<>>

Ready == Len(frWindow) >= ReadyAfter

(* observe, push_bounded *)
ObserveTransition ==
    \E transition \in Transitions :
        frWindow' = Append(IF Len(frWindow) = WindowLen THEN Tail(frWindow) ELSE frWindow, transition)

FixedNext == ObserveTransition

FixedSpec == FixedInit /\ [][FixedNext]_frVars

-----------------------------------------------------------------------------
Unchanged(axis, index) == Cardinality({i \in DOMAIN frWindow : index \in frWindow[i][axis]})

(* consensus *)
Agreed(axis, length) ==
    {index \in 1 .. length : 100 * Unchanged(axis, index) >= ConsensusPercent * Len(frWindow)}

(* leading_count, from either end *)
LeadingRun(agreed, length) == Max({n \in 0 .. length : 1 .. n \subseteq agreed})
TrailingRun(agreed, length) == Max({n \in 0 .. length : length - n + 1 .. length \subseteq agreed})

MostBand(least, length) == Max({least, (MostPercent * length) \div 100})

(* Mutation: a band of any height counts. *)
AsBandAny(run, least, length) == IF run >= least THEN run ELSE 0

(* edge_mask: no band that is too thin, none that is too large, and not    *)
(* bands that together are everything.                                     *)
AsBand(run, least, length) == IF least <= run /\ run <= MostBand(least, length) THEN run ELSE 0

EdgeBands(axis, least, length) ==
    LET agreed == Agreed(axis, length)
        head == AsBand(LeadingRun(agreed, length), least, length)
        tail == AsBand(TrailingRun(agreed, length), least, length)
    IN IF ~Ready \/ head + tail >= length THEN <<0, 0>> ELSE <<head, tail>>

(* sample_boundary: halfway between the last fixed sample and the next. *)
SampleBoundary(count) ==
    LET at(i) == (i * (PixelWidth - 1)) \div Max({FixedColumns - 1, 1})
    IN IF count = 0 THEN 0 ELSE IF count >= FixedColumns THEN PixelWidth
       ELSE (at(count - 1) + at(count) + 1) \div 2

(* bands *)
Bands ==
    LET rows == EdgeBands("rows", LeastRows, FixedRows)
        columns == EdgeBands("columns", LeastColumns, FixedColumns)
    IN [top |-> rows[1], bottom |-> rows[2],
        left |-> SampleBoundary(columns[1]), right |-> SampleBoundary(columns[2])]

-----------------------------------------------------------------------------
FixedTypeOK == frWindow \in Seq(Transitions) /\ Len(frWindow) <= WindowLen

BandRows == LET bands == Bands IN (1 .. bands.top) \union (FixedRows - bands.bottom + 1 .. FixedRows)
TimesMoved(row) == Cardinality({i \in DOMAIN frWindow : row \notin frWindow[i].rows})

(* A row that scrolled in two of the transitions kept is in no band, even  *)
(* if the user paused or the page was blank in the others; and what is     *)
(* left between the bands is never nothing, in rows and in pixels.         *)
ContentKept ==
    LET bands == Bands IN
    /\ \A row \in BandRows : TimesMoved(row) < 2
    /\ bands.top + bands.bottom < FixedRows
    /\ bands.left + bands.right < PixelWidth

(* A header that never moved while all that follows it scrolled at least   *)
(* twice is a band, at its height, if it is no thinner and no higher than  *)
(* a band may be; and one that is more than that is none at all.  (A view  *)
(* of no more than two of the thinnest bands may be all header and footer: *)
(* then it has none.)                                                      *)
Header(n) == /\ \A row \in 1 .. n : TimesMoved(row) = 0
             /\ n < FixedRows => TimesMoved(n + 1) >= 2
HeadersFound ==
    Ready /\ 2 * LeastRows < FixedRows => \A n \in 1 .. FixedRows :
        Header(n) =>
            Bands.top = IF n \in LeastRows .. MostBand(LeastRows, FixedRows) THEN n ELSE 0

(* ContentKept and HeadersFound, whatever the transitions were. *)
BandsSound == ContentKept /\ HeadersFound
=============================================================================
