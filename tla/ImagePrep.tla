------------------------------ MODULE ImagePrep ------------------------------
(***************************************************************************)
(* The preparation of a picture for recognition, as far as it is integer   *)
(* arithmetic (prep.rs): extremes over a sliding window with a queue, the  *)
(* morphological closing made of them, the threshold of Otsu from running  *)
(* sums, and quantiles of a histogram.  Each is computed as the code does, *)
(* in one step, and compared with what it stands for.                      *)
(***************************************************************************)
EXTENDS Integers, Sequences, FiniteSetsExt

CONSTANTS MaxLevel,       \* the lightest grey, 255 in the source
          MaxColumns,     \* rows to filter have up to so many columns
          MaxHalf,        \* half a window
          ImageSide,      \* pictures to close are squares
          Shades,         \* of these greys
          KernelSizes,
          MaxCount        \* pixels of one grey in a histogram

ASSUME PrepAssumption ==
    /\ {MaxLevel, MaxColumns, MaxHalf, ImageSide, MaxCount} \subseteq Nat
    /\ Shades \subseteq 0 .. MaxLevel /\ KernelSizes \subseteq Nat

VARIABLES prInput, prResult

prVars == <<prInput, prResult>>

Levels == 0 .. MaxLevel
NoGrey == -1
Images == [1 .. ImageSide -> [1 .. ImageSide -> Shades]]

PrepInit ==
    /\ prResult = <<>>
    /\ \/ \E n \in 1 .. MaxColumns : \E row \in [1 .. n -> Levels], half \in 0 .. MaxHalf, maximum \in BOOLEAN :
            prInput = [what |-> "row", row |-> row, half |-> half, maximum |-> maximum]
       \/ \E image \in Images, size \in KernelSizes :
            prInput = [what |-> "close", image |-> image, size |-> size]
       \/ \E counts \in [Levels -> 0 .. MaxCount] : prInput = [what |-> "otsu", counts |-> counts]
       \/ \E counts \in [Levels -> 0 .. MaxCount], cut \in 0 .. MaxCount, high \in BOOLEAN :
            prInput = [what |-> "quantile", counts |-> counts, cut |-> cut, high |-> high]

-----------------------------------------------------------------------------
(* row_extremes: a queue of columns whose values only get worse.           *)

AtLeastAsGood(a, b, maximum) == IF maximum THEN a >= b ELSE a <= b

(* Mutation: what the new column outdoes stays in the queue. *)
EnterOnly(queue, row, column, maximum) == Append(queue, column)

(* Columns leave at the back until one is as good as the new one. *)
Enter(queue, row, column, maximum) ==
    LET good == {i \in DOMAIN queue : AtLeastAsGood(row[queue[i]], row[column], maximum)}
    IN Append(SubSeq(queue, 1, Max(good \union {0})), column)

(* Columns leave at the front until one is in the window. *)
Evict(queue, centre, half) ==
    LET inside == {i \in DOMAIN queue : queue[i] >= centre - half}
    IN SubSeq(queue, Min(inside \union {Len(queue) + 1}), Len(queue))

(* The columns enter one by one; once half a window has entered, a column  *)
(* of the result leaves.                                                   *)
SlideOn(state, row, x, half, maximum) ==
    LET entered == Enter(state.queue, row, x, maximum)
        kept == Evict(entered, x - half, half)
    IN IF x > half
       THEN [queue |-> kept, out |-> Append(state.out, row[Head(kept)])]
       ELSE [queue |-> entered, out |-> state.out]

Slide(row, half, maximum) ==
    LET slid[x \in 0 .. Len(row)] ==
            IF x = 0 THEN [queue |-> <<>>, out |-> <<>>] ELSE SlideOn(slid[x - 1], row, x, half, maximum)
    IN slid[Len(row)]

(* The last columns, whose window the edge cuts off. *)
RowExtremes(row, half, maximum) ==
    LET slid == Slide(row, half, maximum)
    IN [x \in DOMAIN row |->
            IF x <= Len(slid.out) THEN slid.out[x]
            ELSE LET kept == Evict(slid.queue, x, half)
                 IN IF kept = <<>> THEN row[x] ELSE row[Head(kept)]]

(* ellipse_offsets: to either side the square root, rounded, of what the   *)
(* height leaves.                                                          *)
HalfChord(size, dy) ==
    LET r == size \div 2
        left == r * r - dy * dy
    IN CHOOSE d \in 0 .. r : 4 * left < (2 * d + 1) * (2 * d + 1) /\ (d = 0 \/ (2 * d - 1) * (2 * d - 1) <= 4 * left)

(* morph: the rows first, then from row to row; beyond the picture nothing *)
(* counts.                                                                 *)
Morph(image, size, maximum) ==
    LET r == size \div 2
        rows == [dy \in -r .. r |-> [y \in DOMAIN image |-> RowExtremes(image[y], HalfChord(size, dy), maximum)]]
    IN [y \in DOMAIN image |-> [x \in DOMAIN image[y] |->
            LET values == {rows[dy][y + dy][x] : dy \in {dy \in -r .. r : y + dy \in DOMAIN image}}
            IN IF maximum THEN Max(values) ELSE Min(values)]]

Close(image, size) == Morph(Morph(image, size, TRUE), size, FALSE)

-----------------------------------------------------------------------------
(* otsu: the first grey with the largest variance between what is at most  *)
(* as light and what is lighter; variances are fractions.                  *)

Total(weights) ==
    LET sum[n \in 0 .. MaxLevel + 1] == IF n = 0 THEN 0 ELSE sum[n - 1] + weights[n - 1] IN sum[MaxLevel + 1]

Pixels(counts, greys) == Total([grey \in Levels |-> IF grey \in greys THEN counts[grey] ELSE 0])
Light(counts, greys) == Total([grey \in Levels |-> IF grey \in greys THEN grey * counts[grey] ELSE 0])

Visit(state, counts, grey) ==
    LET below == state.below + counts[grey]
        light == state.light + grey * counts[grey]
        above == Pixels(counts, Levels) - below
        spread == light * above - (Light(counts, Levels) - light) * below
        top == spread * spread
        bottom == below * above
    IN IF below # 0 /\ above # 0 /\ (state.bottom = 0 \/ top * state.bottom > state.top * bottom)
       THEN [below |-> below, light |-> light, top |-> top, bottom |-> bottom, best |-> grey]
       ELSE [state EXCEPT !.below = below, !.light = light]

Otsu(counts) ==
    LET visited[n \in 0 .. MaxLevel + 1] ==
            IF n = 0 THEN [below |-> 0, light |-> 0, top |-> 0, bottom |-> 0, best |-> 0]
            ELSE Visit(visited[n - 1], counts, n - 1)
    IN IF Pixels(counts, Levels) = 0 THEN MaxLevel \div 2 ELSE visited[MaxLevel + 1].best

(* quantile_from_histogram: greys are passed while their pixels are cut. *)
Pass(state, counts, grey) ==
    IF state.found # NoGrey THEN state
    ELSE IF counts[grey] > state.left THEN [state EXCEPT !.found = grey]
    ELSE [state EXCEPT !.left = @ - counts[grey]]

Quantile(counts, cut, high) ==
    LET passed[n \in 0 .. MaxLevel + 1] ==
            IF n = 0 THEN [left |-> cut, found |-> NoGrey]
            ELSE Pass(passed[n - 1], counts, IF high THEN MaxLevel + 1 - n ELSE n - 1)
    IN passed[MaxLevel + 1].found

Prepare ==
    /\ prResult = <<>>
    /\ \/ prInput.what = "row" /\ prResult' = <<RowExtremes(prInput.row, prInput.half, prInput.maximum)>>
       \/ prInput.what = "close" /\ prResult' = <<Close(prInput.image, prInput.size)>>
       \/ prInput.what = "otsu" /\ prResult' = <<Otsu(prInput.counts)>>
       \/ prInput.what = "quantile" /\ prResult' = <<Quantile(prInput.counts, prInput.cut, prInput.high)>>
    /\ UNCHANGED prInput

PrepSpec == PrepInit /\ [][Prepare]_prVars

-----------------------------------------------------------------------------
(* The largest or smallest value in the window, by its definition. *)
WindowExtreme(row, centre, half, maximum) ==
    LET values == {row[x] : x \in {x \in DOMAIN row : centre - half <= x /\ x <= centre + half}}
    IN IF maximum THEN Max(values) ELSE Min(values)

(* Twice the variance of two classes, as the square over the product. *)
Above(counts, grey) == {g \in Levels : g > grey}
Below(counts, grey) == {g \in Levels : g <= grey}
Spread(counts, grey) ==
    LET a == Pixels(counts, Below(counts, grey))
        b == Pixels(counts, Above(counts, grey))
        d == Light(counts, Below(counts, grey)) * b - Light(counts, Above(counts, grey)) * a
    IN [top |-> d * d, bottom |-> a * b]
Splits(counts) == {grey \in Levels : Spread(counts, grey).bottom > 0}
SeparatesBetter(a, b) == a.top * b.bottom > b.top * a.bottom

(* An answer, by what was asked for. *)
RowExact(row, half, maximum, out) == \A x \in DOMAIN row : out[x] = WindowExtreme(row, x, half, maximum)

CloseExact(image, size, out) ==
    /\ \A y \in DOMAIN image, x \in DOMAIN image : out[y][x] >= image[y][x]
    /\ Close(out, size) = out

OtsuExact(counts, out) ==
    IF Splits(counts) = {} THEN out = (IF Pixels(counts, Levels) = 0 THEN MaxLevel \div 2 ELSE 0)
    ELSE /\ out \in Splits(counts)
         /\ \A grey \in Splits(counts) :
              /\ ~SeparatesBetter(Spread(counts, grey), Spread(counts, out))
              /\ grey < out => SeparatesBetter(Spread(counts, out), Spread(counts, grey))

FromEnd(high, grey) == {g \in Levels : IF high THEN g >= grey ELSE g <= grey}
QuantileExact(counts, cut, high, out) ==
    LET enough == {grey \in Levels : Pixels(counts, FromEnd(high, grey)) > cut}
    IN out = IF enough = {} THEN NoGrey ELSE IF high THEN Max(enough) ELSE Min(enough)

Exact(in, out) ==
    /\ in.what = "row" => RowExact(in.row, in.half, in.maximum, out)
    /\ in.what = "close" => CloseExact(in.image, in.size, out)
    /\ in.what = "otsu" => OtsuExact(in.counts, out)
    /\ in.what = "quantile" => QuantileExact(in.counts, in.cut, in.high, out)

(* What the queue leaves is the extreme of the window; a closing darkens   *)
(* nothing and closing again changes nothing; the threshold is the first   *)
(* of those that separate best; and a quantile is the first grey at which  *)
(* more pixels than the cut have been passed.                              *)
PrepExact == prResult # <<>> => Exact(prInput, prResult[1])
=============================================================================
