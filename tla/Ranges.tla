------------------------------- MODULE Ranges -------------------------------
(***************************************************************************)
(* lib/adt/range.c with lib/align.c, lib/math.c and lib/util.c: ranges of  *)
(* locations in unsigned integers of a fixed width, where every sum may    *)
(* overflow.  A function that fails returns Fails or NoRange.              *)
(***************************************************************************)
EXTENDS Naturals, Integers

CONSTANTS
    MAXU,       \* the largest unsigned integer
    RgEnds      \* bound: the fronts and sizes of the ranges asked about

VARIABLE rg         \* two ranges and a number, and what the functions say of them

Fails == -1         \* of a number

NoRange == [front |-> Fails, size |-> Fails]

RANGE_INIT(front, size) == [front |-> front, size |-> size]

RANGE_EMPTY == RANGE_INIT(0, 0)

check_add(a, b) == IF a + b > MAXU THEN Fails ELSE a + b

check_mul(a, b) == IF a * b > MAXU THEN Fails ELSE a * b

\* `boundary` is a power of two.
has_align(n, boundary) == n % boundary = 0

align_down(n, boundary) == n - (n % boundary)

align_up(n, boundary) ==
    IF check_add(n, boundary - 1) = Fails THEN Fails ELSE align_down(n + boundary - 1, boundary)

\* lib/math.c: zero is left where it is.
round_up(n, mult) ==
    IF n = 0 THEN 0
    ELSE IF check_add(n, mult - 1) = Fails THEN Fails ELSE ((n + mult - 1) \div mult) * mult

index_in_bounds(index, bounds) == index < bounds

range_has_index(r, index) == index_in_bounds(index, r.size)

range_has_loc(r, loc) == loc >= r.front /\ loc - r.front < r.size

range_has_end(r, end) == end > r.front /\ end - r.front <= r.size

range_get_end(r) == check_add(r.front, r.size)

range_overflows(r) == range_get_end(r) = Fails

range_is_loc_above(r, loc) == loc >= r.front /\ loc - r.front >= r.size

range_is_loc_below(r, loc) == loc < r.front

range_above(r, above) == range_is_loc_above(r, above.front)

range_below(r, below) == range_is_loc_below(r, below.front)

range_has_align(r, align) == has_align(r.front, align) /\ has_align(r.size, align)

index_range_in_bounds(r, bounds) ==
    /\ range_get_end(r) # Fails
    /\ range_get_end(r) # 0
    /\ range_get_end(r) <= bounds

range_from_loc(r, loc) == RANGE_INIT(loc, r.size - (loc - r.front))

range_from_index(r, index) == RANGE_INIT(r.front + index, r.size - index)

subrange_to_full(r, index) == RANGE_INIT(r.front + index.front, index.size)

range_has(r, other) ==
    /\ range_has_loc(r, other.front)
    /\ r.size - (other.front - r.front) >= other.size

range_has_index_range(r, other) ==
    /\ range_has_index(r, other.front)
    /\ r.size - other.front >= other.size

MutOverlaps(r, other) == range_has_loc(r, other.front)

range_overlaps(r, other) == range_has_loc(r, other.front) \/ range_has_loc(other, r.front)

range_multiply(r, mult) ==
    IF check_mul(r.front, mult) = Fails \/ check_mul(r.size, mult) = Fails
    THEN NoRange ELSE RANGE_INIT(r.front * mult, r.size * mult)

range_align_in(r, boundary) ==
    LET front == align_up(r.front, boundary) IN
    IF front = Fails THEN RANGE_EMPTY
    ELSE IF front - r.front >= r.size THEN RANGE_EMPTY
    ELSE RANGE_INIT(front, align_down(r.size, boundary))

range_align_out(r, boundary) ==
    LET size == align_up(r.size, boundary) IN
    IF size = Fails THEN NoRange ELSE RANGE_INIT(align_down(r.front, boundary), size)

range_round_up(r, mult) ==
    LET front == round_up(r.front, mult)
        size == round_up(r.size, mult)
    IN  IF front = Fails \/ size = Fails THEN NoRange ELSE RANGE_INIT(front, size)

range_round_up_subrange(r, mult) ==
    LET front == round_up(r.front, mult) IN
    IF front = Fails THEN NoRange
    ELSE IF front - r.front >= r.size THEN NoRange
    ELSE RANGE_INIT(front, r.size - (front - r.front))

(***************************************************************************)
(* A caller asks the functions about two ranges and a power of two.        *)
(***************************************************************************)
RgRanges == [front : RgEnds, size : RgEnds]

RgStart == {[r |-> RANGE_EMPTY, s |-> RANGE_EMPTY, n |-> 1, said |-> <<>>]}

RgInit == rg \in RgStart

RgCall ==
    /\ rg.said = <<>>
    /\ \E r \in RgRanges, s \in RgRanges, n \in {1, 2, 4} :
         rg' = [r |-> r, s |-> s, n |-> n, said |->
                 [overlaps |-> range_overlaps(r, s),
                  has      |-> range_has(r, s),
                  within   |-> range_has_index_range(r, s),
                  above    |-> range_above(r, s),
                  out      |-> range_align_out(r, n),
                  sub      |-> range_round_up_subrange(r, n),
                  times    |-> range_multiply(r, n)]]

RgNext == RgCall

(***************************************************************************)
(* Properties.                                                             *)
(***************************************************************************)
Locs(r) == {i \in r.front..(r.front + r.size - 1) : i <= MAXU}

\* For ranges that do not overflow and hold something, the comparisons that are
\* written without the sums (which could overflow) say what the sets of locations
\* say; a range cut to begin at a multiple keeps the rest of its locations; and
\* range_align_out covers a range whose front is aligned.
RangeExact ==
    (rg.said # <<>> /\ rg.r.size # 0 /\ rg.s.size # 0 /\ ~range_overflows(rg.r)) =>
        LET said == rg.said
            fits == ~range_overflows(rg.s)
        IN  /\ fits => (said.overlaps <=> Locs(rg.r) \cap Locs(rg.s) # {})
            /\ fits => (said.has <=> Locs(rg.s) \subseteq Locs(rg.r))
            /\ fits => (said.within <=> Locs(rg.s) \subseteq 0..(rg.r.size - 1))
            /\ fits => (said.above <=> \A i \in Locs(rg.r), j \in Locs(rg.s) : i < j)
            /\ said.sub # NoRange =>
                  /\ Locs(said.sub) = {i \in Locs(rg.r) : i >= said.sub.front}
                  /\ said.sub.front % rg.n = 0
                  /\ \A i \in Locs(rg.r) : i < said.sub.front => i % rg.n # 0
            /\ said.out # NoRange /\ has_align(rg.r.front, rg.n) =>
                  /\ Locs(rg.r) \subseteq Locs(said.out)
                  /\ has_align(said.out.size, rg.n)
            /\ said.times # NoRange /\ ~range_overflows(said.times) =>
                  \A i \in Locs(rg.r) : i * rg.n \in Locs(said.times)
=============================================================================
