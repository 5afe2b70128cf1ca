------------------------------- MODULE Bitmap -------------------------------
(***************************************************************************)
(* lib/adt/bitmap.c with the bit helpers of lib/bits.c: a buffer of bytes  *)
(* read as bits.  A search walks the buffer in the largest words that still*)
(* fit, then in smaller ones.  Bits are numbered from 0, as in the code.   *)
(***************************************************************************)
EXTENDS Ranges, Sequences
LOCAL INSTANCE SequencesExt
LOCAL INSTANCE FiniteSetsExt

CONSTANTS
    BYTE,       \* bits of a byte
    WORDS,      \* sizes of the word types in bytes, the largest first
    BmSizes     \* sizes of the buffers, in bytes

VARIABLE bm     \* the bits, a function on 0..capacity-1

FIND_BIT_INVALID == -1

bitmap_capacity(b) == IF b = <<>> THEN 0 ELSE Max(DOMAIN b) + 1

InBitmap(b) == 0..(bitmap_capacity(b) - 1)

bitmap_open(bytes) == [i \in 0..(bytes * BYTE - 1) |-> FALSE]

\* The words a search visits from byte `ptr` on.
RECURSIVE WordsFrom(_, _, _)
WordsFrom(bytes, ptr, k) ==
    IF k > Len(WORDS) THEN <<>>
    ELSE IF bytes - ptr >= WORDS[k]
         THEN <<[at |-> ptr * BYTE, len |-> WORDS[k] * BYTE]>> \o WordsFrom(bytes, ptr + WORDS[k], k)
         ELSE WordsFrom(bytes, ptr, k + 1)

WordsOf(b, start) == WordsFrom(bitmap_capacity(b) \div BYTE, start \div BYTE, 1)

\* find_single_unset, find_single_set: the bit, or an index behind the buffer.
find_single(b, start, v) ==
    LET words == WordsOf(b, start)
        hits(i) == {j \in 0..(words[i].len - 1) :
                      (i = 1 => j >= start % BYTE) /\ b[words[i].at + j] = v}
        found == {i \in DOMAIN words : hits(i) # {}}
        none == IF words = <<>> THEN (start \div BYTE) * BYTE
                ELSE bitmap_capacity(b) + (IF v THEN WORDS[1] * BYTE ELSE Last(words).len)
    IN  IF found = {} THEN none ELSE words[Min(found)].at + Min(hits(Min(found)))

\* How many bits from i on, below `end`, have the value v.
RunLength(b, i, end, v) == Min({end} \cup {j \in i..(end - 1) : b[j] # v}) - i

\* Where the ranges of zeroes of a word begin (for_every_lsb_zero_bit_rng).
RangesOfZeros(b, w, from) ==
    {j \in (w.at + from)..(w.at + w.len - 1) : ~b[j] /\ (j = w.at + from \/ b[j - 1])}

MutNoFirstByte(b, range, v) ==
    [i \in InBitmap(b) |->
       IF i >= (range.front \div BYTE) * BYTE /\ i < range.front + range.size THEN v ELSE b[i]]

\* The first byte up to its end, then whole bytes, then the rest.
bitmap_set_range(b, range, v) ==
    LET first == range.front % BYTE
        ptr == range.front - first
        n1 == IF first = 0 THEN 0 ELSE Min({range.size, BYTE - first})
        next == IF first = 0 THEN ptr ELSE ptr + BYTE
        left == range.size - n1
    IN  [i \in InBitmap(b) |->
           IF i - (ptr + first) \in 0..(n1 - 1) \/ i - next \in 0..(left - 1) THEN v ELSE b[i]]

(***************************************************************************)
(* find_multiple_unset and find_multiple_set: both look for zeroes.  A     *)
(* range that ends its word is carried into the next word, where the first *)
(* continues it with ones and the second with zeroes; `front` and `count`  *)
(* are the carried range, and the range that is inverted begins at the     *)
(* index within the word.  Without a result both return true, which is 1.  *)
(***************************************************************************)
Found(b, at) == [bits |-> b, ret |-> at]

RECURSIVE SearchWords(_, _, _, _, _, _, _)
SearchWords(b, words, start, carry, count, v, invert) ==
    IF words = <<>> THEN Found(b, 1)
    ELSE LET w == Head(words)
             lsb == RunLength(b, w.at, w.at + w.len, ~v)
             Done(from, at) ==
                Found(IF invert THEN bitmap_set_range(b, [front |-> from, size |-> count], ~v) ELSE b, at)
             from == IF carry.count = 0 THEN start ELSE lsb
             size(j) == RunLength(b, j, w.at + w.len, FALSE)
             zeros == RangesOfZeros(b, w, from)
             large == {j \in zeros : size(j) >= count}
             last == {j \in zeros : j + size(j) = w.at + w.len}
             next == [front |-> IF last = {} THEN 0 ELSE Min(last),
                      count |-> IF last = {} THEN 0 ELSE size(Min(last))]
         IN  IF carry.count # 0 /\ carry.count + lsb >= count THEN Done(start, carry.front)
             ELSE IF carry.count # 0 /\ lsb = w.len
                  THEN SearchWords(b, Tail(words), 0, [carry EXCEPT !.count = @ + lsb], count, v, invert)
             ELSE IF large # {} THEN Done(from, Min(large))
             ELSE SearchWords(b, Tail(words), 0, next, count, v, invert)

find_multiple(b, count, start, v, invert) ==
    SearchWords(b, WordsOf(b, start), start % BYTE, [front |-> 0, count |-> 0], count, v, invert)

bitmap_find(b, count, start, v, invert) ==
    IF count # 1 THEN find_multiple(b, count, start, v, invert)
    ELSE LET at == find_single(b, start, v) IN
         Found(IF invert /\ at \in InBitmap(b) THEN [b EXCEPT ![at] = ~v] ELSE b, at)

(***************************************************************************)
(* find_unset_at_mult: ranges are cut to begin at a multiple, unless none  *)
(* lies in them.  The end of a range is compared with the width of a word, *)
(* which only a range of the first word can meet.                          *)
(***************************************************************************)
CutToMult(r, mult) ==
    LET cut == range_round_up_subrange(r, mult) IN IF cut = NoRange THEN r ELSE cut

RECURSIVE SearchAtMult(_, _, _, _, _, _, _)
SearchAtMult(b, words, start, carry, count, mult, set) ==
    IF words = <<>> THEN Found(b, FIND_BIT_INVALID)
    ELSE LET w == Head(words)
             lsb == RunLength(b, w.at, w.at + w.len, FALSE)
             Done(from, at) ==
                Found(IF set THEN bitmap_set_range(b, [front |-> from, size |-> count], TRUE) ELSE b, at)
             from == IF carry.count = 0 THEN start ELSE lsb
             iter(j) == CutToMult(
                            [front |-> j, size |-> RunLength(b, j, w.at + w.len, FALSE)], mult)
             \* the range the loop stops at: one large enough, or one to be carried
             stop == {j \in RangesOfZeros(b, w, from) :
                        iter(j).size >= count \/ iter(j).front + iter(j).size = w.len}
             it == iter(Min(stop))
         IN  IF carry.count # 0 /\ carry.count + lsb >= count THEN Done(start, carry.front)
             ELSE IF carry.count # 0 /\ lsb = w.len
                  THEN SearchAtMult(b, Tail(words), 0, [carry EXCEPT !.count = @ + lsb], count, mult, set)
             ELSE IF stop = {} THEN SearchAtMult(b, Tail(words), 0, [front |-> 0, count |-> 0], count, mult, set)
             ELSE IF it.size >= count THEN Done(it.front, it.front)
             ELSE SearchAtMult(b, Tail(words), 0, [front |-> w.at + it.front, count |-> it.size], count, mult, set)

\* find_set_at_mult looks at an empty range wherever it looks, and finds nothing.
find_set_at_mult(b) == Found(b, FIND_BIT_INVALID)

bitmap_find_at_mult(b, count, mult, start, v, invert) ==
    IF v THEN find_set_at_mult(b)
    ELSE LET s == round_up(start, mult) IN
         SearchAtMult(b, WordsOf(b, s), s % BYTE, [front |-> 0, count |-> 0], count, mult, invert)

(***************************************************************************)
(* Reading and writing.                                                    *)
(***************************************************************************)
bitmap_at(b, index) == b[index]

\* bitmap_has: the words are compared from one pointer, which does not move, and
\* so is the last byte.
RECURSIVE WordsAre(_, _, _, _, _)
WordsAre(b, at, count, k, v) ==
    IF count = 0 THEN TRUE
    ELSE IF k > Len(WORDS) THEN \A i \in at..(at + count - 1) : b[i] = v
    ELSE LET n == (((count \div BYTE) \div WORDS[k]) % 256) * WORDS[k] * BYTE IN
         (\A i \in at..(at + n - 1) : b[i] = v) /\ WordsAre(b, at, count - n, k + 1, v)

bitmap_has(b, range, v) ==
    LET first == range.front % BYTE
        n1 == IF first = 0 THEN 0 ELSE Min({range.size, BYTE - first})
        next == IF first = 0 THEN range.front ELSE range.front - first + BYTE
    IN  (\A i \in range.front..(range.front + n1 - 1) : b[i] = v) /\ WordsAre(b, next, range.size - n1, 1, v)

bitmap_set(b, index, v) == [b EXCEPT ![index] = v]

bitmap_set_all(b, v) == [i \in InBitmap(b) |-> v]

(***************************************************************************)
(* A caller: any operation with any bits of the buffer.                    *)
(***************************************************************************)
RangesIn(b) == {r \in [front : InBitmap(b), size : 1..bitmap_capacity(b)] : r.front + r.size <= bitmap_capacity(b)}

BmStart == {bitmap_open(n) : n \in BmSizes}

BmInit == bm \in BmStart

BmSet == \E i \in InBitmap(bm), v \in BOOLEAN : bm' = bitmap_set(bm, i, v)

BmSetRange == \E r \in RangesIn(bm), v \in BOOLEAN : bm' = bitmap_set_range(bm, r, v)

BmSetAll == \E v \in BOOLEAN : bm' = bitmap_set_all(bm, v)

BmFind ==
    \E count \in 1..bitmap_capacity(bm), start \in InBitmap(bm), v \in BOOLEAN :
        bm' = bitmap_find(bm, count, start, v, TRUE).bits

BmFindAtMult ==
    \E count \in 1..bitmap_capacity(bm), mult \in 1..(BYTE + 1), start \in InBitmap(bm), v \in BOOLEAN :
        bm' = bitmap_find_at_mult(bm, count, mult, start, v, TRUE).bits

BmNext == BmSet \/ BmSetRange \/ BmSetAll \/ BmFind \/ BmFindAtMult

(***************************************************************************)
(* Properties.                                                             *)
(***************************************************************************)
FirstAt(b, start, v) == {i \in start..(bitmap_capacity(b) - 1) : b[i] = v /\ \A j \in start..(i - 1) : b[j] # v}

AllAre(b, r, v) == \A i \in r.front..(r.front + r.size - 1) : b[i] = v

\* Through the splitting into a first byte, whole bytes or words and a rest: a range
\* is set exactly; bitmap_has accepts every range that has the value and, up to the
\* size of a byte, only those; bitmap_find finds the first single bit, or returns an
\* index behind the buffer; and where find_unset_at_mult, searching from the
\* beginning, finds an index, that many zeroes begin there.
BitmapExact ==
    /\ \A r \in RangesIn(bm), v \in BOOLEAN :
         /\ bitmap_set_range(bm, r, v) =
              [i \in InBitmap(bm) |-> IF i \in r.front..(r.front + r.size - 1) THEN v ELSE bm[i]]
         /\ AllAre(bm, r, v) => bitmap_has(bm, r, v)
         /\ bitmap_has(bm, r, v) /\ r.size <= BYTE => AllAre(bm, r, v)
    /\ \A start \in InBitmap(bm), v \in BOOLEAN :
         LET at == bitmap_find(bm, 1, start, v, FALSE).ret IN
         IF FirstAt(bm, start, v) = {} THEN at >= bitmap_capacity(bm) ELSE at \in FirstAt(bm, start, v)
    /\ \A count \in 1..bitmap_capacity(bm), mult \in 1..(BYTE + 1) :
         LET at == bitmap_find_at_mult(bm, count, mult, 0, FALSE, FALSE).ret IN
         at # FIND_BIT_INVALID =>
            at + count <= bitmap_capacity(bm) /\ AllAre(bm, [front |-> at, size |-> count], FALSE)
=============================================================================
