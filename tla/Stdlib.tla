------------------------------- MODULE Stdlib -------------------------------
(***************************************************************************)
(* kernel/stdlib.c, lib/memory.c, lib/string.c and lib/adt/string_view.c:  *)
(* memory is copied, filled and compared in the widest words that fit and  *)
(* then in narrower ones, or by a string instruction of x86-64.            *)
(*                                                                         *)
(* Memory is a function from addresses to bytes.  For copying every        *)
(* address holds its own number, so that a byte tells where it came from.  *)
(* A string is a sequence of characters with "" for the NUL behind it.     *)
(***************************************************************************)
EXTENDS Integers, Sequences
LOCAL INSTANCE SequencesExt
LOCAL INSTANCE FiniteSetsExt

CONSTANTS
    REP_MIN,        \* from so many bytes on x86-64 uses a string instruction
    CBO_SIZE,       \* bytes that RISC-V clears at once
    StdMax,         \* bytes copied, filled or compared at most
    StdChars,       \* characters of strings
    StdLength       \* characters of a string at most

VARIABLE std

Arch == {"x86_64", "aarch64", "riscv64"}

Address == 0..(4 * StdMax)

ZERO == -1

(***************************************************************************)
(* Copying.  A cursor c holds memory, dst, src and what is left of n.      *)
(***************************************************************************)
Word(c, w, off) == [c EXCEPT !.mem = [a \in Address |-> IF a \in (c.dst + off)..(c.dst + off + w - 1) THEN @[a - c.dst + c.src] ELSE @[a]]]

RECURSIVE CopyWords(_, _)
CopyWords(c, w) ==
    IF c.n < w THEN c
    ELSE LET d == Word(c, w, 0) IN CopyWords([d EXCEPT !.dst = @ + w, !.src = @ + w, !.n = @ - w], w)

RECURSIVE CopyBack(_, _)
CopyBack(c, w) == IF c.n < w THEN c ELSE CopyBack([Word(c, w, c.n - w) EXCEPT !.n = @ - w], w)

\* The words of the widths given, from the widest to the narrowest.
Copy(c, widths) == FoldLeft(LAMBDA d, w : CopyWords(d, w), c, widths)

CopyDown(c, widths) == FoldLeft(LAMBDA d, w : CopyBack(d, w), c, widths)

\* rep movsb, upwards or (std) downwards from where dst and src point.
RepMovsb(c, step) ==
    FoldLeft(LAMBDA d, i : [d EXCEPT !.mem[c.dst + step * i] = d.mem[c.src + step * i]], c, [i \in 1..c.n |-> i - 1])

WidthsUpTo(n) == SelectSeq(<<8, 4, 2, 1>>, LAMBDA w : w <= n)

\* The return value is dst, or for two bytes what is behind them.
memcpy(arch, c) ==
    IF arch = "x86_64" /\ c.n >= REP_MIN THEN [mem |-> RepMovsb(c, 1).mem, ret |-> c.dst]
    ELSE [mem |-> Copy(c, WidthsUpTo(c.n)).mem, ret |-> IF c.n = 2 THEN c.dst + 2 ELSE c.dst]

\* Words no wider than the distance may be moved one after the other.
MoveWidths(diff) == WidthsUpTo(diff)

MutMemcpy(arch, c) == memcpy(arch, c)

\* To lower addresses x86-64 moves long runs downwards from their first byte.
memmove(arch, c) ==
    LET rep == arch = "x86_64" /\ c.n >= REP_MIN
        moved == CASE c.src > c.dst /\ rep -> RepMovsb(c, -1)
                   [] c.src > c.dst /\ ~rep /\ c.src - c.dst >= 8 -> [c EXCEPT !.mem = memcpy(arch, c).mem]
                   [] c.src > c.dst /\ ~rep /\ c.src - c.dst < 8 -> Copy(c, MoveWidths(c.src - c.dst))
                   [] c.src <= c.dst /\ rep -> RepMovsb([c EXCEPT !.dst = @ + c.n - 1, !.src = @ + c.n - 1], -1)
                   [] OTHER -> CopyDown(c, MoveWidths(c.dst - c.src))
    IN  [mem |-> moved.mem, ret |-> c.dst]

(***************************************************************************)
(* Filling.                                                                *)
(***************************************************************************)
RECURSIVE FillWords(_, _, _)
FillWords(c, w, v) ==
    IF c.n < w THEN c
    ELSE FillWords([c EXCEPT !.mem = [a \in Address |-> IF a \in c.dst..(c.dst + w - 1) THEN v ELSE @[a]], !.dst = @ + w, !.n = @ - w], w, v)

Fill(c, widths, v) == FoldLeft(LAMBDA d, w : FillWords(d, w, v), c, widths)

RepStosb(c, v) == FillWords(c, 1, v)

memset(arch, c, v) ==
    (IF arch = "x86_64" THEN RepStosb(c, v) ELSE Fill(c, IF c.n >= 8 THEN <<8, 4, 2, 1>> ELSE <<1>>, v)).mem

bzero(arch, c) ==
    (IF arch = "x86_64" /\ c.n >= REP_MIN THEN RepStosb(c, ZERO)
     ELSE LET first == CASE arch = "aarch64" -> <<16>>
                         [] arch = "riscv64" /\ c.dst % CBO_SIZE = 0 -> <<CBO_SIZE>>
                         [] OTHER -> <<>>
          IN  Fill(c, first \o <<8, 4, 2, 1>>, ZERO)).mem

memset_all_ones(arch, c, v) ==
    (IF arch = "x86_64" /\ c.n >= REP_MIN THEN RepStosb(c, v)
     ELSE Fill(c, IF arch = "aarch64" THEN <<16, 8, 4, 2, 1>> ELSE <<8, 4, 2, 1>>, v)).mem

memset_16(arch, c, v) == FillWords(c, 2, v).mem

\* Two at a time on AArch64, then the one that is left.
memset_32(arch, c, v) == Fill(c, IF arch = "aarch64" THEN <<8, 4>> ELSE <<4>>, v).mem

memset_64(arch, c, v) == Fill(c, IF arch = "aarch64" THEN <<16, 8>> ELSE <<8>>, v).mem

(***************************************************************************)
(* Comparing.  The buffers differ where `differ` says.  Words of eight     *)
(* bytes are subtracted and the difference cut to an int, which is zero    *)
(* when the four lower bytes agree; the pointers then stay where they      *)
(* were, and words of four bytes begin there.                              *)
(***************************************************************************)
RECURSIVE MemcmpFrom(_, _, _, _)
MemcmpFrom(differ, at, n, w) ==
    IF n < w THEN [res |-> FALSE, at |-> at, n |-> n, same |-> TRUE]
    ELSE IF differ \cap at..(at + w - 1) = {} THEN MemcmpFrom(differ, at + w, n - w, w)
    ELSE [res |-> differ \cap at..(at + Min({w, 4}) - 1) # {}, at |-> at, n |-> n, same |-> FALSE]

MemcmpWords(differ, at, n, w) ==
    LET r == MemcmpFrom(differ, at, n, w) IN IF r.same THEN r ELSE [r EXCEPT !.at = at, !.n = n]

\* Whether memcmp() says that the buffers differ.
memcmp(differ, n) ==
    FoldLeft(LAMBDA r, w : IF r.res THEN r ELSE MemcmpWords(differ, r.at, r.n, w),
             [res |-> FALSE, at |-> 0, n |-> n, same |-> TRUE], <<8, 4, 2, 1>>).res

RECURSIVE membuf_is_all(_, _, _)
membuf_is_all(differ, at, n) == n = 0 \/ (at \notin differ /\ membuf_is_all(differ, at + 1, n - 1))

\* The index of the first character ch from i on, or 0.
RECURSIVE memchr(_, _, _)
memchr(s, ch, i) == IF i > Len(s) THEN 0 ELSE IF s[i] = ch THEN i ELSE memchr(s, ch, i + 1)

(***************************************************************************)
(* Strings.                                                                *)
(***************************************************************************)
At(s, i) == IF i > Len(s) THEN "" ELSE s[i]

RECURSIVE strnlen(_, _)
strnlen(s, limit) == IF limit = 0 \/ s = <<>> THEN 0 ELSE 1 + strnlen(Tail(s), limit - 1)

RECURSIVE strlen(_)
strlen(s) == IF s = <<>> THEN 0 ELSE 1 + strlen(Tail(s))

\* Both walk to the end of the shorter string, whatever they meet, and compare what
\* they find there: whether they say that the strings differ.
strcmp(s, t) == LET i == Min({Len(s), Len(t)}) + 1 IN At(s, i) # At(t, i)

strncmp(s, t, n) == LET i == Min({Len(s), Len(t), n}) + 1 IN At(s, i) # At(t, i)

\* Neither finds the NUL.
RECURSIVE strchr(_, _, _)
strchr(s, ch, i) == IF At(s, i) = "" THEN 0 ELSE IF s[i] = ch THEN i ELSE strchr(s, ch, i + 1)

RECURSIVE strrchr(_, _, _, _)
strrchr(s, ch, i, result) == IF At(s, i) = "" THEN result ELSE strrchr(s, ch, i + 1, IF s[i] = ch THEN i ELSE result)

\* A view of the first n characters of a string.
sv_compare_c_str(s, n, t) == strncmp(s, t, n)

sv_compare(s, n, t, m) ==
    CASE n > m -> IF m = 0 THEN At(s, 1) # "" ELSE strncmp(s, t, m)
      [] n < m -> IF n = 0 THEN At(t, 1) # "" ELSE strncmp(s, t, n)
      [] OTHER -> n # 0 /\ strncmp(s, t, n)

(***************************************************************************)
(* Callers.                                                                *)
(***************************************************************************)
Source == 2 * StdMax

Cursor(dst, n) == [mem |-> [a \in Address |-> a], dst |-> dst, src |-> Source, n |-> n]

StdStart == {[op |-> "none"]}

StdInit == std \in StdStart

Places == (Source - StdMax)..(Source + StdMax)

Said(op, arch, c, mem, ret) == std' = [op |-> op, arch |-> arch, c |-> c, mem |-> mem, ret |-> ret]

CallCopy ==
    /\ std.op = "none"
    /\ \E arch \in Arch, dst \in Places, n \in 0..StdMax :
         LET c == Cursor(dst, n) IN
         \/ Said("memmove", arch, c, memmove(arch, c).mem, memmove(arch, c).ret)
         \/ /\ dst + n <= Source \/ Source + n <= dst
            /\ Said("memcpy", arch, c, memcpy(arch, c).mem, memcpy(arch, c).ret)

CallFill ==
    /\ std.op = "none"
    /\ \E arch \in Arch, dst \in Source..(Source + 1), n \in 0..StdMax :
         LET c == Cursor(dst, n) IN
         \E mem \in {memset(arch, c, ZERO), bzero(arch, c), memset_all_ones(arch, c, ZERO)}
                    \cup (IF n % 8 = 0 THEN {memset_16(arch, c, ZERO), memset_32(arch, c, ZERO), memset_64(arch, c, ZERO)} ELSE {}) :
           Said("fill", arch, c, mem, dst)

CallMemcmp ==
    /\ std.op = "none"
    /\ \E n \in 0..StdMax : \E i, j \in 0..n :
         std' = [op |-> "memcmp", differ |-> {i, j} \ {n}, n |-> n,
                 same |-> {~memcmp({i, j} \ {n}, n), membuf_is_all({i, j} \ {n}, 0, n)}]

CallString ==
    /\ std.op = "none"
    /\ \E s, t \in SeqOf(StdChars, StdLength) : \E n \in 0..(StdLength + 1) :
         std' = [op |-> "string", s |-> s, t |-> t, n |-> n]

StdNext == CallCopy \/ CallFill \/ CallMemcmp \/ CallString

(***************************************************************************)
(* Properties.                                                             *)
(***************************************************************************)
Filled(c, v) == [a \in Address |-> IF a \in c.dst..(c.dst + c.n - 1) THEN v ELSE a]

Copied(c) == [a \in Address |-> IF a \in c.dst..(c.dst + c.n - 1) THEN a - c.dst + c.src ELSE a]

WrongWay == std.op = "memmove" /\ std.arch = "x86_64" /\ std.c.dst < std.c.src /\ std.c.n >= REP_MIN

Occurs(s, ch) == {i \in DOMAIN s : s[i] = ch}

\* However long the run and however it overlaps: memmove gives every byte of the
\* destination the byte its source held before the call, and changes no other, on
\* every architecture except for long runs to lower addresses on x86-64 (WrongWay);
\* memcpy does so for runs apart; the fills reach exactly their bytes; memcmp finds
\* a difference exactly when there is one, although it cuts the difference of two
\* words; the lengths and searches of strings are right; but strcmp tells only
\* strings of different lengths apart, and strncmp and the views only those that
\* differ behind the shorter one or behind the length given.
StdlibExact ==
    /\ std.op \in {"memmove", "memcpy"} /\ ~WrongWay =>
         std.mem = Copied(std.c) /\ (std.ret = std.c.dst \/ (std.op = "memcpy" /\ std.c.n = 2))
    /\ std.op = "fill" => std.mem = Filled(std.c, ZERO)
    /\ std.op = "memcmp" => std.same = {std.differ = {}}
    /\ std.op = "string" =>
         LET s == std.s
             t == std.t
             n == std.n
         IN  /\ strlen(s) = Len(s) /\ strnlen(s, n) = Min({Len(s), n})
             /\ \A ch \in StdChars :
                   /\ {memchr(s, ch, 1), strchr(s, ch, 1)} = {Min(Occurs(s, ch) \cup {StdLength + 1}) % (StdLength + 1)}
                   /\ strrchr(s, ch, 1, 0) = Max(Occurs(s, ch) \cup {0})
             /\ strcmp(s, t) = (Len(s) # Len(t))
             /\ (\A i \in 1..(n + 1) : At(s, i) = At(t, i)) => ~strncmp(s, t, n)
             /\ s = t => ~sv_compare_c_str(s, strlen(s), t) /\ ~sv_compare(s, strlen(s), t, strlen(t))
=============================================================================
