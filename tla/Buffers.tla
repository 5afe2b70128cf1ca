------------------------------ MODULE Buffers ------------------------------
(***************************************************************************)
(* lib/adt/growable_buffer.c, mutable_buffer.c, string.c and array.c.      *)
(*                                                                         *)
(* A growable buffer owns memory (or borrows it: is_alloc is false) and    *)
(* moves to a larger piece when an append does not fit; a string keeps a   *)
(* terminator behind its characters, an array keeps objects of one size.   *)
(* A mutable buffer writes into memory of a fixed size.                    *)
(***************************************************************************)
EXTENDS Naturals, Integers, Sequences
LOCAL INSTANCE SequencesExt
LOCAL INSTANCE FiniteSetsExt

CONSTANTS
    Bytes,          \* values of a byte
    OBJECT,         \* size of an array's object
    CHUNK,          \* malloc_size() rounds sizes up to a multiple of this
    MBUF,           \* capacity of the mutable buffer
    UINT32,         \* number of values of uint32_t
    BufMax,         \* bound: bytes in use
    AddMax          \* bound: bytes of one append

VARIABLE buf

NUL == "nul"
Stale == "stale"    \* a byte of fresh memory

(***************************************************************************)
(* Growable buffers.                                                       *)
(***************************************************************************)
GBUFFER_INIT == [mem |-> <<>>, index |-> 0, is_alloc |-> FALSE]

gbuffer_capacity(b) == Len(b.mem)

gbuffer_free_space(b) == Len(b.mem) - b.index

InUse(b) == SubSeq(b.mem, 1, b.index)

malloc_size(size) == ((size + CHUNK - 1) \div CHUNK) * CHUNK

MutForgets(b, add) ==
    IF gbuffer_free_space(b) >= add THEN b
    ELSE [b EXCEPT !.mem = [i \in 1..malloc_size(gbuffer_capacity(b) + add) |-> Stale], !.is_alloc = TRUE]

\* Only memory that was allocated is copied.  (That malloc_size() returns NULL is not
\* tested: the copy would fault.)
gbuffer_ensure_can_add_capacity(b, add) ==
    IF gbuffer_free_space(b) >= add THEN b
    ELSE LET size == malloc_size(gbuffer_capacity(b) + add) IN
         [b EXCEPT !.mem = [i \in 1..size |-> IF b.is_alloc /\ i <= b.index THEN b.mem[i] ELSE Stale],
                   !.is_alloc = TRUE]

\* `data` over the bytes from index `at` (from 0) on.
Write(mem, at, data) ==
    [i \in DOMAIN mem |-> IF i - at \in DOMAIN data THEN data[i - at] ELSE mem[i]]

gbuffer_append_data(b, data) ==
    LET e == gbuffer_ensure_can_add_capacity(b, Len(data)) IN
    [e EXCEPT !.mem = Write(e.mem, e.index, data), !.index = @ + Len(data)]

gbuffer_append_byte(b, byte, count) == gbuffer_append_data(b, [i \in 1..count |-> byte])

\* memmove() of one byte more than is behind the index.
gbuffer_remove_index(b, index) ==
    LET moved == [i \in DOMAIN b.mem |->
                    IF i \in (index + 1)..b.index
                    THEN IF i < Len(b.mem) THEN b.mem[i + 1] ELSE Stale
                    ELSE b.mem[i]]
    IN  [b EXCEPT !.mem = IF index # b.index - 1 THEN moved ELSE @, !.index = @ - 1]

\* One byte fewer is in use, whatever the size of the range.
gbuffer_remove_range(b, front, size) ==
    LET end == front + size IN
    [b EXCEPT !.mem = IF end # b.index - 1 THEN Write(@, front, SubSeq(@, end + 1, b.index)) ELSE @,
              !.index = @ - 1]

gbuffer_increment_ptr(b, amount) == [b EXCEPT !.index = Min({gbuffer_free_space(b), amount})]

gbuffer_decrement_ptr(b, amount) == [b EXCEPT !.index = @ - Min({@, amount})]

gbuffer_truncate(b, byte_index) == [b EXCEPT !.index = Min({@, byte_index})]

(***************************************************************************)
(* Strings.                                                                *)
(***************************************************************************)
set_null_terminator(b) == [b EXCEPT !.mem = Write(@, b.index, <<NUL>>)]

prepare_append(b, length) == gbuffer_ensure_can_add_capacity(b, length + 1)

string_append_sv(b, sv) == set_null_terminator(gbuffer_append_data(prepare_append(b, Len(sv)), sv))

string_append_char(b, ch, amount) ==
    set_null_terminator(gbuffer_append_byte(prepare_append(b, amount), ch, amount))

\* Room is made for as much as the string has; success returns NULL before the
\* terminator is set.
string_append(b, append) == gbuffer_append_data(prepare_append(b, b.index), append)

\* strchr(): up to the first terminator, wherever it is.
string_find_char(b, ch) ==
    LET hits == {i \in DOMAIN b.mem : b.mem[i] = ch /\ \A j \in 1..(i - 1) : b.mem[j] # NUL}
    IN  IF hits = {} THEN -1 ELSE Min(hits) - 1

string_find_sv(b, sv) ==
    LET hits == {i \in 0..(b.index - Len(sv)) : SubSeq(InUse(b), i + 1, i + Len(sv)) = sv}
    IN  IF b.index = 0 \/ sv = <<>> \/ hits = {} THEN -1 ELSE Min(hits)

(***************************************************************************)
(* Arrays.                                                                 *)
(***************************************************************************)
array_item_count(b) == b.index \div OBJECT

array_append(b, item) == gbuffer_append_data(b, item)

array_at(b, index) == SubSeq(b.mem, index * OBJECT + 1, (index + 1) * OBJECT)

\* The end of the object is passed as the size of the range.
array_remove_index(b, index) == gbuffer_remove_range(b, index * OBJECT, (index + 1) * OBJECT)

array_take_range(b, front, count) == gbuffer_remove_range(b, front * OBJECT, count * OBJECT)

(***************************************************************************)
(* Mutable buffers: the free space is the distance the wrong way round.    *)
(***************************************************************************)
mbuffer_free_space(mb) == (mb.index - mb.capacity) % UINT32

preprocess_for_append(mb, length) == [mb EXCEPT !.index = @ + Min({length, mbuffer_free_space(mb)})]

mbuffer_decrement_ptr(mb, amt) == [mb EXCEPT !.index = @ - Min({@, amt})]

mbuffer_truncate(mb, used) == IF used > mb.index THEN mb ELSE [mb EXCEPT !.index = used]

(***************************************************************************)
(* Callers.                                                                *)
(***************************************************************************)
Data == UNION {[1..n -> Bytes] : n \in 1..AddMax}

BufStart ==
    {[kind |-> k, b |-> b, mb |-> [index |-> 0, capacity |-> MBUF], op |-> <<"init">>] :
        k \in {"string", "array", "mbuffer"},
        b \in {GBUFFER_INIT, [mem |-> [i \in 1..CHUNK |-> Stale], index |-> 0, is_alloc |-> FALSE]}}

BufInit == buf \in BufStart

Does(kind, b, op) == buf.kind = kind /\ b.index <= BufMax /\ buf' = [buf EXCEPT !.b = b, !.op = op]

StringAppends ==
    \/ \E sv \in Data : Does("string", string_append_sv(buf.b, sv), <<"append", sv>>)
    \/ \E ch \in Bytes, n \in 1..AddMax :
          Does("string", string_append_char(buf.b, ch, n), <<"append", [i \in 1..n |-> ch]>>)
    \/ \E sv \in Data : Does("string", string_append(buf.b, sv), <<"join", sv>>)

StringRemoves ==
    \/ \E i \in 0..(buf.b.index - 1) : Does("string", gbuffer_remove_index(buf.b, i), <<"remove", i>>)
    \/ \E i \in 0..(buf.b.index - 1), n \in 1..buf.b.index :
          i + n <= buf.b.index /\ Does("string", gbuffer_remove_range(buf.b, i, n), <<"cut", i, n>>)

StringMoves ==
    \/ \E n \in 0..AddMax : Does("string", gbuffer_truncate(buf.b, n), <<"truncate", n>>)
    \/ \E n \in 0..AddMax : Does("string", gbuffer_decrement_ptr(buf.b, n), <<"move">>)
    \/ \E n \in 0..AddMax : Does("string", gbuffer_increment_ptr(buf.b, n), <<"move">>)

ArrayAppends == \E item \in [1..OBJECT -> Bytes] : Does("array", array_append(buf.b, item), <<"append", item>>)

\* The assertion of gbuffer_remove_range lets only the ranges pass that end in the buffer.
ArrayRemoves ==
    \/ \E i \in 0..(array_item_count(buf.b) - 1) :
          /\ i * OBJECT + (i + 1) * OBJECT <= buf.b.index
          /\ Does("array", array_remove_index(buf.b, i), <<"cut", i * OBJECT, (i + 1) * OBJECT>>)
    \/ \E i \in 0..(array_item_count(buf.b) - 1), n \in 1..array_item_count(buf.b) :
          /\ i + n <= array_item_count(buf.b)
          /\ Does("array", array_take_range(buf.b, i, n), <<"cut", i * OBJECT, n * OBJECT>>)

\* gbuffer_destroy, gbuffer_take_data
Destroy == Does(buf.kind, GBUFFER_INIT, <<"truncate", 0>>)

MbufferSteps ==
    /\ buf.kind = "mbuffer"
    /\ \E mb \in {preprocess_for_append(buf.mb, n) : n \in 1..AddMax}
                 \cup {mbuffer_decrement_ptr(buf.mb, n) : n \in 1..AddMax}
                 \cup {mbuffer_truncate(buf.mb, n) : n \in 0..AddMax} :
          /\ mb.index <= BufMax
          /\ buf' = [buf EXCEPT !.mb = mb, !.op = <<"write">>]

BufNext ==
    StringAppends \/ StringRemoves \/ StringMoves \/ ArrayAppends \/ ArrayRemoves \/ Destroy \/ MbufferSteps

(***************************************************************************)
(* Properties.                                                             *)
(***************************************************************************)
\* Over any sequence of calls: an append adds its bytes behind those in use, whether
\* or not the buffer moves to larger memory (unless that memory was borrowed, whose
\* bytes are not copied); removing one byte closes the gap, and
\* cutting a range does so only for a range of one byte that is not the last but
\* one; a truncation keeps the bytes before the index; and a string that was
\* appended to has its terminator inside its memory.
BufferHoldsWhatWasAppended ==
    [][LET old == InUse(buf.b) new == InUse(buf'.b) op == buf'.op IN
       /\ (op[1] \in {"append", "join"} /\ (buf.b.is_alloc \/ ~buf'.b.is_alloc \/ old = <<>>)) => new = old \o op[2]
       /\ op[1] = "remove" => new = SubSeq(old, 1, op[2]) \o SubSeq(old, op[2] + 2, Len(old))
       /\ (op[1] = "cut" /\ op[3] = 1 /\ op[2] # Len(old) - 2) =>
             new = SubSeq(old, 1, op[2]) \o SubSeq(old, op[2] + 2, Len(old))
       /\ op[1] = "truncate" => new = SubSeq(old, 1, Min({op[2], Len(old)}))
       /\ (op[1] = "append" /\ buf.kind = "string") =>
             buf'.b.index < gbuffer_capacity(buf'.b) /\ buf'.b.mem[buf'.b.index + 1] = NUL]_buf
=============================================================================
