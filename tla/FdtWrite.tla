------------------------------ MODULE FdtWrite ------------------------------
(***************************************************************************)
(* Changing a flattened device tree: in a buffer with room to grow         *)
(* (fdt_rw.c), in place (fdt_wip.c), and writing one from start to end     *)
(* (fdt_sw.c).  Every operation maps a blob to the blob it leaves and the  *)
(* value it returns, an offset or an error.                                *)
(***************************************************************************)
EXTENDS Fdt, Bitwise
LOCAL INSTANCE FiniteSetsExt

Result(b, ret) == [b |-> b, ret |-> ret]

\* memcpy of cells to a place of the memory.
Write(b, at, cells) ==
    [b EXCEPT !.mem = SubSeq(@, 1, at) \o cells \o SubSeq(@, at + Len(cells) + 1, Len(@))]

\* memmove of `len` cells.
Move(b, to, from, len) == Write(b, to, SubSeq(b.mem, from + 1, from + len))

(***************************************************************************)
(* fdt_rw.c.                                                               *)
(***************************************************************************)
fdt_blocks_misordered_(b, rsvsize, ssize) ==
    \/ b.rsv < HEADER
    \/ b.st < b.rsv + rsvsize
    \/ b.str < b.st + ssize
    \/ b.total < b.str + b.strsize

fdt_rw_probe_(b) ==
    IF fdt_ro_probe_(b) < 0 THEN fdt_ro_probe_(b)
    ELSE IF b.version < 17 THEN BADVERSION
    ELSE IF fdt_blocks_misordered_(b, 1, b.ssize) THEN BADLAYOUT ELSE 0

fdt_data_size_(b) == b.str + b.strsize

fdt_splice_(b, at, oldlen, newlen) ==
    LET dsize == fdt_data_size_(b) IN
    IF oldlen < 0 \/ at + oldlen > dsize \/ dsize + newlen < oldlen THEN Result(b, BADOFFSET)
    ELSE IF dsize - oldlen + newlen > b.total THEN Result(b, NOSPACE)
    ELSE Result(Move(b, at + newlen, at + oldlen, dsize - (at + oldlen)), 0)

fdt_splice_mem_rsv_(b, n, oldn, newn) ==
    LET r == fdt_splice_(b, b.rsv + n, oldn, newn) IN
    IF r.ret # 0 THEN r
    ELSE [r EXCEPT !.b.st = @ + newn - oldn, !.b.str = @ + newn - oldn]

MutStringsStay(b, offset, oldlen, newlen) ==
    LET r == fdt_splice_(b, b.st + offset, oldlen, newlen) IN
    IF r.ret # 0 THEN r ELSE [r EXCEPT !.b.ssize = @ + newlen - oldlen]

fdt_splice_struct_(b, offset, oldlen, newlen) ==
    LET r == fdt_splice_(b, b.st + offset, oldlen, newlen) IN
    IF r.ret # 0 THEN r
    ELSE [r EXCEPT !.b.ssize = @ + newlen - oldlen, !.b.str = @ + newlen - oldlen]

fdt_splice_string_(b) ==
    LET r == fdt_splice_(b, fdt_data_size_(b), 0, 1) IN
    IF r.ret # 0 THEN r ELSE [r EXCEPT !.b.strsize = @ + 1]

\* Returns the name's offset in the strings block.
fdt_find_add_string_(b, name) ==
    LET added(r) == IF r.ret # 0 THEN r ELSE Result(Write(r.b, b.str + b.strsize, <<name>>), b.strsize)
        found(at) == IF at >= 0 THEN Result(b, at) ELSE added(fdt_splice_string_(b))
    IN  found(fdt_find_string_(b, b.str, name))

fdt_add_mem_rsv(b, size) ==
    LET added(r, n) == IF r.ret # 0 THEN r ELSE Result(Write(r.b, b.rsv + n, <<size>>), 0)
        at(n) == added(fdt_splice_mem_rsv_(b, n, 0, 1), n)
    IN  IF fdt_rw_probe_(b) # 0 THEN Result(b, fdt_rw_probe_(b)) ELSE at(fdt_num_mem_rsv(b))

fdt_del_mem_rsv(b, n) ==
    IF fdt_rw_probe_(b) # 0 THEN Result(b, fdt_rw_probe_(b))
    ELSE IF n >= fdt_num_mem_rsv(b) THEN Result(b, NOTFOUND)
    ELSE fdt_splice_mem_rsv_(b, n, 1, 0)

\* On success returns the offset of the property.
fdt_resize_property_(b, node, name, len) ==
    LET resized(r, at) == IF r.ret # 0 THEN r ELSE Result(Write(r.b, b.st + at + 1, <<len>>), at)
        found(at) == IF at < 0 THEN Result(b, at)
                     ELSE resized(fdt_splice_struct_(b, at + 3, Cell(b, at + 1), len), at)
    IN  found(fdt_get_property(b, node, name))

MutNoRollback(b, node, name, len) ==
    LET added(r, s, at) == IF r.ret # 0 THEN r
                           ELSE Result(Write(r.b, b.st + at, <<FDT_PROP, len, s.ret>>), at)
        named(s, at) == IF s.ret < 0 THEN s ELSE added(fdt_splice_struct_(s.b, at, 0, 3 + len), s, at)
        found(at) == IF at < 0 THEN Result(b, at) ELSE named(fdt_find_add_string_(b, name), at)
    IN  found(fdt_check_node_offset_(b, node))

\* A name added for a property that does not fit is taken back.
fdt_add_property_(b, node, name, len) ==
    LET added(r, s, at) == IF r.ret # 0 THEN Result([s.b EXCEPT !.strsize = b.strsize], r.ret)
                           ELSE Result(Write(r.b, b.st + at, <<FDT_PROP, len, s.ret>>), at)
        named(s, at) == IF s.ret < 0 THEN s ELSE added(fdt_splice_struct_(s.b, at, 0, 3 + len), s, at)
        found(at) == IF at < 0 THEN Result(b, at) ELSE named(fdt_find_add_string_(b, name), at)
    IN  found(fdt_check_node_offset_(b, node))

fdt_set_name(b, node, name) ==
    LET resized(r) == IF r.ret # 0 THEN r ELSE Result(Write(r.b, b.st + node + 1, <<name>>), 0) IN
    IF fdt_rw_probe_(b) # 0 THEN Result(b, fdt_rw_probe_(b))
    ELSE IF fdt_get_name(b, node) < 0 THEN Result(b, fdt_get_name(b, node))
    ELSE resized(fdt_splice_struct_(b, node + 1, 1, 1))

fdt_setprop_placeholder(b, node, name, len) ==
    LET resized(r) == IF r.ret = NOTFOUND THEN fdt_add_property_(b, node, name, len) ELSE r
    IN  IF fdt_rw_probe_(b) # 0 THEN Result(b, fdt_rw_probe_(b))
        ELSE resized(fdt_resize_property_(b, node, name, len))

\* The value is copied to the property whose offset was returned.
SetValue(r, val) == IF r.ret < 0 THEN r ELSE Result(Write(r.b, r.b.st + r.ret + 3, val), 0)

fdt_setprop(b, node, name, val) == SetValue(fdt_setprop_placeholder(b, node, name, Len(val)), val)

fdt_appendprop(b, node, name, val) ==
    LET put(r, at, old) ==
            IF r.ret < 0 THEN r
            ELSE Result(Write(Write(r.b, b.st + at + 1, <<old + Len(val)>>), b.st + at + 3 + old, val), 0)
        longer(at, old) == put(fdt_splice_struct_(b, at + 3, old, old + Len(val)), at, old)
        found(at) == IF at >= 0 THEN longer(at, Cell(b, at + 1))
                     ELSE SetValue(fdt_add_property_(b, node, name, Len(val)), val)
    IN  IF fdt_rw_probe_(b) # 0 THEN Result(b, fdt_rw_probe_(b)) ELSE found(fdt_get_property(b, node, name))

fdt_delprop(b, node, name) ==
    LET found(at) == IF at < 0 THEN Result(b, at) ELSE fdt_splice_struct_(b, at, 3 + Cell(b, at + 1), 0)
    IN  IF fdt_rw_probe_(b) # 0 THEN Result(b, fdt_rw_probe_(b)) ELSE found(fdt_get_property(b, node, name))

\* The offset behind the node's properties: the new subnode becomes the first.
RECURSIVE BehindProps(_, _)
BehindProps(b, offset) ==
    LET behind(t) == IF t.tag \in {FDT_PROP, FDT_NOP} THEN BehindProps(b, t.next) ELSE offset
    IN  behind(fdt_next_tag(b, offset))

fdt_add_subnode(b, parent, name) ==
    LET added(r, at) == IF r.ret # 0 THEN r
                        ELSE Result(Write(r.b, b.st + at, <<FDT_BEGIN_NODE, name, FDT_END_NODE>>), at)
        add(at) == added(fdt_splice_struct_(b, at, 0, 3), at)
        found(sub) == IF sub >= 0 THEN Result(b, EXISTS)
                      ELSE IF sub # NOTFOUND THEN Result(b, sub)
                      ELSE add(BehindProps(b, fdt_next_tag(b, parent).next))
    IN  IF fdt_rw_probe_(b) # 0 THEN Result(b, fdt_rw_probe_(b))
        ELSE found(fdt_subnode_offset(b, parent, name))

RECURSIVE NodeEnd(_, _, _)
NodeEnd(b, offset, depth) ==
    IF offset < 0 \/ depth < 0 THEN offset
    ELSE LET from(n) == NodeEnd(b, n.off, n.depth) IN from(fdt_next_node(b, offset, depth))

fdt_node_end_offset_(b, offset) == NodeEnd(b, offset, 0)

fdt_del_node(b, node) ==
    LET upto(end) == IF end < 0 THEN Result(b, end) ELSE fdt_splice_struct_(b, node, end - node, 0)
    IN  IF fdt_rw_probe_(b) # 0 THEN Result(b, fdt_rw_probe_(b)) ELSE upto(fdt_node_end_offset_(b, node))

\* Bytes of the first n cells of a buffer with r reserve entries.
Bytes(n, r) == 40 + (16 * r) + (4 * (n - HEADER - r))

\* fdt_packblocks_: the blocks one behind the other from `to` on, moved one at a
\* time within the memory; the header is the new one's.
fdt_packblocks_(b, to, rsvsize, ssize) ==
    LET rsv == to + HEADER
        st == rsv + rsvsize
        moved == Move(Move(Move(b, rsv, b.rsv, rsvsize), st, b.st, ssize), st + ssize, b.str, b.strsize)
    IN  [moved EXCEPT !.rsv = HEADER, !.st = HEADER + rsvsize, !.str = HEADER + rsvsize + ssize,
                      !.ssize = ssize]

RECURSIVE SizeOfStruct(_, _)
SizeOfStruct(b, offset) ==
    LET upto(t) == IF t.tag = FDT_END THEN t.next ELSE SizeOfStruct(b, t.next)
    IN  upto(fdt_next_tag(b, offset))

\* The size is passed through the alignment as a whole, FDT_ALIGN(header, 8 +
\* sizes), and 8 + sizes is seldom a power of two.
ReorderedSize(b, rsvsize, ssize) ==
    LET align == 8 + (16 * rsvsize) + (4 * ssize) + (4 * b.strsize)
    IN  (40 + align - 1) & (4095 - (align - 1))

\* Into the blob's own buffer, of `bufsize` cells.  Blocks out of order are
\* packed behind the blob and moved to its front.
fdt_open_into(b, bufsize) ==
    LET copied(rsvsize, newsize) ==
            Max({0} \cup {n \in (HEADER + rsvsize)..bufsize : Bytes(n, rsvsize) <= newsize})
        reordered(rsvsize, ssize, newsize) ==
            IF Bytes(b.total, rsvsize) + newsize > Bytes(bufsize, rsvsize) THEN Result(b, NOSPACE)
            ELSE Result([Move(fdt_packblocks_(b, b.total, rsvsize, ssize), 0, b.total, copied(rsvsize, newsize))
                            EXCEPT !.total = bufsize, !.version = 17, !.last = 16], 0)
        opened(rsvsize, ssize) ==
            IF ssize < 0 THEN Result(b, ssize)
            ELSE IF fdt_blocks_misordered_(b, rsvsize, ssize)
            THEN reordered(rsvsize, ssize, ReorderedSize(b, rsvsize, ssize))
            ELSE IF b.total > bufsize THEN Result(b, NOSPACE)
            ELSE Result([b EXCEPT !.version = 17, !.ssize = ssize, !.total = bufsize], 0)
    IN  IF fdt_ro_probe_(b) < 0 THEN Result(b, fdt_ro_probe_(b))
        ELSE IF b.version < 16 THEN Result(b, BADVERSION)
        ELSE opened(fdt_num_mem_rsv(b) + 1, IF b.version >= 17 THEN b.ssize ELSE SizeOfStruct(b, 0))

fdt_pack(b) ==
    LET packed == fdt_packblocks_(b, 0, fdt_num_mem_rsv(b) + 1, b.ssize) IN
    IF fdt_rw_probe_(b) # 0 THEN Result(b, fdt_rw_probe_(b))
    ELSE Result([packed EXCEPT !.total = packed.str + packed.strsize], 0)

(***************************************************************************)
(* fdt_wip.c, and the one writer of fdt_addresses.c.                       *)
(***************************************************************************)
fdt_setprop_inplace_namelen_partial(b, node, name, idx, val) ==
    LET found(at) == IF at < 0 THEN Result(b, at)
                     ELSE IF Cell(b, at + 1) < idx + Len(val) THEN Result(b, NOSPACE)
                     ELSE Result(Write(b, b.st + at + 3 + idx, val), 0)
    IN  found(fdt_get_property(b, node, name))

fdt_setprop_inplace(b, node, name, val) ==
    LET found(p) == IF p.err # 0 THEN Result(b, p.err)
                    ELSE IF Len(p.val) # Len(val) THEN Result(b, NOSPACE)
                    ELSE fdt_setprop_inplace_namelen_partial(b, node, name, 0, val)
    IN  found(fdt_getprop(b, node, name))

Nops(len) == [i \in 1..len |-> FDT_NOP]

fdt_nop_property(b, node, name) ==
    LET found(at) == IF at < 0 THEN Result(b, at)
                     ELSE Result(Write(b, b.st + at, Nops(3 + Cell(b, at + 1))), 0)
    IN  found(fdt_get_property(b, node, name))

fdt_nop_node(b, node) ==
    LET upto(end) == IF end < 0 THEN Result(b, end) ELSE Result(Write(b, b.st + node, Nops(end - node)), 0)
    IN  upto(fdt_node_end_offset_(b, node))

WORD == 90              \* values of a cell (2^32)

AsCells(n, x) == IF n = 1 THEN <<x>> ELSE <<x \div WORD, x % WORD>>

fdt_appendprop_addrrange(b, parent, node, name, addr, size) ==
    LET with(ac, sc) ==
            IF ac < 0 THEN Result(b, ac)
            ELSE IF sc < 0 THEN Result(b, sc)
            ELSE IF ac = 1 /\ (addr >= WORD \/ WORD - addr < size) THEN Result(b, BADVALUE)
            ELSE IF ac \notin {1, 2} THEN Result(b, BADNCELLS)
            ELSE IF sc = 1 /\ size >= WORD THEN Result(b, BADVALUE)
            ELSE IF sc \notin {1, 2} THEN Result(b, BADNCELLS)
            ELSE fdt_appendprop(b, node, name, AsCells(ac, addr) \o AsCells(sc, size))
    IN  with(fdt_address_cells(b, parent), fdt_size_cells(b, parent))

(***************************************************************************)
(* fdt_sw.c: the structure block grows up, the strings grow down from the  *)
(* end of the buffer; str is 0 while reserve entries are added and the end *)
(* of the buffer afterwards.                                               *)
(***************************************************************************)
NO_NAME_DEDUP == 1

fdt_sw_probe_(b) == CASE b.magic = "FDT" -> BADSTATE [] b.magic = "SW" -> 0 [] OTHER -> BADMAGIC

fdt_sw_probe_memrsv_(b) ==
    IF fdt_sw_probe_(b) # 0 THEN fdt_sw_probe_(b) ELSE IF b.str # 0 THEN BADSTATE ELSE 0

fdt_sw_probe_struct_(b) ==
    IF fdt_sw_probe_(b) # 0 THEN fdt_sw_probe_(b) ELSE IF b.str # b.total THEN BADSTATE ELSE 0

\* Room for `len` cells, or an error.
fdt_grab_space_(b, len) ==
    IF b.ssize + len > b.total - b.st - b.strsize THEN Result(b, NOSPACE)
    ELSE Result([b EXCEPT !.ssize = @ + len], b.ssize)

\* The cells behind the structure, when they fit.
Grow(b, cells) ==
    LET r == fdt_grab_space_(b, Len(cells)) IN
    IF fdt_sw_probe_struct_(b) # 0 THEN Result(b, fdt_sw_probe_struct_(b))
    ELSE IF r.ret < 0 THEN r ELSE Result(Write(r.b, b.st + r.ret, cells), 0)

fdt_create_with_flags(b, bufsize, flags) ==
    IF bufsize < HEADER THEN Result(b, NOSPACE)
    ELSE IF flags \notin {0, NO_NAME_DEDUP} THEN Result(b, BADFLAGS)
    ELSE Result([magic |-> "SW", version |-> 17, last |-> flags, total |-> bufsize,
                 rsv |-> HEADER, st |-> HEADER, ssize |-> 0, str |-> 0, strsize |-> 0,
                 mem |-> [i \in DOMAIN b.mem |-> 0]], 0)

\* Within the buffer the blob lies in: the strings move to the new end.
fdt_resize(b, bufsize) ==
    LET head == b.st + b.ssize IN
    IF fdt_sw_probe_(b) # 0 THEN Result(b, fdt_sw_probe_(b))
    ELSE IF head + b.strsize > b.total THEN Result(b, INTERNAL)
    ELSE IF head + b.strsize > bufsize THEN Result(b, NOSPACE)
    ELSE Result([Move(b, bufsize - b.strsize, b.total - b.strsize, b.strsize)
                    EXCEPT !.total = bufsize, !.str = IF @ = 0 THEN 0 ELSE bufsize], 0)

fdt_add_reservemap_entry(b, size) ==
    IF fdt_sw_probe_memrsv_(b) # 0 THEN Result(b, fdt_sw_probe_memrsv_(b))
    ELSE IF b.st + 1 > b.total THEN Result(b, NOSPACE)
    ELSE Result([Write(b, b.st, <<size>>) EXCEPT !.st = @ + 1], 0)

fdt_finish_reservemap(b) ==
    LET r == fdt_add_reservemap_entry(b, 0) IN
    IF r.ret # 0 THEN r ELSE [r EXCEPT !.b.str = b.total]

fdt_begin_node(b, name) == Grow(b, <<FDT_BEGIN_NODE, name>>)

fdt_end_node(b) == Grow(b, <<FDT_END_NODE>>)

\* Returns the name's offset from the end of the buffer, 0 when it does not fit.
fdt_add_string_(b, name) ==
    LET offset == b.strsize + 1 IN
    IF b.total - offset < b.st + b.ssize THEN Result(b, 0)
    ELSE Result([Write(b, b.total - offset, <<name>>) EXCEPT !.strsize = @ + 1], -offset)

\* fdt_find_add_string_ of fdt_sw.c; a tree may ask for no search.
SwString(b, name) ==
    LET found == fdt_find_string_(b, b.total - b.strsize, name) IN
    IF b.last = NO_NAME_DEDUP \/ found < 0 THEN fdt_add_string_(b, name)
    ELSE Result(b, found - b.strsize)

fdt_property(b, name, val) ==
    LET put(r, s) == IF r.ret < 0 THEN Result([s.b EXCEPT !.strsize = b.strsize], NOSPACE)
                     ELSE Result(Write(r.b, b.st + r.ret, <<FDT_PROP, Len(val), s.ret>> \o val), 0)
        named(s) == IF s.ret = 0 THEN Result(b, NOSPACE) ELSE put(fdt_grab_space_(s.b, 3 + Len(val)), s)
    IN  IF fdt_sw_probe_struct_(b) # 0 THEN Result(b, fdt_sw_probe_struct_(b)) ELSE named(SwString(b, name))

\* The walk of fdt_finish: name offsets become offsets from the block's start.
RECURSIVE FixNames(_, _)
FixNames(b, offset) ==
    LET fix(t) == CASE t.tag = FDT_END -> Result(b, t.next)
                    [] t.tag = FDT_PROP ->
                        FixNames(Write(b, b.st + offset + 2, <<Cell(b, offset + 2) + b.strsize>>), t.next)
                    [] OTHER -> FixNames(b, t.next)
    IN  fix(fdt_next_tag(b, offset))

fdt_finish(b) ==
    LET done(r) == IF r.ret < 0 THEN r
                   ELSE Result([r.b EXCEPT !.total = r.b.str + b.strsize, !.last = 16, !.magic = "FDT"], 0)
        ended(g, str) ==
            IF g.ret # 0 THEN g
            ELSE done(FixNames([Move(g.b, str, b.total - b.strsize, b.strsize) EXCEPT !.str = str], 0))
        end(g) == ended(g, g.b.st + g.b.ssize)
    IN  end(Grow(b, <<FDT_END>>))

\* fdt_empty_tree.c: the steps after the first are reached only without error.
fdt_create_empty_tree(b, bufsize) ==
    LET opened(f) == IF f.ret # 0 THEN f ELSE fdt_open_into(f.b, bufsize)
        finished(e) == IF e.ret # 0 THEN e ELSE fdt_finish(e.b)
        ended(n) == IF n.ret # 0 THEN n ELSE fdt_end_node(n.b)
        begun(m) == IF m.ret # 0 THEN m ELSE fdt_begin_node(m.b, 0)
        reserved(c) == IF c.ret # 0 THEN c ELSE fdt_finish_reservemap(c.b)
    IN  opened(finished(ended(begun(reserved(fdt_create_with_flags(b, bufsize, 0))))))
============================================================================
