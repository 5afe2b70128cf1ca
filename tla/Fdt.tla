--------------------------------- MODULE Fdt ---------------------------------
(***************************************************************************)
(* Reading a flattened device tree (kernel/fdt/fdt.c, fdt_ro.c,            *)
(* fdt_addresses.c, fdt_check.c): a blob is a header and a memory with the *)
(* reserve map, the structure block and the strings block.                 *)
(*                                                                         *)
(* Memory is counted in cells.  A tag, a length, a name offset, a node's   *)
(* name, a property name in the strings block and a reserve entry (its     *)
(* size; 0 ends the map) take one cell each, and so does a cell of a       *)
(* value, so padding to the cell is not part of the model.  Offsets,       *)
(* lengths, bounds and the values of tags are the code's.  A node's name   *)
(* is 10 * base + unit, unit 0 for a name without "@unit"; 0 is "".  Only  *)
(* versions 16 and later are modelled: older ones realign values.          *)
(***************************************************************************)
EXTENDS Integers, Sequences, FiniteSets
LOCAL INSTANCE SequencesExt
LOCAL INSTANCE FiniteSetsExt

FDT_BEGIN_NODE == 1
FDT_END_NODE == 2
FDT_PROP == 3
FDT_NOP == 4
FDT_END == 9

NOTFOUND == -1
EXISTS == -2
NOSPACE == -3
BADOFFSET == -4
BADPATH == -5
BADPHANDLE == -6
BADSTATE == -7
TRUNCATED == -8
BADMAGIC == -9
BADVERSION == -10
BADSTRUCTURE == -11
BADLAYOUT == -12
INTERNAL == -13
BADNCELLS == -14
BADVALUE == -15
BADOVERLAY == -16
NOPHANDLES == -17
BADFLAGS == -18

HEADER == 1                     \* cells of the header
FDT_MAX_PHANDLE == 98           \* 0xfffffffe; 0xffffffff is the reserved 99
FDT_MAX_NCELLS == 4

\* Names the library itself looks for.
PHANDLE == 1
LINUX_PHANDLE == 2
ADDRESS_CELLS == 3
SIZE_CELLS == 4
COMPATIBLE == 5
ALIASES == 90

(***************************************************************************)
(* fdt.c.                                                                  *)
(***************************************************************************)
fdt_ro_probe_(b) ==
    CASE b.magic = "FDT" -> IF b.version < 2 \/ b.last > 17 THEN BADVERSION ELSE b.total
      [] b.magic = "SW" -> IF b.ssize = 0 THEN BADSTATE ELSE b.total
      [] OTHER -> BADMAGIC

check_off_(b, off) == off \in HEADER..b.total

check_block_(b, base, size) == check_off_(b, base) /\ check_off_(b, base + size)

fdt_check_header(b) ==
    IF b.magic # "FDT" THEN BADMAGIC
    ELSE IF b.version < 2 \/ b.last > 17 \/ b.version < b.last THEN BADVERSION
    ELSE IF \/ b.total < HEADER \/ ~check_off_(b, b.rsv)
            \/ ~check_block_(b, b.st, IF b.version < 17 THEN 0 ELSE b.ssize)
            \/ ~check_block_(b, b.str, b.strsize)
    THEN TRUNCATED ELSE 0

fdt_offset_ptr(b, offset, len) ==
    /\ offset >= 0
    /\ b.st + offset + len <= b.total
    /\ b.version >= 17 => offset + len <= b.ssize

\* The cell at an address of the memory, and at an offset of the structure block.
At(b, i) == b.mem[i + 1]
Cell(b, offset) == At(b, b.st + offset)

\* The tag at an offset and the offset behind its item; the tag is FDT_END and
\* the offset an error when the item does not fit.
fdt_next_tag(b, start) ==
    LET bad(err) == [tag |-> FDT_END, next |-> err]
        upto(tag, end) == IF fdt_offset_ptr(b, start, end - start)
                          THEN [tag |-> tag, next |-> end] ELSE bad(BADSTRUCTURE)
        cells(tag) == CASE tag = FDT_BEGIN_NODE -> 2
                        [] tag = FDT_PROP -> 3 + Cell(b, start + 1)
                        [] OTHER -> 1
        item(tag) ==
            IF \/ tag \notin {FDT_BEGIN_NODE, FDT_PROP, FDT_END_NODE, FDT_NOP, FDT_END}
               \/ tag = FDT_PROP /\ ~fdt_offset_ptr(b, start + 1, 1)
            THEN bad(BADSTRUCTURE) ELSE upto(tag, start + cells(tag))
    IN  IF ~fdt_offset_ptr(b, start, 1) THEN bad(TRUNCATED) ELSE item(Cell(b, start))

CheckOffset(b, offset, tag) ==
    LET behind(t) == IF t.tag = tag THEN t.next ELSE BADOFFSET
    IN  IF offset < 0 THEN BADOFFSET ELSE behind(fdt_next_tag(b, offset))

fdt_check_node_offset_(b, offset) == CheckOffset(b, offset, FDT_BEGIN_NODE)

fdt_check_prop_offset_(b, offset) == CheckOffset(b, offset, FDT_PROP)

\* The depth passed where the code passes no depth: it never runs out.
NULL_DEPTH == 1000

\* The node after an offset in the order of the block, with the depth changed
\* on the way; past the end of the node at depth 0 the offset of what follows.
RECURSIVE NodeFrom(_, _, _)
NodeFrom(b, offset, depth) ==
    LET from(t) ==
            CASE t.tag = FDT_BEGIN_NODE -> [off |-> offset, depth |-> depth + 1]
              [] t.tag = FDT_END_NODE /\ depth = 0 -> [off |-> t.next, depth |-> -1]
              [] t.tag = FDT_END ->
                    [off |-> IF t.next >= 0 \/ (t.next = TRUNCATED /\ depth > NULL_DEPTH \div 2)
                             THEN NOTFOUND ELSE t.next,
                     depth |-> depth]
              [] OTHER -> NodeFrom(b, t.next, IF t.tag = FDT_END_NODE THEN depth - 1 ELSE depth)
    IN  from(fdt_next_tag(b, offset))

fdt_next_node(b, offset, depth) ==
    LET from(next) == IF next < 0 THEN [off |-> next, depth |-> depth] ELSE NodeFrom(b, next, depth)
    IN  from(IF offset >= 0 THEN fdt_check_node_offset_(b, offset) ELSE 0)

fdt_first_subnode(b, offset) ==
    LET first(n) == IF n.off < 0 \/ n.depth # 1 THEN NOTFOUND ELSE n.off
    IN  first(fdt_next_node(b, offset, 0))

RECURSIVE SubnodeAfter(_, _, _)
SubnodeAfter(b, offset, depth) ==
    LET after(n) == CASE n.off < 0 \/ n.depth < 1 -> NOTFOUND
                      [] n.off >= 0 /\ n.depth > 1 -> SubnodeAfter(b, n.off, n.depth)
                      [] OTHER -> n.off
    IN  after(fdt_next_node(b, offset, depth))

fdt_next_subnode(b, offset) == SubnodeAfter(b, offset, 1)

\* Offset in the strings block, or -1.
fdt_find_string_(b, base, name) ==
    LET first(at) == IF at = {} THEN -1 ELSE Min(at)
    IN  first({i \in 0..(b.strsize - 1) : At(b, base + i) = name})

(***************************************************************************)
(* fdt_ro.c: names, strings, properties.                                   *)
(***************************************************************************)
fdt_get_name(b, offset) ==
    LET name(node) == IF node < 0 THEN node ELSE Cell(b, offset + 1)
    IN  IF fdt_ro_probe_(b) < 0 THEN fdt_ro_probe_(b) ELSE name(fdt_check_node_offset_(b, offset))

MutAnyUnit(b, offset, name) ==
    fdt_get_name(b, offset) >= 0 /\ fdt_get_name(b, offset) \div 10 = name \div 10

\* A name without a unit also matches one with a unit.
fdt_nodename_eq_(b, offset, name) ==
    LET eq(p) == p >= 0 /\ (p = name \/ (name % 10 = 0 /\ p \div 10 = name \div 10))
    IN  eq(fdt_get_name(b, offset))

\* While a tree is being written its strings grow down from the end of the
\* buffer, and their offsets are negative.
fdt_get_string(b, offset) ==
    IF fdt_ro_probe_(b) < 0 THEN fdt_ro_probe_(b)
    ELSE IF \/ b.str + offset >= b.total
            \/ b.magic = "FDT" /\ (offset < 0 \/ (b.version >= 17 /\ offset >= b.strsize))
            \/ b.magic = "SW" /\ (offset >= 0 \/ -offset > b.strsize)
    THEN BADOFFSET ELSE At(b, b.str + offset)

RECURSIVE nextprop_(_, _)
nextprop_(b, offset) ==
    LET from(t) == CASE t.tag = FDT_END -> IF t.next >= 0 THEN BADSTRUCTURE ELSE t.next
                     [] t.tag = FDT_PROP -> offset
                     [] t.tag = FDT_NOP -> nextprop_(b, t.next)
                     [] OTHER -> NOTFOUND
    IN  from(fdt_next_tag(b, offset))

PropBehind(b, next) == IF next < 0 THEN next ELSE nextprop_(b, next)

fdt_first_property_offset(b, node) == PropBehind(b, fdt_check_node_offset_(b, node))

fdt_next_property_offset(b, offset) == PropBehind(b, fdt_check_prop_offset_(b, offset))

PropName(b, offset) == fdt_get_string(b, Cell(b, offset + 2))

PropValue(b, offset) == [i \in 1..Cell(b, offset + 1) |-> Cell(b, offset + 2 + i)]

RECURSIVE PropertyFrom(_, _, _)
PropertyFrom(b, offset, name) ==
    IF offset < 0 \/ PropName(b, offset) = name THEN offset
    ELSE PropertyFrom(b, fdt_next_property_offset(b, offset), name)

\* Offset of the property, or an error.
fdt_get_property(b, node, name) == PropertyFrom(b, fdt_first_property_offset(b, node), name)

\* A value, with the error instead of a length when there is none.
Found(val) == [err |-> 0, val |-> val]
NoValue(err) == [err |-> err, val |-> <<>>]

\* The value at an offset, which may be an error.
PropAt(b, at) == IF at < 0 THEN NoValue(at) ELSE Found(PropValue(b, at))

fdt_getprop(b, node, name) == PropAt(b, fdt_get_property(b, node, name))

fdt_getprop_by_offset(b, offset) ==
    LET value(next, name) == PropAt(b, IF next < 0 THEN next ELSE IF name < 0 THEN name ELSE offset)
    IN  value(fdt_check_prop_offset_(b, offset), PropName(b, offset))

fdt_get_phandle(b, node) ==
    LET one(p) == p.err = 0 /\ Len(p.val) = 1
        either(p, l) == IF one(p) THEN p.val[1] ELSE IF one(l) THEN l.val[1] ELSE 0
    IN  either(fdt_getprop(b, node, PHANDLE), fdt_getprop(b, node, LINUX_PHANDLE))

(***************************************************************************)
(* fdt_ro.c: walks over the nodes.                                         *)
(***************************************************************************)
\* Nodes from one on, in order: the first for which the code stops its loop is
\* what the functions below look for.
RECURSIVE NodesAfter(_, _)
NodesAfter(b, offset) ==
    LET after(n) == IF n < 0 THEN [nodes |-> <<>>, end |-> n]
                    ELSE [NodesAfter(b, n) EXCEPT !.nodes = <<n>> \o @]
    IN  after(fdt_next_node(b, offset, NULL_DEPTH).off)

FirstNode(walk, hits) ==
    LET at == {i \in DOMAIN walk.nodes : walk.nodes[i] \in hits} IN
    IF at = {} THEN walk.end ELSE walk.nodes[Min(at)]

\* The largest phandle, or an error.
fdt_find_max_phandle(b) ==
    LET largest(walk) == IF walk.end # NOTFOUND THEN walk.end
                         ELSE Max({0} \cup {fdt_get_phandle(b, n) : n \in ToSet(walk.nodes)})
    IN  largest(NodesAfter(b, -1))

fdt_generate_phandle(b) ==
    LET next(max) == CASE max < 0 -> max [] max = FDT_MAX_PHANDLE -> NOPHANDLES [] OTHER -> max + 1
    IN  next(fdt_find_max_phandle(b))

fdt_mem_rsv(b, n) == b.rsv + n <= b.total - 1

fdt_num_mem_rsv(b) ==
    LET ends == {n \in 0..b.total : fdt_mem_rsv(b, n) /\ At(b, b.rsv + n) = 0} IN
    IF ends = {} THEN TRUNCATED ELSE Min(ends)

fdt_get_mem_rsv(b, n) ==
    IF fdt_ro_probe_(b) < 0 THEN fdt_ro_probe_(b)
    ELSE IF ~fdt_mem_rsv(b, n) THEN BADOFFSET ELSE At(b, b.rsv + n)

RECURSIVE SubnodeNamed(_, _, _, _)
SubnodeNamed(b, offset, depth, name) ==
    IF depth < 0 THEN NOTFOUND
    ELSE IF offset < 0 \/ (depth = 1 /\ fdt_nodename_eq_(b, offset, name)) THEN offset
    ELSE LET from(n) == SubnodeNamed(b, n.off, n.depth, name) IN from(fdt_next_node(b, offset, depth))

fdt_subnode_offset(b, offset, name) ==
    IF fdt_ro_probe_(b) < 0 THEN fdt_ro_probe_(b) ELSE SubnodeNamed(b, offset, 0, name)

\* A path is a sequence of names.
RECURSIVE Descend(_, _, _)
Descend(b, offset, path) ==
    IF path = <<>> THEN offset
    ELSE LET below(sub) == IF sub < 0 THEN sub ELSE Descend(b, sub, Tail(path))
         IN  below(fdt_subnode_offset(b, offset, Head(path)))

fdt_get_alias(b, name) ==
    LET in(aliases) == IF aliases < 0 THEN NoValue(aliases) ELSE fdt_getprop(b, aliases, name)
    IN  in(Descend(b, 0, <<ALIASES>>))

\* `alias` is 0 for a path that starts with "/".
fdt_path_offset(b, alias, path) ==
    LET start(a) == IF alias = 0 THEN 0 ELSE IF a.err # 0 THEN BADPATH ELSE Descend(b, 0, a.val)
    IN  IF fdt_ro_probe_(b) < 0 THEN fdt_ro_probe_(b)
        ELSE Descend(b, start(fdt_get_alias(b, alias)), path)

\* The loop of fdt_get_path and fdt_supernode_atdepth_offset: nodes from the
\* root on, up to an offset, with their depths.
RECURSIVE NodesUpto(_, _, _, _)
NodesUpto(b, offset, depth, last) ==
    IF offset \notin 0..last THEN [seen |-> <<>>, end |-> offset]
    ELSE LET upto(n) == [NodesUpto(b, n.off, n.depth, last)
                            EXCEPT !.seen = <<[off |-> offset, depth |-> depth]>> \o @]
         IN  upto(IF offset = last THEN [off |-> offset + 1, depth |-> depth]
                  ELSE fdt_next_node(b, offset, depth))

Met(walk, node) == walk.seen # <<>> /\ Last(walk.seen).off = node

\* What both return when the loop ends without meeting the node.
NotMet(end) ==
    CASE end = NOTFOUND \/ end >= 0 -> BADOFFSET
      [] end = BADOFFSET -> BADSTRUCTURE
      [] OTHER -> end

\* The last node of a depth, up to the one asked for.
LastOfDepth(seen, depth) ==
    LET last(at) == IF at = {} THEN INTERNAL ELSE seen[Max(at)].off
    IN  last({i \in DOMAIN seen : seen[i].depth = depth})

fdt_supernode_atdepth_offset(b, node, super) ==
    LET in(walk) == IF ~Met(walk, node) THEN NotMet(walk.end)
                    ELSE IF super > Last(walk.seen).depth THEN NOTFOUND
                    ELSE LastOfDepth(walk.seen, super)
    IN  IF fdt_ro_probe_(b) < 0 THEN fdt_ro_probe_(b)
        ELSE IF super < 0 THEN NOTFOUND ELSE in(NodesUpto(b, 0, 0, node))

fdt_node_depth(b, node) ==
    LET depth(root) == IF root # 0 THEN root ELSE Last(NodesUpto(b, 0, 0, node).seen).depth
    IN  depth(fdt_supernode_atdepth_offset(b, node, 0))

fdt_parent_offset(b, node) ==
    LET above(depth) == IF depth < 0 THEN depth ELSE fdt_supernode_atdepth_offset(b, node, depth - 1)
    IN  above(fdt_node_depth(b, node))

\* The path of a node; a name and the "/" behind it take two places of the
\* buffer, the root's "/" one.
RECURSIVE PathOf(_, _, _, _)
PathOf(b, seen, buf, buflen) ==
    IF seen = <<>> THEN buf
    ELSE LET n == Head(seen)
             with(kept) == IF Len(kept) = n.depth /\ 2 * Len(kept) + 1 <= buflen
                           THEN Append(kept, fdt_get_name(b, n.off)) ELSE kept
         IN  PathOf(b, Tail(seen), with(SubSeq(buf, 1, Min({Len(buf), n.depth}))), buflen)

fdt_get_path(b, node, buflen) ==
    LET whole(path, depth) == IF Len(path) < depth + 1 THEN NoValue(NOSPACE) ELSE Found(Tail(path))
        in(walk) == IF ~Met(walk, node) THEN NoValue(NotMet(walk.end))
                    ELSE whole(PathOf(b, walk.seen, <<>>, buflen), Last(walk.seen).depth)
    IN  IF fdt_ro_probe_(b) < 0 THEN NoValue(fdt_ro_probe_(b))
        ELSE IF buflen < 2 THEN NoValue(NOSPACE)
        ELSE in(NodesUpto(b, 0, 0, node))

fdt_node_offset_by_prop_value(b, start, name, val) ==
    LET in(walk) == FirstNode(walk, {n \in ToSet(walk.nodes) : fdt_getprop(b, n, name) = Found(val)})
    IN  in(NodesAfter(b, start))

fdt_node_offset_by_phandle(b, phandle) ==
    LET in(walk) == FirstNode(walk, {n \in ToSet(walk.nodes) : fdt_get_phandle(b, n) = phandle})
    IN  IF phandle \in {0, FDT_MAX_PHANDLE + 1} THEN BADPHANDLE
        ELSE IF fdt_ro_probe_(b) < 0 THEN fdt_ro_probe_(b) ELSE in(NodesAfter(b, -1))

(***************************************************************************)
(* fdt_ro.c: lists of strings; a string ends with a 0 cell.                *)
(***************************************************************************)
\* The strings of a value; the last is short of its 0 in a malformed list.
RECURSIVE Strings(_)
Strings(list) ==
    LET ends == {i \in DOMAIN list : list[i] = 0} IN
    CASE list = <<>> -> <<>>
      [] list # <<>> /\ ends = {} -> <<list>>
      [] OTHER -> <<SubSeq(list, 1, Min(ends))>> \o Strings(SubSeq(list, Min(ends) + 1, Len(list)))

Malformed(list) == list # <<>> /\ Last(list) # 0

\* The comparison covers the string's 0, which behind a last string that has
\* none is the first byte of what follows: padding or a tag, and 0.
fdt_stringlist_contains(list, str) == str \in ToSet(Strings(IF Malformed(list) THEN Append(list, 0) ELSE list))

fdt_stringlist_count(b, node, name) ==
    LET count(p) == IF p.err # 0 THEN p.err ELSE IF Malformed(p.val) THEN BADVALUE ELSE Len(Strings(p.val))
    IN  count(fdt_getprop(b, node, name))

\* A string before the malformed one is found all the same.
fdt_stringlist_search(b, node, name, str) ==
    LET at(strs) == {i \in DOMAIN strs : strs[i] = str}
        first(p, found) == IF found # {} THEN Min(found) - 1
                           ELSE IF Malformed(p.val) THEN BADVALUE ELSE NOTFOUND
        in(p) == IF p.err # 0 THEN p.err ELSE first(p, at(Strings(p.val)))
    IN  in(fdt_getprop(b, node, name))

fdt_stringlist_get(b, node, name, idx) ==
    LET of(p, strs) == IF idx < (IF Malformed(p.val) THEN Len(strs) - 1 ELSE Len(strs))
                       THEN Found(strs[idx + 1])
                       ELSE NoValue(IF Malformed(p.val) THEN BADVALUE ELSE NOTFOUND)
        in(p) == IF p.err # 0 THEN p ELSE of(p, Strings(p.val))
    IN  in(fdt_getprop(b, node, name))

\* 0 when the node is compatible, 1 when not, or an error.
fdt_node_check_compatible(b, node, str) ==
    LET check(p) == IF p.err # 0 THEN p.err ELSE IF fdt_stringlist_contains(p.val, str) THEN 0 ELSE 1
    IN  check(fdt_getprop(b, node, COMPATIBLE))

fdt_node_offset_by_compatible(b, start, str) ==
    LET stop(walk) == FirstNode(walk, {n \in ToSet(walk.nodes) :
                                          fdt_node_check_compatible(b, n, str) \notin {1, NOTFOUND}})
        result(node, check) == IF node >= 0 /\ check < 0 THEN check ELSE node
        at(node) == result(node, fdt_node_check_compatible(b, node, str))
    IN  IF fdt_ro_probe_(b) < 0 THEN fdt_ro_probe_(b) ELSE at(stop(NodesAfter(b, start)))

(***************************************************************************)
(* fdt_addresses.c.                                                        *)
(***************************************************************************)
fdt_cells(b, node, name) ==
    LET cells(p) == IF p.err # 0 THEN p.err
                    ELSE IF Len(p.val) # 1 \/ p.val[1] > FDT_MAX_NCELLS THEN BADNCELLS ELSE p.val[1]
    IN  cells(fdt_getprop(b, node, name))

fdt_address_cells(b, node) ==
    LET or_default(val) == CASE val = 0 -> BADNCELLS [] val = NOTFOUND -> 2 [] OTHER -> val
    IN  or_default(fdt_cells(b, node, ADDRESS_CELLS))

fdt_size_cells(b, node) ==
    LET or_default(val) == IF val = NOTFOUND THEN 1 ELSE val
    IN  or_default(fdt_cells(b, node, SIZE_CELLS))

(***************************************************************************)
(* fdt_check.c.                                                            *)
(***************************************************************************)
\* The walk of fdt_check_full; `closed` once the root node has ended.
RECURSIVE CheckFrom(_, _, _, _)
CheckFrom(b, offset, depth, closed) ==
    LET rootname(name) == IF name > 0 THEN BADSTRUCTURE ELSE name
        item(t) == CASE t.tag = FDT_BEGIN_NODE /\ depth = 0 -> rootname(fdt_get_name(b, offset))
                     [] t.tag = FDT_END_NODE /\ depth = 0 -> BADSTRUCTURE
                     [] t.tag = FDT_PROP -> fdt_getprop_by_offset(b, offset).err
                     [] OTHER -> 0
        onward(t, err) ==
            IF err # 0 THEN err
            ELSE CheckFrom(b, t.next,
                           CASE t.tag = FDT_BEGIN_NODE -> depth + 1
                             [] t.tag = FDT_END_NODE -> depth - 1
                             [] OTHER -> depth,
                           closed \/ (t.tag = FDT_END_NODE /\ depth = 1))
        from(t) == IF t.next < 0 THEN t.next
                   ELSE IF t.tag = FDT_END THEN (IF depth = 0 THEN 0 ELSE BADSTRUCTURE)
                   ELSE IF closed THEN BADSTRUCTURE ELSE onward(t, item(t))
    IN  from(fdt_next_tag(b, offset))

fdt_check_full(b, bufsize) ==
    IF bufsize < HEADER THEN TRUNCATED
    ELSE IF fdt_check_header(b) # 0 THEN fdt_check_header(b)
    ELSE IF bufsize < b.total THEN TRUNCATED
    ELSE IF fdt_num_mem_rsv(b) < 0 THEN fdt_num_mem_rsv(b)
    ELSE CheckFrom(b, 0, 0, FALSE)
============================================================================
