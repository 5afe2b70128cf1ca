----------------------------- MODULE FdtOverlay -----------------------------
(***************************************************************************)
(* Merging an overlay into a base tree (kernel/fdt/fdt_overlay.c): the     *)
(* overlay's phandles are moved past the base's, references to them are    *)
(* corrected from __local_fixups__, references to labels of the base are   *)
(* resolved from __fixups__, the fragments are merged, and the overlay's   *)
(* symbols are added to the base's.  Both trees are blobs, and node        *)
(* offsets are used while the blob they point into is being changed.       *)
(*                                                                         *)
(* A path in a value is its names and a 0; a fixup is a path, COLON, a     *)
(* property's name, COLON, a position and a 0.                             *)
(***************************************************************************)
EXTENDS FdtDoc
LOCAL INSTANCE SequencesExt
LOCAL INSTANCE FiniteSetsExt

CONSTANTS Bases, Overlays,      \* documents
          OvSizes               \* cells of the base's buffer

VARIABLE ov

HANDLES == 100                  \* values of a phandle's cell
COLON == 1000
CELLS == 200                    \* memory of a tree

\* Names.
OVERLAY_NODE == 400
LOCAL_FIXUPS == 500
FIXUPS == 600
SYMBOLS == 700
TARGET == 11
TARGET_PATH == 12

\* The path in a value.
PathIn(v) == SubSeq(v, 1, Len(v) - 1)

(***************************************************************************)
(* Phandles.                                                               *)
(***************************************************************************)
\* 0 when the fragment has none, -1 when it is malformed.
overlay_get_target_phandle(fdto, fragment) ==
    LET in(p) == IF p.err # 0 THEN 0
                 ELSE IF Len(p.val) # 1 \/ p.val[1] = HANDLES - 1 THEN -1 ELSE p.val[1]
    IN  in(fdt_getprop(fdto, fragment, TARGET))

\* The node the fragment is for, and the path when it gives one.
fdt_overlay_target_offset(fdt, fdto, fragment) ==
    LET at(off, path) == [off |-> off, path |-> path]
        by_path(p) == IF p.err = 0 THEN at(fdt_path_offset(fdt, 0, PathIn(p.val)), p.val)
                      ELSE at(IF p.err = NOTFOUND THEN BADOVERLAY ELSE p.err, <<>>)
        by(phandle) == CASE phandle = -1 -> at(BADPHANDLE, <<>>)
                         [] phandle = 0 -> by_path(fdt_getprop(fdto, fragment, TARGET_PATH))
                         [] OTHER -> at(fdt_node_offset_by_phandle(fdt, phandle), <<>>)
    IN  by(overlay_get_target_phandle(fdto, fragment))

overlay_phandle_add_offset(b, node, name, delta) ==
    LET moved(p) == IF p.err # 0 THEN Result(b, p.err)
                    ELSE IF Len(p.val) # 1 THEN Result(b, BADPHANDLE)
                    ELSE IF p.val[1] + delta >= HANDLES - 1 THEN Result(b, NOPHANDLES)
                    ELSE fdt_setprop_inplace(b, node, name, <<p.val[1] + delta>>)
    IN  moved(fdt_getprop(b, node, name))

\* A property that is not there is no failure.
Failed(r) == r.ret < 0 /\ r.ret # NOTFOUND

RECURSIVE AdjustKids(_, _, _), overlay_adjust_node_phandles(_, _, _)
AdjustKids(b, child, delta) ==
    IF child < 0 THEN Result(b, 0)
    ELSE LET onward(r) == IF r.ret # 0 THEN r ELSE AdjustKids(r.b, fdt_next_subnode(r.b, child), delta)
         IN  onward(overlay_adjust_node_phandles(b, child, delta))

overlay_adjust_node_phandles(b, node, delta) ==
    LET below(l) == IF Failed(l) THEN l ELSE AdjustKids(l.b, fdt_first_subnode(l.b, node), delta)
        second(p) == IF Failed(p) THEN p ELSE overlay_phandle_add_offset(p.b, node, LINUX_PHANDLE, delta)
    IN  below(second(overlay_phandle_add_offset(b, node, PHANDLE, delta)))

(***************************************************************************)
(* References.                                                             *)
(***************************************************************************)
\* The cells of one property whose positions the fixup lists.
RECURSIVE MoveRefs(_, _, _, _, _)
MoveRefs(b, node, name, positions, delta) ==
    IF positions = <<>> THEN Result(b, 0)
    ELSE LET at == Head(positions)
             moved(old) == IF at < Len(old) THEN (old[at + 1] + delta) % HANDLES ELSE 0
             onward(r) == IF r.ret # 0 THEN Result(r.b, IF r.ret = NOSPACE THEN BADOVERLAY ELSE r.ret)
                          ELSE MoveRefs(r.b, node, name, Tail(positions), delta)
         IN  onward(fdt_setprop_inplace_namelen_partial(b, node, name, at, <<moved(fdt_getprop(b, node, name).val)>>))

RECURSIVE FixProps(_, _, _, _), FixKids(_, _, _, _), overlay_update_local_node_references(_, _, _, _)
FixProps(b, tree, prop, delta) ==
    IF prop < 0 THEN Result(b, 0)
    ELSE LET onward(r) == IF r.ret # 0 THEN r
                          ELSE FixProps(r.b, tree, fdt_next_property_offset(r.b, prop), delta)
             fixed(fix, has) ==
                IF fix.err # 0 THEN Result(b, fix.err)
                ELSE IF has # 0 THEN Result(b, IF has = NOTFOUND THEN BADOVERLAY ELSE has)
                ELSE MoveRefs(b, tree, PropName(b, prop), fix.val, delta)
         IN  onward(fixed(fdt_getprop_by_offset(b, prop), fdt_getprop(b, tree, PropName(b, prop)).err))

FixKids(b, tree, kid, delta) ==
    IF kid < 0 THEN Result(b, 0)
    ELSE LET onward(r) == IF r.ret # 0 THEN r ELSE FixKids(r.b, tree, fdt_next_subnode(r.b, kid), delta)
             fixed(sub) == IF sub < 0 THEN Result(b, IF sub = NOTFOUND THEN BADOVERLAY ELSE sub)
                           ELSE overlay_update_local_node_references(b, sub, kid, delta)
         IN  onward(fixed(fdt_subnode_offset(b, tree, fdt_get_name(b, kid))))

overlay_update_local_node_references(b, tree, fixup, delta) ==
    LET below(r) == IF r.ret # 0 THEN r ELSE FixKids(r.b, tree, fdt_first_subnode(r.b, fixup), delta)
    IN  below(FixProps(b, tree, fdt_first_property_offset(b, fixup), delta))

overlay_update_local_references(b, delta) ==
    LET from(fixups) == IF fixups = NOTFOUND THEN Result(b, 0)
                        ELSE IF fixups < 0 THEN Result(b, fixups)
                        ELSE overlay_update_local_node_references(b, 0, fixups, delta)
    IN  from(fdt_path_offset(b, 0, <<LOCAL_FIXUPS>>))

\* The base's phandle of the node a label names, written into the overlay.
overlay_fixup_one_phandle(fdt, fdto, symbols, label, fixup) ==
    LET put(phandle, place) ==
            IF phandle = 0 THEN Result(fdto, NOTFOUND)
            ELSE IF place < 0 THEN Result(fdto, IF place = NOTFOUND THEN BADOVERLAY ELSE place)
            ELSE fdt_setprop_inplace_namelen_partial(fdto, place, fixup.name, fixup.at, <<phandle>>)
        of(node) == IF node < 0 THEN Result(fdto, node)
                    ELSE put(fdt_get_phandle(fdt, node), fdt_path_offset(fdto, 0, fixup.path))
        named(sym) == IF sym.err # 0 THEN Result(fdto, sym.err)
                      ELSE of(fdt_path_offset(fdt, 0, PathIn(sym.val)))
    IN  IF symbols < 0 THEN Result(fdto, symbols) ELSE named(fdt_getprop(fdt, symbols, label))

\* One string of a __fixups__ property, "path:name:position".
ParsesAsFixup(s) ==
    /\ Last(s) = 0 /\ Len(s) >= 5
    /\ s[Len(s) - 2] = COLON /\ s[Len(s) - 4] = COLON
    /\ Cardinality({i \in DOMAIN s : s[i] = COLON}) = 2
AsFixup(s) == [path |-> SubSeq(s, 1, Len(s) - 5), name |-> s[Len(s) - 3], at |-> s[Len(s) - 1] - 1]

RECURSIVE FixupStrings(_, _, _, _, _)
FixupStrings(fdt, fdto, symbols, label, strs) ==
    IF strs = <<>> THEN Result(fdto, 0)
    ELSE LET onward(r) == IF r.ret # 0 THEN r ELSE FixupStrings(fdt, r.b, symbols, label, Tail(strs))
         IN  IF ~ParsesAsFixup(Head(strs)) THEN Result(fdto, BADOVERLAY)
             ELSE onward(overlay_fixup_one_phandle(fdt, fdto, symbols, label, AsFixup(Head(strs))))

RECURSIVE FixupProps(_, _, _, _)
FixupProps(fdt, fdto, symbols, prop) ==
    IF prop < 0 THEN Result(fdto, 0)
    ELSE LET onward(r) == IF r.ret # 0 THEN r
                          ELSE FixupProps(fdt, r.b, symbols, fdt_next_property_offset(r.b, prop))
             fixed(p) ==
                IF p.err # 0 THEN Result(fdto, IF p.err = NOTFOUND THEN INTERNAL ELSE p.err)
                ELSE IF p.val = <<>> THEN Result(fdto, BADOVERLAY)
                ELSE FixupStrings(fdt, fdto, symbols, PropName(fdto, prop), Strings(p.val))
         IN  onward(fixed(fdt_getprop_by_offset(fdto, prop)))

overlay_fixup_phandles(fdt, fdto) ==
    LET from(fixups, symbols) ==
            IF fixups = NOTFOUND THEN Result(fdto, 0)
            ELSE IF fixups < 0 THEN Result(fdto, fixups)
            ELSE IF symbols < 0 /\ symbols # NOTFOUND THEN Result(fdto, symbols)
            ELSE FixupProps(fdt, fdto, symbols, fdt_first_property_offset(fdto, fixups))
    IN  from(fdt_path_offset(fdto, 0, <<FIXUPS>>), fdt_path_offset(fdt, 0, <<SYMBOLS>>))

(***************************************************************************)
(* Merging.                                                                *)
(***************************************************************************)
RECURSIVE ApplyProps(_, _, _, _)
ApplyProps(fdt, target, fdto, prop) ==
    IF prop < 0 THEN Result(fdt, 0)
    ELSE LET onward(r) == IF r.ret # 0 THEN r
                          ELSE ApplyProps(r.b, target, fdto, fdt_next_property_offset(fdto, prop))
             set(p) == IF p.err # 0 THEN Result(fdt, IF p.err = NOTFOUND THEN INTERNAL ELSE p.err)
                       ELSE fdt_setprop(fdt, target, PropName(fdto, prop), p.val)
         IN  onward(set(fdt_getprop_by_offset(fdto, prop)))

\* The node of the base that takes a subnode of the overlay.
MutAlwaysLookUp(fdt, target, name) == Result(fdt, fdt_subnode_offset(fdt, target, name))

SubnodeFor(fdt, target, name) ==
    LET there(sub) == IF sub = NOTFOUND THEN INTERNAL ELSE sub
        added(r) == IF r.ret # EXISTS THEN r ELSE Result(r.b, there(fdt_subnode_offset(fdt, target, name)))
    IN  added(fdt_add_subnode(fdt, target, name))

RECURSIVE ApplyKids(_, _, _, _), overlay_apply_node(_, _, _, _)
ApplyKids(fdt, target, fdto, kid) ==
    IF kid < 0 THEN Result(fdt, 0)
    ELSE LET onward(r) == IF r.ret # 0 THEN r ELSE ApplyKids(r.b, target, fdto, fdt_next_subnode(fdto, kid))
             applied(n) == IF n.ret < 0 THEN n ELSE overlay_apply_node(n.b, n.ret, fdto, kid)
         IN  onward(applied(SubnodeFor(fdt, target, fdt_get_name(fdto, kid))))

overlay_apply_node(fdt, target, fdto, node) ==
    LET below(r) == IF r.ret # 0 THEN r ELSE ApplyKids(r.b, target, fdto, fdt_first_subnode(fdto, node))
    IN  below(ApplyProps(fdt, target, fdto, fdt_first_property_offset(fdto, node)))

\* A child of the root without an __overlay__ node is no fragment.
RECURSIVE MergeFrom(_, _, _)
MergeFrom(fdt, fdto, fragment) ==
    IF fragment < 0 THEN Result(fdt, 0)
    ELSE LET onward(r) == IF r.ret # 0 THEN r ELSE MergeFrom(r.b, fdto, fdt_next_subnode(fdto, fragment))
             merged(overlay, target) ==
                IF overlay = NOTFOUND THEN Result(fdt, 0)
                ELSE IF overlay < 0 THEN Result(fdt, overlay)
                ELSE IF target < 0 THEN Result(fdt, target)
                ELSE overlay_apply_node(fdt, target, fdto, overlay)
         IN  onward(merged(fdt_subnode_offset(fdto, fragment, OVERLAY_NODE),
                           fdt_overlay_target_offset(fdt, fdto, fragment).off))

overlay_merge(fdt, fdto) == MergeFrom(fdt, fdto, fdt_first_subnode(fdto, 0))

(***************************************************************************)
(* Symbols.  get_path_len counts a node's names up to the root's.          *)
(***************************************************************************)
RECURSIVE get_path_len(_, _)
get_path_len(fdt, node) ==
    LET longer(above) == IF above < 0 THEN above ELSE above + 1
        below(parent) == IF parent < 0 THEN parent ELSE longer(get_path_len(fdt, parent))
        of(name) == IF name <= 0 THEN name ELSE below(fdt_parent_offset(fdt, node))
    IN  of(fdt_get_name(fdt, node))

\* A symbol that does not lie below an __overlay__ node is passed over.
InFragment(path) == Len(path) >= 2 /\ path[2] = OVERLAY_NODE


TargetNow(before, after) == after

\* Names of the path to the target: the fragment's own, or the node's.
TargetLen(fdt, first) ==
    IF first.path = <<>> THEN get_path_len(fdt, first.off) ELSE Len(PathIn(first.path))

TargetNames(fdt, first, node, len) ==
    IF first.path # <<>> THEN Found(PathIn(first.path))
    ELSE IF node < 0 THEN NoValue(node)
    ELSE IF len = 0 THEN Found(<<>>) ELSE fdt_get_path(fdt, node, 2 * len + 1)

\* The symbol's value is the path to the target and, from there, to its node.
PutSymbol(room, target, rel) ==
    IF target.err # 0 THEN Result(room.b, target.err)
    ELSE Result(Write(room.b, room.b.st + room.ret + 3, target.val \o rel \o <<0>>), 0)

InRoom(room, fdto, fragment, first, len, rel) ==
    LET again == TargetNow(first.off, fdt_overlay_target_offset(room.b, fdto, fragment).off)
    IN  IF room.ret < 0 THEN room ELSE PutSymbol(room, TargetNames(room.b, first, again, len), rel)

WithTarget(fdt, fdto, root_sym, name, fragment, first, rel) ==
    LET sized(len) ==
            IF len < 0 THEN Result(fdt, len)
            ELSE InRoom(fdt_setprop_placeholder(fdt, root_sym, name, len + Len(rel) + 1),
                        fdto, fragment, first, len, rel)
    IN  IF first.off < 0 THEN Result(fdt, first.off) ELSE sized(TargetLen(fdt, first))

OneSymbol(fdt, fdto, root_sym, name, path) ==
    LET fragment == fdt_subnode_offset(fdto, 0, path[1])
    IN  IF fragment < 0 \/ fdt_subnode_offset(fdto, fragment, OVERLAY_NODE) < 0 THEN Result(fdt, BADOVERLAY)
        ELSE WithTarget(fdt, fdto, root_sym, name, fragment, fdt_overlay_target_offset(fdt, fdto, fragment),
                        SubSeq(path, 3, Len(path)))

UpdateSymbol(fdt, fdto, root_sym, name, p) ==
    IF p.err # 0 THEN Result(fdt, p.err)
    ELSE IF Len(Strings(p.val)) # 1 \/ Malformed(p.val) THEN Result(fdt, BADVALUE)
    ELSE IF ~InFragment(PathIn(p.val)) THEN Result(fdt, 0)
    ELSE OneSymbol(fdt, fdto, root_sym, name, PathIn(p.val))

RECURSIVE SymbolsFrom(_, _, _, _)
SymbolsFrom(fdt, fdto, root_sym, prop) ==
    LET onward(r) == IF r.ret # 0 THEN r
                     ELSE SymbolsFrom(r.b, fdto, root_sym, fdt_next_property_offset(fdto, prop))
    IN  IF prop < 0 THEN Result(fdt, 0)
        ELSE onward(UpdateSymbol(fdt, fdto, root_sym, PropName(fdto, prop), fdt_getprop_by_offset(fdto, prop)))

\* The base's node for symbols, made when it has none.
RootSymbols(fdt, have) == IF have = NOTFOUND THEN fdt_add_subnode(fdt, 0, SYMBOLS) ELSE Result(fdt, have)

SymbolsInto(made, fdto, prop) ==
    IF made.ret < 0 THEN made ELSE SymbolsFrom(made.b, fdto, made.ret, prop)

overlay_symbol_update(fdt, fdto) ==
    LET ov_sym == fdt_subnode_offset(fdto, 0, SYMBOLS)
    IN  IF ov_sym < 0 THEN Result(fdt, 0)
        ELSE SymbolsInto(RootSymbols(fdt, fdt_subnode_offset(fdt, 0, SYMBOLS)), fdto,
                         fdt_first_property_offset(fdto, ov_sym))

(***************************************************************************)
(* fdt_overlay_apply, one step at a time.  `base` and `overlay` are the    *)
(* documents the trees began as, `calls` how often the overlay was applied.*)
(***************************************************************************)
OvStart ==
    {[fdt |-> fdt_open_into(Compiled(base, CELLS), size).b, fdto |-> Compiled(overlay, CELLS),
      base |-> base, overlay |-> overlay, step |-> "idle", delta |-> 0, ret |-> 0, calls |-> 0] :
        base \in Bases, overlay \in Overlays, size \in OvSizes}

OvInit == ov \in OvStart

Probe(b) == IF fdt_ro_probe_(b) < 0 THEN fdt_ro_probe_(b) ELSE 0

\* The magic of both trees goes on an error, the overlay's in any case.
Leave(o, ret) ==
    [o EXCEPT !.ret = ret, !.step = "idle", !.fdto.magic = "none",
              !.fdt.magic = IF ret = 0 THEN @ ELSE "none"]

Continue(o, ret, step) == IF ret # 0 THEN Leave(o, ret) ELSE [o EXCEPT !.step = step]

\* A tree without its magic is refused before anything changes.
FindDelta ==
    /\ ov.step = "idle" /\ ov.calls < 2
    /\ LET o == [ov EXCEPT !.calls = @ + 1]
           bad == IF Probe(ov.fdt) # 0 THEN Probe(ov.fdt) ELSE Probe(ov.fdto)
           from(max) == IF max < 0 THEN Leave(o, max)
                        ELSE [o EXCEPT !.delta = max, !.ret = 0, !.step = "adjust"]
       IN  ov' = IF bad # 0 THEN [o EXCEPT !.ret = bad] ELSE from(fdt_find_max_phandle(ov.fdt))

overlay_adjust_local_phandles ==
    /\ ov.step = "adjust"
    /\ LET with(r) == Continue([ov EXCEPT !.fdto = r.b], r.ret, "local")
       IN  ov' = with(overlay_adjust_node_phandles(ov.fdto, 0, ov.delta))

UpdateLocal ==
    /\ ov.step = "local"
    /\ LET with(r) == Continue([ov EXCEPT !.fdto = r.b], r.ret, "fixup")
       IN  ov' = with(overlay_update_local_references(ov.fdto, ov.delta))

Fixup ==
    /\ ov.step = "fixup"
    /\ LET with(r) == Continue([ov EXCEPT !.fdto = r.b], r.ret, "merge")
       IN  ov' = with(overlay_fixup_phandles(ov.fdt, ov.fdto))

Merge ==
    /\ ov.step = "merge"
    /\ LET with(r) == Continue([ov EXCEPT !.fdt = r.b], r.ret, "symbols")
       IN  ov' = with(overlay_merge(ov.fdt, ov.fdto))

UpdateSymbols ==
    /\ ov.step = "symbols"
    /\ LET with(r) == Leave([ov EXCEPT !.fdt = r.b], r.ret)
       IN  ov' = with(overlay_symbol_update(ov.fdt, ov.fdto))

OvNext == FindDelta \/ overlay_adjust_local_phandles \/ UpdateLocal \/ Fixup \/ Merge \/ UpdateSymbols

(***************************************************************************)
(* Properties.  In the documents every node has a name of its own, a REF   *)
(* property holds a phandle and the MEANS property beside it the name of   *)
(* the node it refers to, and a label is the tenth of its node's name.     *)
(***************************************************************************)
REF == 21
MEANS == 22

PathTo(doc, i) ==
    LET chain == SetToSortSeq(Ancestors(doc, i) \ {1}, <) IN [k \in DOMAIN chain |-> doc[chain[k]].n]

OwnerOf(doc, j) == Max({i \in Nodes(doc) : i < j /\ LastProp(doc, i) >= j})

PropIndices(doc) == {j \in DOMAIN doc : doc[j].t = "prop"}

\* Path, name and value of every property, but for the symbols.
Contents(doc) ==
    {c \in {[path |-> PathTo(doc, OwnerOf(doc, j)), n |-> doc[j].n, v |-> doc[j].v] : j \in PropIndices(doc)} :
        c.path # <<SYMBOLS>>}

ValueOf(doc, i, n) == doc[Min(PropsAt(doc, i, n))].v

\* The path of the node a fragment is for, in the base.
TargetPath(base, doc, i) ==
    IF PropsAt(doc, i, TARGET_PATH) # {} THEN PathIn(ValueOf(doc, i, TARGET_PATH))
    ELSE PathTo(base, CHOOSE j \in Nodes(base) :
                PropsAt(base, j, PHANDLE) # {} /\ ValueOf(base, j, PHANDLE) = ValueOf(doc, i, TARGET))

\* What the fragments add, where it belongs in the base.
Added(base, doc) ==
    {[c EXCEPT !.path = TargetPath(base, doc, f) \o SubSeq(@, 3, Len(@))] :
        <<c, f>> \in {<<c, f>> \in Contents(doc) \X Children(doc, 1) :
                        Len(c.path) >= 2 /\ c.path[1] = doc[f].n /\ c.path[2] = OVERLAY_NODE}}

Overridden(base, added) ==
    {c \in Contents(base) : \A a \in added : <<a.path, a.n>> # <<c.path, c.n>>} \cup added

WithHandle(doc, h) ==
    {i \in Nodes(doc) : PropsAt(doc, i, PHANDLE) # {} /\ ValueOf(doc, i, PHANDLE) = h}

\* The phandles fit, and every fixup names a label of the base and a property
\* of the overlay that are there.
Applicable(base, overlay) ==
    LET handles(doc) == {doc[j].v[1] : j \in {k \in PropIndices(doc) : doc[k].n = PHANDLE}}
        under(doc, n) == {j \in PropIndices(doc) : doc[OwnerOf(doc, j)].n = n}
    IN  /\ Max(handles(base)) + Max(handles(overlay)) < HANDLES - 1
        /\ \A j \in under(overlay, FIXUPS) :
                /\ \E k \in under(base, SYMBOLS) : base[k].n = overlay[j].n
                /\ \A str \in ToSet(Strings(overlay[j].v)) : \E c \in Contents(overlay) :
                        c.path = AsFixup(str).path /\ c.n = AsFixup(str).name

============================================================================
