----------------------------- MODULE DeviceTree -----------------------------
(***************************************************************************)
(* One flattened device tree and the callers of the library: it is written *)
(* from start to end (fdt_sw.c) or begins as a small tree, and is then     *)
(* changed and read (fdt_rw.c, fdt_wip.c, fdt_ro.c) in a buffer that may   *)
(* be too small.                                                           *)
(*                                                                         *)
(* Beside the blob the state keeps the document: the tokens the blob is    *)
(* meant to hold, changed by what each operation promises.                 *)
(***************************************************************************)
EXTENDS FdtDoc
LOCAL INSTANCE SequencesExt
LOCAL INSTANCE FiniteSetsExt

CONSTANTS Documents,    \* documents the tree may begin with
          NodeNames, PropNames, PropValues,
          Sizes,        \* cells of buffers; the memory has the largest
          MaxTokens,    \* tokens written from start to end
          MaxOps,       \* changes of a complete tree
          MaxRsv

VARIABLE dt

Start(b, doc) == [b |-> b, doc |-> doc, rsv |-> <<>>, ret |-> 0, agreed |-> TRUE, ops |-> 0]

DtStart ==
    LET blank == Blank(Max(Sizes)) IN
    {Start(fdt_create_with_flags(blank, size, flags).b, <<>>) : size \in Sizes, flags \in {0, NO_NAME_DEDUP}}
    \cup {Start(fdt_create_empty_tree(blank, size).b, <<BeginTok(0), EndTok>>) : size \in Sizes}
    \cup {Start(Compiled(doc, Max(Sizes)), doc) : doc \in Documents}

DtInit == dt \in DtStart

\* An operation that returned r, promises the document `want`, or the error e.
Done(r, want, e) ==
    dt' = [dt EXCEPT !.b = r.b, !.ret = r.ret, !.ops = IF dt.b.magic = "SW" THEN @ ELSE @ + 1,
                     !.doc = IF r.ret >= 0 THEN want ELSE @,
                     !.agreed = IF e # 0 THEN r.ret = e ELSE r.ret >= 0 \/ r.ret = NOSPACE]


(***************************************************************************)
(* Writing from start to end.  Callers nest nodes, put properties before   *)
(* subnodes and write one root node, with an empty name.                   *)
(***************************************************************************)
Depth == DepthAt(dt.doc, Len(dt.doc) + 1)
Writing == dt.b.magic = "SW"
Wants(tok) == Append(dt.doc, tok)
More == Writing /\ Len(dt.doc) < MaxTokens
\* The writer is past the reserve map, or told so.
Early == IF dt.b.str = 0 THEN BADSTATE ELSE 0

BeginNode ==
    \E n \in NodeNames :
        /\ More /\ (dt.doc # <<>> => Depth > 0)
        /\ LET name == IF dt.doc = <<>> THEN 0 ELSE n IN
           Done(fdt_begin_node(dt.b, name), Wants(BeginTok(name)), Early)

EndNode == More /\ Depth > 0 /\ Done(fdt_end_node(dt.b), Wants(EndTok), Early)

Property ==
    \E n \in PropNames, v \in PropValues :
        /\ More /\ dt.doc # <<>> /\ dt.doc[Len(dt.doc)].t # "end"
        /\ \A j \in PropsAt(dt.doc, Max(Nodes(dt.doc)), n) : FALSE
        /\ Done(fdt_property(dt.b, n, v), Wants(PropTok(n, v)), Early)

Finish == Writing /\ dt.doc # <<>> /\ Depth = 0 /\ Done(fdt_finish(dt.b), dt.doc, Early)

ReserveEntry ==
    /\ Writing /\ Len(dt.rsv) < MaxRsv
    /\ LET r == fdt_add_reservemap_entry(dt.b, 1) IN
       dt' = [dt EXCEPT !.b = r.b, !.ret = r.ret,
                        !.rsv = IF r.ret = 0 THEN Append(@, 1) ELSE @,
                        !.agreed = IF dt.b.str # 0 THEN r.ret = BADSTATE ELSE r.ret \in {0, NOSPACE}]

FinishReserve ==
    Writing /\ Done(fdt_finish_reservemap(dt.b), dt.doc, IF dt.b.str # 0 THEN BADSTATE ELSE 0)

Resize == \E size \in Sizes : Writing /\ Done(fdt_resize(dt.b, size), dt.doc, 0)

(***************************************************************************)
(* Changing.  A caller passes the offset of a node, or one that is none.   *)
(***************************************************************************)
Changing == dt.ops < MaxOps /\ dt.b.magic = "FDT"
Places == Nodes(dt.doc) \cup {0}
OffsetOf(i) == IF i = 0 THEN 1 ELSE Items(dt.b)[i].off

SetProp ==
    \E i \in Places, n \in PropNames, v \in PropValues :
        /\ Changing
        /\ LET at == PropsAt(dt.doc, i, n)
               want == CASE i = 0 -> dt.doc
                         [] i # 0 /\ at = {} -> InsertAfter(dt.doc, i, <<PropTok(n, v)>>)
                         [] OTHER -> Swap(dt.doc, Min(at), PropTok(n, v))
           IN  Done(fdt_setprop(dt.b, OffsetOf(i), n, v), want, IF i = 0 THEN BADOFFSET ELSE 0)

AppendProp ==
    \E i \in Nodes(dt.doc), n \in PropNames, v \in PropValues :
        /\ Changing
        /\ LET at == PropsAt(dt.doc, i, n)
               want == IF at = {} THEN InsertAfter(dt.doc, i, <<PropTok(n, v)>>)
                       ELSE Swap(dt.doc, Min(at), PropTok(n, dt.doc[Min(at)].v \o v))
           IN  Done(fdt_appendprop(dt.b, OffsetOf(i), n, v), want, 0)

AppendRange ==
    \E i \in Nodes(dt.doc), n \in PropNames, addr \in {1, WORD} :
        /\ Changing
        /\ LET at == PropsAt(dt.doc, i, n)
               v == <<addr \div WORD, addr % WORD, 1>>
               want == IF at = {} THEN InsertAfter(dt.doc, i, <<PropTok(n, v)>>)
                       ELSE Swap(dt.doc, Min(at), PropTok(n, dt.doc[Min(at)].v \o v))
           IN  /\ \A j \in Nodes(dt.doc) : PropsAt(dt.doc, j, ADDRESS_CELLS) = {}
               /\ Done(fdt_appendprop_addrrange(dt.b, 0, OffsetOf(i), n, addr, 1), want, 0)

\* fdt_delprop and fdt_nop_property promise the same.
DropProp ==
    \E i \in Nodes(dt.doc), n \in PropNames, nop \in BOOLEAN :
        /\ Changing
        /\ LET at == PropsAt(dt.doc, i, n)
               want == IF at = {} THEN dt.doc ELSE Cut(dt.doc, Min(at), Min(at))
           IN  Done(IF nop THEN fdt_nop_property(dt.b, OffsetOf(i), n)
                    ELSE fdt_delprop(dt.b, OffsetOf(i), n),
                    want, IF at = {} THEN NOTFOUND ELSE 0)

SetInPlace ==
    \E i \in Nodes(dt.doc), n \in PropNames, v \in PropValues :
        /\ Changing
        /\ LET at == PropsAt(dt.doc, i, n)
               fits == at # {} /\ Len(dt.doc[Min(at)].v) = Len(v)
           IN  Done(fdt_setprop_inplace(dt.b, OffsetOf(i), n, v),
                    IF fits THEN Swap(dt.doc, Min(at), PropTok(n, v)) ELSE dt.doc,
                    IF at = {} THEN NOTFOUND ELSE IF fits THEN 0 ELSE NOSPACE)

SetName ==
    \E i \in Nodes(dt.doc), n \in NodeNames :
        /\ Changing /\ i # 1
        /\ Done(fdt_set_name(dt.b, OffsetOf(i), n), Swap(dt.doc, i, BeginTok(n)), 0)

AddSubnode ==
    \E i \in Nodes(dt.doc), n \in NodeNames :
        /\ Changing
        /\ Done(fdt_add_subnode(dt.b, OffsetOf(i), n),
                InsertAfter(dt.doc, LastProp(dt.doc, i), <<BeginTok(n), EndTok>>),
                IF \E j \in Children(dt.doc, i) : NameMatches(dt.doc[j].n, n) THEN EXISTS ELSE 0)

\* fdt_del_node and fdt_nop_node.
DropNode ==
    \E i \in Nodes(dt.doc), nop \in BOOLEAN :
        /\ Changing /\ i # 1
        /\ Done(IF nop THEN fdt_nop_node(dt.b, OffsetOf(i)) ELSE fdt_del_node(dt.b, OffsetOf(i)),
                Cut(dt.doc, i, EndOf(dt.doc, i)), 0)

Reserve ==
    \E add \in BOOLEAN, k \in 0..MaxRsv :
        /\ Changing
        /\ LET r == IF add THEN fdt_add_mem_rsv(dt.b, k + 1) ELSE fdt_del_mem_rsv(dt.b, k)
               want == IF add THEN Append(dt.rsv, k + 1) ELSE Cut(dt.rsv, k + 1, k + 1)
           IN  /\ add => Len(dt.rsv) < MaxRsv
               /\ dt' = [dt EXCEPT !.b = r.b, !.ret = r.ret, !.ops = @ + 1,
                                   !.rsv = IF r.ret = 0 THEN want ELSE @,
                                   !.agreed = IF add THEN r.ret \in {0, NOSPACE}
                                              ELSE r.ret = IF k >= Len(dt.rsv) THEN NOTFOUND ELSE 0]

Pack == Changing /\ Done(fdt_pack(dt.b), dt.doc, 0)

OpenInto ==
    \E size \in Sizes :
        Changing /\ Done(fdt_open_into(dt.b, size), dt.doc, IF dt.b.total > size THEN NOSPACE ELSE 0)

DtNext ==
    \/ BeginNode \/ EndNode \/ Property \/ Finish \/ ReserveEntry \/ FinishReserve \/ Resize
    \/ SetProp \/ AppendProp \/ AppendRange \/ DropProp \/ SetInPlace \/ SetName \/ AddSubnode
    \/ DropNode \/ Reserve \/ Pack \/ OpenInto

(***************************************************************************)
(* Properties.                                                             *)
(***************************************************************************)
\* After every operation a complete blob holds exactly the document and the
\* reserve entries the operations so far promise, each returned what it had to,
\* and fdt_check_full finds nothing wrong with it.
BlobIsDocument ==
    /\ dt.agreed
    /\ dt.b.magic = "FDT" =>
            /\ Tokens(dt.b) = dt.doc /\ Reserved(dt.b) = dt.rsv
            /\ fdt_check_full(dt.b, dt.b.total) = 0

\* An operation that returns an error leaves the header, the document and the
\* names in the strings block as they were: a name added for a property that
\* then does not fit is taken back (fdt_rw.c, fdt_sw.c).
HeaderOf(b) == [b EXCEPT !.mem = 0]
FailedChangesNothing ==
    [][dt'.ret < 0 => /\ HeaderOf(dt'.b) = HeaderOf(dt.b) /\ dt'.doc = dt.doc
                      /\ \A i \in (dt.b.st - 1)..(dt.b.st + dt.b.ssize - 1) : At(dt'.b, i) = At(dt.b, i)]_dt

\* The offset of the first token of a set, or NOTFOUND.
FirstOf(b, set) == IF set = {} THEN NOTFOUND ELSE Items(b)[Min(set)].off

InOrder(set) == SetToSortSeq(set, <)

\* What the functions that start at a node say of it, by the document.
NodeReads(b, doc, i) ==
    LET off(j) == Items(b)[j].off
        kids == InOrder(Children(doc, i))
        chain == InOrder(Ancestors(doc, i))
        path == [k \in 1..(Len(chain) - 1) |-> doc[chain[k + 1]].n]
        depth == Len(path)
        alone == \A j \in Ancestors(doc, i) : \A k, l \in Children(doc, j) :
                    k # l => ~NameMatches(doc[k].n, doc[l].n)
    IN  /\ fdt_get_name(b, off(i)) = doc[i].n
        /\ fdt_node_depth(b, off(i)) = depth
        /\ \A k \in DOMAIN chain : fdt_supernode_atdepth_offset(b, off(i), k - 1) = off(chain[k])
        /\ fdt_supernode_atdepth_offset(b, off(i), depth + 1) = NOTFOUND
        /\ fdt_parent_offset(b, off(i)) = IF depth = 0 THEN NOTFOUND ELSE off(chain[depth])
        /\ fdt_get_path(b, off(i), 2 * depth + 2) = Found(path)
        /\ depth > 0 => fdt_get_path(b, off(i), 2 * depth) = NoValue(NOSPACE)
        /\ alone => fdt_path_offset(b, 0, path) = off(i)
        /\ fdt_first_subnode(b, off(i)) = FirstOf(b, Children(doc, i))
        /\ \A k \in DOMAIN kids :
              fdt_next_subnode(b, off(kids[k])) = IF k = Len(kids) THEN NOTFOUND ELSE off(kids[k + 1])
        /\ \A n \in NodeNames : fdt_subnode_offset(b, off(i), n) =
              FirstOf(b, {j \in Children(doc, i) : NameMatches(doc[j].n, n)})
        /\ \A n \in PropNames : LET at == PropsAt(doc, i, n) IN
              fdt_getprop(b, off(i), n) = IF at = {} THEN NoValue(NOTFOUND) ELSE Found(doc[Min(at)].v)

\* The value of a node's property, or <<>>; its phandle; its strings.
ValueAt(doc, i, n) == LET at == PropsAt(doc, i, n) IN IF at = {} THEN <<>> ELSE doc[Min(at)].v
HandleAt(doc, i) ==
    CASE Len(ValueAt(doc, i, PHANDLE)) = 1 -> ValueAt(doc, i, PHANDLE)[1]
      [] Len(ValueAt(doc, i, PHANDLE)) # 1 /\ Len(ValueAt(doc, i, LINUX_PHANDLE)) = 1 ->
            ValueAt(doc, i, LINUX_PHANDLE)[1]
      [] OTHER -> 0
HasString(v, s) == \E i \in DOMAIN v : v[i] = s /\ (i = 1 \/ v[i - 1] = 0) /\ (i = Len(v) \/ v[i + 1] = 0)

\* What the functions that search the whole tree say, by the document.
TreeReads(b, doc) ==
    LET handles == {HandleAt(doc, i) : i \in Nodes(doc)}
        max == Max(handles \cup {0})
        aliases == {i \in Children(doc, 1) : NameMatches(doc[i].n, ALIASES)}
    IN  /\ fdt_find_max_phandle(b) = max
        /\ fdt_generate_phandle(b) = IF max = FDT_MAX_PHANDLE THEN NOPHANDLES ELSE max + 1
        /\ \A h \in (handles \cup {7}) \ {0, FDT_MAX_PHANDLE + 1} :
              fdt_node_offset_by_phandle(b, h) = FirstOf(b, {i \in Nodes(doc) : HandleAt(doc, i) = h})
        /\ \A n \in PropNames, v \in PropValues \ {<<>>} :
              fdt_node_offset_by_prop_value(b, -1, n, v)
                = FirstOf(b, {i \in Nodes(doc) : ValueAt(doc, i, n) = v})
        /\ \A s \in {7, 8} : fdt_node_offset_by_compatible(b, -1, <<s, 0>>) =
              FirstOf(b, {i \in Nodes(doc) : HasString(ValueAt(doc, i, COMPATIBLE), s)})
        /\ \A a \in PropNames : aliases # {} /\ PropsAt(doc, Min(aliases), a) # {} =>
              fdt_path_offset(b, a, <<>>) = fdt_path_offset(b, 0, ValueAt(doc, Min(aliases), a))
        /\ \A k \in 1..Len(dt.rsv) : fdt_get_mem_rsv(b, k - 1) = dt.rsv[k]

\* Every reading function of fdt_ro.c and fdt.c finds in a complete blob what
\* the document says: names, depths, parents, paths (and when a path does not fit
\* its buffer), children in order, properties, phandles, compatible strings,
\* aliases; also after nodes or properties were blanked with FDT_NOP.
ReadsAgree ==
    dt.b.magic = "FDT" => /\ \A i \in Nodes(dt.doc) : NodeReads(dt.b, dt.doc, i)
                          /\ TreeReads(dt.b, dt.doc)

\* fdt_open_into reorganizes a tree whose blocks are in another order, "into a
\* form suitable for the read-write operations" (libfdt.h:73): when it succeeds the
\* tree is the one it was.
OpenIntoKeepsTree == dt.ops > 0 /\ dt.ret = 0 => Tokens(dt.b) = dt.doc

\* The strings stand in front of the structure.
ReorderInit == \E doc \in Documents : dt = Start(StringsFirst(Compiled(doc, Max(Sizes))), doc)
============================================================================
