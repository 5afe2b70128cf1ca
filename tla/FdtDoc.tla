------------------------------- MODULE FdtDoc -------------------------------
(***************************************************************************)
(* What a flattened device tree is about: a document, the sequence of the  *)
(* beginnings and ends of nodes and of the properties, read from a blob    *)
(* cell by cell and without the library's functions.                       *)
(***************************************************************************)
EXTENDS FdtWrite
LOCAL INSTANCE FiniteSetsExt

BeginTok(n) == [t |-> "begin", n |-> n, v |-> <<>>]
EndTok == [t |-> "end", n |-> 0, v |-> <<>>]
PropTok(n, v) == [t |-> "prop", n |-> n, v |-> v]

(***************************************************************************)
(* What a blob holds, read cell by cell, and the shape of a document.      *)
(***************************************************************************)
RECURSIVE ItemsFrom(_, _)
ItemsFrom(b, o) ==
    LET item(tok) == <<[off |-> o, tok |-> tok]>>
        in(i) == b.st + i < b.str /\ b.st + i < Len(b.mem)
        len == Cell(b, o + 1)
        name == b.str + Cell(b, o + 2)
    IN  CASE in(o) /\ Cell(b, o) = FDT_NOP -> ItemsFrom(b, o + 1)
          [] in(o) /\ Cell(b, o) = FDT_END_NODE -> item(EndTok) \o ItemsFrom(b, o + 1)
          [] in(o + 1) /\ Cell(b, o) = FDT_BEGIN_NODE -> item(BeginTok(len)) \o ItemsFrom(b, o + 2)
          [] in(o + 2) /\ Cell(b, o) = FDT_PROP /\ name \in b.str..(b.str + b.strsize - 1)
                       /\ (len > 0 => in(o + 2 + len)) ->
                item(PropTok(At(b, name), [i \in 1..len |-> Cell(b, o + 2 + i)]))
                    \o ItemsFrom(b, o + 3 + len)
          [] in(o) /\ Cell(b, o) = FDT_END -> <<>>
          [] OTHER -> item([t |-> "bad", n |-> 0, v |-> <<>>])

Items(b) == ItemsFrom(b, 0)

Tokens(b) == [i \in DOMAIN Items(b) |-> Items(b)[i].tok]

\* Reserve entries before the one that ends the map.
Reserved(b) == [i \in 1..fdt_num_mem_rsv(b) |-> At(b, b.rsv + i - 1)]

CountOf(doc, t, i, j) == Cardinality({k \in i..j : doc[k].t = t})
DepthAt(doc, i) == CountOf(doc, "begin", 1, i - 1) - CountOf(doc, "end", 1, i - 1)
Nodes(doc) == {i \in DOMAIN doc : doc[i].t = "begin"}
EndOf(doc, i) == Min({j \in i..Len(doc) : CountOf(doc, "begin", i, j) = CountOf(doc, "end", i, j)})
LastProp(doc, i) == Max({j \in i..Len(doc) : \A k \in (i + 1)..j : doc[k].t = "prop"})
PropsAt(doc, i, n) == {j \in (i + 1)..LastProp(doc, i) : doc[j].n = n}
Children(doc, i) == {j \in (i + 1)..EndOf(doc, i) : doc[j].t = "begin" /\ DepthAt(doc, j) = DepthAt(doc, i) + 1}
Ancestors(doc, i) == {j \in Nodes(doc) : j <= i /\ EndOf(doc, j) >= i}
NameMatches(have, n) == have = n \/ (n % 10 = 0 /\ have \div 10 = n \div 10)

Swap(doc, i, tok) == [doc EXCEPT ![i] = tok]
InsertAfter(doc, i, toks) == SubSeq(doc, 1, i) \o toks \o SubSeq(doc, i + 1, Len(doc))
Cut(doc, i, j) == SubSeq(doc, 1, i - 1) \o SubSeq(doc, j + 1, Len(doc))

\* A buffer before it holds a blob.
Blank(cells) ==
    [magic |-> "none", version |-> 0, last |-> 0, total |-> 0, rsv |-> 0, st |-> 0, ssize |-> 0,
     str |-> 0, strsize |-> 0, mem |-> [i \in 1..cells |-> 0]]

\* The blob a device tree compiler makes of a document, in a buffer; every
\* property has a string of its own.
RECURSIVE CellsOf(_, _, _)
CellsOf(doc, i, j) ==
    LET mid == (i + j) \div 2 IN
    IF i < j THEN CellsOf(doc, i, mid) \o CellsOf(doc, mid + 1, j)
    ELSE CASE doc[i].t = "begin" -> <<FDT_BEGIN_NODE, doc[i].n>>
           [] doc[i].t = "end" -> <<FDT_END_NODE>>
           [] doc[i].t = "prop" -> <<FDT_PROP, Len(doc[i].v), CountOf(doc, "prop", 1, i - 1)>> \o doc[i].v

Compiled(doc, cells) ==
    LET props == SelectSeq(doc, LAMBDA tok : tok.t = "prop")
        struct == CellsOf(doc, 1, Len(doc)) \o <<FDT_END>>
        st == HEADER + 1
        str == st + Len(struct)
    IN  Write([Blank(cells) EXCEPT !.magic = "FDT", !.version = 17, !.last = 16, !.rsv = HEADER, !.st = st,
                                   !.ssize = Len(struct), !.str = str, !.strsize = Len(props),
                                   !.total = str + Len(props)],
              st, struct \o [k \in DOMAIN props |-> props[k].n])

\* The same blob with its strings in front of its structure.
StringsFirst(b) ==
    LET st == b.rsv + 1 + b.strsize IN
    [Write(Move(b, b.rsv + 1, b.str, b.strsize), st, SubSeq(b.mem, b.st + 1, b.st + b.ssize))
        EXCEPT !.st = st, !.str = b.rsv + 1]
============================================================================
