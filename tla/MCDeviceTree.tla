---------------------------- MODULE MCDeviceTree ----------------------------
(***************************************************************************)
(* Small instances of DeviceTree and FdtOverlay.  A behaviour works on one *)
(* of the two, `part`; the other stays where it began.                     *)
(***************************************************************************)
EXTENDS DeviceTree, FdtOverlay

VARIABLE part

Node(n, body) == <<BeginTok(n)>> \o body \o <<EndTok>>
Prop(n, v) == <<PropTok(n, v)>>

(* Trees for DeviceTree: repeated names, strings, phandles, an alias. *)
MCDocuments ==
    {Node(0, Prop(1, <<7>>) \o Node(10, Prop(5, <<7, 0, 8>>))
             \o Node(11, Node(10, Prop(2, <<98>>)))),
     Node(0, Node(90, Prop(1, <<11, 20>>))
             \o Node(11, Node(20, Prop(1, <<98>>)) \o Node(12, <<>>)))}
MCValues == {<<>>, <<8>>, <<7, 0>>}

(* Base trees: a labelled node and its labelled child, which it refers to. *)
BaseTree(symbols, h) ==
    Node(0, (IF symbols THEN Node(SYMBOLS, Prop(30, <<300, 0>>) \o Prop(31, <<300, 310, 0>>)) ELSE <<>>)
            \o Node(300, Prop(PHANDLE, <<h>>) \o Prop(REF, <<h + 1>>) \o Prop(MEANS, <<310>>)
                          \o Node(310, Prop(PHANDLE, <<h + 1>>))))
MCBases == {BaseTree(symbols, h) : symbols \in BOOLEAN, h \in {1, 96, 97}}

(* Overlays of two fragments, with targets by path or by label, a reference *)
(* from one fragment into the other, and one that the base has to resolve.  *)
ByPath == Prop(TARGET_PATH, <<300, 310, 0>>)
AtRoot == Prop(TARGET_PATH, <<0>>)
ByLabel == Prop(TARGET, <<99>>)
Fragment(n, target, body) == Node(n, target \o Node(OVERLAY_NODE, body))
FixupAt(path, name) == path \o <<COLON, name, COLON, 1, 0>>

OverlayTree(t, u, bad, symbols, fixups) ==
    Node(0,
      Fragment(810, t, Prop(23, <<5>>)
        \o Node(320, Prop(PHANDLE, <<1>>)
                     \o (IF fixups THEN Prop(REF, <<99>>) \o Prop(MEANS, <<310>>) ELSE <<>>)))
      \o Fragment(820, u, Node(330, Prop(REF, <<1>>) \o Prop(MEANS, <<320>>))
                          \o Node(300, Prop(24, <<>>)))
      \o Node(LOCAL_FIXUPS, Node(820, Node(OVERLAY_NODE, Node(330, Prop(REF, <<0>>)))))
      \o (IF ~fixups THEN <<>>
          ELSE Node(FIXUPS, Prop(31, (IF t = ByLabel THEN FixupAt(<<810>>, TARGET) ELSE <<>>)
                                     \o FixupAt(<<810, OVERLAY_NODE, 320>>, IF bad THEN 29 ELSE REF))
                            \o (IF u = ByLabel THEN Prop(30, FixupAt(<<820>>, TARGET)) ELSE <<>>)))
      \o (IF ~symbols THEN <<>>
          ELSE Node(SYMBOLS, Prop(32, <<810, OVERLAY_NODE, 320, 0>>)
                             \o Prop(33, <<820, OVERLAY_NODE, 330, 0>>))))
MCOverlays ==
    {OverlayTree(ByPath, AtRoot, FALSE, symbols, FALSE) : symbols \in BOOLEAN}
    \cup {OverlayTree(t, u, bad, symbols, TRUE) : t \in {ByPath, ByLabel}, u \in {AtRoot, ByLabel},
                                                 bad \in BOOLEAN, symbols \in BOOLEAN}

vars == <<part, dt, ov>>

DtRest == Start(Compiled(<<BeginTok(0), EndTok>>, 14), <<BeginTok(0), EndTok>>)
OvRest == CHOOSE s \in OvStart : TRUE

Init ==
    \/ part = "tree" /\ DtInit /\ ov = OvRest
    \/ part = "overlay" /\ OvInit /\ dt = DtRest

Next ==
    \/ part = "tree" /\ DtNext /\ UNCHANGED <<part, ov>>
    \/ part = "overlay" /\ OvNext /\ UNCHANGED <<part, dt>>

Spec == Init /\ [][Next]_vars

ReorderSpec ==
    /\ part = "tree" /\ ReorderInit /\ ov = OvRest
    /\ [][OpenInto /\ UNCHANGED <<part, ov>>]_vars
=============================================================================
