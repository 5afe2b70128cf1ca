----------------------------- MODULE MCLibrary -----------------------------
(***************************************************************************)
(* The parts of lib/ that the rest of the kernel takes for granted, each   *)
(* with a caller that drives it through its operations.  A behaviour is    *)
(* one part's; the others rest.                                            *)
(***************************************************************************)
EXTENDS Bitmap, Buffers, Strftime, Printf, Stdlib

VARIABLE part

lib == <<part, bm, rg, buf, cal, sf, cv, pf, std>>

\* Where a part may be at the beginning: the one that moves at any of its starts,
\* the others at one of them (the bitmap without a bit).
Starts(name, start) == IF part = name THEN start ELSE {CHOOSE s \in start : TRUE}

MCInit ==
    /\ part \in {"bitmap", "ranges", "buffers", "calendar", "strftime", "convert", "printf", "stdlib"}
    /\ bm \in IF part = "bitmap" THEN BmStart ELSE {bitmap_open(0)}
    /\ rg \in Starts("ranges", RgStart)
    /\ buf \in Starts("buffers", BufStart)
    /\ cal \in Starts("calendar", CalStart)
    /\ sf \in Starts("strftime", SfStart)
    /\ cv \in Starts("convert", CvStart)
    /\ pf \in Starts("printf", PfStart)
    /\ std \in StdStart

BitmapStep == part = "bitmap" /\ BmNext /\ UNCHANGED <<part, rg, buf, cal, sf, cv, pf, std>>
RangesStep == part = "ranges" /\ RgNext /\ UNCHANGED <<part, bm, buf, cal, sf, cv, pf, std>>
BuffersStep == part = "buffers" /\ BufNext /\ UNCHANGED <<part, bm, rg, cal, sf, cv, pf, std>>
CalendarStep == part = "calendar" /\ CalNext /\ UNCHANGED <<part, bm, rg, buf, sf, cv, pf, std>>
StrftimeStep == part = "strftime" /\ SfNext /\ UNCHANGED <<part, bm, rg, buf, cal, cv, pf, std>>
ConvertStep == part = "convert" /\ CvNext /\ UNCHANGED <<part, bm, rg, buf, cal, sf, pf, std>>
PrintfStep == part = "printf" /\ PfNext /\ UNCHANGED <<part, bm, rg, buf, cal, sf, cv, std>>
StdlibStep == part = "stdlib" /\ StdNext /\ UNCHANGED <<part, bm, rg, buf, cal, sf, cv, pf>>

MCNext == BitmapStep \/ RangesStep \/ BuffersStep \/ CalendarStep \/ StrftimeStep \/ ConvertStep \/ PrintfStep
    \/ StdlibStep

MCSpec == MCInit /\ [][MCNext]_lib


(***************************************************************************)
(* Bounds.                                                                 *)
(***************************************************************************)
\* Words of four, two and one bytes.
MCWords == <<4, 2, 1>>

\* Around zero, the middle and the largest integer.
MCEnds == {0, 1, 2, 3, 4, 31, 32, 60, 62, 63}

MCCaps == [base \in {2, 8, 10, 16} |-> CASE base = 2 -> 10 [] base = 8 -> 6 [] base = 10 -> 4 [] base = 16 -> 6]

MCFlags == {{}, {"0"}, {"-"}, {"+", "0"}, {"#", "0"}, {" "}, {" ", "0"}, {"#", "-"}, {"-", "+"}}

MCNumbers == {0, 5, 29, -3}
=============================================================================
