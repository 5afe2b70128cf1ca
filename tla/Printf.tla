------------------------------- MODULE Printf -------------------------------
(***************************************************************************)
(* lib/parse_printf.c with lib/format.c: a format is read character by     *)
(* character, its text handed on and every specifier written with its      *)
(* padding, sign and prefix.  A sink takes everything, as printk()'s and   *)
(* format_to_string()'s do, or is the buffer of format_to_buffer().        *)
(*                                                                         *)
(* A format is built from items and may be cut anywhere, so that the       *)
(* string ends inside a specifier.  Characters are one-letter strings; ""  *)
(* is the NUL behind the last one.  A va_list is a sequence of arguments.  *)
(* char is a quarter as wide as the 64-bit integer, short half.            *)
(***************************************************************************)
EXTENDS Convert, Buffers
LOCAL INSTANCE SequencesExt
LOCAL INSTANCE FiniteSetsExt

CONSTANTS
    LENGTHS,        \* number of values of the uint8_t that holds a length
    PfFlags,        \* sets of flags
    PfWidths,       \* widths written in digits
    PfNumbers,      \* numbers printed
    PfRoom          \* capacities of the buffers formatted to

VARIABLE pf

Flags == <<" ", "-", "+", "#", "0">>

ABSENT == -1

PRINTF_SPEC_INFO_INIT == [flags |-> {}, width |-> 0, precision |-> 0, length |-> "", spec |-> ""]

Ch(i) == IF i > Len(pf.text) THEN "" ELSE pf.text[i]

Repeat(ch, n) == [i \in 1..n |-> ch]

ToUnsigned(n) == n % (MAXU + 1)

ToSigned(n) == IF n > INT_MAX THEN n - (MAXU + 1) ELSE n

\* A conversion to a signed type of so many values.
Narrow(n, values) == LET low == n % values IN IF low >= values \div 2 THEN low - values ELSE low

(***************************************************************************)
(* Reading a specifier.                                                    *)
(***************************************************************************)
RECURSIVE EndOf(_, _)
EndOf(i, set) == IF Ch(i) \in set THEN EndOf(i + 1, set) ELSE i

parse_flags(i) ==
    LET j == EndOf(i, Range(Flags)) IN
    [ok |-> Ch(j) # "", i |-> j, flags |-> {pf.text[k] : k \in i..(j - 1)}]

Decimals == {Digits[d] : d \in 1..10}

\* Digits that run to the end of the string leave the iterator where it was.
read_int_from_fmt_string(i) ==
    LET j == EndOf(i, Decimals)
        n == FoldLeft(LAMBDA v, ch : 10 * v + Digit(ch), 0, SubSeq(pf.text, i, j - 1))
    IN  [n |-> IF n > INT_MAX THEN ABSENT ELSE n, i |-> IF Ch(j) = "" THEN i ELSE j]

parse_width(i, args) ==
    LET read == read_int_from_fmt_string(i) IN
    IF Ch(i) # "*" THEN [ok |-> read.n # ABSENT /\ Ch(read.i) # "", i |-> read.i, n |-> read.n, args |-> args]
    ELSE [ok |-> Ch(i + 1) # "", i |-> i + 1, n |-> IF args[1].n >= 0 THEN args[1].n ELSE 0, args |-> Tail(args)]

parse_precision(i, args) ==
    LET read == read_int_from_fmt_string(i + 1) IN
    CASE Ch(i) # "." -> [ok |-> TRUE, i |-> i, n |-> ABSENT, args |-> args]
      [] Ch(i) = "." /\ Ch(i + 1) = "*" ->
            [ok |-> Ch(i + 2) # "", i |-> i + 2, n |-> args[1].n, args |-> IF Ch(i + 2) # "" THEN Tail(args) ELSE args]
      [] OTHER -> [ok |-> Ch(i + 1) # "" /\ read.n # ABSENT /\ Ch(read.i) # "", i |-> read.i, n |-> read.n, args |-> args]

\* A length modifier takes the number from the arguments at once.
LengthAt(i) ==
    CASE Ch(i) \in {"h", "l"} /\ Ch(i + 1) = Ch(i) -> IF Ch(i) = "h" THEN "hh" ELSE "ll"
      [] Ch(i) \in {"h", "l", "j", "z", "t"} /\ Ch(i + 1) # Ch(i) -> Ch(i)
      [] OTHER -> ""

parse_length(i, args) ==
    LET l == LengthAt(i)
        next == IF l \in {"hh", "ll"} THEN i + 2 ELSE i + 1
        n == CASE l = "hh" -> Narrow(args[1].n, (MAXU + 1) \div 4)
               [] l = "h" -> Narrow(args[1].n, (MAXU + 1) \div 2)
               [] OTHER -> args[1].n
    IN  IF l = "" THEN [ok |-> Ch(i) # "", i |-> i, length |-> l, number |-> 0, zero |-> FALSE, args |-> args]
        ELSE IF l \in {"h", "l"} /\ Ch(i + 1) = ""
        THEN [ok |-> FALSE, i |-> i, length |-> l, number |-> 0, zero |-> FALSE, args |-> args]
        ELSE [ok |-> TRUE, i |-> next, length |-> l, number |-> ToUnsigned(n), zero |-> n = 0, args |-> Tail(args)]

(***************************************************************************)
(* handle_spec(): what is printed for the argument, before any padding.    *)
(***************************************************************************)
is_int_specifier(spec) == spec \in {"b", "B", "d", "i", "o", "u", "x", "X"}

PlainNumber == [include_prefix |-> FALSE, include_pos_sign |-> FALSE, use_0_octal_prefix |-> FALSE]

Result(r, parsed, zero, null, args) == [r |-> r, parsed |-> parsed, zero |-> zero, null |-> null, args |-> args]

SpecInt(info, number, zero, args) ==
    LET own == info.length = ""
        n == IF own THEN ToUnsigned(args[1].n) ELSE number
        options == [PlainNumber EXCEPT !.include_pos_sign = info.spec \in {"d", "i"} /\ "+" \in info.flags]
        base == CASE info.spec \in {"b", "B"} -> 2 [] info.spec = "o" -> 8 [] info.spec \in {"x", "X"} -> 16 [] OTHER -> 10
        parsed == IF info.spec \in {"d", "i"} THEN signed_to_string_view(ToSigned(n), base, options)
                  ELSE unsigned_to_string_view(n, base, options)
    IN  Result("OK", parsed.s, IF own THEN n = 0 ELSE zero, FALSE, IF own THEN Tail(args) ELSE args)

SpecText(info, zero, args) ==
    LET s == args[1].s
        cut == IF info.precision = ABSENT THEN Len(s) ELSE Min({Len(s), info.precision})
    IN  CASE info.spec = "c" -> Result("OK", <<args[1].s[1]>>, zero, FALSE, Tail(args))
          [] info.spec = "s" /\ args[1].null -> Result("OK", <<"(", "n", "u", "l", "l", ")">>, zero, TRUE, Tail(args))
          [] info.spec = "s" /\ ~args[1].null -> Result("OK", SubSeq(s, 1, cut), zero, FALSE, Tail(args))
          [] info.spec = "p" /\ args[1].null -> Result("OK", <<"(", "n", "i", "l", ")">>, zero, TRUE, Tail(args))
          [] info.spec = "p" /\ ~args[1].null ->
                Result("OK", unsigned_to_string_view(ToUnsigned(args[1].n), 16, [PlainNumber EXCEPT !.include_prefix = TRUE]).s,
                       zero, FALSE, Tail(args))

\* %n stores how much has been written; an unknown specifier is dropped.
handle_spec(info, number, zero, args) ==
    CASE info.spec = "" -> Result("REACHED_END", <<>>, zero, FALSE, args)
      [] is_int_specifier(info.spec) -> SpecInt(info, number, zero, args)
      [] info.spec \in {"c", "s", "p"} -> SpecText(info, zero, args)
      [] info.spec = "n" -> Result("COUNT", <<>>, zero, FALSE, Tail(args))
      [] info.spec = "%" -> Result("OK", <<"%">>, zero, FALSE, args)
      [] OTHER -> Result("CONTINUE", <<>>, zero, FALSE, args)

(***************************************************************************)
(* What is written of a specifier, in its order.                           *)
(***************************************************************************)
write_prefix_for_spec(info) ==
    IF "#" \notin info.flags THEN <<>>
    ELSE CASE info.spec = "o" -> <<"0">>
           [] info.spec \in {"b", "B", "x", "X"} -> <<"0", info.spec>>
           [] OTHER -> <<>>

HasSign(parsed) == parsed # <<>> /\ parsed[1] \in {"+", "-"}

MutSignLast(info, parsed, zeros, null) ==
    [out |-> <<IF null THEN <<>> ELSE write_prefix_for_spec(info), Repeat("0", zeros)>>, left |-> parsed]

\* The prefix, and if there are zeros the sign before them; `left` is what of the
\* number remains to be written.
pad_with_lead_zeros(info, parsed, zeros, null) ==
    LET prefix == IF null THEN <<>> ELSE write_prefix_for_spec(info) IN
    IF zeros = 0 THEN [out |-> <<prefix>>, left |-> parsed]
    ELSE IF HasSign(parsed) THEN [out |-> <<prefix, <<parsed[1]>>, Repeat("0", zeros)>>, left |-> Tail(parsed)]
    ELSE [out |-> <<prefix, Repeat("0", zeros)>>, left |-> parsed]

\* parsed_length is a uint8_t.
ParsedLength(info, r) ==
    IF r.zero /\ info.precision = 0 THEN 0
    ELSE (Len(r.parsed) + (IF "#" \notin info.flags THEN 0
                           ELSE CASE info.spec = "o" -> 1 [] info.spec \in {"x", "X"} -> 2 [] OTHER -> 0)) % LENGTHS

PrecisionZeros(info, r) ==
    LET digits == (Len(r.parsed) % LENGTHS) - (IF HasSign(r.parsed) THEN 1 ELSE 0) IN
    IF is_int_specifier(info.spec) /\ info.precision # ABSENT /\ digits < info.precision
    THEN info.precision - digits ELSE 0

\* The writes of a specifier, in groups: only behind a group is it looked at whether
\* the sink took everything (pad_with_lead_zeros() tests the pointer to the answer).
FieldOf(info, r) ==
    LET length == (ParsedLength(info, r) + PrecisionZeros(info, r)) % LENGTHS
        space == IF is_int_specifier(info.spec) /\ length # 0 /\ " " \in info.flags /\ ~HasSign(r.parsed) THEN 1 ELSE 0
        room == IF length < info.width THEN info.width - length ELSE 0
        with_zeros == /\ "0" \in info.flags /\ "-" \notin info.flags
                      /\ is_int_specifier(info.spec) /\ info.precision = ABSENT
        lead == pad_with_lead_zeros(info, r.parsed, IF with_zeros /\ room # 0 THEN room ELSE PrecisionZeros(info, r), r.null)
        number == <<lead.out, IF r.zero /\ info.precision = 0 THEN <<>> ELSE <<lead.left>>>>
        spaces == <<Repeat(" ", space + (IF with_zeros THEN 0 ELSE room))>>
    IN  IF "-" \in info.flags THEN Append(number, spaces) ELSE <<spaces>> \o number

(***************************************************************************)
(* The sinks: string_char_callback() and printk's take all, those of a     *)
(* buffer what it has room for, and ask to stop when that was not all.     *)
(***************************************************************************)
string_sv_callback(p, s) == [p EXCEPT !.out = @ \o s]

buffer_sv_callback(p, s) ==
    LET mb == preprocess_for_append(p.mb, Len(s))
        appended == mb.index - p.mb.index
    IN  [p EXCEPT !.out = @ \o SubSeq(s, 1, appended), !.mb = mb, !.cont = @ /\ appended = Len(s)]

call_cb(p, s) == IF p.buffered THEN buffer_sv_callback(p, s) ELSE string_sv_callback(p, s)

(***************************************************************************)
(* parse_printf(): one action per part of the loop's round.  Returning     *)
(* early leaves what is behind unwritten.                                  *)
(***************************************************************************)
NextPercent(i) == IF \E j \in i..Len(pf.text) : pf.text[j] = "%" THEN Min({j \in i..Len(pf.text) : pf.text[j] = "%"}) ELSE 0

Return(p) == [p EXCEPT !.pc = "done"]

Unformatted ==
    /\ pf.pc = "scan" /\ NextPercent(pf.iter) # 0
    /\ LET at == NextPercent(pf.iter)
           written == call_cb(pf, SubSeq(pf.text, pf.start, at - 1))
       IN  pf' = CASE ~written.cont -> [written EXCEPT !.pc = "rest"]
                   [] written.cont /\ Ch(at + 1) = "" -> Return(written)
                   [] OTHER -> [written EXCEPT !.iter = at + 1, !.pc = "flags"]

ParseFlags ==
    /\ pf.pc = "flags"
    /\ LET r == parse_flags(pf.iter) IN
       pf' = IF r.ok THEN [pf EXCEPT !.iter = r.i, !.info.flags = r.flags, !.pc = "width"] ELSE Return(pf)

ParseWidth ==
    /\ pf.pc = "width"
    /\ LET r == parse_width(pf.iter, pf.args) IN
       pf' = IF r.ok THEN [pf EXCEPT !.iter = r.i, !.info.width = r.n, !.args = r.args, !.pc = "precision"] ELSE Return(pf)

ParsePrecision ==
    /\ pf.pc = "precision"
    /\ LET r == parse_precision(pf.iter, pf.args) IN
       pf' = IF r.ok THEN [pf EXCEPT !.iter = r.i, !.info.precision = r.n, !.args = r.args, !.pc = "spec"] ELSE Return(pf)

LengthAndSpec ==
    /\ pf.pc = "spec"
    /\ LET l == parse_length(pf.iter, pf.args)
           info == [pf.info EXCEPT !.length = l.length, !.spec = Ch(l.i)]
           r == handle_spec(info, l.number, l.zero, l.args)
           behind == [pf EXCEPT !.args = r.args, !.start = l.i + 1, !.iter = l.i, !.pc = "scan",
                                !.info = PRINTF_SPEC_INFO_INIT]
       IN  pf' = IF ~l.ok \/ r.r = "REACHED_END" THEN Return(pf)
                 ELSE IF r.r = "COUNT" THEN [behind EXCEPT !.count = Len(pf.out)]
                 ELSE IF r.r = "CONTINUE" THEN behind
                 ELSE [behind EXCEPT !.iter = l.i + 1, !.pc = "write",
                                     !.writes = SelectSeq(FieldOf(info, r), LAMBDA group : \E i \in DOMAIN group : group[i] # <<>>)]

\* One group of writes of the specifier just read.
WriteSpec ==
    /\ pf.pc = "write"
    /\ pf' = IF pf.writes = <<>> THEN [pf EXCEPT !.pc = "scan"]
             ELSE LET p == FoldLeft(LAMBDA q, s : call_cb(q, s), [pf EXCEPT !.writes = Tail(@)], Head(pf.writes))
                  IN  IF p.cont THEN p ELSE Return(p)

RestUnformatted ==
    /\ pf.pc = "rest" \/ (pf.pc = "scan" /\ NextPercent(pf.iter) = 0)
    /\ pf' = Return(call_cb(pf, SubSeq(pf.text, pf.start, Len(pf.text))))

(***************************************************************************)
(* The formats: text, an item, text and a plain number, cut anywhere.      *)
(***************************************************************************)
Arg(n, s, null) == [n |-> n, s |-> s, null |-> null]

Item(flags, width, precision, length, spec, arg) ==
    [text |-> <<>>, flags |-> flags, width |-> width, precision |-> precision, length |-> length, spec |-> spec, arg |-> arg]

Literal(text) == [Item({}, ABSENT, ABSENT, "", "", Arg(0, <<>>, FALSE)) EXCEPT !.text = text]

InDigits(n) == IF n = ABSENT THEN <<>> ELSE LOOP_OVER_POSITIVE_INT(n, 10, 0, <<>>).s

\* A width or precision of STAR and more is passed as an argument, less STAR.
STAR == 100

Written(n) == IF n >= STAR THEN <<"*">> ELSE InDigits(n)

Passed(n) == IF n >= STAR THEN <<Arg(n - STAR, <<>>, FALSE)>> ELSE <<>>

Render(item) ==
    IF item.spec = "" THEN item.text
    ELSE <<"%">> \o SelectSeq(Flags, LAMBDA f : f \in item.flags) \o Written(item.width)
           \o (IF item.precision = ABSENT THEN <<>> ELSE <<".">> \o Written(item.precision))
           \o (CASE item.length = "" -> <<>> [] item.length = "hh" -> <<"h", "h">> [] OTHER -> <<item.length>>)
           \o <<item.spec>>

ArgsOf(item) ==
    Passed(item.width) \o Passed(item.precision) \o (IF item.spec \in {"", "%", "q"} THEN <<>> ELSE <<item.arg>>)

Numbers ==
    {Item(f, w, p, l, s, Arg(n, <<>>, FALSE)) :
        f \in PfFlags, w \in {ABSENT} \cup PfWidths, p \in {ABSENT, 0, 3, STAR + 2}, l \in {"", "hh", "l"},
        s \in {"d", "u", "x", "o", "b"}, n \in PfNumbers}

Others ==
    {Item(f, w, p, "", s, a) :
        f \in {{}, {"-"}}, w \in {ABSENT, STAR + 4} \cup PfWidths, p \in {ABSENT, 1}, s \in {"c", "s", "p", "n", "%", "q"},
        a \in {Arg(13, <<"h", "i">>, FALSE), Arg(0, <<"h">>, TRUE), Arg(0, Repeat("h", LENGTHS + 1), FALSE)}}

LastItems == {Item({}, ABSENT, ABSENT, "", "d", Arg(5, <<>>, FALSE)), Item({}, ABSENT, ABSENT, "", "n", Arg(0, <<>>, FALSE))}

Formats == {<<Literal(<<"w">>), item, Literal(<<"y", "z">>), last>> : item \in Numbers \cup Others, last \in LastItems}

Full(items) == FoldLeft(LAMBDA s, item : s \o Render(item), <<>>, items)

PfStart ==
    {[items |-> <<>>, text |-> <<>>, args |-> <<>>, iter |-> 1, start |-> 1, out |-> <<>>, info |-> PRINTF_SPEC_INFO_INIT,
      count |-> ABSENT, writes |-> <<>>, buffered |-> FALSE, mb |-> [index |-> 0, capacity |-> 0], cont |-> TRUE, pc |-> "call"]}

PfInit == pf \in PfStart

\* Callers: printk() or format_to_string(), and format_to_buffer().  Formats of
\* numbers are cut only when their flags are few, and those for a buffer are whole.
Cuts(f) ==
    IF f[2].flags \in {{}, {"0"}} /\ f[2].spec \notin {"u", "o"} THEN 0..Len(Full(f)) ELSE {Len(Full(f))}

Call(f, n, buffered, capacity) ==
    pf' = [pf EXCEPT !.items = f, !.text = SubSeq(Full(f), 1, n), !.pc = "scan",
                     !.args = FoldLeft(LAMBDA s, item : s \o ArgsOf(item), <<>>, f),
                     !.buffered = buffered, !.mb.capacity = capacity]

format_to_string ==
    /\ pf.pc = "call"
    /\ \E f \in Formats : \E n \in Cuts(f) : Call(f, n, FALSE, 0)

format_to_buffer ==
    /\ pf.pc = "call"
    /\ \E f \in Formats, capacity \in PfRoom : f[2].flags = {"0"} /\ Call(f, Len(Full(f)), TRUE, capacity)

PfNext ==
    \/ format_to_string \/ format_to_buffer \/ Unformatted \/ ParseFlags \/ ParseWidth \/ ParsePrecision \/ LengthAndSpec \/ WriteSpec
    \/ RestUnformatted

(***************************************************************************)
(* Properties.  The field the C standard describes for an item.            *)
(***************************************************************************)
Given(n) == IF n >= STAR THEN n - STAR ELSE n

AtLeast(n, s) == IF Len(s) >= n THEN s ELSE Repeat("0", n - Len(s)) \o s

NumberField(item) ==
    LET value == CASE item.length = "hh" -> Narrow(item.arg.n, (MAXU + 1) \div 4) [] OTHER -> item.arg.n
        base == CASE item.spec = "x" -> 16 [] item.spec = "o" -> 8 [] item.spec = "b" -> 2 [] OTHER -> 10
        size == IF item.spec = "d" THEN IF value < 0 THEN 0 - value ELSE value ELSE ToUnsigned(value)
        prec == Given(item.precision)
        digits == IF size = 0 /\ prec = 0 THEN <<>> ELSE AtLeast(prec, LOOP_OVER_POSITIVE_INT(size, base, 0, <<>>).s)
        sign == IF item.spec # "d" THEN <<>> ELSE IF value < 0 THEN <<"-">> ELSE IF "+" \in item.flags THEN <<"+">>
                ELSE IF " " \in item.flags THEN <<" ">> ELSE <<>>
        prefix == IF "#" \in item.flags /\ size # 0 /\ base \in {2, 8, 16}
                  THEN IF base = 8 THEN <<"0">> ELSE <<"0", item.spec>> ELSE <<>>
        pad == Given(item.width) - Len(sign \o prefix \o digits)
    IN  CASE "-" \in item.flags -> sign \o prefix \o digits \o Repeat(" ", pad)
          [] "-" \notin item.flags /\ "0" \in item.flags /\ prec = ABSENT -> sign \o prefix \o Repeat("0", pad) \o digits
          [] OTHER -> Repeat(" ", pad) \o sign \o prefix \o digits

TextField(item) ==
    LET text == CASE item.spec = "c" -> <<item.arg.s[1]>>
                  [] item.spec = "%" -> <<"%">>
                  [] item.spec = "s" -> IF item.arg.null THEN <<"(", "n", "u", "l", "l", ")">>
                                        ELSE SubSeq(item.arg.s, 1, IF item.precision = ABSENT THEN Len(item.arg.s)
                                                                   ELSE Min({Len(item.arg.s), Given(item.precision)}))
                  [] item.spec = "p" -> IF item.arg.null THEN <<"(", "n", "i", "l", ")">>
                                        ELSE <<"0", "x">> \o LOOP_OVER_POSITIVE_INT(item.arg.n, 16, 0, <<>>).s
        pad == Given(item.width) - Len(text)
    IN  CASE item.spec \in {"n", "q"} -> <<>>
          [] "-" \in item.flags -> text \o Repeat(" ", pad)
          [] OTHER -> Repeat(" ", pad) \o text

StandardField(item) ==
    IF item.spec = "" THEN item.text ELSE IF item.spec \in {"d", "u", "x", "o", "b"} THEN NumberField(item) ELSE TextField(item)

\* Where the code does as the standard says.  It does not: for the space flag with
\* any width or '-', and for unsigned numbers; for zero with a prefix, or with the
\* precision zero and a sign; for '#' with a precision in octal and with a width in
\* binary; for an unsigned number narrowed by hh that its sign extends; and for
\* lengths that a uint8_t does not hold.
Standard(item) ==
    /\ " " \in item.flags => item.spec = "d" /\ item.width = ABSENT /\ "-" \notin item.flags
    /\ item.arg.n = 0 => "#" \notin item.flags /\ (item.precision = 0 => item.flags \cap {" ", "+"} = {})
    /\ "#" \in item.flags => (item.spec = "o" => item.precision = ABSENT) /\ (item.spec = "b" => item.width = ABSENT)
    /\ item.length = "hh" /\ item.spec # "d" => Narrow(item.arg.n, (MAXU + 1) \div 4) > 0
    /\ Len(StandardField([item EXCEPT !.width = ABSENT])) < LENGTHS

\* What a format cut behind n characters yields: nothing for an incomplete
\* specifier, and nothing from a width on that is no int.
RECURSIVE Yield(_, _)
Yield(items, n) ==
    IF items = <<>> THEN <<>>
    ELSE LET item == Head(items)
             size == Len(Render(item))
         IN  IF n < size THEN IF item.spec = "" THEN SubSeq(item.text, 1, n) ELSE <<>>
             ELSE IF item.width \in (INT_MAX + 1)..(STAR - 1) THEN <<>>
             ELSE StandardField(item) \o Yield(Tail(items), n - size)

\* The string ends in a width or precision of two digits: the second is then
\* written as text.
EndsInDigits == Len(pf.text) > 1 /\ Ch(Len(pf.text)) \in Decimals /\ Ch(Len(pf.text) - 1) \in Decimals \ {"0"}

\* Whatever flags, width, precision, length and specifier come together, every
\* item of a format gives the field the C standard describes, sign, prefix and
\* zeros in their places and as wide as asked, and the text around it once; the
\* settings of a specifier do not reach the next; a format that ends inside a
\* specifier writes nothing for it; %n stores what was written before it; and all
\* this is so in a buffer that has room for it.
PrintfExact ==
    (pf.pc = "done" /\ Standard(pf.items[2]) /\ ~EndsInDigits
       /\ (pf.buffered => Len(Yield(pf.items, Len(pf.text))) <= pf.mb.capacity)) =>
        /\ pf.out = Yield(pf.items, Len(pf.text))
        /\ pf.items[4].spec = "n" /\ Len(pf.text) = Len(Full(pf.items)) /\ pf.items[2].width \notin (INT_MAX + 1)..(STAR - 1) =>
              pf.count = Len(pf.out)
=============================================================================
