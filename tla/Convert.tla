------------------------------- MODULE Convert -------------------------------
(***************************************************************************)
(* lib/convert.c: numbers from strings and strings from numbers.  A string *)
(* is a sequence of characters; integers have MAXU + 1 values, and signed  *)
(* ones half of them on each side of zero.                                 *)
(***************************************************************************)
EXTENDS Ranges, Sequences
LOCAL INSTANCE SequencesExt

CONSTANTS
    CONVERT_CAP,    \* for each base, the size of the buffer a number is written to
    CvChars,        \* characters of the strings read
    CvLength        \* bound: length of the strings read

VARIABLE cv

INT_MAX == MAXU \div 2

Digits == <<"0", "1", "2", "3", "4", "5", "6", "7", "8", "9", "a", "b", "c", "d", "e", "f", "g", "h",
            "i", "j", "k", "l", "m", "n", "o", "p", "q", "r", "s", "t", "u", "v", "w", "x", "y", "z">>

Digit(ch) == IF ch \in Range(Digits) THEN (CHOOSE d \in DOMAIN Digits : Digits[d] = ch) - 1 ELSE 255

\* The letters behind a zero, and the base each stands for.
BaseOf == [a |-> 36, b |-> 2, o |-> 8, x |-> 16]

(***************************************************************************)
(* Strings to numbers.  A stage returns where it stopped and E_OK, or the  *)
(* error that ends the conversion.                                         *)
(***************************************************************************)
Stage(e, i) == [e |-> e, i |-> i, base |-> 0, zero |-> FALSE, neg |-> FALSE]

RECURSIVE SkipSpace(_, _, _)
SkipSpace(s, i, o) ==
    IF i > Len(s) THEN Stage("NO_DIGITS", i)
    ELSE IF o.skip_leading_whitespace /\ s[i] = " " THEN SkipSpace(s, i + 1, o)
    ELSE Stage("OK", i)

Sign(s, i, o, is_signed) ==
    CASE s[i] = "-" /\ ~is_signed -> Stage("NEG_UNSIGNED", i)
      [] s[i] = "+" /\ o.dont_allow_pos_sign -> Stage("UNALLOWED_POS_SIGN", i)
      [] s[i] \in {"-", "+"} -> [Stage(IF i = Len(s) THEN "NO_DIGITS" ELSE "OK", i + 1) EXCEPT !.neg = s[i] = "-"]
      [] OTHER -> Stage("OK", i)

\* A lone zero is done; a zero before anything but the letter of a prefix makes the
\* number octal, whatever the default base.
Prefix(s, i, o) ==
    IF s[i] # "0" THEN [Stage("OK", i) EXCEPT !.base = o.default_base]
    ELSE IF i = Len(s) THEN Stage("ZERO", i + 1)
    ELSE IF s[i + 1] \notin DOMAIN BaseOf THEN [Stage("OK", i + 1) EXCEPT !.base = 8, !.zero = TRUE]
    ELSE IF s[i + 1] \in o.dont_allow_prefix THEN Stage("UNALLOWED_PREFIX", i)
    ELSE IF BaseOf[s[i + 1]] \in o.dont_allow_base THEN Stage("UNALLOWED_BASE", i)
    ELSE [Stage("OK", i + 2) EXCEPT !.base = BaseOf[s[i + 1]]]

MutNoCheckAdd(s, i, base, n, found, o) ==
    LET d == Digit(s[i]) IN
    IF i > Len(s) THEN [e |-> IF found THEN "OK" ELSE "NO_DIGITS", n |-> n]
    ELSE IF d >= base THEN [e |-> "INVALID_CHAR", n |-> n]
    ELSE [e |-> "OK", n |-> (n * base + d) % (MAXU + 1)]

\* check_mul() and check_add() at every digit.
RECURSIVE ReadDigits(_, _, _, _, _, _)
ReadDigits(s, i, base, n, found, o) ==
    LET d == Digit(s[i])
        times == check_mul(n, base)
    IN  IF i > Len(s) \/ (d >= base /\ o.dont_parse_to_end) THEN [e |-> IF found THEN "OK" ELSE "NO_DIGITS", n |-> n]
        ELSE IF d >= base THEN [e |-> "INVALID_CHAR", n |-> n]
        ELSE IF times = Fails THEN [e |-> "OVERFLOW", n |-> n]
        ELSE IF check_add(times, d) = Fails THEN [e |-> "OVERFLOW", n |-> n]
        ELSE ReadDigits(s, i + 1, base, times + d, TRUE, o)

\* The last test takes the result of check_sub(), true for success, for a failure.
Finish(r, neg, is_signed) ==
    IF r.e # "OK" THEN r
    ELSE IF is_signed /\ r.n > INT_MAX THEN [r EXCEPT !.e = "OVERFLOW"]
    ELSE IF neg THEN [e |-> "UNDERFLOW", n |-> 0 - r.n]
    ELSE r

convert_cstr_to_64int(s, o, is_signed) ==
    LET space == SkipSpace(s, 1, o)
        sign == Sign(s, space.i, o, is_signed)
        prefix == Prefix(s, sign.i, o)
    IN  IF space.e # "OK" THEN [e |-> space.e, n |-> 0]
        ELSE IF sign.e # "OK" THEN [e |-> sign.e, n |-> 0]
        ELSE IF prefix.e = "ZERO" THEN [e |-> "OK", n |-> 0]
        ELSE IF prefix.e # "OK" THEN [e |-> prefix.e, n |-> 0]
        ELSE Finish(ReadDigits(s, prefix.i, prefix.base, 0, prefix.zero, o), sign.neg, is_signed)

\* The same stages over a string_view.
convert_sv_to_64int(sv, o, is_signed) == convert_cstr_to_64int(sv, o, is_signed)

\* The options strtoul() converts with, by its base.
StrtoulOptions(base) ==
    [default_base |-> IF base = 0 THEN 10 ELSE base,
     dont_allow_prefix |-> {"a"} \cup (CASE base = 2 -> {"o"} [] base = 8 -> {"b"} [] OTHER -> {"o", "b"}),
     dont_allow_base |-> CASE base = 0 -> {}
                           [] base = 2 -> {8, 10, 16}
                           [] base = 8 -> {2, 10, 16}
                           [] base = 10 -> {2, 8, 16}
                           [] base = 16 -> {2, 8, 10}
                           [] OTHER -> {2, 8, 10, 16},
     dont_allow_pos_sign |-> FALSE, skip_leading_whitespace |-> FALSE, dont_parse_to_end |-> FALSE]

strtoul(s, base) ==
    LET r == convert_cstr_to_64int(s, StrtoulOptions(base), FALSE) IN
    IF r.e = "OK" THEN r.n ELSE MAXU

(***************************************************************************)
(* Numbers to strings: written backwards from the end of a buffer of fixed *)
(* size.  `i` is the index of the first character, `s` what is behind it.  *)
(***************************************************************************)
RECURSIVE LOOP_OVER_POSITIVE_INT(_, _, _, _)
LOOP_OVER_POSITIVE_INT(n, base, i, s) ==
    LET out == <<Digits[(n % base) + 1]>> \o s IN
    IF n < base THEN [i |-> i, s |-> out] ELSE LOOP_OVER_POSITIVE_INT(n \div base, base, i - 1, out)

\* The lone zero of an octal prefix is written one place too early, so that the
\* string begins with what the buffer held.
Junk == "?"

PrefixOf(base, options) ==
    CASE base = 2 -> <<"0", "b">>
      [] base = 8 -> IF options.use_0_octal_prefix THEN <<Junk>> ELSE <<"0", "o">>
      [] base = 16 -> <<"0", "x">>

WithPrefix(r, base, options) ==
    LET prefix == PrefixOf(base, options) IN
    IF options.include_prefix THEN [i |-> r.i - Len(prefix), s |-> prefix \o r.s] ELSE r

WithSign(r, options) ==
    IF options.include_pos_sign THEN [i |-> r.i - 1, s |-> <<"+">> \o r.s] ELSE r

unsigned_to_string_view(n, base, options) ==
    WithSign(WithPrefix(LOOP_OVER_POSITIVE_INT(n, base, CONVERT_CAP[base] - 2, <<>>), base, options), options)

\* Negative numbers are divided as they are.  (A prefix and the sign would share a
\* place; no caller asks for a prefix.)
RECURSIVE LOOP_OVER_NEGATIVE_INT(_, _, _, _)
LOOP_OVER_NEGATIVE_INT(n, base, i, s) ==
    LET out == <<Digits[((0 - n) % base) + 1]>> \o s IN
    IF n > 0 - base THEN [i |-> i - 1, s |-> <<"-">> \o out]
    ELSE LOOP_OVER_NEGATIVE_INT(0 - ((0 - n) \div base), base, i - 1, out)

signed_to_string_view(n, base, options) ==
    IF n < 0 THEN LOOP_OVER_NEGATIVE_INT(n, base, CONVERT_CAP[base] - 2, <<>>)
    ELSE unsigned_to_string_view(n, base, options)

(***************************************************************************)
(* A caller: reads a string, or writes a number and reads it back.         *)
(***************************************************************************)
Bases == DOMAIN CONVERT_CAP

Plain == [default_base |-> 10, dont_allow_prefix |-> {}, dont_allow_base |-> {}, dont_allow_pos_sign |-> FALSE,
          skip_leading_whitespace |-> TRUE, dont_parse_to_end |-> FALSE]

\* The options of a call: a base, and at most one thing that is not plain.
Options ==
    UNION {{o, [o EXCEPT !.dont_allow_prefix = {"x"}], [o EXCEPT !.dont_allow_base = {2}],
            [o EXCEPT !.dont_allow_pos_sign = TRUE], [o EXCEPT !.skip_leading_whitespace = FALSE],
            [o EXCEPT !.dont_parse_to_end = TRUE]} : o \in {[Plain EXCEPT !.default_base = b] : b \in Bases}}

PrintOptions(base, n) ==
    {o \in [include_prefix : BOOLEAN, include_pos_sign : BOOLEAN, use_0_octal_prefix : BOOLEAN] :
        (base = 10 \/ n < 0 => ~o.include_prefix) /\ (o.use_0_octal_prefix => base = 8)}

CvStart == {[s |-> <<>>, o |-> Plain, is_signed |-> FALSE, got |-> <<>>]}

CvInit == cv \in CvStart

Read ==
    /\ cv.got = <<>>
    /\ \E n \in 0..CvLength : \E s \in [1..n -> CvChars], o \in Options, is_signed \in BOOLEAN :
         cv' = [s |-> s, o |-> o, is_signed |-> is_signed, got |-> <<convert_cstr_to_64int(s, o, is_signed)>>]

Rewrite ==
    /\ Len(cv.got) = 1 /\ cv.got[1].e \in {"OK", "UNDERFLOW"}
    /\ \E base \in Bases : \E o \in PrintOptions(base, cv.got[1].n) :
         LET w == IF cv.is_signed THEN signed_to_string_view(cv.got[1].n, base, o)
                  ELSE unsigned_to_string_view(cv.got[1].n, base, o)
         IN  cv' = [cv EXCEPT !.got = <<@[1], w, convert_cstr_to_64int(w.s, [Plain EXCEPT !.default_base = base], cv.is_signed)>>]

CvNext == Read \/ Rewrite

(***************************************************************************)
(* Properties.                                                             *)
(***************************************************************************)
\* The number a string of digits of a base stands for.
ValueOf(s, base) == FoldLeft(LAMBDA n, ch : n * base + Digit(ch), 0, s)

AllDigits(s, base) == s # <<>> /\ \A i \in DOMAIN s : Digit(s[i]) < base

\* A string of digits is read as the number it stands for when that has a place in
\* the integer's width and refused as an overflow exactly when it has not; and a
\* number that was read is written, in any base, with a prefix and a sign or
\* without, inside its buffer, and reads back as itself (a negative one although
\* reading any negative number reports an underflow, but not one with the lone
\* zero for a prefix).
NumbersSurvive ==
    cv.got # <<>> =>
        /\ (AllDigits(cv.s, cv.o.default_base) /\ cv.s[1] # "0") =>
              LET v == ValueOf(cv.s, cv.o.default_base)
                  top == IF cv.is_signed THEN INT_MAX ELSE MAXU
              IN  IF v <= top THEN cv.got[1] = [e |-> "OK", n |-> v] ELSE cv.got[1].e = "OVERFLOW"
        /\ Len(cv.got) = 3 =>
              cv.got[2].i >= 0 /\ (Junk \notin Range(cv.got[2].s) => cv.got[3].n = cv.got[1].n)
=============================================================================
