------------------------------ MODULE Strftime ------------------------------
(***************************************************************************)
(* Dates and how they are written.                                         *)
(*                                                                         *)
(* lib/time.c: dates from time stamps, weekdays and week numbers.  Months  *)
(* count from 1, weekdays from Sunday, 0.  A calendar on the wall, turned  *)
(* one leaf a day, is what the functions are compared with.                *)
(*                                                                         *)
(* lib/parse_strftime.c: a format is walked from one specifier to the      *)
(* next, the text between them handed on as it is and every specifier in   *)
(* pieces.  The sink takes all it is given, as that of kstrftime() does.   *)
(* A format is a sequence of items: a word of text, or a specifier with at *)
(* most one modifier.  A piece is a name, a mark, or a number with what it *)
(* is padded with and how far.                                             *)
(***************************************************************************)
EXTENDS Naturals, Integers, Sequences, FiniteSets
LOCAL INSTANCE SequencesExt

CONSTANTS
    CalYears,       \* years whose first of January the calendar starts at
    CalDays         \* bound: days it is followed for

VARIABLE cal

MutLeap(year) == year % 4 = 0

year_is_leap_year(year) == year % 4 = 0 /\ (year % 100 # 0 \/ year % 400 = 0)

year_get_day_count(year) == IF year_is_leap_year(year) THEN 366 ELSE 365

month_get_day_count(month, in_leap_year) ==
    CASE month = 2 -> IF in_leap_year THEN 29 ELSE 28
      [] month \in {4, 6, 9, 11} -> 30
      [] OTHER -> 31

hour_12_to_24hour(hour, is_pm) == IF is_pm THEN (hour % 12) + 12 ELSE hour % 12

hour_24_to_12hour(hour) == IF hour % 12 # 0 THEN hour % 12 ELSE 12

hour_24_is_pm(hour) == hour >= 12

weekday_to_decimal_monday_one(weekday) == IF weekday # 0 THEN weekday ELSE 7

weekday_prev(weekday) == IF weekday # 0 THEN weekday - 1 ELSE 6

\* The characters of "bed=pen+mad.", modulo 7.
MonthKey == <<0, 3, 2, 5, 0, 3, 5, 1, 4, 6, 2, 4>>

day_of_month_to_weekday(year, month, day) ==
    LET y == IF month < 3 THEN year - 1 ELSE year IN
    (y + (y \div 4) - (y \div 100) + (y \div 400) + MonthKey[month] + day) % 7

DaysBefore == <<0, 31, 59, 90, 120, 151, 181, 212, 243, 273, 304, 334>>

day_of_month_to_day_of_year(day, month, in_leap_year) ==
    DaysBefore[month] + day + (IF in_leap_year /\ month > 2 THEN 1 ELSE 0)

\* The loops of tm_from_stamp(): over the years, then over the months.
RECURSIVE YearOf(_, _)
YearOf(day, year) ==
    IF day >= 365 THEN YearOf(day - year_get_day_count(year), year + 1) ELSE [day |-> day, year |-> year]

RECURSIVE MonthOf(_, _, _)
MonthOf(day, month, leap) ==
    IF day >= month_get_day_count(month, leap)
    THEN MonthOf(day - month_get_day_count(month, leap), month + 1, leap)
    ELSE [day |-> day, month |-> month]

\* `stamp` in minutes since 1970.  The weekday is asked for with the day from zero on,
\* as uint8_t.
tm_from_stamp(stamp) ==
    LET y == YearOf(stamp \div (24 * 60), 1970)
        m == MonthOf(y.day, 1, year_is_leap_year(y.year))
    IN  [tm_min |-> stamp % 60, tm_hour |-> (stamp % (24 * 60)) \div 60,
         tm_mday |-> m.day + 1, tm_mon |-> m.month - 1, tm_year |-> y.year - 1900,
         tm_wday |-> day_of_month_to_weekday(y.year, m.month, m.day % 256), tm_yday |-> y.day]

get_week_count_at_day(weekday, days_since_jan_1, is_monday_first) ==
    LET delta == IF is_monday_first THEN (IF weekday # 0 THEN 8 ELSE 1) ELSE 7
    IN  (days_since_jan_1 - weekday + delta) \div 7

\* The week of the last day of the year before is asked for with the weekday before
\* this one, whichever day of January this is.
RECURSIVE iso_8601_get_week_number(_, _, _, _, _)
iso_8601_get_week_number(weekday, month, year, day_in_month, days_since_jan_1) ==
    LET jan_1_weekday == (weekday - (days_since_jan_1 % 7)) % 7
        week == get_week_count_at_day(weekday, days_since_jan_1, TRUE)
        week_number ==
            IF jan_1_weekday \in {2, 3, 4} THEN week + 1
            ELSE IF jan_1_weekday = 1 \/ week # 0 THEN week
            ELSE iso_8601_get_week_number(weekday_prev(weekday), 12, year - 1, 31,
                                          year_get_day_count(year - 1) - 1)
    IN  IF month = 12 /\ \/ weekday = 1 /\ day_in_month \in 29..31
                         \/ weekday = 2 /\ day_in_month \in 30..31
                         \/ weekday = 3 /\ day_in_month = 31
        THEN 1 ELSE week_number

(***************************************************************************)
(* The calendar on the wall.                                               *)
(***************************************************************************)
LeapYears(a, b) == {y \in a..b : (y % 4 = 0 /\ y % 100 # 0) \/ y % 400 = 0}

LastDay(year, month) ==
    IF month = 2 THEN IF LeapYears(year, year) = {} THEN 28 ELSE 29
    ELSE IF month \in {4, 6, 9, 11} THEN 30 ELSE 31

\* 1 January 1970 was a Thursday.
NewYear(year) ==
    LET n == 365 * (year - 1970) + Cardinality(LeapYears(1970, year - 1)) IN
        [stamp |-> n, year |-> year, month |-> 1, mday |-> 1, wday |-> (4 + n) % 7, yday |-> 0, left |-> CalDays]

CalStart == {NewYear(y) : y \in CalYears}

CalInit == cal \in CalStart

Turn ==
    LET ends == cal.mday = LastDay(cal.year, cal.month)
        newyear == ends /\ cal.month = 12
    IN  /\ cal.left > 0
        /\ cal' = [stamp |-> cal.stamp + 1,
                   year  |-> IF newyear THEN cal.year + 1 ELSE cal.year,
                   month |-> IF newyear THEN 1 ELSE IF ends THEN cal.month + 1 ELSE cal.month,
                   mday  |-> IF ends THEN 1 ELSE cal.mday + 1,
                   wday  |-> (cal.wday + 1) % 7,
                   yday  |-> IF newyear THEN 0 ELSE cal.yday + 1,
                   left  |-> cal.left - 1]

CalNext == Turn

(***************************************************************************)
(* Properties.                                                             *)
(***************************************************************************)
StampDate == tm_from_stamp(cal.stamp * 24 * 60 + 754)

WallDate == [tm_min |-> 34, tm_hour |-> 12, tm_mday |-> cal.mday, tm_mon |-> cal.month - 1,
             tm_year |-> cal.year - 1900, tm_wday |-> cal.wday, tm_yday |-> cal.yday]

LeapYearsLast == cal.yday = 365

\* The ISO week is the number of the Thursday of the week, counted in its year.
ThursdayYday == cal.yday + 4 - weekday_to_decimal_monday_one(cal.wday)

IsoWeek ==
    LET len(year) == IF LeapYears(year, year) = {} THEN 365 ELSE 366 IN
    CASE ThursdayYday < 0 -> ((ThursdayYday + len(cal.year - 1)) \div 7) + 1
      [] ThursdayYday >= len(cal.year) -> 1
      [] OTHER -> (ThursdayYday \div 7) + 1

\* Day after day, over ends of months and years, leap years and centuries: the
\* weekday formula and the day of the year agree with the calendar; a stamp gives
\* the date of its day except on the last day of a leap year (its weekday is that of
\* the day before); the weeks counted from Sunday and from Monday turn on those days;
\* and the ISO week is that of the week's Thursday, except on 2 and 3 January.
DatesAgree ==
    /\ day_of_month_to_weekday(cal.year, cal.month, cal.mday) = cal.wday
    /\ day_of_month_to_day_of_year(cal.mday, cal.month, year_is_leap_year(cal.year)) = cal.yday + 1
    /\ ~LeapYearsLast => [StampDate EXCEPT !.tm_wday = (@ + 1) % 7] = WallDate
    /\ get_week_count_at_day(cal.wday, cal.yday, FALSE) = (cal.yday + 7 - cal.wday) \div 7
    /\ get_week_count_at_day(cal.wday, cal.yday, TRUE) =
         (cal.yday + 7 - (weekday_to_decimal_monday_one(cal.wday) - 1)) \div 7
    /\ ~(cal.month = 1 /\ cal.mday \in {2, 3}) =>
         iso_8601_get_week_number(cal.wday, cal.month, cal.year, cal.mday, cal.yday) = IsoWeek

-----------------------------------------------------------------------------

CONSTANTS
    SfYears,        \* years whose first and last days are formatted
    SfSpecs,        \* characters behind a %
    SfMods,         \* modifiers, "" for none
    SfLength        \* bound: items of a format

VARIABLE sf

(***************************************************************************)
(* Names: of weekdays 0..6 and months 1..12, in full or abbreviated.       *)
(***************************************************************************)
Name(what, n, upper) == <<[name |-> what, of |-> n, upper |-> upper]>>

Mark(c) == <<[mark |-> c]>>

weekday_to_sv_abbrev(day, upper) == Name("weekday_abbrev", day, upper)

weekday_to_sv(day, upper) == Name("weekday", day, upper)

month_to_sv_abbrev(month, upper) == Name("month_abbrev", month, upper)

month_to_sv(month, upper) == Name("month", month, upper)

Number(n) == <<[num |-> n, pad |-> "", width |-> 0]>>

PAD_WITH_CHAR_IF_NECESSARY(n, ch, width, mod) ==
    IF mod = "_" THEN Number(n)
    ELSE <<[num |-> n, width |-> width, pad |-> CASE mod = "-" -> " " [] mod = "0" -> "0" [] OTHER -> ch]>>

(***************************************************************************)
(* handle_strftime_spec().  tm_mon and tm_yday count from zero, tm_year    *)
(* from 1900.  `Spec` is what a recursive call yields.                     *)
(***************************************************************************)
YearOfTm(tm) == tm.tm_year + 1900

WeekOfTm(tm) == iso_8601_get_week_number(tm.tm_wday, tm.tm_mon + 1, YearOfTm(tm), tm.tm_mday, tm.tm_yday)


IsoYearOfTm(tm) ==
    CASE tm.tm_mon = 11 /\ WeekOfTm(tm) = 1 -> YearOfTm(tm) + 1
      [] tm.tm_mon = 0 /\ WeekOfTm(tm) >= 52 -> YearOfTm(tm) - 1
      [] OTHER -> YearOfTm(tm)

SpecName(spec, mod, tm) ==
    LET up == mod = "^" IN
    CASE spec = "a" -> weekday_to_sv_abbrev(tm.tm_wday, up)
      [] spec = "A" -> weekday_to_sv(tm.tm_wday, up)
      [] spec \in {"b", "h"} -> month_to_sv_abbrev(tm.tm_mon + 1, up)
      [] spec = "B" -> month_to_sv(tm.tm_mon + 1, up)

SpecYear(spec, mod, tm) ==
    CASE spec = "C" -> Number(YearOfTm(tm) \div 100)
      [] spec = "Y" -> Number(YearOfTm(tm))
      [] spec = "y" -> PAD_WITH_CHAR_IF_NECESSARY(YearOfTm(tm) % 100, "0", 2, mod)
      [] spec = "g" -> PAD_WITH_CHAR_IF_NECESSARY(IsoYearOfTm(tm) % 100, "0", 2, mod)
      [] spec = "G" -> Number(IsoYearOfTm(tm))

SpecDay(spec, mod, tm) ==
    CASE spec = "d" -> PAD_WITH_CHAR_IF_NECESSARY(tm.tm_mday, "0", 2, mod)
      [] spec = "e" -> PAD_WITH_CHAR_IF_NECESSARY(tm.tm_mday, " ", 2, mod)
      [] spec = "j" -> PAD_WITH_CHAR_IF_NECESSARY(tm.tm_yday + 1, "0", 3, mod)
      [] spec = "m" -> PAD_WITH_CHAR_IF_NECESSARY(tm.tm_mon + 1, "0", 2, mod)

SpecHour(spec, mod, tm) ==
    CASE spec = "H" -> PAD_WITH_CHAR_IF_NECESSARY(tm.tm_hour, "0", 2, mod)
      [] spec = "I" -> PAD_WITH_CHAR_IF_NECESSARY(hour_24_to_12hour(tm.tm_hour), "0", 2, mod)
      [] spec = "M" -> PAD_WITH_CHAR_IF_NECESSARY(tm.tm_min, "0", 2, mod)
      [] spec = "S" -> PAD_WITH_CHAR_IF_NECESSARY(tm.tm_sec, "0", 2, mod)
      [] spec = "p" -> Mark(IF hour_24_is_pm(tm.tm_hour) THEN "PM" ELSE "AM")
      [] spec = "k" -> PAD_WITH_CHAR_IF_NECESSARY(tm.tm_hour, " ", 2, mod)
      [] spec = "l" -> PAD_WITH_CHAR_IF_NECESSARY(hour_24_to_12hour(tm.tm_hour), " ", 2, mod)

SpecWeek(spec, mod, tm) ==
    CASE spec = "u" -> PAD_WITH_CHAR_IF_NECESSARY(weekday_to_decimal_monday_one(tm.tm_wday), "0", 1, mod)
      [] spec = "w" -> PAD_WITH_CHAR_IF_NECESSARY(tm.tm_wday, "0", 1, mod)
      [] spec = "U" -> PAD_WITH_CHAR_IF_NECESSARY(get_week_count_at_day(tm.tm_wday, tm.tm_yday, FALSE), "0", 2, mod)
      [] spec = "W" -> PAD_WITH_CHAR_IF_NECESSARY(get_week_count_at_day(tm.tm_wday, tm.tm_yday, TRUE), "0", 2, mod)
      [] spec = "V" -> PAD_WITH_CHAR_IF_NECESSARY(WeekOfTm(tm), "0", 2, mod)

\* The specifiers that stand for others, with the marks between them.
Composite ==
    [c |-> <<"a", " ", "b", " ", "d", " ", "T", " ", "Y">>, D |-> <<"m", "/", "d", "/", "y">>,
     F |-> <<"Y", "-", "m", "-", "d">>, r |-> <<"I", ":", "M", ":", "S", " ", "p">>,
     R |-> <<"H", ":", "M">>, T |-> <<"H", ":", "M", ":", "S">>, X |-> <<"H", ":", "M", ":", "S">>,
     x |-> <<"m", "/", "d", "/", "y">>]

Marks == {"n", "t", "%"}

Valid(spec) ==
    spec \in {"a", "A", "b", "h", "B", "C", "Y", "y", "g", "G", "d", "e", "j", "m", "H", "I", "M", "S", "p", "k", "l",
              "u", "w", "U", "W", "V", "v"} \cup Marks \cup DOMAIN Composite

RECURSIVE handle_strftime_spec(_, _, _)
handle_strftime_spec(spec, mod, tm) ==
    CASE spec \in {"a", "A", "b", "h", "B"} -> SpecName(spec, mod, tm)
      [] spec \in {"C", "Y", "y", "g", "G"} -> SpecYear(spec, mod, tm)
      [] spec \in {"d", "e", "j", "m"} -> SpecDay(spec, mod, tm)
      [] spec \in {"H", "I", "M", "S", "p", "k", "l"} -> SpecHour(spec, mod, tm)
      [] spec \in {"u", "w", "U", "W", "V"} -> SpecWeek(spec, mod, tm)
      [] spec = "v" -> handle_strftime_spec("d", mod, tm) \o Mark("-")
                         \o PAD_WITH_CHAR_IF_NECESSARY(tm.tm_mon + 1, " ", 3, mod)
                         \o handle_strftime_spec("Y", mod, tm)
      [] spec \in DOMAIN Composite ->
            FoldLeft(LAMBDA out, s : out \o (IF Valid(s) THEN handle_strftime_spec(s, mod, tm) ELSE Mark(s)),
                     <<>>, Composite[spec])
      [] spec \in Marks -> Mark(spec)

(***************************************************************************)
(* parse_strftime_format(): `iter` is the item looked at, `from` where the *)
(* text begins that has not been handed on.                                *)
(***************************************************************************)
Text(w) == [text |-> w]
SpecItem(mod, c) == [mod |-> mod, spec |-> c]
IsSpec(item) == "spec" \in DOMAIN item

Items == {Text("w")} \cup {SpecItem(mod, c) : mod \in SfMods, c \in SfSpecs}

\* The struct tm of a day of a year, at half past midnight.
TmOf(year, yday) ==
    LET m == MonthOf(yday, 1, year_is_leap_year(year)) IN
    [tm_sec |-> 0, tm_min |-> 30, tm_hour |-> 0, tm_mday |-> m.day + 1, tm_mon |-> m.month - 1,
     tm_year |-> year - 1900, tm_wday |-> (NewYear(year).wday + yday) % 7, tm_yday |-> yday]

SfTms == UNION {{TmOf(y, d) : d \in 0..3 \cup (year_get_day_count(y) - 4)..(year_get_day_count(y) - 1)} : y \in SfYears}

SfStart == {[fmt |-> <<>>, tm |-> TmOf(1970, 0), iter |-> 1, from |-> 1, out |-> <<>>, pc |-> "call"]}

SfInit == sf \in SfStart

CallStrftime ==
    /\ sf.pc = "call"
    /\ \E n \in 0..SfLength : \E fmt \in [1..n -> Items], tm \in SfTms :
         sf' = [sf EXCEPT !.fmt = fmt, !.tm = tm, !.pc = "scan"]

SkipText ==
    /\ sf.pc = "scan" /\ sf.iter <= Len(sf.fmt) /\ ~IsSpec(sf.fmt[sf.iter])
    /\ sf' = [sf EXCEPT !.iter = @ + 1]

HandOn(items) == [i \in DOMAIN items |-> [literal |-> items[i]]]

AtSpec ==
    /\ sf.pc = "scan" /\ sf.iter <= Len(sf.fmt) /\ IsSpec(sf.fmt[sf.iter])
    /\ LET item == sf.fmt[sf.iter]
           before == HandOn(SubSeq(sf.fmt, sf.from, sf.iter - 1))
       IN  sf' = [sf EXCEPT !.iter = @ + 1,
                            !.from = IF Valid(item.spec) THEN sf.iter + 1 ELSE sf.iter,
                            !.out = @ \o before \o (IF Valid(item.spec)
                                                    THEN handle_strftime_spec(item.spec, item.mod, sf.tm)
                                                    ELSE <<>>)]

RestOfText ==
    /\ sf.pc = "scan" /\ sf.iter > Len(sf.fmt)
    /\ sf' = [sf EXCEPT !.pc = "done", !.out = @ \o HandOn(SubSeq(sf.fmt, sf.from, Len(sf.fmt)))]

SfNext == CallStrftime \/ SkipText \/ AtSpec \/ RestOfText

(***************************************************************************)
(* Properties.                                                             *)
(***************************************************************************)
\* The year of the Thursday of the week of a date.
ThursdaysYear(tm) ==
    LET thursday == tm.tm_yday + 4 - weekday_to_decimal_monday_one(tm.tm_wday)
        year == tm.tm_year + 1900
    IN  IF thursday < 0 THEN year - 1
        ELSE IF thursday >= (IF LeapYears(year, year) = {} THEN 365 ELSE 366) THEN year + 1 ELSE year

Wanted(item, tm) ==
    IF ~IsSpec(item) \/ ~Valid(item.spec) THEN HandOn(<<item>>)
    ELSE IF item.spec = "G" THEN Number(ThursdaysYear(tm))
    ELSE handle_strftime_spec(item.spec, item.mod, tm)

\* Whatever specifiers are unknown to the formatter, every item of the format is
\* written once and in its place, an unknown specifier as the text it is; and the
\* year written for %G is that of the week's Thursday, although the week may be
\* counted wrongly on the second and third of January.
FormatInOrder ==
    sf.pc = "done" =>
        sf.out = FoldLeft(LAMBDA out, item : out \o Wanted(item, sf.tm), <<>>, sf.fmt)
=============================================================================
