-------------------------------- MODULE Rtc ---------------------------------
(* Reading the real-time clock (kernel/arch/x86_64/dev/time/rtc.c) while the *)
(* clock goes on ticking.                                                    *)
(*                                                                           *)
(* The clock has the registers second, hour, year and century (minute, day   *)
(* and month behave as hour does), each with two values.  An update sets the *)
(* update-in-progress bit, changes the registers one after the other and     *)
(* clears the bit; the driver reads one register per step.                   *)
EXTENDS Integers, Sequences, FiniteSets

CONSTANTS MAX_ATTEMPTS,  \* double reads before the driver gives up
          MaxTicks       \* updates of the clock

VARIABLE rtc

Second == <<9, 10>>
Hour   == <<11, 12>>     \* in 24-hour form: the last of the morning and noon
Year   == <<99, 0>>
Century == <<19, 20>>
Values == <<Second, Hour, Year, Century>>

\* The next time: second, hour and year carry into the register above.
Tick(t) ==
  LET carry(i) == \A j \in 1..(i - 1) : t[j] = 2 IN
  [i \in 1..4 |-> IF carry(i) THEN 3 - t[i] ELSE t[i]]

\* How a register holds its value in the format that status register B names.
Encode(v) == IF rtc.binary THEN v ELSE (v \div 10) * 16 + (v % 10)
EncodeHour(h) ==
  IF rtc.hr24 THEN Encode(h)
  ELSE Encode(IF h % 12 = 0 THEN 12 ELSE h % 12) + (IF h >= 12 THEN 128 ELSE 0)

cmos_read(i) ==
  LET v == Values[i][(IF i <= rtc.changed THEN Tick(rtc.now) ELSE rtc.now)[i]] IN
  IF i = 2 THEN EncodeHour(v) ELSE Encode(v)

Empty == [time |-> <<0, 0, 0>>, a |-> FALSE, b |-> FALSE]

RtcStart ==
  {[now |-> t, changed |-> 0, uip |-> FALSE, ticks |-> 0,
    binary |-> binary, hr24 |-> hr24, pc |-> "init", copy |-> 1, tries |-> 0,
    info |-> <<Empty, Empty>>, seen |-> {}, res |-> <<>>] :
      binary \in BOOLEAN, hr24 \in BOOLEAN, t \in {<<2, 1, 1, 1>>, <<2, 2, 1, 1>>}}

RtcInit == rtc \in RtcStart

-----------------------------------------------------------------------------
(* The clock.                                                                *)

StartUpdate ==
  /\ ~rtc.uip /\ rtc.ticks < MaxTicks /\ rtc.pc # "done"
  /\ rtc' = [rtc EXCEPT !.uip = TRUE, !.ticks = @ + 1, !.seen = @ \cup {Tick(rtc.now)}]

ChangeRegister ==
  /\ rtc.uip /\ rtc.changed < 4
  /\ rtc' = [rtc EXCEPT !.changed = @ + 1]

EndUpdate ==
  /\ rtc.uip /\ rtc.changed = 4
  /\ rtc' = [rtc EXCEPT !.uip = FALSE, !.changed = 0, !.now = Tick(@)]

\* The times the clock shows now: the new one from the start of its update.
Shown == {rtc.now} \cup (IF rtc.uip THEN {Tick(rtc.now)} ELSE {})

-----------------------------------------------------------------------------
(* The driver.  rtc_wait_until_available gives up while an update lasts.     *)

rtc_wait_until_available == ~rtc.uip

\* cmos_write selects the register and then sends the data to the port that
\* has the register's number (cmos.c:45): the register keeps its value.
cmos_write(s) == s

rtc_init ==
  /\ rtc.pc = "init"
  /\ rtc' = [(IF rtc_wait_until_available THEN cmos_write(rtc) ELSE rtc)
               EXCEPT !.pc = "second", !.seen = Shown]

\* The six registers of read_rtc_cmos_info, then status register A.
Read(at, i, then) ==
  /\ rtc.pc = at
  /\ rtc' = [rtc EXCEPT !.info[rtc.copy].time[i] = cmos_read(i), !.pc = then]

ReadStatusA ==
  /\ rtc.pc = "a"
  /\ rtc' = [rtc EXCEPT !.info[rtc.copy].a = rtc.uip, !.pc = "b"]

\* read_reg_status_b; b = FALSE stands for UINT16_MAX.
ReadStatusB ==
  /\ rtc.pc = "b"
  /\ rtc' = [rtc EXCEPT !.info[rtc.copy].b = rtc_wait_until_available,
                        !.pc = IF rtc.copy = 1 THEN "second" ELSE "match",
                        !.copy = 3 - @]

\* The mutant does not ask whether status register B could be read.
MutMatchAnyB == rtc.info[1] = rtc.info[2]

Match == rtc.info[1].b /\ rtc.info[1] = rtc.info[2]

\* The loop of rtc_read_cmos_info.
CompareReads ==
  /\ rtc.pc = "match"
  /\ rtc' = IF Match THEN [rtc EXCEPT !.pc = "century"]
            ELSE [rtc EXCEPT !.tries = @ + 1, !.seen = Shown,
                             !.pc = IF rtc.tries + 1 = MAX_ATTEMPTS THEN "done" ELSE "second"]

convert_bcd_to_binary(b) == (b % 16) + (b \div 16) * 10

hour_12_to_24hour(h, pm) == (h % 12) + (IF pm THEN 12 ELSE 0)

\* What rtc_read_cmos_info makes of the registers and the century.
Convert(time, century) ==
  LET plain(v) == IF rtc.binary THEN v ELSE convert_bcd_to_binary(v)
      hour == IF rtc.binary THEN time[2] ELSE convert_bcd_to_binary(time[2] % 128) IN
  <<plain(time[1]),
    IF rtc.hr24 THEN hour ELSE hour_12_to_24hour(hour, hour >= 128),
    plain(time[3]) + plain(century) * 100>>

rtc_read_cmos_info ==
  /\ rtc.pc = "century"
  /\ rtc' = [rtc EXCEPT !.res = Convert(rtc.info[1].time, cmos_read(4)), !.pc = "done"]

RtcNext ==
  \/ StartUpdate \/ ChangeRegister \/ EndUpdate
  \/ rtc_init \/ Read("second", 1, "hour") \/ Read("hour", 2, "year") \/ Read("year", 3, "a")
  \/ ReadStatusA \/ ReadStatusB \/ CompareReads \/ rtc_read_cmos_info

-----------------------------------------------------------------------------

\* A time the driver returns is one the clock showed, as a whole, while the two
\* matching reads were made: never the registers of two times mixed.  Two
\* limits of the code are left out: the century is read once, after the reads
\* that must match, so it may be that of a later moment; and the hour of an
\* afternoon is wrong when the clock runs in 12-hour mode.
ReadsOneMoment ==
  rtc.res # <<>> =>
    \E t, u \in rtc.seen :
      /\ rtc.res[1] = Second[t[1]]
      /\ rtc.hr24 \/ Hour[t[2]] < 12 => rtc.res[2] = Hour[t[2]]
      /\ rtc.res[3] = Year[t[3]] + Century[u[4]] * 100
=============================================================================
