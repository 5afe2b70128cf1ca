-------------------------------- MODULE Ps2 ---------------------------------
(* The PS/2 driver (kernel/arch/x86_64/dev/ps2/driver.c) and its setting up  *)
(* of a keyboard (keyboard.c, ps2_keyboard_init), against a controller and   *)
(* two devices that answer late, ask for a byte again, or never answer.      *)
(*                                                                           *)
(* The driver runs one exchange per step: a poll that writes a byte or gives *)
(* up after RETRY_LIMIT looks at the status register, and a poll that reads  *)
(* one or gives up.  ans holds, in order, the bytes the driver has still to  *)
(* read.  A read that gives up while ans is not empty is an answer that came *)
(* late: it stays in the buffer and is read as the answer to a later byte.   *)
EXTENDS Integers, Sequences, FiniteSets

CONSTANTS
  RETRY_LIMIT,   \* sends of one byte before the driver gives up
  Kinds,         \* the devices a port may hold, names of DOMAIN Identity
  MaxKeys        \* keys struck while the driver is at work

VARIABLE ps2

Ports == {1, 2}

\* enum ps2_response; 0x41 as scan-code set and as second identity byte.
ACKNOWLEDGE == 250
FAIL        == 252
SUCCESS     == 170
RESEND      == 254
TIMEOUT     == -1
KEY         == 30    \* a scan code that is none of the answers

\* What a device answers to "identify", after its acknowledgement.
Identity == [none |-> <<>>, mouse |-> <<0>>, wheel |-> <<3>>,
             kbd |-> <<171, 131>>, kbd1 |-> <<171, 65>>, kbd2 |-> <<171, 193>>]

ASSUME KindsAssumption == Kinds \subseteq DOMAIN Identity

\* PS2_DEVICE_KIND_MF2_KBD_WITH_TRANSL_1 and _2: the ones taken into use.
Translated == {171 * 256 + 65, 171 * 256 + 193}

\* The bytes the driver sends to a device, by the place it sends them from.
Byte == [reset |-> 255, disable |-> 245, identify |-> 242, enscan |-> 244,
         scs |-> 240, get |-> 0]

\* The places where it sends a command to the controller, and where it reads.
Commands == {"dis1", "dis2", "config", "wconfig", "wvalue", "test1", "test2", "enable"}
Reads    == {"rconfig", "rtest1", "rtest2", "flush", "success", "extra",
             "first", "second", "code", "last"}

Pcs == Commands \cup Reads \cup DOMAIN Byte \cup {"done"}

Ps2Start ==
  {[pc |-> "dis1", port |-> 0, sent |-> 0, ans |-> ans, kind |-> kind,
    two |-> FALSE, second |-> FALSE, first |-> TIMEOUT, snd |-> TIMEOUT,
    handlers |-> {}, keys |-> 0, quiet |-> ans = <<>>] :
      kind \in [Ports -> Kinds], ans \in {<<>>, <<KEY>>}}

Ps2Init == ps2 \in Ps2Start

-----------------------------------------------------------------------------
(* The controller and the devices, as the driver uses them.                  *)

\* What the controller puts into the buffer for a command.
Controller(at) ==
  CASE at = "config" -> {<<IF ps2.kind[2] = "none" THEN 0 ELSE 32>>}
    [] at \in {"test1", "test2"} -> {<<0>>, <<1>>}
    [] OTHER -> {<<>>}

\* What a device answers to a byte: it may always ask for it again.
Device(at) ==
  IF ps2.kind[ps2.port] = "none" THEN {<<>>}
  ELSE {<<RESEND>>} \cup
       {CASE at = "reset"    -> <<ACKNOWLEDGE, SUCCESS>>
          [] at = "identify" -> <<ACKNOWLEDGE>> \o Identity[ps2.kind[ps2.port]]
          [] at = "get"      -> <<ACKNOWLEDGE, 65>>
          [] OTHER           -> <<ACKNOWLEDGE>>}

-----------------------------------------------------------------------------
(* Where the driver goes with the byte it read (-1: none in time).           *)

NextPort(s) ==
  IF s.port = 1 /\ s.second THEN [s EXCEPT !.pc = "enable", !.port = 2]
  ELSE [s EXCEPT !.pc = "done"]

ps2_keyboard_init(s, b) ==
  CASE s.pc = "scs"  -> [s EXCEPT !.pc = "get"]
    [] s.pc = "get"  -> IF b = ACKNOWLEDGE THEN [s EXCEPT !.pc = "code"] ELSE NextPort(s)
    [] s.pc = "code" -> IF b = 65
                        THEN [s EXCEPT !.pc = "last", !.handlers = @ \cup {s.port}]
                        ELSE NextPort(s)
    [] s.pc = "last" -> NextPort(s)

\* The mutant takes a device for the kind its first byte names alone.
MutKindFirst(s) == IF s.first >= 0 THEN s.first * 256 + 65 ELSE s.first

DeviceKind(s) == IF s.snd # -1 THEN s.first * 256 + s.snd ELSE s.first

ps2_get_device_kind(s, b) ==
  CASE s.pc = "disable"  -> [s EXCEPT !.pc = "extra"]
    [] s.pc = "extra"    -> [s EXCEPT !.pc = "identify"]
    [] s.pc = "identify" -> IF b = ACKNOWLEDGE THEN [s EXCEPT !.pc = "first"] ELSE NextPort(s)
    [] s.pc = "first"    -> [s EXCEPT !.pc = "second", !.first = b]
    [] s.pc = "second"   -> [s EXCEPT !.pc = "enscan", !.snd = b]
    [] s.pc = "enscan"   -> IF DeviceKind(s) \in Translated
                            THEN [s EXCEPT !.pc = "scs"] ELSE NextPort(s)

ps2_init_port(s, b) ==
  CASE s.pc = "flush"   -> [s EXCEPT !.pc = "reset"]
    [] s.pc = "reset"   -> IF b % 256 = ACKNOWLEDGE THEN [s EXCEPT !.pc = "success"] ELSE NextPort(s)
    [] s.pc = "success" -> IF b % 256 = SUCCESS THEN [s EXCEPT !.pc = "disable"] ELSE NextPort(s)
    [] OTHER -> IF s.pc \in {"scs", "get", "code", "last"}
                THEN ps2_keyboard_init(s, b) ELSE ps2_get_device_kind(s, b)

\* The first port is set up whether or not it passed its test.
Tested(s) ==
  IF s.two THEN [s EXCEPT !.pc = "test2"] ELSE [s EXCEPT !.pc = "enable", !.port = 1]

ps2_init(s, b) ==
  CASE s.pc = "rconfig" -> IF b = -1 THEN [s EXCEPT !.pc = "done"]
                           ELSE [s EXCEPT !.pc = "wconfig", !.two = (b \div 32) % 2 = 1]
    [] s.pc = "rtest1"  -> Tested(s)
    [] s.pc = "rtest2"  -> [s EXCEPT !.pc = "enable", !.port = 1, !.second = b = 0]
    [] OTHER -> ps2_init_port(s, b)

-----------------------------------------------------------------------------
(* The exchanges.                                                            *)

\* What a read of the buffer may return, and what it leaves in it.
ps2_read_input_byte(ans) ==
  {[byte |-> TIMEOUT, ans |-> ans]} \cup
  (IF ans = <<>> THEN {} ELSE {[byte |-> ans[1], ans |-> Tail(ans)]})

Late(r) == r.byte = TIMEOUT /\ r.ans # <<>>

ReadByte ==
  /\ ps2.pc \in Reads
  /\ \E r \in ps2_read_input_byte(ps2.ans) :
       ps2' = ps2_init([ps2 EXCEPT !.ans = r.ans, !.quiet = @ /\ ~Late(r)], r.byte)

\* ps2_write gave up: which caller returns at once, and which goes on.
WriteFails(s) ==
  CASE s.pc = "test1"  -> Tested(s)
    [] s.pc = "test2"  -> [s EXCEPT !.pc = "enable", !.port = 1]
    [] s.pc = "enable" -> NextPort(s)
    [] OTHER           -> [s EXCEPT !.pc = "done"]

ps2_send_command ==
  /\ ps2.pc \in Commands
  /\ \/ ps2' = WriteFails([ps2 EXCEPT !.quiet = FALSE])
     \/ \E q \in Controller(ps2.pc) :
          ps2' = [ps2 EXCEPT !.ans = @ \o q,
                    !.pc = CASE @ = "dis1"    -> "dis2"     [] @ = "dis2"   -> "config"
                             [] @ = "config"  -> "rconfig"  [] @ = "wconfig" -> "wvalue"
                             [] @ = "wvalue"  -> "test1"    [] @ = "test1"  -> "rtest1"
                             [] @ = "test2"   -> "rtest2"   [] @ = "enable" -> "flush"]

\* The mutant sends again as long as the device asks for it.
MutSendForever(byte, sent) == byte = RESEND

\* The driver sends the byte once more.
SendsAgain(byte, sent) == byte = RESEND /\ sent + 1 # RETRY_LIMIT

\* One turn of the loop in ps2_send_to_port.
ps2_send_to_port ==
  /\ ps2.pc \in DOMAIN Byte
  /\ LET back(s, b) == ps2_init([s EXCEPT !.sent = 0], b) IN
     \/ ps2' = back([ps2 EXCEPT !.quiet = FALSE], TIMEOUT)
     \/ \E q \in Device(ps2.pc) : \E r \in ps2_read_input_byte(ps2.ans \o q) :
          LET s == [ps2 EXCEPT !.ans = r.ans, !.quiet = @ /\ ~Late(r)] IN
          ps2' = IF SendsAgain(r.byte, ps2.sent)
                 THEN [s EXCEPT !.sent = (@ + 1) % RETRY_LIMIT]
                 ELSE IF r.byte = RESEND THEN back([s EXCEPT !.quiet = FALSE], FAIL)
                 ELSE back(s, r.byte)

\* A key is struck on a keyboard whose port is enabled.
StrikesKey ==
  /\ ps2.pc # "done" /\ ps2.port # 0 /\ ps2.keys < MaxKeys
  /\ ps2.kind[ps2.port] \in {"kbd", "kbd1", "kbd2"}
  /\ ps2' = [ps2 EXCEPT !.ans = Append(@, KEY), !.keys = @ + 1, !.quiet = FALSE]

Ps2Driver == ReadByte \/ ps2_send_command \/ ps2_send_to_port
Ps2Next == Ps2Driver \/ StrikesKey

-----------------------------------------------------------------------------

\* When every byte was written and answered in time, the driver leaves the
\* keyboard interrupt installed for exactly the ports it tested that hold a
\* keyboard with translation.  Whatever happens, it installs none when no port
\* holds one.
KeyboardsFound ==
  LET found == {p \in Ports : ps2.kind[p] \in {"kbd1", "kbd2"}} IN
  /\ ps2.handlers # {} => found # {}
  /\ ps2.pc = "done" /\ ps2.quiet =>
       ps2.handlers = {p \in found : p = 2 => ps2.second}

\* ps2_init comes to an end whatever the controller and the devices do: each
\* poll, and each run of "resend" answers, is cut off.
Ps2InitReturns == <>(ps2.pc = "done")
=============================================================================
