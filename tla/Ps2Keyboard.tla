---------------------------- MODULE Ps2Keyboard -----------------------------
(* The keyboard interrupt handler (kernel/arch/x86_64/dev/ps2/keyboard.c).   *)
(*                                                                           *)
(* Every key struck or let go puts its scan code, after an 0xE0 byte for the *)
(* extended keys, at the end of the bytes the keyboard has sent; each        *)
(* interrupt takes one byte.  With the code of a character goes, for the     *)
(* property alone, which modifiers were held when it was struck: by the time *)
(* the handler sees it the user may have let them go.                        *)
EXTENDS Integers, Sequences, FiniteSets

CONSTANTS Keys,      \* keys of the keyboard, out of DOMAIN KeyKind
          MaxBytes,  \* bytes sent and not yet taken by an interrupt
          MaxEvents  \* keys struck or let go

VARIABLE kbd

\* What the scan code of a key means to the handler.
KeyKind == [shift_left |-> "shift", shift_right |-> "shift",
            ctrl_left  |-> "ctrl",  ctrl_right  |-> "ctrl",
            cmd_left   |-> "cmd",   cmd_right   |-> "cmd",
            alt_left   |-> "alt",   caps_lock   |-> "caps",
            letter     |-> "char",  up_arrow    |-> "none"]

ASSUME KeysAssumption == Keys \subseteq DOMAIN KeyKind

\* The keys of enum ps2_scancode_e0_keys.
Extended == {"ctrl_right", "cmd_left", "cmd_right", "up_arrow"}

Modifiers == {"shift", "ctrl", "cmd", "alt", "caps"}

KbdInit ==
  kbd = [held |-> {}, locked |-> FALSE, bytes |-> <<>>, events |-> 0, repeated |-> FALSE,
         shift |-> 0, ctrl |-> 0, cmd |-> 0, alt |-> FALSE, caps |-> FALSE,
         in_e0 |-> FALSE, got |-> {}, want |-> {}]

\* The modifiers the user means when a key is struck now.
Meant == {m \in Modifiers \ {"caps"} : \E k \in kbd.held : KeyKind[k] = m}
           \cup (IF kbd.locked THEN {"caps"} ELSE {})

Send(k, up) ==
  LET code == [e0 |-> FALSE, key |-> k, up |-> up, want |-> Meant]
      lead == [e0 |-> TRUE, key |-> "", up |-> FALSE, want |-> {}] IN
  kbd.bytes \o (IF k \in Extended THEN <<lead, code>> ELSE <<code>>)

Free == kbd.events < MaxEvents /\ Len(kbd.bytes) + 2 <= MaxBytes

Strike(k) ==
  /\ Free /\ k \notin kbd.held
  /\ kbd' = [kbd EXCEPT !.held = @ \cup {k}, !.bytes = Send(k, FALSE), !.events = @ + 1,
                        !.locked = IF KeyKind[k] = "caps" THEN ~@ ELSE @]

LetGo(k) ==
  /\ Free /\ k \in kbd.held
  /\ kbd' = [kbd EXCEPT !.held = @ \ {k}, !.bytes = Send(k, TRUE), !.events = @ + 1]

\* A key held down sends its code again.
Repeats(k) ==
  /\ Free /\ k \in kbd.held
  /\ kbd' = [kbd EXCEPT !.bytes = Send(k, FALSE), !.events = @ + 1,
                        !.repeated = @ \/ KeyKind[k] # "char"]

-----------------------------------------------------------------------------

\* The two-bit fields of struct ps2_keyboard_state.
Bump(n, up) == (IF up THEN n + 3 ELSE n + 1) % 4

\* The mutant leaves in_e0 set until a key it knows arrives.
MutKeepE0(s, b) ==
  CASE b.key \in {"cmd_left", "cmd_right"} -> [s EXCEPT !.cmd = Bump(@, b.up), !.in_e0 = FALSE]
    [] b.key = "ctrl_right" -> [s EXCEPT !.ctrl = Bump(@, b.up), !.in_e0 = FALSE]
    [] OTHER -> s

ExtendedKey(s, b) ==
  LET t == [s EXCEPT !.in_e0 = FALSE] IN
  CASE b.key \in {"cmd_left", "cmd_right"} -> [t EXCEPT !.cmd = Bump(@, b.up)]
    [] b.key = "ctrl_right" -> [t EXCEPT !.ctrl = Bump(@, b.up)]
    [] OTHER -> t

\* The modifiers printed with a character, and the table it is taken from.
Printed(s) ==
  {m \in {"shift", "ctrl", "cmd"} : s[m] # 0}
    \cup (IF s.alt THEN {"alt"} ELSE {}) \cup (IF s.caps THEN {"caps"} ELSE {})

PlainKey(s, b) ==
  CASE b.e0 -> [s EXCEPT !.in_e0 = TRUE]
    [] b.key = "ctrl_left" -> [s EXCEPT !.ctrl = Bump(@, b.up)]
    [] b.key \in {"shift_left", "shift_right"} -> [s EXCEPT !.shift = Bump(@, b.up)]
    [] b.key = "alt_left" -> [s EXCEPT !.alt = ~b.up]
    [] b.key = "caps_lock" /\ ~b.up -> [s EXCEPT !.caps = ~@]
    [] b.key = "letter" /\ ~b.up -> [s EXCEPT !.got = Printed(s), !.want = b.want]
    [] OTHER -> s

ps2_keyboard_interrupt ==
  /\ kbd.bytes # <<>>
  /\ LET b == kbd.bytes[1]
         s == [kbd EXCEPT !.bytes = Tail(@)] IN
     kbd' = IF s.in_e0 THEN ExtendedKey(s, b) ELSE PlainKey(s, b)

KbdNext ==
  \/ \E k \in Keys : Strike(k) \/ LetGo(k) \/ Repeats(k)
  \/ ps2_keyboard_interrupt

-----------------------------------------------------------------------------

\* A character comes out with exactly the modifiers that were held when its
\* key was struck, however late the interrupts run, as long as the keyboard
\* does not repeat the code of a modifier held down: the handler counts every
\* code as one more key, and two bits hold the count.
CarriesModifiers == ~kbd.repeated => kbd.got = kbd.want
=============================================================================
