------------------------------- MODULE Input -------------------------------
(***************************************************************************)
(* Keyboard and mouse: kernel/drivers/kbd.c with the loop of scank         *)
(* (libk/stdio.c) that the shell reads its commands with, and              *)
(* kernel/drivers/mouse.c.  The write of kbd_event to the foreground       *)
(* task's pipe is modelled in RingBuffer and FileTable.                    *)
(***************************************************************************)
EXTENDS Integers, Sequences, FiniteSets, SequencesExt

CONSTANTS Keys,      \* scan codes
          Layouts,   \* [name -> [plain, cap]], each a function from Keys to characters
          Shift,     \* the scan code of the shift key
          MaxLine,   \* bound on the characters typed for one line
          Moves,     \* the steps <<dx, dy>> the mouse reports
          Half,      \* half the range of a byte of a mouse packet (128)
          MaxX, MaxY \* the last position of the pointer

NUL == "NUL"
Slot(k) == k % 16
ASSUME InputConstants ==
    /\ Half \in Nat \ {0} /\ MaxX \in Nat /\ MaxY \in Nat
    /\ Moves \subseteq (1 - 2 * Half .. 2 * Half - 1) \X (1 - 2 * Half .. 2 * Half - 1)
    /\ Shift \in Keys /\ Slot(Shift) = 10 /\ "en" \in DOMAIN Layouts
    /\ \A n \in DOMAIN Layouts : Layouts[n].plain[Shift] = NUL /\ Layouts[n].cap[Shift] = NUL

VARIABLES down,     \* kbd_key_states: the slots that are set
          lastKey,  \* kbd_last_key
          layout,   \* kbd_cur_layout, kbd_cur_layout_cap
          rd,       \* where scank is: "poll", "get", "clear"
          c,        \* its variable c
          str,      \* its buffer, up to pos
          typed,    \* ghost: the characters of the keys pressed since scank started
          unread,   \* ghost: a key was pressed and kbd_get has not returned it
          raced,    \* ghost: an event came while an earlier one was not yet read
          packet,   \* the packet the mouse is sending: [xs, ys, dx, dy], and over
          phase,    \* how many of its bytes are sent
          m,        \* [byte, xs, ys, vx, x, y]: the variables of mouse.c
          at,       \* ghost: where the pointer belongs
          slipped   \* ghost: a packet had an overflow bit, or a step too far left

inputVars == <<down, lastKey, layout, rd, c, str, typed, unread, raced, packet, phase, m, at, slipped>>
mouseVars == <<packet, phase, m, at, slipped>>
kbdVars == <<down, lastKey, layout, rd, c, str, typed, unread, raced>>

----------------------------------------------------------------------------
(* Keyboard *)

\* A key's character in the layout in use.
KeyChar(k, shifted) == IF shifted THEN Layouts[layout].cap[k] ELSE Layouts[layout].plain[k]

\* Sixteen slots for all keys: a press sets the key's slot, a release clears it.
\* A key in the slot of shift is its own shift.
kbd_event(k, pressed) ==
    /\ pressed => Len(typed) < MaxLine
    /\ down' = IF pressed THEN down \cup {Slot(k)} ELSE down \ {Slot(k)}
    /\ lastKey' = IF pressed THEN k ELSE lastKey
    /\ typed' = IF pressed THEN Append(typed, KeyChar(k, Slot(k) = Slot(Shift))) ELSE typed
    /\ unread' = (unread \/ pressed)
    /\ raced' = (raced \/ unread \/ (pressed /\ rd # "poll"))
    /\ UNCHANGED <<layout, rd, c, str, mouseVars>>

\* whether some slot is set; the shift key's alone will do
kbd_keydown == down # {}

scank_poll ==
    /\ rd = "poll" /\ kbd_keydown
    /\ rd' = "get"
    /\ UNCHANGED <<down, lastKey, layout, c, str, typed, unread, raced, mouseVars>>

kbd_get ==
    /\ rd = "get"
    /\ c' = KeyChar(lastKey, Slot(Shift) \in down)
    /\ rd' = "clear"
    /\ unread' = FALSE
    /\ UNCHANGED <<down, lastKey, layout, str, typed, raced, mouseVars>>

\* mutant: the slot is not cleared
kbd_get_clear_variant == UNCHANGED down

\* The last line of kbd_get: the slot of the key that is the last one by now
kbd_get_clear == down' = down \ {Slot(lastKey)}

\* A character goes into the buffer, whatever it is; backspace takes one out.
scank_put ==
    /\ rd = "clear" /\ kbd_get_clear
    /\ rd' = "poll" /\ c # "NL"
    /\ str' = CASE c = "BS" -> IF str = <<>> THEN str ELSE Front(str)
                [] OTHER    -> Append(str, c)
    /\ Len(str) <= MaxLine
    /\ c' = NUL   \* not read again
    /\ UNCHANGED <<lastKey, layout, typed, unread, raced, mouseVars>>

\* the line ends and the next call starts; keys typed in between are not lost
scank_end ==
    /\ rd = "clear" /\ c = "NL" /\ kbd_get_clear
    /\ rd' = "poll" /\ c' = NUL /\ str' = <<>> /\ typed' = <<>>
    /\ raced' = (down' # {})
    /\ UNCHANGED <<unread, lastKey, layout, mouseVars>>

\* the shell's command, between two lines
kbd_switch_layout(n) ==
    /\ n \in DOMAIN Layouts /\ typed = <<>> /\ str = <<>> /\ rd = "poll"
    /\ layout' = n
    /\ UNCHANGED <<down, lastKey, rd, c, str, typed, unread, raced, mouseVars>>

----------------------------------------------------------------------------
(* Mouse.  The coordinates of a step are -(2 Half - 1) .. 2 Half - 1: the sign *)
(* is in the first byte of a packet, the low bits are a byte of their own.   *)

Low(d) == d % (2 * Half)
Clamp(v, max) == IF v > max THEN max ELSE IF v < 0 THEN 0 ELSE v

\* mutant: the byte is taken as unsigned whatever the sign bit
Signed_variant(sign, p) == p

\* xs ? (int8_t)p : p
Signed(sign, p) == IF sign /\ p >= Half THEN p - 2 * Half ELSE p

\* A byte that is not the one mouse_event takes it for carries any bits.
mouse_event(p, over, xs, ys) ==
    LET vy == Signed(m.ys, p) IN
    m' = CASE m.byte = 0 /\ over  -> m
           [] m.byte = 0 /\ ~over -> [m EXCEPT !.byte = 1, !.xs = xs, !.ys = ys]
           [] m.byte = 1          -> [m EXCEPT !.byte = 2, !.vx = Signed(m.xs, p)]
           [] OTHER -> [m EXCEPT !.byte = 0,
                                 !.x = Clamp(m.x + m.vx, MaxX), !.y = Clamp(m.y - vy, MaxY)]

\* The mouse starts a packet; a step that does not fit has an overflow bit.
mouse_packet(dx, dy, over) ==
    /\ phase = 0
    /\ packet' = [dx |-> dx, dy |-> dy]
    /\ phase' = 1
    /\ slipped' = (slipped \/ over \/ dx < -Half \/ dy < -Half)
    /\ at' = IF slipped' THEN [x |-> 0, y |-> 0]
             ELSE [x |-> Clamp(at.x + dx, MaxX), y |-> Clamp(at.y - dy, MaxY)]
    /\ \E o, xs, ys \in BOOLEAN :
          /\ o = over /\ xs = (dx < 0) /\ ys = (dy < 0)
          /\ mouse_event(0, o, xs, ys)
    /\ UNCHANGED kbdVars

mouse_data ==
    /\ phase \in {1, 2}
    /\ phase' = (phase + 1) % 3
    /\ packet' = IF phase = 2 THEN [dx |-> 0, dy |-> 0] ELSE packet
    /\ \E o, xs, ys \in BOOLEAN :
          /\ m.byte # 0 => ~o /\ ~xs /\ ~ys
          /\ mouse_event(Low(IF phase = 1 THEN packet.dx ELSE packet.dy), o, xs, ys)
    /\ UNCHANGED <<at, slipped, kbdVars>>

InputInit ==
    /\ down = {} /\ lastKey = 0 /\ layout = "en" /\ rd = "poll" /\ c = NUL
    /\ str = <<>> /\ typed = <<>> /\ unread = FALSE /\ raced = FALSE
    /\ packet = [dx |-> 0, dy |-> 0] /\ phase = 0
    /\ m = [byte |-> 0, xs |-> TRUE, ys |-> TRUE, vx |-> 0, x |-> 0, y |-> 0]
    /\ at = [x |-> 0, y |-> 0] /\ slipped = FALSE

Scank == scank_poll \/ kbd_get \/ scank_put \/ scank_end

KbdNext ==
    \/ \E k \in Keys, pressed \in BOOLEAN : kbd_event(k, pressed)
    \/ Scank
    \/ \E n \in {"en", "fr", "de"} : kbd_switch_layout(n)

MouseNext == mouse_data \/ \E d \in Moves, over \in BOOLEAN : mouse_packet(d[1], d[2], over)

KbdSpec == InputInit /\ [][KbdNext]_inputVars
MouseSpec == InputInit /\ [][MouseNext]_inputVars

----------------------------------------------------------------------------
(* Properties *)

\* what a line editor makes of the keys
Edited(keys) ==
    LET line[n \in 0 .. Len(keys)] ==
          IF n = 0 THEN <<>>
          ELSE IF keys[n] # "BS" THEN Append(line[n - 1], keys[n])
          ELSE IF line[n - 1] = <<>> THEN <<>> ELSE Front(line[n - 1])
    IN  line[Len(keys)]

\* As long as every key is read before the next event, the buffer of scank holds
\* what was typed, each key once (a key without character, shift included, as NUL,
\* and a key that shares the slot of shift as if shift were down).
LineFaithful == ~raced /\ rd = "poll" /\ ~unread => str = Edited(typed)

\* A line is finished once its newline is read, however keys and reads interleave,
\* and the buffer never holds a character that is in no layout.
LineChars ==
    \A i \in DOMAIN str : /\ str[i] \notin {"NL", "BS"}
                          /\ \E n \in DOMAIN Layouts, k \in Keys :
                                str[i] \in {Layouts[n].plain[k], Layouts[n].cap[k]}

\* scank builds its line from key states that the interrupt changes under it: the
\* line never holds anything but characters of a layout, and is what was typed and
\* not erased as long as every key is read before the next event.
LineRight == LineFaithful /\ LineChars

\* The pointer follows the mouse, except after a packet with an overflow bit
\* (mouse_event then takes the following bytes for another one's) and after a
\* step of more than Half to the left or down, whose byte looks positive.
PointerFollows == ~slipped => /\ m.byte = phase
                              /\ phase = 0 => m.x = at.x /\ m.y = at.y

\* Whatever bytes come in whatever order, the pointer stays on the screen.
PointerOnScreen == m.x \in 0 .. MaxX /\ m.y \in 0 .. MaxY

\* The packets' bytes, one interrupt each, keep the pointer where the mouse is and
\* always on the screen.
PointerRight == PointerFollows /\ PointerOnScreen
=============================================================================
