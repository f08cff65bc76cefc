------------------------------ MODULE Terminal ------------------------------
(***************************************************************************)
(* The text terminals (kernel/term): the VESA terminal, which kmain        *)
(* selects, and the VGA one behind the same interface.  The kernel shell   *)
(* prints with interrupts enabled, so its calls of putchar are modelled    *)
(* statement by statement; programs print through write(), which disables  *)
(* them.  A character cell stands for the pixels of its glyph.             *)
(***************************************************************************)
EXTENDS Integers, Sequences, FiniteSets, SequencesExt

CONSTANTS Terms,      \* the terminals: "vesa", "vga"
          Writers,    \* tasks that print
          CliWriters, \* those of them that do so with interrupts disabled
          Chars,      \* characters: "a", ... and the control characters below
          Cols, Rows, \* the size of the screen (128 and 48, 80 and 25)
          TabWidth,   \* the distance of tab stops (4)
          Wrap,       \* the range of size_t (2^32)
          MaxText,    \* bound on the characters printed on a screen
          MaxMixed    \* the same, when two calls overlap

NLc == "NL"
BSc == "BS"
TABc == "TAB"

ASSUME TermConstants ==
    /\ CliWriters \subseteq Writers /\ Terms \subseteq {"vesa", "vga"}
    /\ Cols \in Nat /\ Cols > 1 /\ Rows \in Nat \ {0} /\ TabWidth \in Nat \ {0}
    /\ Wrap \in Nat /\ Wrap > Cols * Rows + TabWidth

VARIABLES term,     \* current_term.type
          cells,    \* the frame buffer: [0 .. Cols * Rows - 1 -> characters]
          col, row, \* the cursor
          color,    \* the color in use: "fg", or "cur" for the cursor
          put,      \* [Writers -> [pc, c, clr]]: the calls of putchar
          text,     \* ghost: what has been printed since the screen was cleared
          edge,     \* ghost: a backspace in column 0 or a tab behind the last stop
          wild,     \* ghost: a write that missed the screen
          overlap   \* ghost: two calls (of putchar, or clear) have overlapped

termVars == <<term, cells, col, row, color, put, text, edge, wild, overlap>>

Blank == " "
Cursor == "_"
Control == {NLc, BSc, TABc}
Quiet == [pc |-> "idle"]
Resting == \A w \in Writers : put[w].pc = "idle"
RunsT(w) == \A o \in CliWriters \ {w} : put[o].pc = "idle"
To(w, pc) == put' = [put EXCEPT ![w].pc = pc]
Screen == [i \in 0 .. Cols * Rows - 1 |-> Blank]

\* the last thing putchar does
Tailpc == IF term = "vesa" THEN "save" ELSE "return"

----------------------------------------------------------------------------
\* vga_term_putat, vesa_term_putat: no check that the position is on the screen
putat(c, x, y) ==
    IF x < Cols /\ y < Rows
    THEN cells' = [cells EXCEPT ![x + y * Cols] = c] /\ UNCHANGED wild
    ELSE wild' = TRUE /\ UNCHANGED cells

\* the VESA terminal erases the cursor before a control character
putchar(w, c) ==
    /\ RunsT(w) /\ put[w].pc = "idle"
    /\ LET mixed2 == overlap \/ \E o \in Writers : put[o].pc # "idle" IN
        /\ Len(text) < (IF mixed2 THEN MaxMixed ELSE MaxText)
        /\ overlap' = mixed2
    /\ put' = [put EXCEPT ![w] = [pc |-> IF term = "vesa" /\ c \in Control THEN "erase" ELSE "move",
                                  c |-> c, clr |-> "none"]]
    /\ text' = Append(text, c)
    /\ UNCHANGED <<term, cells, col, row, color, edge, wild>>

term_erase(w) ==
    /\ put[w].pc = "erase" /\ putat(Blank, col, row) /\ To(w, "move")
    /\ UNCHANGED <<term, col, row, color, text, edge, overlap>>

\* the next tab stop: in column 76 .. 79 (of 80) it is column 80
TabStop(x) == TabWidth * ((((x + 1) % Wrap) + TabWidth - 1) \div TabWidth)

\* the last column is never written
LastCol == col + 1 = Cols

term_move(w) ==
    LET c == put[w].c
        x == CASE c = NLc -> 0
               [] c = BSc -> (col - 1) % Wrap
               [] c = TABc -> TabStop(col)
               [] OTHER -> IF LastCol THEN 0 ELSE col
    IN  /\ put[w].pc = "move"
        /\ col' = x
        /\ edge' = (edge \/ (c = BSc /\ col = 0) \/ (c = TABc /\ x >= Cols))
        /\ To(w, CASE c = NLc -> "row"
                   [] c = BSc -> IF term = "vga" THEN "blank" ELSE Tailpc
                   [] c = TABc -> Tailpc
                   [] OTHER -> IF LastCol THEN "row" ELSE "draw")
        /\ UNCHANGED <<term, cells, row, color, text, wild, overlap>>

term_row(w) ==
    /\ put[w].pc = "row" /\ row' = row + 1 /\ To(w, "scroll")
    /\ UNCHANGED <<term, cells, col, color, text, edge, wild, overlap>>

\* mutant: the lines move up, the last one is not blanked
scroll_variant == [i \in DOMAIN cells |-> IF i + Cols \in DOMAIN cells THEN cells[i + Cols] ELSE cells[i]]

\* The VGA terminal moves up the memory behind the screen, which is blank.
scroll == [i \in DOMAIN cells |-> IF i + Cols \in DOMAIN cells THEN cells[i + Cols] ELSE Blank]

AtEnd == row = Rows

term_scroll(w) ==
    /\ put[w].pc = "scroll"
    /\ IF AtEnd THEN row' = row - 1 /\ cells' = scroll ELSE UNCHANGED <<row, cells>>
    /\ To(w, IF put[w].c = NLc THEN Tailpc ELSE "draw")
    /\ UNCHANGED <<term, col, color, text, edge, wild, overlap>>

term_draw(w) ==
    /\ put[w].pc = "draw" /\ putat(put[w].c, col, row) /\ col' = (col + 1) % Wrap /\ To(w, Tailpc)
    /\ UNCHANGED <<term, row, color, text, edge, overlap>>

term_blank(w) ==
    /\ put[w].pc = "blank" /\ putat(Blank, col, row) /\ To(w, Tailpc)
    /\ UNCHANGED <<term, col, row, color, text, edge, overlap>>

saved == color

term_save(w) ==
    /\ put[w].pc = "save" /\ put' = [put EXCEPT ![w].clr = saved, ![w].pc = "cursor"]
    /\ UNCHANGED <<term, cells, col, row, color, text, edge, wild, overlap>>

term_cursor(w) ==
    /\ put[w].pc = "cursor" /\ color' = "cur" /\ putat(Cursor, col, row) /\ To(w, "restore")
    /\ UNCHANGED <<term, col, row, text, edge, overlap>>

term_restore(w) ==
    /\ put[w].pc = "restore" /\ color' = put[w].clr /\ To(w, "return")
    /\ UNCHANGED <<term, cells, col, row, text, edge, wild, overlap>>

term_return(w) ==
    /\ put[w].pc = "return" /\ put' = [put EXCEPT ![w] = Quiet]
    /\ UNCHANGED <<term, cells, col, row, color, text, edge, wild, overlap>>

\* the shell's `clear': with interrupts disabled
term_clear(w) ==
    /\ w \notin CliWriters /\ RunsT(w) /\ put[w].pc = "idle" /\ text # <<>>
    /\ cells' = Screen /\ col' = 0 /\ row' = 0 /\ text' = <<>>
    /\ overlap' = (overlap \/ ~Resting)
    /\ UNCHANGED <<term, color, put, edge, wild>>

TermStep(w) ==
    /\ RunsT(w)
    /\ \/ term_erase(w) \/ term_move(w) \/ term_row(w) \/ term_scroll(w) \/ term_draw(w) \/ term_blank(w)
       \/ term_save(w) \/ term_cursor(w) \/ term_restore(w) \/ term_return(w)

TermNext == \E w \in Writers : TermStep(w) \/ term_clear(w) \/ \E c \in Chars : putchar(w, c)

TermInit(types) ==
    /\ term \in types
    /\ cells = Screen /\ col = 0 /\ row = 0 /\ color = "fg"
    /\ put = [w \in Writers |-> Quiet]
    /\ text = <<>> /\ edge = FALSE /\ wild = FALSE /\ overlap = FALSE

TermSpec == TermInit(Terms) /\ [][TermNext]_termVars

----------------------------------------------------------------------------
(* Properties *)

\* The lines of a text: each is the characters of its columns.
TypeChar(lines, c) ==
    LET n == Len(lines)
        line == lines[n]
        upto(l, x) == l \o [i \in 1 .. x - Len(l) |-> Blank]
    IN  CASE c = NLc -> Append(lines, <<>>)
          [] c = BSc -> [lines EXCEPT ![n] = Front(line)]
          [] c = TABc -> [lines EXCEPT ![n] = upto(line, TabStop(Len(line)))]
          [] OTHER -> IF Len(line) = Cols - 1 THEN Append(lines, <<c>>)
                      ELSE [lines EXCEPT ![n] = Append(line, c)]

Typed(chars) ==
    LET lines[n \in 0 .. Len(chars)] == IF n = 0 THEN <<<<>>>> ELSE TypeChar(lines[n - 1], chars[n])
    IN  lines[Len(chars)]

TextLines == Typed(text)

\* Unless two calls overlap, or a backspace in column 0 or a tab behind the last
\* stop has moved the cursor off the screen, the screen shows the last lines of
\* the text, and the cursor is behind its last character.
ScreenShows ==
    Resting /\ ~overlap /\ ~edge =>
        LET n == Len(TextLines)
            top == IF n > Rows THEN n - Rows ELSE 0
            shown(x, y) == IF top + y + 1 <= n /\ x + 1 <= Len(TextLines[top + y + 1])
                           THEN TextLines[top + y + 1][x + 1] ELSE Blank
        IN  /\ col = Len(TextLines[n]) /\ row = n - 1 - top
            /\ \A x \in 0 .. Cols - 2, y \in 0 .. Rows - 1 :
                 cells[x + y * Cols] = shown(x, y)
                    \/ (term = "vesa" /\ cells[x + y * Cols] = Cursor /\ x = col /\ y = row)

\* Unless one of those has happened before, no write misses the screen.
OnScreen == wild => edge \/ overlap

\* Unless two calls overlap, drawing the cursor leaves the color as it was.
ColorKept == Resting /\ ~overlap => color = "fg"

\* Both terminals show the text that was printed, inside the screen and in the
\* colour that was set, through line ends, scrolling, tabs and backspaces, until one
\* of the exceptions its parts name.
ScreenRight == ScreenShows /\ OnScreen /\ ColorKept
=============================================================================
