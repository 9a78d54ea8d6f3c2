------------------------------ MODULE Terminal ------------------------------
(***************************************************************************)
(* The console: the terminal that kernel and programs print to, and the    *)
(* keyboard's input buffer.                                                *)
(*                                                                         *)
(* Source: zenos-kernel/src/tty/mod.rs, hardware/keyboard/mod.rs.  Bytes   *)
(* are numbers, as in the code.  The framebuffer behind the terminal is    *)
(* reduced to the cells that show a cursor: where it was drawn and neither *)
(* erased nor drawn over.                                                  *)
(***************************************************************************)
EXTENDS Integers, SequencesExt

CONSTANTS Cols, Rows                    \* size of the display in characters

ASSUME SizeAssumption == Cols \in Nat \ {0} /\ Rows \in Nat \ {0}

VARIABLES
    tty,      \* TTY: cursor, style, parser state; shown: the cells with a cursor;
              \* history: ghosts (the cursor may have been left behind since the last
              \* clear), torn (a key was echoed in the middle of a byte)
    buffer    \* KEYBOARD_INPUT.buffer

terminalVars == <<tty, buffer>>

Bs == 8
Tab == 9
Nl == 10
Cr == 13
Esc == 27

-----------------------------------------------------------------------------
(* Colours and style.                                                      *)

NoColor == <<>>
Plain == [bold |-> FALSE, ital |-> FALSE, underline |-> FALSE, strike |-> FALSE,
          fg |-> NoColor, bg |-> NoColor]

(* Index of a 256-colour palette to red, green, blue.                      *)
Basic == <<<<0, 0, 0>>, <<128, 0, 0>>, <<0, 128, 0>>, <<128, 128, 0>>,
           <<0, 0, 128>>, <<128, 0, 128>>, <<0, 128, 128>>, <<192, 192, 192>>,
           <<128, 128, 128>>, <<255, 0, 0>>, <<0, 255, 0>>, <<255, 255, 0>>,
           <<0, 0, 255>>, <<255, 0, 255>>, <<0, 255, 255>>, <<255, 255, 255>>>>
Level(v) == IF v = 0 THEN 0 ELSE 55 + v * 40
color_256(n) ==
    CASE n < 16  -> Basic[n + 1]
      [] n > 231 -> LET gray == 8 + (n - 232) * 10 IN <<gray, gray, gray>>
      [] OTHER   -> <<Level(((n - 16) \div 36) % 6), Level(((n - 16) \div 6) % 6), Level((n - 16) % 6)>>

(* One parameter of a "select graphic rendition" sequence; 38 and 48 take  *)
(* the two that follow, if these are a 5 and an index.  acc is the style   *)
(* so far and how many parameters are still to be passed over.             *)
Sgr(params, acc, i) ==
    LET n == params[i]
        indexed == i + 2 <= Len(params) /\ params[i + 1] = 5
        set(s) == [style |-> s, skip |-> 0]
        taking(s) == [style |-> s, skip |-> 2]
    IN  IF acc.skip > 0 THEN [acc EXCEPT !.skip = @ - 1]
        ELSE CASE n = 0            -> set(Plain)
               [] n \in {1, 22}    -> set([acc.style EXCEPT !.bold = (n = 1)])
               [] n \in {3, 23}    -> set([acc.style EXCEPT !.ital = (n = 3)])
               [] n \in {4, 24}    -> set([acc.style EXCEPT !.underline = (n = 4)])
               [] n \in {9, 29}    -> set([acc.style EXCEPT !.strike = (n = 9)])
               [] n \in 30 .. 37   -> set([acc.style EXCEPT !.fg = color_256(n - 30)])
               [] n \in 40 .. 47   -> set([acc.style EXCEPT !.bg = color_256(n - 40)])
               [] n \in 90 .. 97   -> set([acc.style EXCEPT !.fg = color_256(n - 82)])
               [] n \in 100 .. 107 -> set([acc.style EXCEPT !.bg = color_256(n - 92)])
               [] n = 39           -> set([acc.style EXCEPT !.fg = NoColor])
               [] n = 49           -> set([acc.style EXCEPT !.bg = NoColor])
               [] n = 38 /\ indexed -> taking([acc.style EXCEPT !.fg = color_256(params[i + 2] % 256)])
               [] n = 48 /\ indexed -> taking([acc.style EXCEPT !.bg = color_256(params[i + 2] % 256)])
               [] OTHER            -> acc

process_sgr(style, params) ==
    LET step(acc, i) == Sgr(params, acc, i)
    IN  IF params = <<>> THEN Plain
        ELSE FoldLeft(step, [style |-> style, skip |-> 0], [i \in 1 .. Len(params) |-> i]).style

-----------------------------------------------------------------------------
(* The cursor.                                                             *)

Least(a, b) == IF a < b THEN a ELSE b
Greatest(a, b) == IF a > b THEN a ELSE b
LastCol == Cols - 1
LastRow == Rows - 1
Place(t) == <<t.x, t.y>>

hide_cursor(t) == [t EXCEPT !.shown = @ \ {Place(t)}]
show_cursor(t) == IF t.visible THEN [t EXCEPT !.shown = @ \cup {Place(t)}] ELSE t
draw_char(t, x) == [t EXCEPT !.shown = @ \ {<<x, t.y>>}]
scroll_up(t) == [t EXCEPT !.shown = {<<p[1], p[2] - 1>> : p \in {q \in @ : q[2] > 0}}]

(* The tick blinks the cursor, also in the middle of a byte, where it may  *)
(* show it again before it is moved.                                       *)
update_cursor(t, drawing) ==
    IF t.torn THEN t
    ELSE [t EXCEPT !.visible = ~@,
                   !.shown = IF t.visible THEN @ \cup {Place(t)} ELSE @ \ {Place(t)},
                   !.ghosts = @ \/ drawing]

NextRowUnscrolled(t) == [t EXCEPT !.x = 0, !.y = @ + 1]     \* mutant: the end is not tested
NextRow(t) ==
    IF t.y + 1 < Rows THEN [t EXCEPT !.x = 0, !.y = @ + 1]
    ELSE [scroll_up(t) EXCEPT !.x = 0, !.y = LastRow]
newline(t) == show_cursor(NextRow(hide_cursor(t)))

(* A byte outside a control sequence.                                      *)
Visible(h, c) ==
    CASE c = Nl  -> newline(h)
      [] c = Cr  -> [h EXCEPT !.x = 0]
      [] c = Bs  -> IF h.x > 0 THEN [draw_char(h, h.x - 1) EXCEPT !.x = @ - 1] ELSE h
      [] c = 0   -> h
      [] c = Tab -> [h EXCEPT !.x = Least((h.x \div 8 + 1) * 8, LastCol)]
      [] OTHER   -> LET w == IF h.x >= Cols THEN NextRow(h) ELSE h
                    IN  [draw_char(w, w.x) EXCEPT !.x = @ + 1]
Drawn(t, c) == show_cursor(Visible(t, c))
write_visible_char(t, c) == Drawn(hide_cursor(t), c)

-----------------------------------------------------------------------------
(* Control sequences: ESC [ parameters command.                            *)

reset_ansi_state(t) == [t EXCEPT !.ansi = "Normal", !.params = <<>>, !.cur = 0]

Param(ps, i, default) == IF i <= Len(ps) THEN ps[i] ELSE default
Count(ps, i) == Greatest(Param(ps, i, 1), 1)
MoveTo(t, x, y) == [t EXCEPT !.x = x, !.y = y, !.ghosts = TRUE]

erase_line(t, mode) ==
    LET erased == CASE mode = 0 -> t.x .. LastCol
                    [] mode = 1 -> 0 .. t.x
                    [] mode = 2 -> 0 .. LastCol
                    [] OTHER    -> {}
    IN  [t EXCEPT !.shown = @ \ {<<x, t.y>> : x \in erased}]

Down(t, n) == Least(t.y + n, LastRow)

process_csi_command(t, cmd) ==
    LET ps == IF t.cur > 0 \/ t.params # <<>> THEN Append(t.params, t.cur) ELSE t.params
        n == Count(ps, 1)
    IN  reset_ansi_state(
          CASE cmd = 109        -> [t EXCEPT !.style = process_sgr(t.style, ps)]        \* m
            [] cmd \in {72, 102} -> MoveTo(t, Least(Count(ps, 2) - 1, LastCol), Least(n - 1, LastRow)) \* H f
            [] cmd = 74 /\ Param(ps, 1, 0) \in {2, 3}                                   \* J
                                -> [t EXCEPT !.x = 0, !.y = 0, !.shown = {}, !.ghosts = FALSE]
            [] cmd = 75         -> erase_line(t, Param(ps, 1, 0))                       \* K
            [] cmd = 65         -> MoveTo(t, t.x, Greatest(t.y - n, 0))                 \* A
            [] cmd = 66         -> MoveTo(t, t.x, Down(t, n))                           \* B
            [] cmd = 67         -> MoveTo(t, Least(t.x + n, LastCol), t.y)              \* C
            [] cmd = 68         -> MoveTo(t, Greatest(t.x - n, 0), t.y)                 \* D
            [] OTHER            -> t)

(* Whether a byte is shown, or parsed only.                                *)
Shows(t, c) == (t.ansi = "Normal" /\ c # Esc) \/ (t.ansi = "Escape" /\ c # 91)

(* Parameters are u16 and saturate.                                        *)
write_char_internal(t, c) ==
    CASE t.ansi = "Normal" ->
           IF c = Esc THEN [t EXCEPT !.ansi = "Escape"] ELSE write_visible_char(t, c)
      [] t.ansi = "Escape" ->
           IF c = 91 THEN [t EXCEPT !.ansi = "Csi", !.params = <<>>, !.cur = 0]
           ELSE write_visible_char(reset_ansi_state(t), c)
      [] t.ansi \in {"Csi", "CsiParam"} ->
           CASE c \in 48 .. 57  -> [t EXCEPT !.ansi = "CsiParam", !.cur = Least(@ * 10 + c - 48, 65535)]
             [] c = 59          -> [t EXCEPT !.params = Append(@, t.cur), !.cur = 0]
             [] c \in 64 .. 126 -> process_csi_command(t, c)
             [] OTHER           -> reset_ansi_state(t)

-----------------------------------------------------------------------------
TerminalInit ==
    /\ tty = [x |-> 0, y |-> 0, visible |-> TRUE, ansi |-> "Normal", params |-> <<>>, cur |-> 0,
              style |-> Plain, shown |-> {}, ghosts |-> FALSE, torn |-> FALSE]
    /\ buffer = <<>>

(* kprint of a byte.  The lock is broken open (force_unlock) when it is    *)
(* taken, so nobody waits for it and interrupts see a byte half written:   *)
(* the cursor hidden, the rest still to do.  An echo in between works on   *)
(* what the interrupted write may hold in registers; from then on what the *)
(* terminal shows is undefined and not followed.                           *)
ByteBegins(t, c) == IF Shows(t, c) /\ ~t.torn THEN hide_cursor(reset_ansi_state(t)) ELSE t
ByteEnds(t, c, shows) ==
    IF t.torn THEN t ELSE IF shows THEN Drawn(t, c) ELSE write_char_internal(t, c)
Echoed(t, c, busy) ==
    IF busy \/ t.torn THEN [t EXCEPT !.torn = TRUE] ELSE write_char_internal(t, c)

(* handle_scancode of a key with a character: it is echoed, then buffered. *)
(* Other keys (arrows, modifiers) are ignored.                             *)
handle_scancode(c, busy) ==
    /\ tty' = Echoed(tty, c, busy)
    /\ buffer' = Append(buffer, c)

(* tty_read_nonblocking of one byte; <<>> when there is none.              *)
PopNewest(b) == SubSeq(b, 1, Len(b) - 1)                    \* mutant: takes the wrong end
Pop(b) == IF b = <<>> THEN b ELSE Tail(b)

-----------------------------------------------------------------------------
(* Properties.                                                             *)

(* The cursor never leaves the screen: its row exists, and its column does *)
(* or is the one past the last, where the next character wraps.  As long   *)
(* as no control sequence moves it, writing and blinking (update_cursor,   *)
(* in the tick) never leave a second cursor behind.  Both hold until a key *)
(* is echoed in the middle of a byte, the second until a tick comes there. *)
CursorSound ==
    ~tty.torn =>
        /\ tty.x \in 0 .. Cols /\ tty.y \in 0 .. LastRow
        /\ ~tty.ghosts => tty.shown \subseteq {Place(tty)}
=============================================================================
