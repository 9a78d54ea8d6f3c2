--------------------------- MODULE DevicesProofs ---------------------------
(***************************************************************************)
(* Proofs about Devices: the terminal, for every size of the display,      *)
(* every text and every order of keys and ticks; and the disk, from the    *)
(* lemmas of AhciProofs.                                                   *)
(***************************************************************************)
EXTENDS Devices, AhciProofs

AnsiStates == {"Normal", "Escape", "Csi", "CsiParam"}

(* The fields of TTY.  The style is left open.                             *)
IsTerminal(t) ==
    /\ t = [x |-> t.x, y |-> t.y, visible |-> t.visible, ansi |-> t.ansi, params |-> t.params,
            cur |-> t.cur, style |-> t.style, shown |-> t.shown, ghosts |-> t.ghosts,
            torn |-> t.torn]
    /\ t.visible \in BOOLEAN /\ t.ghosts \in BOOLEAN /\ t.torn \in BOOLEAN
    /\ t.ansi \in AnsiStates /\ t.params \in Seq(Nat) /\ t.cur \in Nat

(* The cursor is on the screen, or behind the last column of its row.      *)
OnScreen(t) == t.x \in 0 .. Cols /\ t.y \in 0 .. LastRow

(* Nothing but the cursor itself is shown; nothing at all.                 *)
Clean(t) == ~t.ghosts => t.shown \subseteq {Place(t)}
Hidden(t) == ~t.ghosts => t.shown = {}

Good(t) == IsTerminal(t) /\ OnScreen(t) /\ Clean(t)
Blank(t) == IsTerminal(t) /\ OnScreen(t) /\ Hidden(t)

(* The inductive invariant: while a character is being drawn the cursor is *)
(* hidden, so that it can move.                                            *)
TInv ==
    /\ IsTerminal(tty)
    /\ ~tty.torn => IF pc = "draw" THEN Blank(tty) ELSE Good(tty)

-----------------------------------------------------------------------------
(* What each function does to a terminal.                                  *)

LEMMA Screen == Cols \in Nat /\ Rows \in Nat /\ LastCol \in Nat /\ LastRow \in Nat
                /\ Cols = LastCol + 1 /\ Rows = LastRow + 1
  BY SizeAssumption DEF LastCol, LastRow

LEMMA BlankIsGood == ASSUME NEW t, Blank(t) PROVE Good(t)
  BY DEF Blank, Good, Hidden, Clean

(* A terminal on which only the cells with a cursor have changed.          *)
LEMMA Redrawn ==
    ASSUME NEW t, IsTerminal(t), NEW S
    PROVE  LET h == [t EXCEPT !.shown = S]
           IN  /\ IsTerminal(h) /\ h.x = t.x /\ h.y = t.y /\ h.ansi = t.ansi
               /\ h.visible = t.visible /\ h.ghosts = t.ghosts /\ h.shown = S
  BY DEF IsTerminal

LEMMA HideBlanks ==
    ASSUME NEW t, Good(t)
    PROVE  Blank(hide_cursor(t)) /\ hide_cursor(t).x = t.x /\ hide_cursor(t).ansi = t.ansi
<1> DEFINE h == hide_cursor(t)
<1>1. /\ h.x = t.x /\ h.y = t.y /\ h.ghosts = t.ghosts /\ h.shown = t.shown \ {Place(t)}
      /\ h.ansi = t.ansi /\ IsTerminal(h)
  <2>1. h = [t EXCEPT !.shown = t.shown \ {Place(t)}] /\ IsTerminal(t)
    BY DEF hide_cursor, Good
  <2> QED
    BY <2>1, Redrawn
<1> QED
  BY <1>1 DEF Good, Blank, OnScreen, Clean, Hidden

LEMMA ShowKeeps == ASSUME NEW t, Good(t) PROVE Good(show_cursor(t))
<1> DEFINE h == show_cursor(t)
<1>1. CASE t.visible
  <2>1. /\ h.x = t.x /\ h.y = t.y /\ h.ghosts = t.ghosts /\ h.shown = t.shown \cup {Place(t)}
        /\ IsTerminal(h)
    <3>1. h = [t EXCEPT !.shown = t.shown \cup {Place(t)}] /\ IsTerminal(t)
      BY <1>1 DEF show_cursor, Good
    <3> QED
      BY <3>1, Redrawn
  <2> QED
    BY <2>1 DEF Good, OnScreen, Clean, Place
<1>2. CASE ~t.visible
  BY <1>2 DEF show_cursor
<1> QED
  BY <1>1, <1>2

LEMMA ScrollKeeps ==
    ASSUME NEW t, Blank(t)
    PROVE  /\ IsTerminal(scroll_up(t)) /\ Hidden(scroll_up(t))
           /\ scroll_up(t).ghosts = t.ghosts
<1> DEFINE h == scroll_up(t)
<1>1. /\ IsTerminal(h) /\ h.ghosts = t.ghosts
      /\ h.shown = {<<p[1], p[2] - 1>> : p \in {q \in t.shown : q[2] > 0}}
  <2>1. /\ h = [t EXCEPT !.shown = {<<p[1], p[2] - 1>> : p \in {q \in t.shown : q[2] > 0}}]
        /\ IsTerminal(t)
    BY DEF scroll_up, Blank
  <2> QED
    BY <2>1, Redrawn
<1>2. t.shown = {} => h.shown = {}
  BY <1>1
<1> QED
  BY <1>1, <1>2 DEF Blank, Hidden

(* The cursor at the start of the next row, which exists after scrolling.  *)
LEMMA NextRowKeeps == ASSUME NEW t, Blank(t) PROVE Blank(NextRow(t)) /\ NextRow(t).x = 0
<1>1. CASE t.y + 1 < Rows
  <2>1. /\ NextRow(t).x = 0 /\ NextRow(t).y = t.y + 1 /\ NextRow(t).shown = t.shown
        /\ NextRow(t).ghosts = t.ghosts /\ IsTerminal(NextRow(t))
    BY <1>1 DEF NextRow, Blank, IsTerminal
  <2> QED
    BY <1>1, <2>1, Screen DEF Blank, OnScreen, Hidden
<1>2. CASE ~(t.y + 1 < Rows)
  <2> DEFINE s == scroll_up(t)
  <2>1. IsTerminal(s) /\ Hidden(s)
    BY ScrollKeeps
  <2>2. NextRow(t) = [s EXCEPT !.x = 0, !.y = LastRow]
    BY <1>2 DEF NextRow
  <2> HIDE DEF s
  <2>3. /\ NextRow(t).x = 0 /\ NextRow(t).y = LastRow /\ NextRow(t).shown = s.shown
        /\ NextRow(t).ghosts = s.ghosts /\ IsTerminal(NextRow(t))
    BY <2>1, <2>2 DEF IsTerminal
  <2> QED
    BY <2>1, <2>3, Screen DEF Blank, OnScreen, Hidden
<1> QED
  BY <1>1, <1>2

(* Drawing a character erases; then the column may be set.                 *)
LEMMA DrawKeeps ==
    ASSUME NEW t, Blank(t), NEW x
    PROVE  Blank(draw_char(t, x)) /\ draw_char(t, x).x = t.x
<1> DEFINE h == draw_char(t, x)
<1>1. /\ h.x = t.x /\ h.y = t.y /\ h.ghosts = t.ghosts /\ h.shown = t.shown \ {<<x, t.y>>}
      /\ IsTerminal(h)
  <2>1. h = [t EXCEPT !.shown = t.shown \ {<<x, t.y>>}] /\ IsTerminal(t)
    BY DEF draw_char, Blank
  <2> QED
    BY <2>1, Redrawn
<1> QED
  BY <1>1 DEF Blank, OnScreen, Hidden

LEMMA ColumnKeeps ==
    ASSUME NEW t, Blank(t), NEW n \in 0 .. Cols PROVE Blank([t EXCEPT !.x = n])
<1> DEFINE h == [t EXCEPT !.x = n]
<1>1. /\ h.x = n /\ h.y = t.y /\ h.ghosts = t.ghosts /\ h.shown = t.shown
      /\ IsTerminal(h)
  BY DEF Blank, IsTerminal
<1> QED
  BY <1>1 DEF Blank, OnScreen, Hidden

(* A byte outside a control sequence, on a terminal whose cursor is hidden. *)
LEMMA VisibleKeeps == ASSUME NEW t, Blank(t), NEW c PROVE Good(Visible(t, c))
<1>1. CASE c = Nl
  <2>1. Visible(t, c) = newline(t)
    BY <1>1 DEF Visible, Nl, Cr, Bs, Tab
  <2>2. Blank(hide_cursor(t))
    BY BlankIsGood, HideBlanks
  <2>3. Good(NextRow(hide_cursor(t)))
    BY <2>2, NextRowKeeps, BlankIsGood
  <2> QED
    BY <2>1, <2>3, ShowKeeps DEF newline
<1>2. CASE c = Cr
  <2>1. Visible(t, c) = [t EXCEPT !.x = 0]
    BY <1>2 DEF Visible, Nl, Cr, Bs, Tab
  <2>2. 0 \in 0 .. Cols
    BY Screen
  <2> QED
    BY <2>1, <2>2, ColumnKeeps, BlankIsGood
<1>3. CASE c = Bs
  <2>1. CASE t.x > 0
    <3> DEFINE h == draw_char(t, t.x - 1)
    <3>1. Visible(t, c) = [h EXCEPT !.x = @ - 1]
      BY <1>3, <2>1 DEF Visible, Nl, Cr, Bs, Tab
    <3>2. Blank(h) /\ h.x = t.x
      BY DrawKeeps
    <3> HIDE DEF h
    <3>3. [h EXCEPT !.x = @ - 1] = [h EXCEPT !.x = h.x - 1]
      BY <3>2 DEF Blank, IsTerminal
    <3>4. h.x - 1 \in 0 .. Cols
      BY <2>1, <3>2, Screen DEF Blank, OnScreen
    <3> QED
      BY <3>1, <3>2, <3>3, <3>4, ColumnKeeps, BlankIsGood
  <2>2. CASE ~(t.x > 0)
    BY <1>3, <2>2, BlankIsGood DEF Visible, Nl, Cr, Bs, Tab
  <2> QED
    BY <2>1, <2>2
<1>4. CASE c = 0
  BY <1>4, BlankIsGood DEF Visible, Nl, Cr, Bs, Tab
<1>5. CASE c = Tab
  <2>1. Visible(t, c) = [t EXCEPT !.x = Least((t.x \div 8 + 1) * 8, LastCol)]
    BY <1>5 DEF Visible, Nl, Cr, Bs, Tab
  <2>2. Least((t.x \div 8 + 1) * 8, LastCol) \in 0 .. Cols
    <3>1. t.x \in Nat /\ t.x \div 8 \in Nat
      BY Screen DEF Blank, OnScreen
    <3> QED
      BY <3>1, Screen DEF Least
  <2> QED
    BY <2>1, <2>2, ColumnKeeps, BlankIsGood
<1>6. CASE c \notin {Nl, Cr, Bs, 0, Tab}
  <2> DEFINE w == IF t.x >= Cols THEN NextRow(t) ELSE t
             h == draw_char(w, w.x)
  <2>1. Visible(t, c) = [h EXCEPT !.x = @ + 1]
    BY <1>6 DEF Visible, Nl, Cr, Bs, Tab
  <2>2. Blank(w) /\ w.x \in 0 .. LastCol
    <3>1. CASE t.x >= Cols
      BY <3>1, NextRowKeeps, Screen
    <3>2. CASE ~(t.x >= Cols)
      BY <3>2, Screen DEF Blank, OnScreen
    <3> QED
      BY <3>1, <3>2
  <2> HIDE DEF w
  <2>3. Blank(h) /\ h.x = w.x
    BY <2>2, DrawKeeps
  <2> HIDE DEF h
  <2>4. [h EXCEPT !.x = @ + 1] = [h EXCEPT !.x = h.x + 1]
    BY <2>3 DEF Blank, IsTerminal
  <2>5. h.x + 1 \in 0 .. Cols
    BY <2>2, <2>3, Screen
  <2> QED
    BY <2>1, <2>3, <2>4, <2>5, ColumnKeeps, BlankIsGood
<1> QED
  BY <1>1, <1>2, <1>3, <1>4, <1>5, <1>6

LEMMA DrawnKeeps == ASSUME NEW t, Blank(t), NEW c PROVE Good(Drawn(t, c))
  BY VisibleKeeps, ShowKeeps DEF Drawn

LEMMA WriteKeeps == ASSUME NEW t, Good(t), NEW c PROVE Good(write_visible_char(t, c))
  BY HideBlanks, DrawnKeeps DEF write_visible_char

-----------------------------------------------------------------------------
(* Control sequences.                                                      *)

(* A terminal on which only the parser has moved.                          *)
LEMMA Parsed ==
    ASSUME NEW t, IsTerminal(t), NEW a \in AnsiStates, NEW ps \in Seq(Nat), NEW n \in Nat
    PROVE  LET h == [t EXCEPT !.ansi = a, !.params = ps, !.cur = n]
           IN  /\ IsTerminal(h) /\ h.torn = t.torn
               /\ Good(t) => Good(h)
               /\ Blank(t) => Blank(h)
<1> DEFINE h == [t EXCEPT !.ansi = a, !.params = ps, !.cur = n]
<1>1. /\ IsTerminal(h) /\ h.torn = t.torn
      /\ h.x = t.x /\ h.y = t.y /\ h.ghosts = t.ghosts /\ h.shown = t.shown
  <2>0. h = [t EXCEPT !.ansi = a, !.params = ps, !.cur = n]
    OBVIOUS
  <2> HIDE DEF h
  <2>1. h = [x |-> t.x, y |-> t.y, visible |-> t.visible, ansi |-> a, params |-> ps,
             cur |-> n, style |-> t.style, shown |-> t.shown, ghosts |-> t.ghosts,
             torn |-> t.torn]
    BY <2>0 DEF IsTerminal
  <2> QED
    BY <2>1 DEF IsTerminal
<1> QED
  BY <1>1 DEF Good, Blank, OnScreen, Clean, Hidden, Place

LEMMA ResetKeeps ==
    ASSUME NEW t, IsTerminal(t)
    PROVE  /\ IsTerminal(reset_ansi_state(t)) /\ reset_ansi_state(t).torn = t.torn
           /\ Good(t) => Good(reset_ansi_state(t))
           /\ Blank(t) => Blank(reset_ansi_state(t))
<1>1. "Normal" \in AnsiStates /\ <<>> \in Seq(Nat) /\ 0 \in Nat
  BY DEF AnsiStates
<1> QED
  BY <1>1, Parsed DEF reset_ansi_state

LEMMA MoveKeeps ==
    ASSUME NEW t, Good(t), NEW x \in 0 .. Cols, NEW y \in 0 .. LastRow
    PROVE  Good(MoveTo(t, x, y))
<1> DEFINE h == MoveTo(t, x, y)
<1>1. h.x = x /\ h.y = y /\ h.ghosts /\ IsTerminal(h)
  <2>0. h = [t EXCEPT !.x = x, !.y = y, !.ghosts = TRUE] /\ IsTerminal(t)
    BY DEF MoveTo, Good
  <2> HIDE DEF h
  <2>1. h = [x |-> x, y |-> y, visible |-> t.visible, ansi |-> t.ansi, params |-> t.params,
             cur |-> t.cur, style |-> t.style, shown |-> t.shown, ghosts |-> TRUE,
             torn |-> t.torn]
    BY <2>0 DEF IsTerminal
  <2> QED
    BY <2>0, <2>1 DEF IsTerminal
<1> QED
  BY <1>1 DEF Good, OnScreen, Clean

LEMMA EraseKeeps == ASSUME NEW t, Good(t), NEW mode PROVE Good(erase_line(t, mode))
<1> DEFINE h == erase_line(t, mode)
<1>1. \E S : h = [t EXCEPT !.shown = t.shown \ S]
  BY DEF erase_line
<1>2. PICK S : h = [t EXCEPT !.shown = t.shown \ S]
  BY <1>1
<1>3. /\ IsTerminal(h) /\ h.x = t.x /\ h.y = t.y
      /\ h.ghosts = t.ghosts /\ h.shown = t.shown \ S
  BY <1>2, Redrawn DEF Good
<1> QED
  BY <1>3 DEF Good, OnScreen, Clean, Place

(* Every command that moves the cursor clamps it to the screen.            *)
LEMMA CsiKeeps == ASSUME NEW t, Good(t), NEW cmd PROVE Good(process_csi_command(t, cmd))
<1> DEFINE ps == IF t.cur > 0 \/ t.params # <<>> THEN Append(t.params, t.cur) ELSE t.params
           n == Count(ps, 1)
           m == Count(ps, 2)
           r == CASE cmd = 109        -> [t EXCEPT !.style = process_sgr(t.style, ps)]
                  [] cmd \in {72, 102} -> MoveTo(t, Least(m - 1, LastCol), Least(n - 1, LastRow))
                  [] cmd = 74 /\ Param(ps, 1, 0) \in {2, 3}
                                      -> [t EXCEPT !.x = 0, !.y = 0, !.shown = {}, !.ghosts = FALSE]
                  [] cmd = 75         -> erase_line(t, Param(ps, 1, 0))
                  [] cmd = 65         -> MoveTo(t, t.x, Greatest(t.y - n, 0))
                  [] cmd = 66         -> MoveTo(t, t.x, Down(t, n))
                  [] cmd = 67         -> MoveTo(t, Least(t.x + n, LastCol), t.y)
                  [] cmd = 68         -> MoveTo(t, Greatest(t.x - n, 0), t.y)
                  [] OTHER            -> t
<1>1. process_csi_command(t, cmd) = reset_ansi_state(r)
  BY DEF process_csi_command
<1>2. IsTerminal(t) /\ t.x \in 0 .. Cols /\ t.y \in 0 .. LastRow
  BY DEF Good, OnScreen
<1>3. ps \in Seq(Nat)
  BY <1>2 DEF IsTerminal
<1> HIDE DEF ps
<1>4. n \in Nat \ {0} /\ m \in Nat \ {0}
  <2>1. \A i \in {1, 2} : Param(ps, i, 1) \in Nat
    BY <1>3 DEF Param
  <2> QED
    BY <2>1 DEF Count, Greatest
<1> HIDE DEF n, m
<1>5. CASE cmd = 109
  <2>1. r = [t EXCEPT !.style = process_sgr(t.style, ps)]
    BY <1>5
  <2> HIDE DEF r
  <2>2. /\ IsTerminal(r) /\ r.x = t.x /\ r.y = t.y
        /\ r.ghosts = t.ghosts /\ r.shown = t.shown
    BY <1>2, <2>1 DEF IsTerminal
  <2>3. Good(r)
    BY <2>2 DEF Good, OnScreen, Clean, Place
  <2> QED
    BY <1>1, <2>2, <2>3, ResetKeeps
<1>6. CASE cmd = 74 /\ Param(ps, 1, 0) \in {2, 3}
  <2>1. r = [t EXCEPT !.x = 0, !.y = 0, !.shown = {}, !.ghosts = FALSE]
    BY <1>6
  <2> HIDE DEF r
  <2>2. IsTerminal(r) /\ r.x = 0 /\ r.y = 0 /\ r.shown = {}
    <3>1. r = [x |-> 0, y |-> 0, visible |-> t.visible, ansi |-> t.ansi, params |-> t.params,
               cur |-> t.cur, style |-> t.style, shown |-> {}, ghosts |-> FALSE,
               torn |-> t.torn]
      BY <1>2, <2>1 DEF IsTerminal
    <3> QED
      BY <1>2, <3>1 DEF IsTerminal
  <2>3. Good(r)
    BY <2>2, Screen DEF Good, OnScreen, Clean
  <2> QED
    BY <1>1, <2>2, <2>3, ResetKeeps
<1>7. CASE cmd \in {72, 102}
  <2>1. r = MoveTo(t, Least(m - 1, LastCol), Least(n - 1, LastRow))
    BY <1>7
  <2>2. Least(m - 1, LastCol) \in 0 .. Cols /\ Least(n - 1, LastRow) \in 0 .. LastRow
    BY <1>4, Screen DEF Least
  <2>3. Good(r)
    BY <2>1, <2>2, MoveKeeps
  <2> QED
    BY <1>1, <2>3, ResetKeeps DEF Good
<1>8. CASE cmd = 65
  <2>1. r = MoveTo(t, t.x, Greatest(t.y - n, 0))
    BY <1>8
  <2>2. Greatest(t.y - n, 0) \in 0 .. LastRow
    BY <1>2, <1>4, Screen DEF Greatest
  <2>3. Good(r)
    BY <1>2, <2>1, <2>2, MoveKeeps
  <2> QED
    BY <1>1, <2>3, ResetKeeps DEF Good
<1>9. CASE cmd = 66
  <2>1. r = MoveTo(t, t.x, Down(t, n))
    BY <1>9
  <2>2. Down(t, n) \in 0 .. LastRow
    BY <1>2, <1>4, Screen DEF Down, Least
  <2>3. Good(r)
    BY <1>2, <2>1, <2>2, MoveKeeps
  <2> QED
    BY <1>1, <2>3, ResetKeeps DEF Good
<1>10. CASE cmd = 67
  <2>1. r = MoveTo(t, Least(t.x + n, LastCol), t.y)
    BY <1>10
  <2>2. Least(t.x + n, LastCol) \in 0 .. Cols
    BY <1>2, <1>4, Screen DEF Least
  <2>3. Good(r)
    BY <1>2, <2>1, <2>2, MoveKeeps
  <2> QED
    BY <1>1, <2>3, ResetKeeps DEF Good
<1>11. CASE cmd = 68
  <2>1. r = MoveTo(t, Greatest(t.x - n, 0), t.y)
    BY <1>11
  <2>2. Greatest(t.x - n, 0) \in 0 .. Cols
    BY <1>2, <1>4, Screen DEF Greatest
  <2>3. Good(r)
    BY <1>2, <2>1, <2>2, MoveKeeps
  <2> QED
    BY <1>1, <2>3, ResetKeeps DEF Good
<1>12. CASE cmd = 75
  <2>1. r = erase_line(t, Param(ps, 1, 0))
    BY <1>12
  <2>2. Good(r)
    BY <2>1, EraseKeeps
  <2> QED
    BY <1>1, <2>2, ResetKeeps DEF Good
<1>13. CASE /\ cmd \notin {109, 72, 102, 75, 65, 66, 67, 68}
            /\ ~(cmd = 74 /\ Param(ps, 1, 0) \in {2, 3})
  <2>1. r = t
    BY <1>13
  <2> QED
    BY <1>1, <1>2, <2>1, ResetKeeps
<1> QED
  BY <1>5, <1>6, <1>7, <1>8, <1>9, <1>10, <1>11, <1>12, <1>13

(* A byte in any state of the parser.                                      *)
LEMMA ByteKeeps == ASSUME NEW t, Good(t), NEW c PROVE Good(write_char_internal(t, c))
<1>1. /\ IsTerminal(t) /\ t.ansi \in AnsiStates /\ t.params \in Seq(Nat) /\ t.cur \in Nat
      /\ <<>> \in Seq(Nat) /\ {"Normal", "Escape", "Csi", "CsiParam"} = AnsiStates
  BY DEF Good, IsTerminal, AnsiStates
<1>2. ASSUME NEW a \in AnsiStates, NEW ps \in Seq(Nat), NEW n \in Nat, NEW h,
             h = [t EXCEPT !.ansi = a, !.params = ps, !.cur = n]
      PROVE  Good(h)
  BY <1>1, <1>2, Parsed
<1>3. CASE t.ansi = "Normal"
  <2>1. CASE c = Esc
    <3>1. write_char_internal(t, c) = [t EXCEPT !.ansi = "Escape"]
      BY <1>3, <2>1 DEF write_char_internal
    <3>2. [t EXCEPT !.ansi = "Escape"]
            = [t EXCEPT !.ansi = "Escape", !.params = t.params, !.cur = t.cur]
      BY <1>1 DEF IsTerminal
    <3> QED
      BY <1>1, <1>2, <3>1, <3>2
  <2>2. CASE c # Esc
    <3>1. write_char_internal(t, c) = write_visible_char(t, c)
      BY <1>3, <2>2 DEF write_char_internal
    <3> QED
      BY <3>1, WriteKeeps
  <2> QED
    BY <2>1, <2>2
<1>4. CASE t.ansi = "Escape"
  <2>1. CASE c = 91
    <3>1. write_char_internal(t, c) = [t EXCEPT !.ansi = "Csi", !.params = <<>>, !.cur = 0]
      BY <1>4, <2>1 DEF write_char_internal
    <3> QED
      BY <1>1, <1>2, <3>1
  <2>2. CASE c # 91
    <3>1. write_char_internal(t, c) = write_visible_char(reset_ansi_state(t), c)
      BY <1>4, <2>2 DEF write_char_internal
    <3> QED
      BY <1>1, <3>1, ResetKeeps, WriteKeeps
  <2> QED
    BY <2>1, <2>2
<1>5. CASE t.ansi \in {"Csi", "CsiParam"}
  <2>1. CASE c \in 48 .. 57
    <3> DEFINE n == Least(t.cur * 10 + c - 48, 65535)
    <3>1. write_char_internal(t, c) = [t EXCEPT !.ansi = "CsiParam", !.cur = n]
      BY <1>5, <2>1 DEF write_char_internal
    <3>2. n \in Nat
      BY <1>1, <2>1 DEF Least
    <3> HIDE DEF n
    <3>3. [t EXCEPT !.ansi = "CsiParam", !.cur = n]
            = [t EXCEPT !.ansi = "CsiParam", !.params = t.params, !.cur = n]
      BY <1>1 DEF IsTerminal
    <3> QED
      BY <1>1, <1>2, <3>1, <3>2, <3>3
  <2>2. CASE c = 59
    <3>1. write_char_internal(t, c) = [t EXCEPT !.params = Append(t.params, t.cur), !.cur = 0]
      BY <1>5, <2>2 DEF write_char_internal
    <3>2. Append(t.params, t.cur) \in Seq(Nat)
      BY <1>1
    <3>3. [t EXCEPT !.params = Append(t.params, t.cur), !.cur = 0]
            = [t EXCEPT !.ansi = t.ansi, !.params = Append(t.params, t.cur), !.cur = 0]
      BY <1>1 DEF IsTerminal
    <3> QED
      BY <1>1, <1>2, <3>1, <3>2, <3>3
  <2>3. CASE c \in 64 .. 126
    <3>1. write_char_internal(t, c) = process_csi_command(t, c)
      BY <1>5, <2>3 DEF write_char_internal
    <3> QED
      BY <3>1, CsiKeeps
  <2>4. CASE c \notin 48 .. 57 /\ c # 59 /\ c \notin 64 .. 126
    <3>1. write_char_internal(t, c) = reset_ansi_state(t)
      BY <1>5, <2>4 DEF write_char_internal
    <3> QED
      BY <1>1, <3>1, ResetKeeps
  <2> QED
    BY <2>1, <2>2, <2>3, <2>4
<1> QED
  BY <1>1, <1>3, <1>4, <1>5

(* The tick.  In the middle of a byte it may bring the cursor back.        *)
LEMMA BlinkKeeps ==
    ASSUME NEW t, IsTerminal(t), NEW drawing \in BOOLEAN,
           ~t.torn => IF drawing THEN Blank(t) ELSE Good(t)
    PROVE  LET h == update_cursor(t, drawing)
           IN  /\ IsTerminal(h)
               /\ ~h.torn => IF drawing THEN Blank(h) ELSE Good(h)
<1> DEFINE h == update_cursor(t, drawing)
<1>1. CASE t.torn
  BY <1>1 DEF update_cursor
<1>2. CASE ~t.torn
  <2> DEFINE S == IF t.visible THEN t.shown \cup {Place(t)} ELSE t.shown \ {Place(t)}
  <2>1. h = [t EXCEPT !.visible = ~t.visible, !.shown = S, !.ghosts = t.ghosts \/ drawing]
    BY <1>2 DEF update_cursor
  <2>2. S \subseteq t.shown \cup {Place(t)}
    OBVIOUS
  <2> HIDE DEF h, S
  <2>3. h = [x |-> t.x, y |-> t.y, visible |-> ~t.visible, ansi |-> t.ansi, params |-> t.params,
             cur |-> t.cur, style |-> t.style, shown |-> S, ghosts |-> t.ghosts \/ drawing,
             torn |-> t.torn]
    BY <2>1 DEF IsTerminal
  <2>4. /\ IsTerminal(h) /\ h.x = t.x /\ h.y = t.y /\ h.shown = S
        /\ h.ghosts <=> (t.ghosts \/ drawing)
    BY <2>3 DEF IsTerminal
  <2>5. CASE drawing
    BY <1>2, <2>4, <2>5 DEF Blank, OnScreen, Hidden, h
  <2>6. CASE ~drawing
    <3>1. OnScreen(h) /\ Clean(h)
      BY <1>2, <2>2, <2>4, <2>6 DEF Good, OnScreen, Clean, Place
    <3> QED
      BY <2>4, <2>6, <3>1 DEF Good, h
  <2> QED
    BY <2>5, <2>6
<1> QED
  BY <1>1, <1>2

-----------------------------------------------------------------------------
LEMMA TerminalStarts == DevicesInit => TInv
<1> SUFFICES ASSUME DevicesInit PROVE TInv
  OBVIOUS
<1>1. /\ tty = [x |-> 0, y |-> 0, visible |-> TRUE, ansi |-> "Normal", params |-> <<>>,
                cur |-> 0, style |-> Plain, shown |-> {}, ghosts |-> FALSE, torn |-> FALSE]
      /\ pc = "user"
  BY DEF DevicesInit, TerminalInit
<1>2. IsTerminal(tty) /\ tty.x = 0 /\ tty.y = 0 /\ tty.shown = {}
  BY <1>1 DEF IsTerminal, AnsiStates
<1> QED
  BY <1>1, <1>2, Screen DEF TInv, Good, OnScreen, Clean

(* Steps that leave the terminal alone and do not begin a character.       *)
LEMMA TerminalUntouched ==
    ASSUME TInv, tty' = tty, pc' = pc \/ (pc # "draw" /\ pc' # "draw") PROVE TInv'
  BY DEF TInv

LEMMA TerminalInductive == TInv /\ [DevicesNext]_devVars => TInv'
<1> SUFFICES ASSUME TInv, [DevicesNext]_devVars PROVE TInv'
  OBVIOUS
<1> USE DEF TInv
<1>1. CASE Write \/ Read \/ ReadLoop \/ ReadByte \/ Block
  <2>1. tty' = tty /\ pc # "draw" /\ pc' # "draw"
    BY <1>1 DEF Write, Read, ReadLoop, ReadByte, Block, Enter, terminalVars
  <2> QED
    BY <2>1, TerminalUntouched
<1>2. CASE Transfer \/ DiskStep \/ Hardware \/ Stopped \/ UNCHANGED devVars
  <2>1. tty' = tty /\ pc' = pc
    BY <1>2 DEF Transfer, DiskStep, Hardware, Stopped, devVars, terminalVars, procVars
  <2> QED
    BY <2>1, TerminalUntouched
<1>3. CASE PrintByte
  <2>1. /\ pc = "print" /\ tty' = ByteBegins(tty, Head(out))
        /\ pc' = IF Shows(tty, Head(out)) THEN "draw" ELSE "parse"
    BY <1>3 DEF PrintByte
  <2>2. CASE Shows(tty, Head(out)) /\ ~tty.torn
    <3>1. Good(reset_ansi_state(tty))
      BY <2>1, <2>2, ResetKeeps
    <3>2. Blank(tty') /\ pc' = "draw"
      BY <2>1, <2>2, <3>1, HideBlanks DEF ByteBegins
    <3> QED
      BY <3>2 DEF Blank
  <2>3. CASE tty.torn
    BY <2>1, <2>3 DEF ByteBegins
  <2>4. CASE ~Shows(tty, Head(out)) /\ ~tty.torn
    BY <2>1, <2>4 DEF ByteBegins
  <2> QED
    BY <2>2, <2>3, <2>4
<1>4. CASE ByteDone
  <2>1. /\ pc \in {"draw", "parse"} /\ pc' # "draw"
        /\ tty' = ByteEnds(tty, Head(out), pc = "draw")
    BY <1>4 DEF ByteDone, Drawing
  <2>2. CASE tty.torn
    BY <2>1, <2>2 DEF ByteEnds
  <2>3. CASE ~tty.torn /\ pc = "draw"
    <3>1. Good(tty')
      BY <2>1, <2>3, DrawnKeeps DEF ByteEnds
    <3> QED
      BY <2>1, <3>1 DEF Good
  <2>4. CASE ~tty.torn /\ pc # "draw"
    <3>1. Good(tty')
      BY <2>1, <2>4, ByteKeeps DEF ByteEnds
    <3> QED
      BY <2>1, <3>1 DEF Good
  <2> QED
    BY <2>2, <2>3, <2>4
<1>5. CASE Tick
  <2>1. tty' = update_cursor(tty, pc = "draw") /\ (pc' = "draw" <=> pc = "draw")
    BY <1>5 DEF Tick, Resumed
  <2>2. (pc = "draw") \in BOOLEAN
    OBVIOUS
  <2>3. /\ IsTerminal(tty')
        /\ ~tty'.torn => IF pc = "draw" THEN Blank(tty') ELSE Good(tty')
    BY <2>1, <2>2, BlinkKeeps
  <2> QED
    BY <2>1, <2>3
<1>6. CASE Key
  <2>1. CASE pc = "locked"
    <3>1. tty' = tty /\ pc' = pc
      BY <1>6, <2>1 DEF Key, terminalVars
    <3> QED
      BY <3>1, TerminalUntouched
  <2>2. CASE pc # "locked"
    <3>1. PICK c : tty' = Echoed(tty, c, Drawing)
      BY <1>6, <2>2 DEF Key, handle_scancode
    <3>2. pc' = "draw" <=> pc = "draw"
      BY <1>6, <2>2 DEF Key, Resumed
    <3>3. CASE Drawing \/ tty.torn
      <4>1. tty' = [tty EXCEPT !.torn = TRUE]
        BY <3>1, <3>3 DEF Echoed
      <4>2. tty' = [x |-> tty.x, y |-> tty.y, visible |-> tty.visible, ansi |-> tty.ansi,
                    params |-> tty.params, cur |-> tty.cur, style |-> tty.style,
                    shown |-> tty.shown, ghosts |-> tty.ghosts, torn |-> TRUE]
        BY <4>1 DEF IsTerminal
      <4>3. IsTerminal(tty') /\ tty'.torn
        BY <4>2 DEF IsTerminal
      <4> QED
        BY <4>3
    <3>4. CASE ~Drawing /\ ~tty.torn
      <4>1. tty' = write_char_internal(tty, c) /\ pc # "draw"
        BY <3>1, <3>4 DEF Echoed, Drawing
      <4>2. Good(tty')
        BY <3>4, <4>1, ByteKeeps
      <4> QED
        BY <3>2, <4>1, <4>2 DEF Good
    <3> QED
      BY <3>3, <3>4
  <2> QED
    BY <2>1, <2>2
<1> QED
  BY <1>1, <1>2, <1>3, <1>4, <1>5, <1>6 DEF DevicesNext

(* Whatever is printed and typed, with ticks and keys at every step, the   *)
(* cursor stays on the screen and is shown once, up to the moment at which *)
(* a key is echoed in the middle of a byte.                                *)
THEOREM CursorKept == DevicesSpec => []CursorSound
<1>1. TInv => CursorSound
  <2> SUFFICES ASSUME TInv, ~tty.torn
               PROVE  /\ OnScreen(tty) /\ Clean(tty)
    BY DEF CursorSound, OnScreen, Clean
  <2> QED
    BY BlankIsGood DEF TInv, Good
<1> QED
  BY <1>1, TerminalStarts, TerminalInductive, PTL DEF DevicesSpec

-----------------------------------------------------------------------------
(* Every step of the machine.                                              *)

LEMMA CoreStep == ASSUME Core, load \in Loads, DevicesNext PROVE Core'
<1>1. CASE Write \/ PrintByte \/ ByteDone \/ Read \/ ReadLoop \/ ReadByte \/ Block \/ Stopped
  <2>1. UNCHANGED ahciVars
    BY <1>1 DEF Write, PrintByte, ByteDone, Read, ReadLoop, ReadByte, Block, Stopped, devVars
  <2> QED
    BY <2>1, CoreUntouched DEF ahciVars, coreVars
<1>2. CASE Transfer
  BY <1>2, BeginKeeps, MovesAssumption DEF Transfer
<1>3. CASE DiskStep
  BY <1>3, NextChunkKeeps, FinishKeeps, SendKeeps, WaitKeeps DEF DiskStep
<1>4. CASE Tick
  BY <1>4, AwakeKeeps DEF Tick, portVars
<1>5. CASE Key
  <2>1. UNCHANGED xfer \/ Awake
    BY <1>5 DEF Key
  <2>2. UNCHANGED <<disk, ci, table, memory, free, cursor, last, may>>
    BY <1>5 DEF Key, portVars
  <2> QED
    BY <2>1, <2>2, AwakeKeeps, CoreUntouched DEF coreVars
<1>6. CASE Hardware
  <2>1. CASE InitPort
    BY <2>1, CoreUntouched DEF InitPort, portVars, coreVars
  <2> QED
    BY <1>6, <2>1, CompletedKeeps, FailedCommandKeeps DEF Hardware, Controller
<1> QED
  BY <1>1, <1>2, <1>3, <1>4, <1>5, <1>6 DEF DevicesNext

LEMMA SearchStep == ASSUME ListsFree, DevicesNext PROVE ListsFree'
<1>1. UNCHANGED bootVars \/ InitPort
  <2>1. CASE Write \/ PrintByte \/ ByteDone \/ Read \/ ReadLoop \/ ReadByte \/ Block \/ Stopped
    <3>1. UNCHANGED ahciVars
      BY <2>1 DEF Write, PrintByte, ByteDone, Read, ReadLoop, ReadByte, Block, Stopped, devVars
    <3> QED
      BY <3>1 DEF ahciVars, bootVars
  <2>2. CASE Transfer
    BY <2>2 DEF Transfer, Begin
  <2>3. CASE DiskStep
    BY <2>3 DEF DiskStep, NextChunk, Finish, send_command, wait_for_completion
  <2>4. CASE Tick \/ Key
    BY <2>4 DEF Tick, Key
  <2>5. CASE Hardware
    BY <2>5 DEF Hardware, Controller, HbaCompletes, HbaFails
  <2> QED
    BY <2>1, <2>2, <2>3, <2>4, <2>5 DEF DevicesNext
<1>2. CASE UNCHANGED bootVars
  BY <1>2 DEF bootVars, ListsFree
<1> QED
  BY <1>1, <1>2, SearchKeeps

LEMMA LoadStep == ASSUME DevicesNext PROVE load' = load
  BY DEF DevicesNext, Write, PrintByte, ByteDone, Read, ReadLoop, ReadByte, Block, Transfer, DiskStep,
         Tick, Key, Hardware, Stopped, devVars, procVars

(* The inductive invariant of the driver holds, whatever the controller    *)
(* does and whenever it does it.                                           *)
DriverOk == AInv /\ load \in Loads

LEMMA DriverInductive == DevicesSpec => []DriverOk
<1>1. DevicesInit => DriverOk
  BY DriverStarts DEF DevicesInit, DriverOk
<1>2. DriverOk /\ [DevicesNext]_devVars => DriverOk'
  <2> SUFFICES ASSUME DriverOk, [DevicesNext]_devVars PROVE DriverOk'
    OBVIOUS
  <2>1. Core /\ ListsFree /\ load \in Loads
    BY DEF DriverOk, AInv, Core
  <2>2. CASE DevicesNext
    BY <2>1, <2>2, CoreStep, SearchStep, LoadStep DEF DriverOk, AInv, Core
  <2>3. CASE UNCHANGED devVars
    <3>1. UNCHANGED ahciVars /\ load' = load
      BY <2>3 DEF devVars, procVars
    <3>2. Core'
      BY <2>1, <3>1, CoreUntouched DEF ahciVars, coreVars
    <3>3. ListsFree'
      BY <2>1, <3>1 DEF ahciVars, ListsFree
    <3> QED
      BY <2>1, <3>1, <3>2, <3>3 DEF DriverOk, AInv, Core
  <2> QED
    BY <2>2, <2>3
<1> QED
  BY <1>1, <1>2, PTL DEF DevicesSpec

(* What a transfer does is what it says (AhciBlockDevice::read and write): *)
(* for every disk, every page size and every number of slots and pages, no *)
(* byte of the disk holds what was never written to it, and a read that    *)
(* succeeds returned the contents of the disk.                             *)
THEOREM TransfersExact == DevicesSpec => []TransferExact
<1>1. AInv => TransferExact
  BY DEF AInv, DataInv, DiskKnown, LastRead, TransferExact, NoXfer
<1>2. DriverOk => AInv
  BY DEF DriverOk
<1> QED
  BY <1>1, <1>2, DriverInductive, PTL

(* A command the controller still has to execute is in a slot and a page   *)
(* of its own (send_command, wait_for_completion), also after a timeout,   *)
(* and the driver's command list is the one the controller reads unless    *)
(* the port before the drive's is implemented (init_ahcibd).               *)
THEOREM ControllerFinds == DevicesSpec => []ControllerMemory
<1>1. AInv => ControllerMemory
  <2> SUFFICES ASSUME AInv PROVE ControllerMemory
    OBVIOUS
  <2>1. AhciTyped /\ Queue /\ ListsFree
    BY DEF AInv, DriverInv
  <2>2. ci \in Seq(SlotNums) /\ DOMAIN ci = 1 .. Len(ci)
    BY <2>1 DEF AhciTyped
  <2>3. IsInjective(ci)
    BY <2>1, <2>2 DEF Queue, IsInjective
  <2>4. \A s \in ToSet(ci) : table[s].page \notin free \cup {xfer.bounce}
    BY <2>1, <2>2 DEF Queue, ToSet
  <2>5. device # NoDevice /\ device - 1 \notin hba.ports => ListShared
    BY <2>1 DEF ListsFree, ListShared, ListPage
  <2> QED
    BY <2>3, <2>4, <2>5 DEF ControllerMemory
<1>2. DriverOk => AInv
  BY DEF DriverOk
<1> QED
  BY <1>1, <1>2, DriverInductive, PTL

-----------------------------------------------------------------------------
(* The keyboard.  What a read from stdin returns.                          *)

Chain(f, k, from, to) ==
    f = [n \in from .. to |-> IF n = from THEN <<>> ELSE Edited(f[n - 1], k[n])]

LEMMA ChainExists ==
    ASSUME NEW k, NEW from \in Nat, NEW to \in Nat, from <= to
    PROVE  \E f : Chain(f, k, from, to)
<1> DEFINE Bad == {n \in Nat : from <= n /\ ~\E f : Chain(f, k, from, n)}
<1> SUFFICES ASSUME Bad # {} PROVE FALSE
  OBVIOUS
<1> DEFINE m == Smallest(Bad)
<1>1. m \in Bad /\ \A n \in Bad : m <= n
  BY SmallestIn
<1>2. m \in Nat /\ from <= m /\ ~\E f : Chain(f, k, from, m)
  BY <1>1
<1> HIDE DEF m
<1>3. CASE m = from
  <2> DEFINE f == [n \in from .. from |-> <<>>]
  <2>1. f = [n \in from .. from |-> IF n = from THEN <<>> ELSE Edited(f[n - 1], k[n])]
    OBVIOUS
  <2> QED
    BY <1>2, <1>3, <2>1, Zenon DEF Chain
<1>4. CASE m # from
  <2>1. m - 1 \in Nat /\ from <= m - 1 /\ ~(m <= m - 1)
    BY <1>2, <1>4
  <2>2. m - 1 \notin Bad
    BY <1>1, <2>1
  <2>3. PICK g : Chain(g, k, from, m - 1)
    BY <2>1, <2>2
  <2> DEFINE f == [n \in from .. m |-> IF n = m THEN Edited(g[m - 1], k[m]) ELSE g[n]]
  <2>4. \A n \in from .. m - 1 : g[n] = IF n = from THEN <<>> ELSE Edited(g[n - 1], k[n])
    BY <2>3, Zenon DEF Chain
  <2>5. ASSUME NEW n \in from .. m
        PROVE  f[n] = IF n = from THEN <<>> ELSE Edited(f[n - 1], k[n])
    <3>1. n \in Nat /\ from <= n /\ n <= m
      BY <1>2
    <3>2. CASE n = m
      <4>1. m - 1 \in from .. m /\ m - 1 # m
        BY <1>2, <2>1
      <4> QED
        BY <1>4, <3>2, <4>1
    <3>3. CASE n # m
      <4>1. n \in from .. m - 1 /\ f[n] = g[n]
        BY <1>2, <3>1, <3>3
      <4>2. n # from => n - 1 \in from .. m /\ n - 1 # m /\ f[n - 1] = g[n - 1]
        BY <1>2, <3>1
      <4> QED
        BY <2>4, <4>1, <4>2
    <3> QED
      BY <3>2, <3>3
  <2>6. f = [n \in from .. m |-> IF n = from THEN <<>> ELSE Edited(f[n - 1], k[n])]
    <3>1. f = [n \in from .. m |-> f[n]]
      OBVIOUS
    <3> HIDE DEF f
    <3> QED
      BY <2>5, <3>1, Zenon
  <2> QED
    BY <1>2, <2>6, Zenon DEF Chain
<1> QED
  BY <1>3, <1>4

(* The keys up to a place decide the line at that place.                   *)
LEMMA ChainUnique ==
    ASSUME NEW f, NEW g, NEW k, NEW l, NEW from \in Nat, NEW to \in Nat, NEW last1 \in Nat,
           from <= to, to <= last1, Chain(f, k, from, to), Chain(g, l, from, last1),
           \A n \in from + 1 .. to : k[n] = l[n]
    PROVE  f[to] = g[to]
<1> DEFINE Bad == {n \in Nat : from <= n /\ n <= to /\ f[n] # g[n]}
<1> SUFFICES ASSUME Bad # {} PROVE FALSE
  OBVIOUS
<1> DEFINE m == Smallest(Bad)
<1>1. m \in Bad /\ \A n \in Bad : m <= n
  BY SmallestIn
<1>2. m \in Nat /\ from <= m /\ m <= to /\ f[m] # g[m]
  BY <1>1
<1> HIDE DEF m
<1>3. m \in from .. to /\ m \in from .. last1
  BY <1>2
<1>4. f[m] = IF m = from THEN <<>> ELSE Edited(f[m - 1], k[m])
  BY <1>3 DEF Chain
<1>5. g[m] = IF m = from THEN <<>> ELSE Edited(g[m - 1], l[m])
  BY <1>3 DEF Chain
<1>6. m # from
  BY <1>2, <1>4, <1>5
<1>7. m \in from + 1 .. to /\ m - 1 \in Nat /\ from <= m - 1 /\ m - 1 <= to /\ ~(m <= m - 1)
  BY <1>2, <1>6
<1>8. f[m - 1] = g[m - 1]
  BY <1>1, <1>7
<1>9. k[m] = l[m]
  BY <1>7
<1> QED
  BY <1>2, <1>4, <1>5, <1>8, <1>9

LEMMA LineChain ==
    ASSUME NEW k, NEW from \in Nat, NEW to \in Nat, from <= to
    PROVE  \E f : Chain(f, k, from, to) /\ LineOf(k, from, to) = f[to]
<1> DEFINE f == CHOOSE f : f = [n \in from .. to |-> IF n = from THEN <<>> ELSE Edited(f[n - 1], k[n])]
<1>1. Chain(f, k, from, to)
  <2>1. \E g : g = [n \in from .. to |-> IF n = from THEN <<>> ELSE Edited(g[n - 1], k[n])]
    <3>1. PICK g : Chain(g, k, from, to)
      BY ChainExists
    <3>2. g = [n \in from .. to |-> IF n = from THEN <<>> ELSE Edited(g[n - 1], k[n])]
      BY <3>1, Zenon DEF Chain
    <3> QED
      BY <3>2, Zenon
  <2>2. f = [n \in from .. to |-> IF n = from THEN <<>> ELSE Edited(f[n - 1], k[n])]
    BY <2>1, Zenon
  <2> QED
    BY <2>2, Zenon DEF Chain
<1>2. LineOf(k, from, to) = f[to]
  BY Zenon DEF LineOf
<1> QED
  BY <1>1, <1>2, Zenon

LEMMA LineStarts == ASSUME NEW k, NEW from \in Nat PROVE LineOf(k, from, from) = <<>>
<1>1. PICK f : Chain(f, k, from, from) /\ LineOf(k, from, from) = f[from]
  BY LineChain
<1>2. f[from] = <<>>
  BY <1>1 DEF Chain
<1> QED
  BY <1>1, <1>2

LEMMA LineSame ==
    ASSUME NEW k, NEW l, NEW from \in Nat, NEW to \in Nat, from <= to,
           \A n \in from + 1 .. to : k[n] = l[n]
    PROVE  LineOf(k, from, to) = LineOf(l, from, to)
<1>1. PICK f : Chain(f, k, from, to) /\ LineOf(k, from, to) = f[to]
  BY LineChain
<1>2. PICK g : Chain(g, l, from, to) /\ LineOf(l, from, to) = g[to]
  BY LineChain
<1>3. f[to] = g[to]
  <2>1. to <= to
    OBVIOUS
  <2> QED
    BY <1>1, <1>2, <2>1, ChainUnique
<1> QED
  BY <1>1, <1>2, <1>3

LEMMA LineGrows ==
    ASSUME NEW k, NEW from \in Nat, NEW to \in Nat, from <= to
    PROVE  LineOf(k, from, to + 1) = Edited(LineOf(k, from, to), k[to + 1])
<1>1. PICK f : Chain(f, k, from, to) /\ LineOf(k, from, to) = f[to]
  BY LineChain
<1>2. to + 1 \in Nat /\ from <= to + 1 /\ to <= to + 1 /\ to + 1 # from /\ to + 1 \in from .. to + 1
      /\ to + 1 - 1 = to
  OBVIOUS
<1>3. PICK g : Chain(g, k, from, to + 1) /\ LineOf(k, from, to + 1) = g[to + 1]
  BY <1>2, LineChain
<1>4. f[to] = g[to]
  BY <1>1, <1>2, <1>3, ChainUnique, Zenon
<1>5. g[to + 1] = Edited(g[to], k[to + 1])
  <2>1. g[to + 1] = IF to + 1 = from THEN <<>> ELSE Edited(g[to + 1 - 1], k[to + 1])
    BY <1>2, <1>3 DEF Chain
  <2> QED
    BY <1>2, <2>1
<1> QED
  BY <1>1, <1>3, <1>4, <1>5

Keys == UNION {l.keys : l \in Loads}
Reading == pc \in {"loop", "locked", "block", "hlt"}

(* A line that a read may still add to: it has what the keys taken since   *)
(* the read began leave.                                                   *)
LineSoFar ==
    /\ want \in Nat /\ line \in Seq(Keys) /\ line = LineOf(typed, start, Taken)
    /\ Len(line) <= want /\ (pc = "locked" => Len(line) < want)
    /\ \A i \in 1 .. Len(line) : line[i] # Nl

(* The inductive invariant: the buffer is the end of what was typed.       *)
KInv ==
    /\ load \in Loads
    /\ typed \in Seq(Keys) /\ buffer \in Seq(Keys) /\ start \in Nat /\ Taken >= start
    /\ \A i \in 1 .. Len(buffer) : buffer[i] = typed[Taken + i]
    /\ Reading => LineSoFar

LEMMA KeysStart == DevicesInit => KInv
<1> SUFFICES ASSUME DevicesInit PROVE KInv
  OBVIOUS
<1>1. load \in Loads /\ typed = <<>> /\ buffer = <<>> /\ start = 0 /\ pc = "user"
  BY DEF DevicesInit, TerminalInit
<1>2. Len(typed) = 0 /\ Len(buffer) = 0 /\ typed \in Seq(Keys) /\ buffer \in Seq(Keys)
  BY <1>1
<1> QED
  BY <1>1, <1>2 DEF KInv, Taken, Reading

LEMMA KeysUntouched ==
    ASSUME KInv, UNCHANGED <<load, typed, buffer, start, want, line>>,
           Reading' => Reading, pc' = "locked" => pc = "locked" \/ Len(line) < want
    PROVE  KInv'
<1>1. Taken' = Taken
  BY DEF Taken
<1>2. Reading' => LineSoFar'
  <2> SUFFICES ASSUME Reading' PROVE LineSoFar'
    OBVIOUS
  <2>1. LineSoFar
    BY DEF KInv
  <2> QED
    BY <1>1, <2>1 DEF LineSoFar
<1> QED
  BY <1>1, <1>2 DEF KInv

LEMMA ReadKeepsKeys == ASSUME KInv, Read PROVE KInv'
<1>1. /\ want' \in load.reads /\ pc' = "loop" /\ line' = <<>> /\ start' = Taken
      /\ UNCHANGED <<buffer, load, typed>>
  BY DEF Read, terminalVars
<1>2. /\ load \in Loads /\ typed \in Seq(Keys) /\ buffer \in Seq(Keys) /\ start \in Nat /\ Taken >= start
      /\ \A i \in 1 .. Len(buffer) : buffer[i] = typed[Taken + i]
  BY DEF KInv
<1>3. Taken' = Taken /\ Taken \in Nat
  BY <1>1, <1>2 DEF Taken
<1>4. want' \in Nat
  BY <1>1, <1>2, ReadsAssumption
<1>5. line' \in Seq(Keys) /\ Len(line') = 0
  BY <1>1
<1>6. LineOf(typed, Taken, Taken) = <<>>
  BY <1>3, LineStarts
<1>7. LineSoFar'
  BY <1>1, <1>3, <1>4, <1>5, <1>6 DEF LineSoFar
<1> QED
  BY <1>1, <1>2, <1>3, <1>7 DEF KInv

(* What taking one byte does to the line.                                  *)
LEMMA EditedLine ==
    ASSUME NEW S, NEW l \in Seq(S), NEW c \in S
    PROVE  /\ Edited(l, c) \in Seq(S) /\ Len(Edited(l, c)) <= Len(l) + 1
           /\ c # Nl /\ (\A i \in 1 .. Len(l) : l[i] # Nl) =>
                \A i \in 1 .. Len(Edited(l, c)) : Edited(l, c)[i] # Nl
<1>1. CASE c # Bs
  BY <1>1 DEF Edited
<1>2. CASE c = Bs /\ l = <<>>
  BY <1>2 DEF Edited
<1>3. CASE c = Bs /\ l # <<>>
  <2>1. Edited(l, c) = SubSeq(l, 1, Len(l) - 1) /\ Len(l) \in Nat /\ Len(l) > 0
    BY <1>3 DEF Edited, Front
  <2>2. /\ SubSeq(l, 1, Len(l) - 1) \in Seq(S) /\ Len(SubSeq(l, 1, Len(l) - 1)) = Len(l) - 1
        /\ \A i \in 1 .. Len(l) - 1 : SubSeq(l, 1, Len(l) - 1)[i] = l[i]
    <3> DEFINE n == Len(l) - 1
    <3>1. n \in Nat /\ \A i \in 1 .. n : i \in 1 .. Len(l) /\ l[i] \in S
      BY <2>1
    <3>2. SubSeq(l, 1, n) = [i \in 1 .. n |-> l[i]]
      BY <3>1
    <3> HIDE DEF n
    <3>3. [i \in 1 .. n |-> l[i]] \in Seq(S) /\ Len([i \in 1 .. n |-> l[i]]) = n
      BY <3>1
    <3>4. \A i \in 1 .. n : SubSeq(l, 1, n)[i] = l[i]
      BY <3>2, Zenon
    <3>5. SubSeq(l, 1, n) \in Seq(S) /\ Len(SubSeq(l, 1, n)) = n
      BY <3>2, <3>3, Zenon
    <3> QED
      BY <3>4, <3>5 DEF n
  <2>3. \A i \in 1 .. Len(l) - 1 : i \in 1 .. Len(l)
    BY <2>1
  <2> QED
    BY <2>1, <2>2, <2>3
<1> QED
  BY <1>1, <1>2, <1>3

LEMMA ReadByteKeepsKeys == ASSUME KInv, ReadByte PROVE KInv'
<1>1. /\ pc = "locked" /\ buffer' = Pop(buffer) /\ UNCHANGED <<load, want, typed, start>>
      /\ IF buffer = <<>> THEN pc' = "block" /\ UNCHANGED line
         ELSE /\ line' = Edited(line, Head(buffer))
              /\ pc' = IF Head(buffer) = Nl THEN "user" ELSE "loop"
  BY DEF ReadByte
<1>2. /\ load \in Loads /\ typed \in Seq(Keys) /\ buffer \in Seq(Keys) /\ start \in Nat /\ Taken >= start
      /\ \A i \in 1 .. Len(buffer) : buffer[i] = typed[Taken + i]
      /\ LineSoFar
  BY <1>1 DEF KInv, Reading
<1>3. CASE buffer = <<>>
  <2>1. buffer' = buffer /\ pc' = "block" /\ line' = line
    BY <1>1, <1>3 DEF Pop
  <2> QED
    BY <1>1, <2>1, KeysUntouched DEF Reading
<1>4. CASE buffer # <<>>
  <2>1. /\ Len(buffer) \in Nat /\ Len(buffer) > 0 /\ Head(buffer) = buffer[1] /\ Head(buffer) \in Keys
        /\ buffer' = Tail(buffer) /\ buffer' \in Seq(Keys) /\ Len(buffer') = Len(buffer) - 1
        /\ \A i \in 1 .. Len(buffer') : buffer'[i] = buffer[i + 1] /\ i + 1 \in 1 .. Len(buffer)
    BY <1>1, <1>2, <1>4 DEF Pop
  <2>2. /\ Taken' = Taken + 1 /\ Taken \in Nat /\ start <= Taken
    BY <1>1, <1>2, <2>1 DEF Taken
  <2>3. Head(buffer) = typed[Taken + 1]
    BY <1>2, <2>1
  <2>4. \A i \in 1 .. Len(buffer') : buffer'[i] = typed[Taken' + i]
    <3> TAKE i \in 1 .. Len(buffer')
    <3>1. buffer'[i] = typed[Taken + (i + 1)]
      BY <1>2, <2>1
    <3>2. Taken + (i + 1) = Taken' + i
      BY <2>2
    <3> QED
      BY <3>1, <3>2
  <2>5. Reading' => LineSoFar'
    <3> SUFFICES ASSUME Reading' PROVE LineSoFar'
      OBVIOUS
    <3> DEFINE c == Head(buffer)
    <3>1. c # Nl /\ pc' = "loop" /\ line' = Edited(line, c) /\ c \in Keys
      BY <1>1, <1>4, <2>1 DEF Reading
    <3> HIDE DEF c
    <3>2. /\ want \in Nat /\ line \in Seq(Keys) /\ line = LineOf(typed, start, Taken)
          /\ Len(line) < want /\ \A i \in 1 .. Len(line) : line[i] # Nl
      BY <1>1, <1>2 DEF LineSoFar
    <3>3. line' = LineOf(typed, start, Taken + 1)
      <4>1. start \in Nat /\ Taken \in Nat /\ start <= Taken
        BY <1>2, <2>2
      <4>2. LineOf(typed, start, Taken + 1) = Edited(LineOf(typed, start, Taken), typed[Taken + 1])
        BY <4>1, LineGrows
      <4> QED
        BY <2>3, <3>1, <3>2, <4>2 DEF c
    <3>4. /\ line' \in Seq(Keys) /\ Len(line') <= Len(line) + 1
          /\ \A i \in 1 .. Len(line') : line'[i] # Nl
      BY <3>1, <3>2, EditedLine, Zenon
    <3>5. Len(line') <= want
      BY <3>2, <3>4
    <3> QED
      BY <1>1, <2>2, <3>1, <3>2, <3>3, <3>4, <3>5 DEF LineSoFar
  <2>6. Taken' >= start'
    BY <1>1, <1>2, <2>2
  <2> QED
    BY <1>1, <1>2, <2>1, <2>4, <2>5, <2>6 DEF KInv
<1> QED
  BY <1>3, <1>4

LEMMA KeyKeepsKeys == ASSUME KInv, Key PROVE KInv'
<1>1. UNCHANGED <<load, want, line, start>>
  BY DEF Key
<1>2. CASE pc = "locked"
  <2>1. UNCHANGED <<typed, buffer, pc>>
    BY <1>2 DEF Key, terminalVars
  <2> QED
    BY <1>1, <1>2, <2>1, KeysUntouched DEF Reading
<1>3. CASE pc # "locked"
  <2>1. PICK c \in load.keys : buffer' = Append(buffer, c) /\ typed' = Append(typed, c)
    BY <1>3 DEF Key, handle_scancode
  <2>2. pc' = (IF pc = "hlt" THEN "loop" ELSE pc)
    BY <1>3 DEF Key, Resumed
  <2>3. /\ load \in Loads /\ typed \in Seq(Keys) /\ buffer \in Seq(Keys) /\ start \in Nat /\ Taken >= start
        /\ \A i \in 1 .. Len(buffer) : buffer[i] = typed[Taken + i]
    BY DEF KInv
  <2>4. c \in Keys
    BY <2>3 DEF Keys
  <2>5. /\ typed' \in Seq(Keys) /\ Len(typed') = Len(typed) + 1 /\ Len(typed) \in Nat
        /\ \A i \in 1 .. Len(typed) : typed'[i] = typed[i]
        /\ typed'[Len(typed) + 1] = c
    BY <2>1, <2>3, <2>4
  <2>6. /\ buffer' \in Seq(Keys) /\ Len(buffer') = Len(buffer) + 1 /\ Len(buffer) \in Nat
        /\ \A i \in 1 .. Len(buffer) : buffer'[i] = buffer[i]
        /\ buffer'[Len(buffer) + 1] = c
    BY <2>1, <2>3, <2>4
  <2>7. /\ Taken' = Taken /\ Taken \in Nat /\ Taken + Len(buffer) = Len(typed)
        /\ start <= Taken /\ Taken <= Len(typed)
    BY <2>3, <2>5, <2>6 DEF Taken
  <2>8. \A i \in 1 .. Len(buffer') : buffer'[i] = typed'[Taken' + i]
    <3> TAKE i \in 1 .. Len(buffer')
    <3>1. CASE i = Len(buffer) + 1
      BY <2>5, <2>6, <2>7, <3>1
    <3>2. CASE i # Len(buffer) + 1
      <4>1. i \in 1 .. Len(buffer) /\ Taken + i \in 1 .. Len(typed)
        BY <2>6, <2>7, <3>2
      <4> QED
        BY <2>3, <2>5, <2>6, <2>7, <4>1
    <3> QED
      BY <3>1, <3>2
  <2>9. Reading' => LineSoFar'
    <3> SUFFICES ASSUME Reading' PROVE LineSoFar'
      OBVIOUS
    <3>1. Reading /\ pc' # "locked"
      BY <1>3, <2>2 DEF Reading
    <3>2. LineSoFar
      BY <3>1 DEF KInv
    <3>3. \A n \in start + 1 .. Taken : typed[n] = typed'[n]
      BY <2>3, <2>5, <2>7
    <3>4. LineOf(typed, start, Taken) = LineOf(typed', start, Taken)
      BY <2>3, <2>7, <3>3, LineSame, Zenon
    <3> QED
      BY <1>1, <2>7, <3>1, <3>2, <3>4 DEF LineSoFar
  <2> QED
    BY <1>1, <2>3, <2>5, <2>6, <2>7, <2>8, <2>9 DEF KInv
<1> QED
  BY <1>2, <1>3

LEMMA KeysInductive == KInv /\ [DevicesNext]_devVars => KInv'
<1> SUFFICES ASSUME KInv, [DevicesNext]_devVars PROVE KInv'
  OBVIOUS
<1>1. CASE Write \/ PrintByte \/ ByteDone
  <2>1. UNCHANGED <<load, typed, buffer, start, want, line>> /\ pc' \in {"user", "print", "draw", "parse"}
    BY <1>1 DEF Write, PrintByte, ByteDone, terminalVars
  <2> QED
    BY <2>1, KeysUntouched DEF Reading
<1>2. CASE ReadLoop
  <2>1. /\ UNCHANGED <<load, typed, buffer, start, want, line>> /\ pc = "loop"
        /\ pc' = IF Len(line) < want THEN "locked" ELSE "user"
    BY <1>2 DEF ReadLoop, terminalVars
  <2> QED
    BY <2>1, KeysUntouched DEF Reading
<1>3. CASE Block
  <2>1. /\ UNCHANGED <<load, typed, buffer, start, want, line>> /\ pc = "block" /\ pc' = "hlt"
    BY <1>3 DEF Block, terminalVars
  <2> QED
    BY <2>1, KeysUntouched DEF Reading
<1>4. CASE Tick
  <2>1. /\ UNCHANGED <<load, typed, buffer, start, want, line>> /\ pc' = IF pc = "hlt" THEN "loop" ELSE pc
    BY <1>4 DEF Tick, Resumed
  <2> QED
    BY <2>1, KeysUntouched DEF Reading
<1>5. CASE Transfer \/ DiskStep \/ Hardware \/ Stopped \/ UNCHANGED devVars
  <2>1. UNCHANGED <<load, typed, buffer, start, want, line, pc>>
    BY <1>5 DEF Transfer, DiskStep, Hardware, Stopped, devVars, procVars, terminalVars
  <2> QED
    BY <2>1, KeysUntouched DEF Reading
<1> QED
  BY <1>1, <1>2, <1>3, <1>4, <1>5, ReadKeepsKeys, ReadByteKeepsKeys, KeyKeepsKeys DEF DevicesNext

(* Every key is delivered once and in order (Stdin::read, handle_scancode, *)
(* tty_read_nonblocking): for every text that is typed, whenever its keys  *)
(* come, what a read has is what was taken since it began.                 *)
THEOREM LinesDelivered == DevicesSpec => []LineDelivered
<1>1. KInv => LineDelivered
  <2> SUFFICES ASSUME KInv PROVE LineDelivered
    OBVIOUS
  <2>1. /\ typed \in Seq(Keys) /\ buffer \in Seq(Keys) /\ start \in Nat /\ Taken >= start
        /\ \A i \in 1 .. Len(buffer) : buffer[i] = typed[Taken + i]
    BY DEF KInv
  <2>2. Taken \in Nat /\ Len(typed) \in Nat /\ Len(buffer) \in Nat /\ Taken + Len(buffer) = Len(typed)
    BY <2>1 DEF Taken
  <2>3. buffer = SubSeq(typed, Taken + 1, Len(typed))
    <3> DEFINE b == SubSeq(typed, Taken + 1, Len(typed))
    <3>1. b \in Seq(Keys) /\ Len(b) = Len(buffer)
      BY <2>1, <2>2
    <3>2. \A i \in 1 .. Len(buffer) : b[i] = typed[Taken + i]
      BY <2>1, <2>2
    <3> HIDE DEF b
    <3>3. buffer = b
      BY <2>1, <3>1, <3>2
    <3> QED
      BY <3>3 DEF b
  <2>4. Reading => /\ line = LineOf(typed, start, Taken)
                   /\ Len(line) <= want /\ ~Contains(line, Nl)
    BY DEF KInv, LineSoFar, Contains
  <2> QED
    BY <2>1, <2>3, <2>4 DEF LineDelivered, Reading
<1> QED
  BY <1>1, KeysStart, KeysInductive, PTL DEF DevicesSpec
=============================================================================
