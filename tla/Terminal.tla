------------------------------ MODULE Terminal ------------------------------
(***************************************************************************)
(* The shell's terminal (services/shell/src/char.rs): a parser for the     *)
(* bytes child processes print, a grid of cells, and the framebuffer the   *)
(* cells are drawn into.  Scrolling rewrites cells and redraws everything; *)
(* all other changes draw the cells they touch; the cursor is an overlay   *)
(* that inverts one cell and has to be taken away before the next change.  *)
(*                                                                         *)
(* "shown" is the framebuffer, abstracted to the cell last drawn at each   *)
(* position and whether it was drawn inverted.  Colours are SGR codes.     *)
(***************************************************************************)
EXTENDS Ansi

CONSTANTS MaxCols, MaxRows,  \* size of the screen in characters
          ANSI_MAX_SEQ_LEN,
          Outputs,           \* messages children print: sequences of bytes
          PROMPT,            \* the prompt text
          TermSteps          \* bound on the operations

VARIABLES term, termleft

termVars == <<term, termleft>>

Rows == 0..(MaxRows - 1)
Cols == 0..(MaxCols - 1)
DefaultPen == [fg |-> 39, bg |-> 49]
Blank == [ch |-> 32, pen |-> DefaultPen]
Space(t) == [ch |-> 32, pen |-> t.pen]
Least(a, b) == IF a < b THEN a ELSE b
Minus(a, b) == IF a < b THEN 0 ELSE a - b
BlankCells == [r \in Rows |-> [c \in Cols |-> Blank]]
Drawn(cells) ==
  [r \in Rows |-> [c \in Cols |-> [cell |-> cells[r][c], inv |-> FALSE]]]
NoAlt == [row |-> -1]

NewTerminal ==
  [col |-> 0, row |-> 0, pen |-> DefaultPen, mode |-> "text",
   quit |-> FALSE, seq |-> <<>>, saved_col |-> 0, saved_row |-> 0,
   top |-> 0, bottom |-> MaxRows - 1, insert |-> FALSE,
   visible |-> TRUE, drawn |-> FALSE, draw_col |-> 0,
   draw_row |-> 0, alt |-> NoAlt, last |-> 32, busy |-> FALSE,
   cells |-> BlankCells, shown |-> Drawn(BlankCells)]

(***************************************************************************)
(* Cells and drawing.                                                      *)
(***************************************************************************)
OnScreen(c, r) == c \in Cols /\ r \in Rows

get_cell(t, c, r) == IF OnScreen(c, r) THEN t.cells[r][c] ELSE Blank

set_cell(t, c, r, cell) ==
  IF OnScreen(c, r)
  THEN [t EXCEPT !.cells[r][c] = cell,
                 !.shown[r][c] = [cell |-> cell, inv |-> FALSE]]
  ELSE t

redraw_from_cells(t) == [t EXCEPT !.shown = Drawn(t.cells)]

(***************************************************************************)
(* Rewrite the cells at a set of positions, each through set_cell.         *)
(***************************************************************************)
SetCells(t, where, New(_, _)) ==
  [t EXCEPT
     !.cells = [r \in Rows |-> [c \in Cols |->
                  IF <<r, c>> \in where THEN New(r, c) ELSE @[r][c]]],
     !.shown = [r \in Rows |-> [c \in Cols |->
                  IF <<r, c>> \in where
                  THEN [cell |-> New(r, c), inv |-> FALSE] ELSE @[r][c]]]]

hide_cursor_overlay(t) ==
  IF ~t.drawn THEN t
  ELSE IF ~OnScreen(t.draw_col, t.draw_row) THEN [t EXCEPT !.drawn = FALSE]
  ELSE [t EXCEPT !.drawn = FALSE,
                 !.shown[t.draw_row][t.draw_col] =
                    [cell |-> t.cells[t.draw_row][t.draw_col], inv |-> FALSE]]

show_cursor_overlay(t) ==
  LET c == Least(t.col, MaxCols - 1)
      r == Least(t.row, MaxRows - 1)
  IN IF ~t.visible THEN [t EXCEPT !.drawn = FALSE]
     ELSE [t EXCEPT !.shown[r][c] = [cell |-> t.cells[r][c], inv |-> TRUE],
                    !.drawn = TRUE, !.draw_col = c, !.draw_row = r]

flush(t) == show_cursor_overlay(hide_cursor_overlay(t))

clear_screen(t) ==
  show_cursor_overlay(
    [hide_cursor_overlay(t) EXCEPT
       !.cells = BlankCells, !.shown = Drawn(BlankCells), !.col = 0, !.row = 0,
       !.top = 0, !.bottom = MaxRows - 1, !.insert = FALSE])

(***************************************************************************)
(* Scrolling.  The copy loop of scroll_region_up runs to bottom - n        *)
(* saturated at 0: scrolling a whole region at the top of the screen away  *)
(* copies the line below the region into row 0.                            *)
(***************************************************************************)
NoRedraw(t) == t

AfterScroll(t) == redraw_from_cells(t)

normalize_scroll_region(t) ==
  LET top == Least(t.top, MaxRows - 1)
      bottom == Least(t.bottom, MaxRows - 1)
  IN [t EXCEPT !.top = IF top > bottom THEN 0 ELSE top,
               !.bottom = IF top > bottom THEN MaxRows - 1 ELSE bottom]

scroll_region_up(t, top, bottom, count) ==
  LET n == Least(count, bottom - top + 1)
      last == Minus(bottom, n)
  IN IF top >= bottom THEN t
     ELSE AfterScroll([t EXCEPT !.cells =
            [r \in Rows |-> [c \in Cols |->
               IF r \in top..last THEN get_cell(t, c, r + n)
               ELSE IF r \in (last + 1)..bottom THEN Blank ELSE @[r][c]]]])

scroll_region_down(t, top, bottom, count) ==
  LET n == Least(count, bottom - top + 1)
  IN IF top >= bottom THEN t
     ELSE AfterScroll([t EXCEPT !.cells =
            [r \in Rows |-> [c \in Cols |->
               IF r \in (top + n)..bottom THEN @[r - n][c]
               ELSE IF r \in top..(top + n - 1) THEN Blank ELSE @[r][c]]]])

index(u) ==
  LET t == normalize_scroll_region(u)
  IN IF t.row = t.bottom THEN scroll_region_up(t, t.top, t.bottom, 1)
     ELSE [t EXCEPT !.row = Least(@ + 1, MaxRows - 1)]

reverse_index(u) ==
  LET t == normalize_scroll_region(u)
  IN IF t.row = t.top THEN scroll_region_down(t, t.top, t.bottom, 1)
     ELSE [t EXCEPT !.row = Minus(@, 1)]

new_line(t) == index([t EXCEPT !.col = 0])

set_scroll_region(t, top, bottom) ==
  LET ok == top < MaxRows /\ bottom < MaxRows /\ top < bottom
      u == [t EXCEPT !.top = IF ok THEN top ELSE 0,
                     !.bottom = IF ok THEN bottom ELSE MaxRows - 1]
  IN [u EXCEPT !.col = 0, !.row = u.top]

(***************************************************************************)
(* Erasing, inserting and deleting characters and lines.                   *)
(***************************************************************************)
erase_line_range(t, row, from, to) ==
  SetCells(t, {row} \X (from..(to - 1)), LAMBDA r, c : Space(t))

erase_screen_range(t, row0, col0, row1, col1) ==
  LET Upto(r) == IF r + 1 = row1 THEN col1 ELSE MaxCols
      From(r) == IF r = row0 THEN col0 ELSE 0
      gone == UNION {{r} \X (From(r)..(Upto(r) - 1)) : r \in row0..(row1 - 1)}
  IN SetCells(t, gone, LAMBDA r, c : Space(t))

insert_blank_chars(t, count) ==
  LET n == Least(count, MaxCols - t.col)
  IN IF t.row >= MaxRows \/ t.col >= MaxCols THEN t
     ELSE SetCells(t, {t.row} \X (t.col..(MaxCols - 1)),
                   LAMBDA r, c : IF c < t.col + n THEN Space(t)
                                 ELSE t.cells[r][c - n])

delete_chars(t, count) ==
  LET n == Least(count, MaxCols - t.col)
  IN IF t.row >= MaxRows \/ t.col >= MaxCols THEN t
     ELSE SetCells(t, {t.row} \X (t.col..(MaxCols - 1)),
                   LAMBDA r, c : IF c + n < MaxCols THEN t.cells[r][c + n]
                                 ELSE Space(t))

erase_chars(t, count) ==
  IF t.row >= MaxRows \/ t.col >= MaxCols THEN t
  ELSE erase_line_range(t, t.row, t.col, t.col + Least(count, MaxCols - t.col))

insert_blank_lines(u, count) ==
  LET t == normalize_scroll_region(u)
      n == Least(count, t.bottom + 1 - t.row)
  IN IF t.row \notin t.top..t.bottom THEN t
     ELSE SetCells(t, (t.row..t.bottom) \X Cols,
                   LAMBDA r, c : IF r < t.row + n THEN Space(t)
                                 ELSE t.cells[r - n][c])

delete_lines(u, count) ==
  LET t == normalize_scroll_region(u)
      n == Least(count, t.bottom + 1 - t.row)
  IN IF t.row \notin t.top..t.bottom THEN t
     ELSE SetCells(t, (t.row..t.bottom) \X Cols,
                   LAMBDA r, c : IF r + n <= t.bottom THEN t.cells[r + n][c]
                                 ELSE Space(t))

erase_previous_cell(t) ==
  IF t.col = 0 THEN t
  ELSE set_cell([t EXCEPT !.col = @ - 1], t.col - 1, t.row, Space(t))

(***************************************************************************)
(* The alternate screen keeps one copy of the primary one.                 *)
(***************************************************************************)
enter_alt_screen(t) ==
  IF t.alt # NoAlt THEN t
  ELSE redraw_from_cells(
         [t EXCEPT !.alt = [cells |-> t.cells, col |-> t.col, row |-> t.row,
                            pen |-> t.pen, top |-> t.top, bottom |-> t.bottom,
                            insert |-> t.insert],
                   !.cells = BlankCells, !.col = 0, !.row = 0, !.top = 0,
                   !.bottom = MaxRows - 1, !.insert = FALSE])

leave_alt_screen(t) ==
  IF t.alt = NoAlt THEN t
  ELSE redraw_from_cells(normalize_scroll_region(
         [t EXCEPT !.alt = NoAlt, !.cells = t.alt.cells,
                   !.col = Least(t.alt.col, MaxCols - 1),
                   !.row = Least(t.alt.row, MaxRows - 1),
                   !.pen = t.alt.pen, !.top = t.alt.top,
                   !.bottom = t.alt.bottom, !.insert = t.alt.insert]))

(***************************************************************************)
(* One character of text.                                                  *)
(***************************************************************************)
PutChar(t, b) ==
  LET u == IF t.col >= MaxCols THEN new_line(t) ELSE t
      v == IF u.insert THEN insert_blank_chars(u, 1) ELSE u
  IN [set_cell(v, v.col, v.row, [ch |-> b, pen |-> v.pen])
        EXCEPT !.col = @ + 1, !.last = b]

Tabbed(t) ==
  LET stop == Least((t.col \div 8 + 1) * 8, MaxCols)
  IN IF t.col >= stop THEN t
     ELSE [erase_line_range(t, t.row, t.col, stop) EXCEPT !.col = stop]

write_byte(t, byte) ==
  LET h == hide_cursor_overlay(t)
  IN IF byte \notin {8, 9, 10, 13} \cup 32..126 THEN h
     ELSE show_cursor_overlay(
            CASE byte = 10 -> new_line(h)
              [] byte = 13 -> [h EXCEPT !.col = 0]
              [] byte = 9 -> Tabbed(h)
              [] byte = 8 -> [h EXCEPT !.col = Minus(@, 1)]
              [] OTHER -> PutChar(h, byte))

(***************************************************************************)
(* Colours.                                                                *)
(***************************************************************************)
apply_sgr_code(t, code) ==
  CASE code = 0 -> [t EXCEPT !.pen = DefaultPen]
    [] code \in 30..37 \cup 90..97 \cup {39} -> [t EXCEPT !.pen.fg = code]
    [] code \in 40..47 \cup 100..107 \cup {49} -> [t EXCEPT !.pen.bg = code]
    [] OTHER -> t

apply_sgr_sequence(t) ==
  IF AllParams(t.seq) = <<>> THEN apply_sgr_code(t, 0)
  ELSE FoldLeft(apply_sgr_code, t, AllParams(t.seq))

(***************************************************************************)
(* Modes set by CSI h and reset by CSI l.                                  *)
(***************************************************************************)
apply_mode(t, mode, enabled) ==
  LET private == Private(t.seq)
  IN CASE private = 63 /\ mode = 25 -> [t EXCEPT !.visible = enabled]
       [] private = 63 /\ mode \in {47, 1047, 1049} ->
            IF enabled THEN enter_alt_screen(t) ELSE leave_alt_screen(t)
       [] private = 0 /\ mode = 4 -> [t EXCEPT !.insert = enabled]
       [] OTHER -> t

MoveTo(t, c, r) == [t EXCEPT !.col = Least(c, MaxCols - 1),
                             !.row = Least(r, MaxRows - 1)]

save_cursor(t) == [t EXCEPT !.saved_col = t.col, !.saved_row = t.row]

restore_cursor(t) == MoveTo(t, t.saved_col, t.saved_row)

EraseDisplay(t, mode) ==
  CASE mode = 0 -> erase_screen_range(t, t.row, t.col, MaxRows, MaxCols)
    [] mode = 1 -> erase_screen_range(t, 0, 0, t.row + 1,
                                      Least(t.col + 1, MaxCols))
    [] mode = 2 -> [erase_screen_range(t, 0, 0, MaxRows, MaxCols)
                      EXCEPT !.col = 0, !.row = 0]
    [] OTHER -> t

EraseLine(t, mode) ==
  CASE mode = 0 -> erase_line_range(t, t.row, t.col, MaxCols)
    [] mode = 1 -> erase_line_range(t, t.row, 0, t.col + 1)
    [] mode = 2 -> erase_line_range(t, t.row, 0, MaxCols)
    [] OTHER -> t

handle_csi_sequence(t, final) ==
  LET ps == AllParams(t.seq)
      n == csi_param_or(ps, 1, 1)
      m == IF ps = <<>> THEN 0 ELSE ps[1]
      modes == IF ps = <<>> THEN <<0>> ELSE ps
  IN CASE final = 65 -> [t EXCEPT !.row = Minus(@, n)]
       [] final = 66 -> [t EXCEPT !.row = Least(@ + n, MaxRows - 1)]
       [] final = 67 -> [t EXCEPT !.col = Least(@ + n, MaxCols - 1)]
       [] final = 68 -> [t EXCEPT !.col = Minus(@, n)]
       [] final = 69 -> MoveTo(t, 0, t.row + n)
       [] final = 70 -> MoveTo(t, 0, Minus(t.row, n))
       [] final \in {72, 102} -> MoveTo(t, csi_param_or(ps, 2, 1) - 1, n - 1)
       [] final = 71 -> [t EXCEPT !.col = Least(n - 1, MaxCols - 1)]
       [] final = 100 -> [t EXCEPT !.row = Least(n - 1, MaxRows - 1)]
       [] final = 74 -> EraseDisplay(t, m)
       [] final = 75 -> EraseLine(t, m)
       [] final = 115 -> save_cursor(t)
       [] final = 117 -> restore_cursor(t)
       [] final = 64 -> insert_blank_chars(t, n)
       [] final = 80 -> delete_chars(t, n)
       [] final = 76 -> insert_blank_lines(t, n)
       [] final = 77 -> delete_lines(t, n)
       [] final = 88 -> erase_chars(t, n)
       [] final = 114 -> set_scroll_region(t, n - 1,
                                           csi_param_or(ps, 2, MaxRows) - 1)
       [] final = 83 -> scroll_region_up(t, t.top, t.bottom, n)
       [] final = 84 -> scroll_region_down(t, t.top, t.bottom, n)
       [] final = 98 -> FoldLeft(LAMBDA u, i : write_byte(u, u.last), t,
                                 [i \in 1..n |-> i])
       [] final = 104 -> FoldLeft(LAMBDA u, k : apply_mode(u, k, TRUE), t, modes)
       [] final = 108 -> FoldLeft(LAMBDA u, k : apply_mode(u, k, FALSE), t, modes)
       [] OTHER -> t

(***************************************************************************)
(* The parser: text, after ESC, in CSI, or in a string (OSC or DCS) that   *)
(* ends with BEL or ESC \.                                                 *)
(***************************************************************************)
reset_ansi_parser(t) == [t EXCEPT !.mode = "text", !.quit = FALSE, !.seq = <<>>]

StringByte(t, byte) ==
  IF byte = 7 \/ (t.quit /\ byte = 92) THEN reset_ansi_parser(t)
  ELSE [t EXCEPT !.quit = ~t.quit /\ byte = ESC]

EscByte(u, byte) ==
  LET t == [u EXCEPT !.mode = "text"]
  IN CASE byte = 91 -> [t EXCEPT !.mode = "csi", !.seq = <<>>]
       [] byte \in {93, 80} -> [t EXCEPT !.mode = "string", !.quit = FALSE]
       [] byte = 55 -> save_cursor(t)
       [] byte = 56 -> restore_cursor(t)
       [] byte = 68 -> index(t)
       [] byte = 69 -> new_line(t)
       [] byte = 77 -> reverse_index(t)
       [] byte = 99 -> [clear_screen(t) EXCEPT !.pen = DefaultPen,
                          !.visible = TRUE, !.alt = NoAlt, !.last = 32]
       [] byte = ESC -> [t EXCEPT !.mode = "esc"]
       [] OTHER -> t

write_output_byte(t, byte) ==
  CASE t.mode = "string" -> StringByte(t, byte)
    [] t.mode = "esc" -> EscByte(t, byte)
    [] t.mode = "csi" /\ byte \in 32..63 ->
         IF Len(t.seq) < ANSI_MAX_SEQ_LEN THEN [t EXCEPT !.seq = Append(@, byte)]
         ELSE reset_ansi_parser(t)
    [] t.mode = "csi" /\ byte = 109 -> reset_ansi_parser(apply_sgr_sequence(t))
    [] t.mode = "csi" /\ byte \in 64..126 /\ byte # 109 ->
         reset_ansi_parser(handle_csi_sequence(t, byte))
    [] t.mode = "csi" /\ byte \notin 32..126 -> reset_ansi_parser(t)
    [] t.mode = "text" /\ byte = ESC -> [t EXCEPT !.mode = "esc"]
    [] OTHER -> write_byte(t, byte)

write_bytes(t, bytes) ==
  show_cursor_overlay(FoldLeft(write_output_byte, hide_cursor_overlay(t), bytes))

(***************************************************************************)
(* Operations of the shell on its terminal: it echoes keys until a line is *)
(* entered, and while a child runs ("busy") it shows only what that prints.*)
(***************************************************************************)
prompt(t) == flush([write_bytes([t EXCEPT !.pen.fg = 95], PROMPT)
                      EXCEPT !.pen.fg = 97, !.busy = FALSE])

TermInit == term = prompt(clear_screen(NewTerminal)) /\ termleft = TermSteps

Draws(busy, t) ==
  termleft > 0 /\ term.busy = busy /\ termleft' = termleft - 1 /\ term' = t

echo == Draws(FALSE, flush(write_byte(term, 120)))

backspace == Draws(FALSE, flush(erase_previous_cell(term)))

enter == Draws(FALSE, prompt(write_byte(term, 10)))

clear == Draws(FALSE, prompt(clear_screen(write_byte(term, 10))))

run == Draws(FALSE, [write_byte(term, 10) EXCEPT !.busy = TRUE])

child_output == \E m \in Outputs : Draws(TRUE, flush(write_bytes(term, m)))

child_done == Draws(TRUE, prompt(term))

TermNext == echo \/ backspace \/ enter \/ clear \/ run \/ child_output \/ child_done

(***************************************************************************)
(* The framebuffer shows the cells: whatever mix of text, scrolling,       *)
(* insertions, deletions, screen switches and cursor moves was printed, no *)
(* position shows anything but its cell (inverted where the cursor was     *)
(* drawn), so a full redraw would change no character.                     *)
(***************************************************************************)
ScreenShowsCells ==
  \A r \in Rows, c \in Cols : term.shown[r][c].cell = term.cells[r][c]
=============================================================================
