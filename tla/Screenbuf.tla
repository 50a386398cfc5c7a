----------------------------- MODULE Screenbuf ------------------------------
(***************************************************************************)
(* The screen buffers, kernel/screenbuf.c, and the builtins that switch    *)
(* between them, kernel/nsh/builtins/utils.c.                              *)
(*                                                                         *)
(* top, viewport and cursor always point at the start of a line, so they   *)
(* are line numbers here; a pointer before sb->buf is a negative one.  A   *)
(* cell is BLANK (SB_WHITESPACE, which is no typed space) or a character   *)
(* with its colour.  Of the VGA memory the VGA_HEIGHT lines on display are *)
(* kept: what lies behind them is never shown.  An operation maps the      *)
(* buffer and the display to their new values.  No code of the kernel      *)
(* prints a tab, so sb_tabulation is left out.                             *)
(***************************************************************************)
EXTENDS Integers, Sequences

CONSTANTS VGA_WIDTH,   \* cells of a line (80)
          VGA_HEIGHT,  \* lines on display (25)
          SB_HEIGHT,   \* lines of a screen buffer (VGA_HEIGHT * 8)
          NBSCREENBUF, \* screen buffers (2 in kernel.c)
          NSH_BUFSIZE, \* the shell's line buffer (1024), one byte for the 0
          CHARS,       \* the printable characters
          BLANK

USHORT == 65536  \* values of an unsigned short

ASSUME ScreenbufAssumption ==
  /\ VGA_WIDTH \in Nat \ {0} /\ VGA_HEIGHT \in Nat \ {0}
  /\ VGA_WIDTH <= USHORT  \* offset is an unsigned short
  /\ SB_HEIGHT \in Nat /\ SB_HEIGHT > VGA_HEIGHT
  /\ NBSCREENBUF \in Nat \ {0}
  \* a command line never fills a screen buffer
  /\ NSH_BUFSIZE \in Nat \ {0} /\ NSH_BUFSIZE <= (SB_HEIGHT - 1) * VGA_WIDTH
  /\ CHARS # {} /\ BLANK \notin CHARS

Columns == 0 .. (VGA_WIDTH - 1)
Rows == 0 .. (VGA_HEIGHT - 1)
Lines == 0 .. (SB_HEIGHT - 1)
Screens == 0 .. (NBSCREENBUF - 1)
Cells == CHARS \cup {BLANK}
BlankLine == [k \in Columns |-> BLANK]

(***************************************************************************)
(* Positions in the circular buffer                                        *)
(***************************************************************************)

sb_ldiff(a, b) == IF a <= b THEN b - a ELSE (SB_HEIGHT - a) + b
sb_addline(a, n) == (a + n) % SB_HEIGHT

\* The cursor's distance from the first cell on display.
CursorPos(s) == sb_ldiff(s.viewport, s.cursor) * VGA_WIDTH + s.offset

\* cursor_update: what it makes of the cursor registers of the VGA.
cursor_update(hw, pos) ==
  IF pos < VGA_WIDTH * SB_HEIGHT THEN [on |-> TRUE, pos |-> pos]
                                 ELSE [hw EXCEPT !.on = FALSE]

\* sb_init; vga and hw are the display, threaded through the operations.
sb_init(vga, hw) ==
  [top |-> 0, viewport |-> 0, cursor |-> 0, offset |-> 0, loaded |-> FALSE,
   buf |-> [l \in Lines |-> BlankLine], vga |-> vga, hw |-> hw]

sb_sync(s) ==
  IF s.loaded
  THEN [s EXCEPT !.vga = [r \in Rows |-> s.buf[sb_addline(s.viewport, r)]],
                 !.hw  = cursor_update(s.hw, CursorPos(s))]
  ELSE s

\* Variant with a fault: nothing is copied.
sb_load_nosync(s) == [s EXCEPT !.loaded = TRUE]

sb_load(s) == sb_sync([s EXCEPT !.loaded = TRUE])
sb_unload(s) == [s EXCEPT !.loaded = FALSE]

(***************************************************************************)
(* Scrolling                                                               *)
(***************************************************************************)

sb_scroll_top(s) == sb_sync([s EXCEPT !.viewport = s.top])

\* The subtraction is on the bare pointer: it may leave the buffer.
sb_scroll_down(s) ==
  IF sb_ldiff(s.viewport, s.cursor) > VGA_HEIGHT
  THEN sb_sync([s EXCEPT !.viewport = s.cursor - (VGA_HEIGHT - 1)])
  ELSE s

abs(n) == IF n < 0 THEN -n ELSE n

\* Variant with a fault: one line more than there is room for.
sb_scroll_toofar(s, n) ==
  LET room == IF n < 0 THEN sb_ldiff(s.top, s.viewport)
              ELSE sb_ldiff(s.viewport, s.cursor) - (VGA_HEIGHT - 1)
  IN  IF room + 1 >= abs(n)
      THEN sb_sync([s EXCEPT !.viewport = sb_addline(s.viewport, n)])
      ELSE IF n < 0 THEN sb_scroll_top(s) ELSE sb_scroll_down(s)

sb_scroll(s, n) ==
  LET room == IF n < 0 THEN sb_ldiff(s.top, s.viewport)
              ELSE sb_ldiff(s.viewport, s.cursor) - (VGA_HEIGHT - 1)
  IN  IF room >= abs(n)
      THEN sb_sync([s EXCEPT !.viewport = sb_addline(s.viewport, n)])
      ELSE IF n < 0 THEN sb_scroll_top(s) ELSE sb_scroll_down(s)

(***************************************************************************)
(* Writing                                                                 *)
(***************************************************************************)

\* The cell under the cursor, in the buffer and, when its line is on display,
\* in the VGA.
sb_write_word(s, cell) ==
  LET row == sb_ldiff(s.viewport, s.cursor)
      t == [s EXCEPT !.buf[s.cursor][s.offset] = cell]
  IN  IF s.loaded /\ row < VGA_HEIGHT
      THEN [t EXCEPT !.vga[row][s.offset] = cell]
      ELSE t

\* Variant with a fault: the top does not move when the cursor reaches it.
sb_crlf_keeps_top(s) ==
  LET next == sb_addline(s.cursor, 1)
      a == [s EXCEPT !.offset = 0, !.cursor = next, !.buf[next] = BlankLine]
  IN  IF sb_ldiff(a.viewport, a.cursor) = VGA_HEIGHT THEN sb_scroll(a, 1) ELSE a

\* The new cursor line is blanked; when it was the top line, the top moves on
\* and takes a viewport that was there with it.
sb_crlf(s) ==
  LET next == sb_addline(s.cursor, 1)
      a == [s EXCEPT !.offset = 0, !.cursor = next, !.buf[next] = BlankLine]
      b == IF a.viewport = a.top
           THEN sb_sync([a EXCEPT !.viewport = sb_addline(a.top, 1)])
           ELSE a
      c == IF a.cursor = a.top THEN [b EXCEPT !.top = sb_addline(a.top, 1)] ELSE a
  IN  IF sb_ldiff(c.viewport, c.cursor) = VGA_HEIGHT THEN sb_scroll(c, 1) ELSE c

\* Cells of a line before the first blank one.
Used(line) ==
  CHOOSE k \in 0 .. VGA_WIDTH :
    /\ k = VGA_WIDTH \/ line[k] = BLANK
    /\ \A j \in 0 .. (k - 1) : line[j] # BLANK

\* From the start of a line the cursor goes behind the line above.
sb_backspace(s) ==
  LET up == IF s.viewport = s.cursor THEN sb_scroll(s, -1) ELSE s
      line == sb_addline(s.cursor, -1)
      back == [up EXCEPT !.cursor = line, !.offset = Used(up.buf[line])]
      from == IF s.offset = 0 THEN back ELSE s
  IN  IF s.offset = 0 /\ s.cursor = s.top THEN s
      ELSE LET t == [from EXCEPT !.offset = (from.offset - 1) % USHORT]
           IN  sb_write_word(t, BLANK)

\* Variant with a fault: the line is left one character late.
sb_regular_late(s, c) ==
  LET t == [sb_write_word(s, c) EXCEPT !.offset = s.offset + 1]
  IN  IF t.offset > VGA_WIDTH THEN sb_crlf(t) ELSE t

\* The write past the lines on display that the code does not rule out here
\* falls behind them.
sb_regular(s, c) ==
  LET t == [sb_write_word(s, c) EXCEPT !.offset = s.offset + 1]
  IN  IF t.offset = VGA_WIDTH THEN sb_crlf(t) ELSE t

\* The end of sb_putchar: the registers are set, loaded or not.
PlaceCursor(s) == [s EXCEPT !.hw = cursor_update(s.hw, CursorPos(s))]

\* sb_putchar for a printable character, '\n' and '\b'.
sb_putchar(s, c) == PlaceCursor(sb_regular(s, c))
sb_putnl(s) == PlaceCursor(sb_crlf(s))
sb_putback(s) == PlaceCursor(sb_backspace(s))

sb_clear(s) == sb_sync([sb_init(s.vga, s.hw) EXCEPT !.loaded = s.loaded])

-----------------------------------------------------------------------------
VARIABLES sb,          \* the screen buffers
          sb_current,  \* the number of the current one
          vga,         \* the lines on display
          hw,          \* the cursor registers
          typed,       \* nsh_bufindex: typed characters that can be erased
          wiped,       \* history: the last command was clear
          misled       \* history: sb_diff has been given a viewport before the
                       \* buffer and answered wrongly

sbvars == <<sb, sb_current, vga, hw, typed, wiped, misled>>

\* A buffer with the display it writes to, and back.
Fields(s) == [top |-> s.top, viewport |-> s.viewport, cursor |-> s.cursor,
              offset |-> s.offset, loaded |-> s.loaded, buf |-> s.buf]
WithDisplay(s) ==
  [top |-> s.top, viewport |-> s.viewport, cursor |-> s.cursor,
   offset |-> s.offset, loaded |-> s.loaded, buf |-> s.buf,
   vga |-> vga, hw |-> hw]

\* kernel_main: every buffer gets the welcome line, the first one is loaded.
SInit ==
  LET dark == [r \in Rows |-> BlankLine]
      c == CHOOSE x \in CHARS : TRUE
      welcome == sb_putnl(sb_putchar(sb_init(dark, [on |-> TRUE, pos |-> 0]), c))
      first == sb_load(welcome)
  IN  /\ sb = [i \in Screens |-> Fields(IF i = 0 THEN first ELSE welcome)]
      /\ sb_current = 0
      /\ vga = first.vga
      /\ hw = first.hw
      /\ typed = 0
      /\ wiped = FALSE
      /\ misled = FALSE

\* sb_diff takes the viewport for a pointer into the buffer; with the cursor
\* at the far end of it, the distance comes out a whole buffer too long.
Misleads(s) ==
  sb_ldiff(s.viewport, s.cursor) # sb_ldiff(s.viewport % SB_HEIGHT, s.cursor)

\* The current buffer becomes s, and the display what s made of it.
SetCurrent(s) ==
  /\ sb' = [sb EXCEPT ![sb_current] = Fields(s)]
  /\ vga' = s.vga
  /\ hw' = s.hw
  /\ misled' = (misled \/ Misleads(s))

Current == WithDisplay(sb[sb_current])

(***************************************************************************)
(* What the kernel prints, between two prompts                             *)
(***************************************************************************)
PrintChar(c) ==
  /\ typed = 0
  /\ SetCurrent(sb_putchar(Current, c))
  /\ wiped' = FALSE
  /\ UNCHANGED <<sb_current, typed>>

PrintNewline ==
  /\ typed = 0
  /\ SetCurrent(sb_putnl(Current))
  /\ wiped' = FALSE
  /\ UNCHANGED <<sb_current, typed>>

(***************************************************************************)
(* What the user types: nsh_addchar scrolls down first                     *)
(***************************************************************************)
TypeChar(c) ==
  /\ \/ /\ typed < NSH_BUFSIZE - 1
        /\ SetCurrent(sb_putchar(sb_scroll_down(Current), c))
        /\ typed' = typed + 1
     \/ /\ typed >= NSH_BUFSIZE - 1
        /\ SetCurrent(sb_scroll_down(Current))
        /\ UNCHANGED typed
  /\ wiped' = FALSE
  /\ UNCHANGED sb_current

TypeEnter ==
  /\ SetCurrent(sb_putnl(sb_scroll_down(Current)))
  /\ typed' = 0
  /\ wiped' = FALSE
  /\ UNCHANGED sb_current

TypeBackspace ==
  /\ \/ typed > 0 /\ SetCurrent(sb_putback(sb_scroll_down(Current)))
     \/ typed = 0 /\ SetCurrent(sb_scroll_down(Current))
  /\ typed' = IF typed > 0 THEN typed - 1 ELSE 0
  /\ wiped' = FALSE
  /\ UNCHANGED sb_current

(***************************************************************************)
(* nsh_shortcut and the builtins clear, next and prev                      *)
(***************************************************************************)
Shortcut(s) ==
  /\ SetCurrent(s)
  /\ wiped' = FALSE
  /\ UNCHANGED <<sb_current, typed>>

CursorUp == Shortcut(sb_scroll(Current, -1))
CursorDown == Shortcut(sb_scroll(Current, 1))
PageUp == Shortcut(sb_scroll_top(Current))
PageDown == Shortcut(sb_scroll_down(Current))

clear ==
  /\ typed = 0
  /\ SetCurrent(sb_clear(Current))
  /\ wiped' = TRUE
  /\ UNCHANGED <<sb_current, typed>>

\* The current buffer is unloaded, screen i loaded.
SwitchTo(i) ==
  LET left == [sb EXCEPT ![sb_current] = Fields(sb_unload(Current))]
      s == sb_load(WithDisplay(left[i]))
  IN  /\ typed = 0
      /\ sb' = [left EXCEPT ![i] = Fields(s)]
      /\ sb_current' = i
      /\ vga' = s.vga
      /\ hw' = s.hw
      /\ wiped' = FALSE
      /\ UNCHANGED <<typed, misled>>

next == SwitchTo(IF sb_current + 1 = NBSCREENBUF THEN 0 ELSE sb_current + 1)
prev == SwitchTo(IF sb_current - 1 < 0 THEN NBSCREENBUF - 1 ELSE sb_current - 1)

SNext ==
  \/ \E c \in CHARS : PrintChar(c) \/ TypeChar(c)
  \/ PrintNewline
  \/ TypeEnter
  \/ TypeBackspace
  \/ CursorUp \/ CursorDown \/ PageUp \/ PageDown
  \/ clear \/ next \/ prev

SSpec == SInit /\ [][SNext]_sbvars

-----------------------------------------------------------------------------
\* Positions stay on lines of the buffer; the viewport may lie before it.
STypeOK ==
  /\ sb_current \in Screens
  /\ \A i \in Screens :
       /\ sb[i].top \in Lines /\ sb[i].cursor \in Lines
       /\ sb[i].viewport \in -(VGA_HEIGHT - 1) .. (SB_HEIGHT - 1)
       /\ sb[i].offset \in Columns
       /\ sb[i].buf \in [Lines -> [Columns -> Cells]]
  /\ vga \in [Rows -> [Columns -> Cells]]
  /\ typed \in 0 .. (NSH_BUFSIZE - 1)
  /\ {wiped, misled} \subseteq BOOLEAN

\* The lines of the current buffer that should be on display.
Window == LET s == sb[sb_current]
          IN  [r \in Rows |-> s.buf[sb_addline(s.viewport, r)]]

\* The display shows the lines of the current buffer from its viewport on, and a
\* cursor exactly when the buffer's own is on one of them, and there: a register
\* value behind the last cell shows none.
Mirrored ==
  LET s == sb[sb_current]
      pos == sb_ldiff(s.viewport % SB_HEIGHT, s.cursor) * VGA_WIDTH + s.offset
      cells == VGA_WIDTH * VGA_HEIGHT
  IN  /\ vga = Window
      /\ (hw.on /\ hw.pos < cells) <=> pos < cells
      /\ pos < cells => hw.pos = pos

\* The display mirrors the current buffer, though sb_crlf, sb_regular and
\* sb_write_word touch single cells and only sb_sync copies whole lines; until
\* sb_diff is misled.
DisplayMirrorsBuffer == ~misled => Mirrored

\* What the comments say without that condition: sb_sync synchronizes the VGA
\* buffer, sb_regular writes "on the VGA buffer if loaded", and the pointers
\* given to sb_diff "must point inside @sb->buf".
DisplayAlwaysMirrors == Mirrored

\* The display never starts above the oldest line or below the cursor (the
\* comment of sb_scroll), across all wraps of the circular buffer, as long as
\* sb_diff was not misled.
ViewWithinHistory ==
  ~misled => \A i \in Screens :
    LET s == sb[i]
    IN  sb_ldiff(s.top, s.viewport % SB_HEIGHT) <= sb_ldiff(s.top, s.cursor)

\* Each buffer is the queue of the last SB_HEIGHT lines written to it; only
\* clear forgets more than the line that makes room for a new one.
Page(s) == [k \in 1 .. (sb_ldiff(s.top, s.cursor) + 1) |->
              s.buf[sb_addline(s.top, k - 1)]]
SB == INSTANCE Scrollback
        WITH SCREENS <- Screens, CELLS <- Cells, wiped <- wiped,
             pages   <- [i \in Screens |-> Page(sb[i])],
             column  <- [i \in Screens |-> sb[i].offset]
KeepsLastLines == SB!PSpec
=============================================================================
