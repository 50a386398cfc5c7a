-------------------------- MODULE ScreenbufProofs ---------------------------
(***************************************************************************)
(* Proofs about the screen buffers, for every size of the display, of the  *)
(* buffers and of the command line and any number of screens: positions    *)
(* stay in the buffer, the display mirrors it, and each buffer is the      *)
(* queue of its last lines.                                                *)
(***************************************************************************)
EXTENDS Screenbuf, TLAPS, SequenceTheorems

\* Lines of a buffer are counted from its top: the cursor is on line Depth,
\* the display starts at line Height.
Line(s, k) == s.buf[sb_addline(s.top, k)]
Depth(s) == sb_ldiff(s.top, s.cursor)
Height(s) == sb_ldiff(s.top, s.viewport % SB_HEIGHT)

\* The lines after the cursor's are blank.
Below(s) == \A k \in Lines : k > Depth(s) => Line(s, k) = BlankLine

\* The cursor's line is written up to the cursor; what follows is blank.
TextOK(s) ==
  /\ s.offset \in Columns
  /\ \A j \in Columns : j < s.offset <=> Line(s, Depth(s))[j] # BLANK
  /\ Below(s)

\* The last n characters can be erased: they are in the buffer, and the lines
\* before the cursor's that hold some of them are full.
TypedOK(s, n) ==
  /\ n <= Depth(s) * VGA_WIDTH + s.offset
  /\ \A k \in Lines :
       k < Depth(s) /\ n > s.offset + (Depth(s) - k - 1) * VGA_WIDTH =>
         \A j \in Columns : Line(s, k)[j] # BLANK

\* The display starts at or above the cursor and does not reach around to the
\* top; a viewport before the buffer has the cursor on display.
ViewOK(s) ==
  /\ Height(s) <= Depth(s)
  /\ Height(s) <= SB_HEIGHT - VGA_HEIGHT
  /\ s.viewport < 0 => s.cursor - s.viewport < VGA_HEIGHT

\* What sb_sync copies, and where it puts the cursor.
Shown(s) == [r \in Rows |-> s.buf[sb_addline(s.viewport, r)]]
Placed(s) == [on |-> TRUE, pos |-> CursorPos(s)]

Texts == [Lines -> [Columns -> Cells]]
Displays == [Rows -> [Columns -> Cells]]
Registers == [on : BOOLEAN, pos : Int]
Views == -(VGA_HEIGHT - 1) .. (SB_HEIGHT - 1)

\* Screen buffers, and the same with the display.
Buffers == [top : Lines, viewport : Views, cursor : Lines, offset : Int,
            loaded : BOOLEAN, buf : Texts]
Bufs == [top : Lines, viewport : Views, cursor : Lines, offset : Int,
         loaded : BOOLEAN, buf : Texts, vga : Displays, hw : Registers]

\* The registers hold the cursor's distance even when it is not on display.
MirrorInv ==
  ~misled => vga = Window /\ hw = Placed(sb[sb_current])

\* The inductive invariant.
SInv ==
  /\ sb_current \in Screens
  /\ sb \in [Screens -> Buffers]
  /\ vga \in Displays /\ hw \in Registers
  /\ typed \in 0 .. (NSH_BUFSIZE - 1)
  /\ wiped \in BOOLEAN /\ misled \in BOOLEAN
  /\ \A i \in Screens : TextOK(sb[i]) /\ (sb[i].loaded <=> i = sb_current)
  /\ TypedOK(sb[sb_current], typed)
  /\ ~misled => \A i \in Screens : ViewOK(sb[i])
  /\ MirrorInv

-----------------------------------------------------------------------------
(***************************************************************************)
(* Positions in the circular buffer                                        *)
(***************************************************************************)

\* The sizes as numbers.
LEMMA Sizes ==
  /\ VGA_WIDTH \in Nat /\ VGA_HEIGHT \in Nat /\ SB_HEIGHT \in Nat
  /\ VGA_WIDTH > 0 /\ VGA_HEIGHT > 0 /\ SB_HEIGHT > VGA_HEIGHT
BY ScreenbufAssumption

\* Remainders next to the buffer.
LEMMA Remainders ==
  ASSUME NEW h \in Nat, h > 0, NEW x \in Int
  PROVE  /\ 0 <= x /\ x < h => x % h = x
         /\ h <= x /\ x < h + h => x % h = x - h
         /\ x < 0 /\ -h <= x => x % h = x + h
<1>1. x % h \in 0 .. h - 1 /\ x = h * (x \div h) + (x % h) /\ x \div h \in Int
  BY SMT
<1>2. \A q \in Int, r \in 0 .. h - 1 : x = h * q + r =>
        /\ 0 <= x /\ x < h => q = 0
        /\ h <= x /\ x < h + h => q = 1
        /\ x < 0 /\ -h <= x => q = -1
  <2> SUFFICES ASSUME NEW q \in Int, NEW r \in 0 .. h - 1, x = h * q + r
               PROVE  /\ 0 <= x /\ x < h => q = 0
                      /\ h <= x /\ x < h + h => q = 1
                      /\ x < 0 /\ -h <= x => q = -1
    OBVIOUS
  <2>1. q >= 2 => h * q >= h + h
    BY SMT
  <2>2. q <= -2 => h * q <= -h - h
    BY SMT
  <2>3. q >= 1 => h * q >= h
    BY SMT
  <2>4. q <= -1 => h * q <= -h
    BY SMT
  <2>5. h * 0 = 0 /\ h * 1 = h /\ h * (-1) = -h
    BY SMT
  <2>6. q <= -2 \/ q = -1 \/ q = 0 \/ q = 1 \/ q >= 2
    BY SMT
  <2> QED
    BY <2>1, <2>2, <2>3, <2>4, <2>5, <2>6, SMT
<1>3. h * 0 = 0 /\ h * 1 = h /\ h * (-1) = -h
  BY SMT
<1> QED
  BY <1>1, <1>2, <1>3, SMT

\* sb_addline wraps at both ends of the buffer.
LEMMA AddLine ==
  ASSUME NEW a \in Int, NEW n \in Int, -SB_HEIGHT <= a + n, a + n < SB_HEIGHT + SB_HEIGHT
  PROVE  /\ sb_addline(a, n) \in Lines
         /\ sb_addline(a, n) = IF a + n < 0 THEN a + n + SB_HEIGHT
                               ELSE IF a + n < SB_HEIGHT THEN a + n
                               ELSE a + n - SB_HEIGHT
<1>1. a + n \in Int /\ SB_HEIGHT \in Nat /\ SB_HEIGHT > 0
  BY Sizes
<1>2. /\ 0 <= a + n /\ a + n < SB_HEIGHT => (a + n) % SB_HEIGHT = a + n
      /\ SB_HEIGHT <= a + n => (a + n) % SB_HEIGHT = a + n - SB_HEIGHT
      /\ a + n < 0 => (a + n) % SB_HEIGHT = a + n + SB_HEIGHT
  BY <1>1, Remainders
<1>3. (a + n) % SB_HEIGHT \in Lines
  BY <1>1, SMT DEF Lines
<1> QED
  BY <1>1, <1>2, <1>3, SMT DEF sb_addline

\* The sum of two lines.
LEMMA AddLines ==
  ASSUME NEW a \in Lines, NEW n \in Lines
  PROVE  /\ sb_addline(a, n) \in Lines
         /\ sb_addline(a, n) = IF a + n < SB_HEIGHT THEN a + n ELSE a + n - SB_HEIGHT
<1>1. /\ a \in Int /\ n \in Int /\ 0 <= a + n
      /\ -SB_HEIGHT <= a + n /\ a + n < SB_HEIGHT + SB_HEIGHT
  BY Sizes DEF Lines
<1>2. /\ sb_addline(a, n) \in Lines
      /\ sb_addline(a, n) = IF a + n < 0 THEN a + n + SB_HEIGHT
                            ELSE IF a + n < SB_HEIGHT THEN a + n
                            ELSE a + n - SB_HEIGHT
  BY <1>1, AddLine
<1> QED
  BY <1>1, <1>2

\* Counting lines from any line is a bijection.
LEMMA Ring ==
  ASSUME NEW t \in Lines, NEW l \in Lines
  PROVE  /\ sb_ldiff(t, l) \in Lines
         /\ sb_addline(t, sb_ldiff(t, l)) = l
         /\ sb_addline(t, l) \in Lines
         /\ sb_ldiff(t, sb_addline(t, l)) = l
<1>1. t \in Int /\ l \in Int /\ 0 <= t /\ t < SB_HEIGHT /\ 0 <= l /\ l < SB_HEIGHT
      /\ SB_HEIGHT \in Nat
  BY Sizes DEF Lines
<1>2. sb_ldiff(t, l) = IF t <= l THEN l - t ELSE SB_HEIGHT - t + l
  BY DEF sb_ldiff
<1>3. sb_ldiff(t, l) \in Int /\ 0 <= sb_ldiff(t, l) /\ sb_ldiff(t, l) < SB_HEIGHT
  BY <1>1, <1>2
<1>4. sb_addline(t, sb_ldiff(t, l)) = l
  <2> DEFINE d == sb_ldiff(t, l)
  <2> HIDE DEF d
  <2>1. d \in Int /\ d = (IF t <= l THEN l - t ELSE SB_HEIGHT - t + l)
    BY <1>2, <1>3 DEF d
  <2>2. sb_addline(t, d) = IF t + d < 0 THEN t + d + SB_HEIGHT
                               ELSE IF t + d < SB_HEIGHT THEN t + d
                               ELSE t + d - SB_HEIGHT
    BY <1>1, <2>1, AddLine
  <2>3. sb_addline(t, d) = l
    BY <1>1, <2>1, <2>2
  <2> QED
    BY <2>3 DEF d
<1>5. sb_addline(t, l) \in Lines /\
      sb_addline(t, l) = (IF t + l < SB_HEIGHT THEN t + l ELSE t + l - SB_HEIGHT)
  BY <1>1, AddLine
<1>6. sb_ldiff(t, sb_addline(t, l)) = l
  BY <1>1, <1>5 DEF sb_ldiff
<1> QED
  BY <1>1, <1>3, <1>4, <1>5, <1>6 DEF Lines

\* The viewport as a line of the buffer.
LEMMA ViewLine ==
  ASSUME NEW v \in Views
  PROVE  /\ v \in Int /\ -VGA_HEIGHT < v /\ v < SB_HEIGHT
         /\ v % SB_HEIGHT \in Lines
         /\ v % SB_HEIGHT = IF v < 0 THEN v + SB_HEIGHT ELSE v
<1>1. v \in Int /\ -VGA_HEIGHT < v /\ v < SB_HEIGHT
  BY Sizes DEF Views
<1>2. /\ 0 <= v => v % SB_HEIGHT = v
      /\ v < 0 => v % SB_HEIGHT = v + SB_HEIGHT
  BY <1>1, Sizes, Remainders
<1> QED
  BY <1>1, <1>2, Sizes, SMT DEF Lines

\* Where the cursor is on the display, and which lines are on it.
LEMMA RowIs ==
  ASSUME NEW s, s.top \in Lines, s.cursor \in Lines, s.viewport \in Views, ViewOK(s)
  PROVE  /\ Depth(s) \in Lines /\ Height(s) \in Lines
         /\ sb_ldiff(s.viewport, s.cursor) = Depth(s) - Height(s)
         /\ sb_ldiff(s.viewport, s.cursor) \in Lines
         /\ ~Misleads(s)
         /\ \A r \in Rows :
              /\ Height(s) + r \in Lines
              /\ sb_addline(s.viewport, r) = sb_addline(s.top, Height(s) + r)
              /\ sb_addline(s.viewport, r) \in Lines
              /\ sb_addline(s.viewport, r) = s.cursor <=> r = Depth(s) - Height(s)
<1> DEFINE t == s.top
           c == s.cursor
           v == s.viewport
           w == v % SB_HEIGHT
           e == Depth(s)
           h == Height(s)
<1>1. /\ t \in Int /\ 0 <= t /\ t < SB_HEIGHT
      /\ c \in Int /\ 0 <= c /\ c < SB_HEIGHT
      /\ v \in Int /\ -VGA_HEIGHT < v /\ v < SB_HEIGHT
      /\ w \in Int /\ 0 <= w /\ w < SB_HEIGHT
      /\ w = (IF v < 0 THEN v + SB_HEIGHT ELSE v)
  BY Sizes, ViewLine DEF Lines
<1>2. e \in Lines /\ h \in Lines
  BY Ring, ViewLine DEF Depth, Height
<1>3. /\ e \in Int /\ 0 <= e /\ e < SB_HEIGHT
      /\ h \in Int /\ 0 <= h /\ h < SB_HEIGHT
  BY <1>2, Sizes DEF Lines
<1>4. /\ e = (IF t <= c THEN c - t ELSE (SB_HEIGHT - t) + c)
      /\ h = (IF t <= w THEN w - t ELSE (SB_HEIGHT - t) + w)
      /\ sb_ldiff(v, c) = (IF v <= c THEN c - v ELSE (SB_HEIGHT - v) + c)
      /\ sb_ldiff(w, c) = (IF w <= c THEN c - w ELSE (SB_HEIGHT - w) + c)
  BY DEF Depth, Height, sb_ldiff
<1>5. /\ h <= e /\ h <= SB_HEIGHT - VGA_HEIGHT
      /\ v < 0 => c - v < VGA_HEIGHT
  BY DEF ViewOK
<1>6. ~Misleads(s) <=> sb_ldiff(v, c) = sb_ldiff(w, c)
  BY DEF Misleads
<1>7. ASSUME NEW r \in Rows
      PROVE  /\ h + r \in Lines
             /\ r \in Int /\ 0 <= r /\ r < VGA_HEIGHT
             /\ sb_addline(v, r) \in Lines
             /\ sb_addline(v, r) = IF v + r < 0 THEN v + r + SB_HEIGHT
                                   ELSE IF v + r < SB_HEIGHT THEN v + r
                                   ELSE v + r - SB_HEIGHT
             /\ sb_addline(t, h + r) = IF t + h + r < SB_HEIGHT THEN t + h + r
                                       ELSE t + h + r - SB_HEIGHT
  <2> HIDE DEF t, c, v, w, e, h
  <2>1. r \in Int /\ 0 <= r /\ r < VGA_HEIGHT
    BY Sizes DEF Rows
  <2>2. h + r \in Int /\ 0 <= h + r /\ h + r < SB_HEIGHT
    BY <1>3, <1>5, <2>1, Sizes
  <2>3. -SB_HEIGHT <= v + r /\ v + r < SB_HEIGHT + SB_HEIGHT
    BY <1>1, <2>1, Sizes
  <2>4. 0 <= t + (h + r) /\ t + (h + r) < SB_HEIGHT + SB_HEIGHT
        /\ t + (h + r) = t + h + r /\ -SB_HEIGHT <= t + (h + r)
    BY <1>1, <1>3, <2>1, <2>2, Sizes
  <2>5. sb_addline(t, h + r) = IF t + (h + r) < 0 THEN t + (h + r) + SB_HEIGHT
                               ELSE IF t + (h + r) < SB_HEIGHT THEN t + (h + r)
                               ELSE t + (h + r) - SB_HEIGHT
    BY <1>1, <2>2, <2>4, AddLine
  <2>6. sb_addline(t, h + r) = IF t + h + r < SB_HEIGHT THEN t + h + r
                               ELSE t + h + r - SB_HEIGHT
    BY <1>1, <1>3, <2>1, <2>4, <2>5, Sizes
  <2>7. h + r \in Lines
    BY <2>2, Sizes DEF Lines
  <2> QED
    BY <1>1, <2>1, <2>3, <2>6, <2>7, AddLine
<1> HIDE DEF t, c, v, w, e, h
<1>8. sb_ldiff(v, c) = e - h /\ sb_ldiff(v, c) = sb_ldiff(w, c)
  BY <1>1, <1>3, <1>4, <1>5, Sizes
<1>9. e - h \in Lines
  BY <1>3, <1>5, Sizes DEF Lines
<1>10. ASSUME NEW r \in Rows
       PROVE  /\ sb_addline(v, r) = sb_addline(t, h + r)
              /\ sb_addline(v, r) = c <=> r = e - h
  BY <1>1, <1>3, <1>4, <1>5, <1>7, Sizes
<1> QED
  BY <1>2, <1>6, <1>7, <1>8, <1>9, <1>10 DEF t, c, v, w, e, h

\* The viewports that sb_scroll, sb_scroll_top and sb_scroll_down choose.
LEMMA MoveView ==
  ASSUME NEW s, s.top \in Lines, s.cursor \in Lines, s.viewport \in Views, ViewOK(s),
         NEW u, u.top = s.top, u.cursor = s.cursor
  PROVE  /\ sb_ldiff(s.top, s.viewport) = Height(s)
         /\ Height(s) >= 1 /\ u.viewport = sb_addline(s.viewport, -1)
              => ViewOK(u) /\ u.viewport \in Lines /\ Height(u) = Height(s) - 1
         /\ Depth(s) - Height(s) >= VGA_HEIGHT /\ u.viewport = sb_addline(s.viewport, 1)
              => ViewOK(u) /\ u.viewport \in Lines
         /\ u.viewport = s.top => ViewOK(u)
         /\ Depth(s) - Height(s) > VGA_HEIGHT /\ u.viewport = s.cursor - (VGA_HEIGHT - 1)
              => ViewOK(u)
<1> DEFINE t == s.top
           c == s.cursor
           v == s.viewport
           w == v % SB_HEIGHT
           e == Depth(s)
           h == Height(s)
           v1 == u.viewport
           w1 == v1 % SB_HEIGHT
           h1 == Height(u)
<1>1. /\ t \in Int /\ 0 <= t /\ t < SB_HEIGHT
      /\ c \in Int /\ 0 <= c /\ c < SB_HEIGHT
      /\ v \in Int /\ -VGA_HEIGHT < v /\ v < SB_HEIGHT
      /\ w \in Int /\ 0 <= w /\ w < SB_HEIGHT
      /\ w = (IF v < 0 THEN v + SB_HEIGHT ELSE v)
  BY Sizes, ViewLine DEF Lines
<1>2. e \in Lines /\ h \in Lines
  BY Ring, ViewLine DEF Depth, Height
<1>3. /\ e \in Int /\ 0 <= e /\ e < SB_HEIGHT
      /\ h \in Int /\ 0 <= h /\ h < SB_HEIGHT
  BY <1>2, Sizes DEF Lines
<1>4. /\ e = (IF t <= c THEN c - t ELSE (SB_HEIGHT - t) + c)
      /\ h = (IF t <= w THEN w - t ELSE (SB_HEIGHT - t) + w)
      /\ sb_ldiff(t, v) = (IF t <= v THEN v - t ELSE (SB_HEIGHT - t) + v)
      /\ h1 = (IF t <= w1 THEN w1 - t ELSE (SB_HEIGHT - t) + w1)
  BY DEF Depth, Height, sb_ldiff
<1>5. /\ h <= e /\ h <= SB_HEIGHT - VGA_HEIGHT
      /\ v < 0 => c - v < VGA_HEIGHT
  BY DEF ViewOK
<1>6. ViewOK(u) <=> /\ h1 <= e /\ h1 <= SB_HEIGHT - VGA_HEIGHT
                    /\ v1 < 0 => c - v1 < VGA_HEIGHT
  BY DEF ViewOK, Depth
<1>7. /\ v1 \in Views => /\ v1 \in Int /\ -VGA_HEIGHT < v1 /\ v1 < SB_HEIGHT
                         /\ w1 \in Int /\ w1 = (IF v1 < 0 THEN v1 + SB_HEIGHT ELSE v1)
      /\ \A x \in Lines : x \in Views /\ x \in Int /\ 0 <= x
  <2>1. v1 \in Views => /\ v1 \in Int /\ -VGA_HEIGHT < v1 /\ v1 < SB_HEIGHT
                        /\ w1 \in Int /\ w1 = (IF v1 < 0 THEN v1 + SB_HEIGHT ELSE v1)
    BY ViewLine, Sizes DEF Lines
  <2>2. \A x \in Lines : x \in Views /\ x \in Int /\ 0 <= x
    BY Sizes DEF Lines, Views
  <2> QED
    BY <2>1, <2>2
<1>8. /\ sb_addline(v, 1) \in Lines /\ sb_addline(v, -1) \in Lines
      /\ sb_addline(v, 1) = (IF v + 1 < 0 THEN v + 1 + SB_HEIGHT
                             ELSE IF v + 1 < SB_HEIGHT THEN v + 1 ELSE v + 1 - SB_HEIGHT)
      /\ sb_addline(v, -1) = (IF v - 1 < 0 THEN v - 1 + SB_HEIGHT ELSE v - 1)
  <2> HIDE DEF t, c, v, w, e, h
  <2>1. v + (-1) = v - 1
    BY <1>1
  <2>2. /\ -SB_HEIGHT <= v + 1 /\ v + 1 < SB_HEIGHT + SB_HEIGHT
        /\ -SB_HEIGHT <= v + (-1) /\ v + (-1) < SB_HEIGHT
    BY <1>1, Sizes
  <2>3. /\ sb_addline(v, -1) \in Lines
        /\ sb_addline(v, -1) = IF v + (-1) < 0 THEN v + (-1) + SB_HEIGHT
                               ELSE IF v + (-1) < SB_HEIGHT THEN v + (-1)
                               ELSE v + (-1) - SB_HEIGHT
    BY <1>1, <2>2, Sizes, AddLine
  <2>4. /\ sb_addline(v, 1) \in Lines
        /\ sb_addline(v, 1) = IF v + 1 < 0 THEN v + 1 + SB_HEIGHT
                               ELSE IF v + 1 < SB_HEIGHT THEN v + 1
                               ELSE v + 1 - SB_HEIGHT
    BY <1>1, <2>2, Sizes, AddLine
  <2> QED
    BY <2>1, <2>2, <2>3, <2>4, <1>1, Sizes
<1>9. t \in Lines
  OBVIOUS
<1>10. c - (VGA_HEIGHT - 1) \in Views
  BY <1>1, Sizes DEF Views
<1> HIDE DEF t, c, v, w, e, h, v1, w1, h1
<1>11. sb_ldiff(t, v) = h
  BY <1>1, <1>3, <1>4, <1>5, Sizes
<1>12. ASSUME h >= 1, v1 = sb_addline(v, -1)
       PROVE  ViewOK(u) /\ v1 \in Lines /\ h1 = h - 1
  <2>1. v1 \in Lines /\ v1 \in Int /\ 0 <= v1 /\ w1 = v1
    BY <1>7, <1>8, <1>12
  <2>2. h1 = h - 1
    BY <2>1, <1>1, <1>3, <1>4, <1>5, <1>8, <1>12, Sizes
  <2> QED
    BY <2>1, <2>2, <1>3, <1>5, <1>6, Sizes
<1>13. ASSUME e - h >= VGA_HEIGHT, v1 = sb_addline(v, 1)
       PROVE  ViewOK(u) /\ v1 \in Lines
  <2>1. v1 \in Lines /\ v1 \in Int /\ 0 <= v1 /\ w1 = v1
    BY <1>7, <1>8, <1>13
  <2>2. h1 = h + 1
    BY <2>1, <1>1, <1>3, <1>4, <1>5, <1>8, <1>13, Sizes
  <2> QED
    BY <2>1, <2>2, <1>3, <1>5, <1>6, <1>13, Sizes
<1>14. ASSUME v1 = t
       PROVE  ViewOK(u)
  <2>1. w1 = t
    BY <1>1, <1>7, <1>9, <1>14
  <2>2. h1 = 0
    BY <1>1, <1>4, <2>1
  <2> QED
    BY <1>1, <2>2, <1>3, <1>6, <1>14, Sizes
<1>15. ASSUME e - h > VGA_HEIGHT, v1 = c - (VGA_HEIGHT - 1)
       PROVE  ViewOK(u)
  <2>1. v1 \in Int /\ w1 \in Int /\ w1 = (IF v1 < 0 THEN v1 + SB_HEIGHT ELSE v1)
    BY <1>7, <1>10, <1>15
  <2>2. h1 = e - (VGA_HEIGHT - 1)
    BY <2>1, <1>1, <1>3, <1>4, <1>5, <1>15, Sizes
  <2> QED
    BY <2>1, <2>2, <1>1, <1>3, <1>5, <1>6, <1>15, Sizes
<1> QED
  BY <1>11, <1>12, <1>13, <1>14, <1>15 DEF t, c, v, w, e, h, v1, w1, h1

\* A product of naturals is a natural, and so grows with its factors.
LEMMA Product ==
  ASSUME NEW a \in Nat, NEW b \in Nat
  PROVE  a * b \in Nat
BY SMT

\* The cursor is in the buffer, as cursor_update wants it.
LEMMA PosFits ==
  ASSUME NEW s, s.top \in Lines, s.cursor \in Lines, s.viewport \in Views, ViewOK(s),
         s.offset \in Columns
  PROVE  CursorPos(s) \in Nat /\ CursorPos(s) < VGA_WIDTH * SB_HEIGHT
<1> DEFINE r == sb_ldiff(s.viewport, s.cursor)
           o == s.offset
<1>1. r \in Nat /\ r < SB_HEIGHT /\ o \in Nat /\ o < VGA_WIDTH
  BY RowIs, Sizes DEF Lines, Columns
<1>2. CursorPos(s) = r * VGA_WIDTH + o
  BY DEF CursorPos
<1> HIDE DEF r, o
<1>3. SB_HEIGHT - 1 - r \in Nat
  BY <1>1, Sizes
<1>4. r * VGA_WIDTH \in Nat /\ (SB_HEIGHT - 1 - r) * VGA_WIDTH \in Nat
  BY <1>1, <1>3, Sizes, Product
<1>5. VGA_WIDTH * SB_HEIGHT
        = r * VGA_WIDTH + (SB_HEIGHT - 1 - r) * VGA_WIDTH + VGA_WIDTH
  BY <1>1, Sizes
<1> QED
  BY <1>1, <1>2, <1>4, <1>5, Sizes

-----------------------------------------------------------------------------
(***************************************************************************)
(* Scrolling                                                               *)
(***************************************************************************)

\* u differs from s at most in what is on display.
SameText(s, u) ==
  /\ u.top = s.top /\ u.cursor = s.cursor /\ u.offset = s.offset
  /\ u.loaded = s.loaded /\ u.buf = s.buf

\* The display shows the buffer and the cursor.
Mirrors(s) == s.vga = Shown(s) /\ s.hw = Placed(s)

\* What the display shows is lines of the buffer.
LEMMA ShownType ==
  ASSUME NEW s, s.viewport \in Views, s.buf \in Texts
  PROVE  Shown(s) \in Displays
<1> SUFFICES ASSUME NEW r \in Rows
             PROVE  s.buf[sb_addline(s.viewport, r)] \in [Columns -> Cells]
  BY DEF Shown, Displays
<1>1. sb_addline(s.viewport, r) \in Lines
  <2>1. /\ s.viewport \in Int /\ r \in Int
        /\ -SB_HEIGHT <= s.viewport + r /\ s.viewport + r < SB_HEIGHT + SB_HEIGHT
    BY ViewLine, Sizes DEF Rows
  <2> QED
    BY <2>1, AddLine
<1> QED
  BY <1>1 DEF Texts

\* The cursor's distance is an integer, whatever the viewport.
LEMMA PosType ==
  ASSUME NEW s, s.viewport \in Views, s.cursor \in Lines, s.offset \in Int
  PROVE  CursorPos(s) \in Int
<1>1. sb_ldiff(s.viewport, s.cursor) \in Int
  BY ViewLine, Sizes DEF Lines, sb_ldiff
<1> QED
  BY <1>1, Sizes DEF CursorPos

\* The registers keep their type; a position in the buffer shows the cursor.
LEMMA CursorUpdate ==
  ASSUME NEW reg \in Registers, NEW pos \in Int
  PROVE  /\ cursor_update(reg, pos) \in Registers
         /\ pos < VGA_WIDTH * SB_HEIGHT
              => cursor_update(reg, pos) = [on |-> TRUE, pos |-> pos]
BY DEF cursor_update, Registers

\* sb_sync copies the buffer to the display if it is loaded.
LEMMA SyncIs ==
  ASSUME NEW s \in Bufs
  PROVE  /\ sb_sync(s) \in Bufs
         /\ sb_sync(s).viewport = s.viewport
         /\ SameText(s, sb_sync(s))
         /\ s.loaded => sb_sync(s).vga = Shown(sb_sync(s))
         /\ s.loaded /\ s.offset \in Columns /\ ViewOK(s) => Mirrors(sb_sync(s))
<1> DEFINE u == [s EXCEPT !.vga = Shown(s), !.hw = cursor_update(s.hw, CursorPos(s))]
<1>1. /\ s.viewport \in Views /\ s.buf \in Texts /\ s.cursor \in Lines /\ s.offset \in Int
      /\ s.hw \in Registers /\ s.top \in Lines /\ s.loaded \in BOOLEAN
  BY DEF Bufs
<1>2. Shown(s) \in Displays /\ cursor_update(s.hw, CursorPos(s)) \in Registers
  BY <1>1, ShownType, PosType, CursorUpdate
<1>3. sb_sync(s) = IF s.loaded THEN u ELSE s
  BY DEF sb_sync, Shown
<1>4. /\ u \in Bufs /\ u.viewport = s.viewport /\ SameText(s, u)
      /\ u.vga = Shown(s) /\ u.hw = cursor_update(s.hw, CursorPos(s))
  BY <1>2 DEF Bufs, SameText
<1>5. ASSUME s.offset \in Columns, ViewOK(s)
      PROVE  Mirrors(u)
  <2>1. cursor_update(s.hw, CursorPos(s)) = Placed(s)
    BY <1>1, <1>5, PosFits, PosType, CursorUpdate DEF Placed
  <2>2. Shown(u) = Shown(s)
    BY <1>4 DEF Shown, SameText
  <2>3. Placed(u) = Placed(s)
    BY <1>4 DEF Placed, CursorPos, SameText
  <2> QED
    BY <1>4, <2>1, <2>2, <2>3 DEF Mirrors
<1>6. u.vga = Shown(u)
  BY <1>4 DEF Shown, SameText
<1> HIDE DEF u
<1> QED
  BY <1>1, <1>3, <1>4, <1>5, <1>6 DEF SameText

\* A buffer with the viewport moved, and copied to the display.
LEMMA MovedIs ==
  ASSUME NEW s \in Bufs, NEW v \in Views
  PROVE  LET a == [s EXCEPT !.viewport = v]
             u == sb_sync(a)
         IN  /\ a \in Bufs /\ a.viewport = v /\ SameText(s, a)
             /\ u \in Bufs /\ u.viewport = v /\ SameText(s, u)
             /\ s.loaded => u.vga = Shown(u)
             /\ s.loaded /\ s.offset \in Columns /\ ViewOK(a) => Mirrors(u)
<1> DEFINE a == [s EXCEPT !.viewport = v]
<1>1. a \in Bufs /\ a.viewport = v /\ SameText(s, a)
  BY DEF Bufs, SameText
<1> HIDE DEF a
<1>2. /\ sb_sync(a) \in Bufs /\ sb_sync(a).viewport = v /\ SameText(a, sb_sync(a))
      /\ a.loaded => sb_sync(a).vga = Shown(sb_sync(a))
      /\ a.loaded /\ a.offset \in Columns /\ ViewOK(a) => Mirrors(sb_sync(a))
  BY <1>1, SyncIs
<1>3. SameText(s, sb_sync(a)) /\ a.loaded = s.loaded /\ a.offset = s.offset
  BY <1>1, <1>2 DEF SameText
<1> QED
  BY <1>1, <1>2, <1>3 DEF a

\* ViewOK is about the three positions only.
LEMMA ViewSame ==
  ASSUME NEW s, NEW u, SameText(s, u), u.viewport = s.viewport
  PROVE  ViewOK(u) <=> ViewOK(s)
BY DEF ViewOK, SameText, Depth, Height

\* Scrolling leaves the text alone and keeps the display a mirror.
ScrollFacts(s, u) ==
  /\ u \in Bufs /\ SameText(s, u)
  /\ ViewOK(s) => ViewOK(u)
  /\ s.loaded /\ s.offset \in Columns /\ ViewOK(s) /\ Mirrors(s) => Mirrors(u)

\* A viewport that keeps the view in the history is as good as any.
LEMMA MovedScrolls ==
  ASSUME NEW s \in Bufs, NEW v \in Views,
         ViewOK(s) => ViewOK([s EXCEPT !.viewport = v])
  PROVE  ScrollFacts(s, sb_sync([s EXCEPT !.viewport = v]))
<1> DEFINE a == [s EXCEPT !.viewport = v]
           u == sb_sync(a)
<1>1. /\ a \in Bufs /\ a.viewport = v /\ SameText(s, a)
      /\ u \in Bufs /\ u.viewport = v /\ SameText(s, u)
      /\ s.loaded /\ s.offset \in Columns /\ ViewOK(a) => Mirrors(u)
  BY MovedIs
<1>2. ViewOK(s) => ViewOK(a)
  OBVIOUS
<1> HIDE DEF a, u
<1>3. SameText(a, u)
  BY <1>1 DEF SameText
<1>4. ViewOK(u) <=> ViewOK(a)
  BY <1>1, <1>3, ViewSame
<1>5. ScrollFacts(s, u)
  BY <1>1, <1>2, <1>4 DEF ScrollFacts
<1> QED
  BY <1>5 DEF a, u

\* sb_scroll_top.
LEMMA ScrollTopIs ==
  ASSUME NEW s \in Bufs
  PROVE  ScrollFacts(s, sb_scroll_top(s))
<1> DEFINE a == [s EXCEPT !.viewport = s.top]
<1>1. s.top \in Lines /\ s.cursor \in Lines /\ s.viewport \in Views /\ s.top \in Views
  BY Sizes DEF Bufs, Lines, Views
<1>2. a.top = s.top /\ a.cursor = s.cursor /\ a.viewport = s.top
  BY <1>1, MovedIs DEF SameText
<1> HIDE DEF a
<1>3. ViewOK(s) => ViewOK(a)
  BY <1>1, <1>2, MoveView
<1> QED
  BY <1>1, <1>3, MovedScrolls DEF a, sb_scroll_top

\* sb_scroll_down.
LEMMA ScrollDownIs ==
  ASSUME NEW s \in Bufs
  PROVE  ScrollFacts(s, sb_scroll_down(s))
<1> DEFINE v == s.cursor - (VGA_HEIGHT - 1)
           a == [s EXCEPT !.viewport = v]
<1>1. s.top \in Lines /\ s.cursor \in Lines /\ s.viewport \in Views
  BY DEF Bufs
<1>2. v \in Views
  BY <1>1, Sizes DEF Lines, Views
<1>3. a.top = s.top /\ a.cursor = s.cursor /\ a.viewport = v
  BY <1>2, MovedIs DEF SameText
<1>4. ASSUME sb_ldiff(s.viewport, s.cursor) > VGA_HEIGHT, ViewOK(s)
      PROVE  ViewOK(a)
  <2> HIDE DEF a
  <2>1. Depth(s) - Height(s) > VGA_HEIGHT
    BY <1>1, <1>4, RowIs
  <2> QED
    BY <1>1, <1>3, <1>4, <2>1, MoveView
<1>5. CASE sb_ldiff(s.viewport, s.cursor) > VGA_HEIGHT
  BY <1>2, <1>4, <1>5, MovedScrolls DEF sb_scroll_down
<1>6. CASE ~(sb_ldiff(s.viewport, s.cursor) > VGA_HEIGHT)
  BY <1>6 DEF sb_scroll_down, ScrollFacts, SameText
<1> QED
  BY <1>5, <1>6

\* sb_scroll by one line, and what it is when the line is there.
LEMMA ScrollIs ==
  ASSUME NEW s \in Bufs, NEW n \in {-1, 1}
  PROVE  /\ ScrollFacts(s, sb_scroll(s, n))
         /\ n = -1 /\ ViewOK(s) /\ Height(s) >= 1 =>
              sb_scroll(s, n) = sb_sync([s EXCEPT !.viewport = sb_addline(s.viewport, n)])
         /\ n = 1 /\ sb_ldiff(s.viewport, s.cursor) = VGA_HEIGHT =>
              sb_scroll(s, n) = sb_sync([s EXCEPT !.viewport = sb_addline(s.viewport, n)])
         /\ sb_addline(s.viewport, n) \in Lines
<1> DEFINE v == sb_addline(s.viewport, n)
           a == [s EXCEPT !.viewport = v]
           room == IF n < 0 THEN sb_ldiff(s.top, s.viewport)
                   ELSE sb_ldiff(s.viewport, s.cursor) - (VGA_HEIGHT - 1)
<1>1. s.top \in Lines /\ s.cursor \in Lines /\ s.viewport \in Views
  BY DEF Bufs
<1>2. v \in Lines /\ v \in Views
  <2>1. /\ s.viewport \in Int /\ n \in Int
        /\ -SB_HEIGHT <= s.viewport + n /\ s.viewport + n < SB_HEIGHT + SB_HEIGHT
    BY <1>1, ViewLine, Sizes
  <2>2. v \in Lines
    BY <2>1, AddLine
  <2> QED
    BY <2>2, Sizes DEF Lines, Views
<1>3. a.top = s.top /\ a.cursor = s.cursor /\ a.viewport = v
  BY <1>2, MovedIs DEF SameText
<1>4. abs(n) = 1 /\ (n = -1 <=> n < 0)
  BY DEF abs
<1>5. sb_scroll(s, n) = IF room >= 1 THEN sb_sync(a)
                        ELSE IF n < 0 THEN sb_scroll_top(s) ELSE sb_scroll_down(s)
  BY <1>4 DEF sb_scroll
<1>6. sb_ldiff(s.viewport, s.cursor) \in Int
  BY <1>1, ViewLine, Sizes DEF Lines, sb_ldiff
<1>7. ASSUME room >= 1, ViewOK(s)
      PROVE  ViewOK(a)
  <2> HIDE DEF a
  <2>1. CASE n = -1
    <3>1. Height(s) >= 1
      BY <1>1, <1>7, <2>1, MoveView
    <3> QED
      BY <1>1, <1>3, <1>7, <2>1, <3>1, MoveView
  <2>2. CASE n = 1
    <3>1. Depth(s) - Height(s) >= VGA_HEIGHT
      BY <1>1, <1>6, <1>7, <2>2, RowIs, Sizes
    <3> QED
      BY <1>1, <1>3, <1>7, <2>2, <3>1, MoveView
  <2> QED
    BY <2>1, <2>2
<1>8. ScrollFacts(s, sb_scroll(s, n))
  <2>1. CASE room >= 1
    BY <1>2, <1>5, <1>7, <2>1, MovedScrolls
  <2>2. CASE ~(room >= 1)
    <3> HIDE DEF room, a
    <3> QED
      BY <1>5, <2>2, ScrollTopIs, ScrollDownIs
  <2> QED
    BY <2>1, <2>2
<1>9. n = -1 /\ ViewOK(s) /\ Height(s) >= 1 => room >= 1
  BY <1>1, <1>4, MoveView
<1>10. n = 1 /\ sb_ldiff(s.viewport, s.cursor) = VGA_HEIGHT => room >= 1
  BY <1>4, <1>6, Sizes
<1> HIDE DEF room
<1> QED
  BY <1>2, <1>5, <1>8, <1>9, <1>10

-----------------------------------------------------------------------------
(***************************************************************************)
(* A new line                                                              *)
(***************************************************************************)

\* The line below the cursor: one more, or the top in a full buffer.
LEMMA NextLine ==
  ASSUME NEW s, s.top \in Lines, s.cursor \in Lines
  PROVE  LET below == sb_addline(s.cursor, 1)
             t1 == sb_addline(s.top, 1)
         IN  /\ Depth(s) \in Lines /\ below \in Lines /\ t1 \in Lines
             /\ below = s.top <=> Depth(s) = SB_HEIGHT - 1
             /\ Depth(s) # SB_HEIGHT - 1 => sb_ldiff(s.top, below) = Depth(s) + 1
             /\ sb_ldiff(t1, s.top) = SB_HEIGHT - 1
             /\ \A k \in Lines : k < SB_HEIGHT - 1 =>
                  k + 1 \in Lines /\ sb_addline(t1, k) = sb_addline(s.top, k + 1)
             /\ sb_addline(t1, SB_HEIGHT - 1) = s.top
<1> DEFINE t == s.top
           c == s.cursor
           e == Depth(s)
           below == sb_addline(c, 1)
           t1 == sb_addline(t, 1)
<1>1. /\ t \in Int /\ 0 <= t /\ t < SB_HEIGHT
      /\ c \in Int /\ 0 <= c /\ c < SB_HEIGHT
      /\ e \in Lines /\ e \in Int
      /\ e = (IF t <= c THEN c - t ELSE (SB_HEIGHT - t) + c)
  <2>1. e \in Lines /\ e = sb_ldiff(t, c)
    BY Ring DEF Depth
  <2>2. e = (IF t <= c THEN c - t ELSE (SB_HEIGHT - t) + c)
    BY <2>1 DEF sb_ldiff
  <2>3. \A k \in Lines : k \in Int /\ 0 <= k /\ k < SB_HEIGHT
    BY Sizes DEF Lines
  <2> QED
    BY <2>1, <2>2, <2>3
<1>2. /\ below \in Lines /\ below = (IF c + 1 < SB_HEIGHT THEN c + 1 ELSE c + 1 - SB_HEIGHT)
      /\ t1 \in Lines /\ t1 = (IF t + 1 < SB_HEIGHT THEN t + 1 ELSE t + 1 - SB_HEIGHT)
  <2>1. 1 \in Lines
    BY Sizes DEF Lines
  <2> QED
    BY <2>1, AddLines
<1>3. sb_ldiff(t, below) = (IF t <= below THEN below - t ELSE (SB_HEIGHT - t) + below)
      /\ sb_ldiff(t1, t) = (IF t1 <= t THEN t - t1 ELSE (SB_HEIGHT - t1) + t)
  BY DEF sb_ldiff
<1>4. below \in Int /\ t1 \in Int
  BY <1>1, <1>2, Sizes
<1>5. \A k \in Lines : k \in Int /\ 0 <= k /\ k < SB_HEIGHT
  BY Sizes DEF Lines
<1>6. \A k \in Int : 0 <= k /\ k < SB_HEIGHT => k \in Lines
  BY Sizes DEF Lines
<1>12. t \in Lines /\ t1 \in Lines
  BY <1>2
<1> HIDE DEF t, c, e, below, t1
<1>7. ASSUME NEW k \in Lines
      PROVE  sb_addline(t1, k) = IF t1 + k < SB_HEIGHT THEN t1 + k ELSE t1 + k - SB_HEIGHT
  BY <1>12, AddLines
<1>8. ASSUME NEW k \in Lines
      PROVE  sb_addline(t, k) = IF t + k < SB_HEIGHT THEN t + k ELSE t + k - SB_HEIGHT
  BY <1>12, AddLines
<1>9. /\ below = t <=> e = SB_HEIGHT - 1
      /\ e # SB_HEIGHT - 1 => sb_ldiff(t, below) = e + 1
      /\ sb_ldiff(t1, t) = SB_HEIGHT - 1
  BY <1>1, <1>2, <1>3, <1>4, Sizes
<1>10. ASSUME NEW k \in Lines, k < SB_HEIGHT - 1
       PROVE  k + 1 \in Lines /\ sb_addline(t1, k) = sb_addline(t, k + 1)
  <2>1. k + 1 \in Lines
    BY <1>5, <1>6, <1>10, Sizes
  <2>2. sb_addline(t, k + 1) = IF t + (k + 1) < SB_HEIGHT THEN t + (k + 1)
                               ELSE t + (k + 1) - SB_HEIGHT
    BY <1>8, <2>1
  <2>3. sb_addline(t1, k) = IF t1 + k < SB_HEIGHT THEN t1 + k ELSE t1 + k - SB_HEIGHT
    BY <1>7
  <2>4. k \in Int /\ 0 <= k
    BY <1>5
  <2> QED
    BY <1>1, <1>2, <1>4, <1>10, <2>1, <2>2, <2>3, <2>4, Sizes
<1>11. sb_addline(t1, SB_HEIGHT - 1) = t
  <2>1. SB_HEIGHT - 1 \in Lines
    BY <1>6, Sizes
  <2>2. sb_addline(t1, SB_HEIGHT - 1) = IF t1 + (SB_HEIGHT - 1) < SB_HEIGHT
          THEN t1 + (SB_HEIGHT - 1) ELSE t1 + (SB_HEIGHT - 1) - SB_HEIGHT
    BY <1>7, <2>1
  <2> QED
    BY <1>1, <1>2, <1>4, <2>2, Sizes
<1> QED
  BY <1>1, <1>2, <1>9, <1>10, <1>11 DEF t, c, e, below, t1

\* The view when the cursor goes to a fresh line.
LEMMA NextView ==
  ASSUME NEW s, s.top \in Lines, s.cursor \in Lines, s.viewport \in Views, ViewOK(s),
         Depth(s) # SB_HEIGHT - 1,
         NEW u, u.top = s.top, u.cursor = sb_addline(s.cursor, 1)
  PROVE  /\ sb_ldiff(s.viewport, u.cursor) = VGA_HEIGHT
              /\ u.viewport = sb_addline(s.viewport, 1) => ViewOK(u)
         /\ sb_ldiff(s.viewport, u.cursor) # VGA_HEIGHT /\ u.viewport = s.viewport
              => ViewOK(u)
<1> DEFINE t == s.top
           c == s.cursor
           v == s.viewport
           w == v % SB_HEIGHT
           e == Depth(s)
           h == Height(s)
           below == u.cursor
           v1 == u.viewport
           w1 == v1 % SB_HEIGHT
           h1 == Height(u)
           e1 == Depth(u)
<1>1. /\ t \in Int /\ 0 <= t /\ t < SB_HEIGHT
      /\ c \in Int /\ 0 <= c /\ c < SB_HEIGHT
      /\ v \in Int /\ -VGA_HEIGHT < v /\ v < SB_HEIGHT
      /\ w \in Int /\ 0 <= w /\ w < SB_HEIGHT
      /\ w = (IF v < 0 THEN v + SB_HEIGHT ELSE v)
  BY Sizes, ViewLine DEF Lines
<1>2. e \in Lines /\ h \in Lines
  BY Ring, ViewLine DEF Depth, Height
<1>3. /\ e \in Int /\ 0 <= e /\ e < SB_HEIGHT
      /\ h \in Int /\ 0 <= h /\ h < SB_HEIGHT
  BY <1>2, Sizes DEF Lines
<1>4. /\ e = (IF t <= c THEN c - t ELSE (SB_HEIGHT - t) + c)
      /\ h = (IF t <= w THEN w - t ELSE (SB_HEIGHT - t) + w)
      /\ h1 = (IF t <= w1 THEN w1 - t ELSE (SB_HEIGHT - t) + w1)
      /\ sb_ldiff(v, below) = (IF v <= below THEN below - v ELSE (SB_HEIGHT - v) + below)
  BY DEF Depth, Height, sb_ldiff
<1>5. /\ h <= e /\ h <= SB_HEIGHT - VGA_HEIGHT
      /\ v < 0 => c - v < VGA_HEIGHT
  BY DEF ViewOK
<1>6. ViewOK(u) <=> /\ h1 <= e1 /\ h1 <= SB_HEIGHT - VGA_HEIGHT
                    /\ v1 < 0 => below - v1 < VGA_HEIGHT
  BY DEF ViewOK
<1>7. e1 = e + 1 /\ e # SB_HEIGHT - 1
  BY NextLine DEF Depth
<1>8. /\ below \in Int
      /\ below = (IF c + 1 < SB_HEIGHT THEN c + 1 ELSE c + 1 - SB_HEIGHT)
  BY <1>1, Sizes, AddLine
<1>9. /\ sb_addline(v, 1) \in Lines
      /\ sb_addline(v, 1) = (IF v + 1 < 0 THEN v + 1 + SB_HEIGHT
                             ELSE IF v + 1 < SB_HEIGHT THEN v + 1 ELSE v + 1 - SB_HEIGHT)
  BY <1>1, Sizes, AddLine
<1>10. v1 \in Lines => v1 \in Int /\ 0 <= v1 /\ v1 < SB_HEIGHT /\ w1 = v1
  <2>1. v1 \in Lines => v1 \in Views /\ v1 \in Int /\ 0 <= v1 /\ v1 < SB_HEIGHT
    BY Sizes DEF Lines, Views
  <2> QED
    BY <2>1, ViewLine
<1> HIDE DEF t, c, v, w, e, h, below, v1, w1, h1, e1
<1>11. sb_ldiff(v, below) = e - h + 1
  BY <1>1, <1>3, <1>4, <1>5, <1>7, <1>8, Sizes
<1>12. ASSUME sb_ldiff(v, below) = VGA_HEIGHT, v1 = sb_addline(v, 1)
       PROVE  ViewOK(u)
  <2>1. v1 \in Int /\ 0 <= v1 /\ v1 < SB_HEIGHT /\ w1 = v1
    BY <1>9, <1>10, <1>12
  <2>2. h1 = h + 1
    BY <1>1, <1>3, <1>4, <1>5, <1>7, <1>9, <1>11, <1>12, <2>1, Sizes
  <2> QED
    BY <1>3, <1>6, <1>7, <1>11, <1>12, <2>1, <2>2, Sizes
<1>13. ASSUME sb_ldiff(v, below) # VGA_HEIGHT, v1 = v
       PROVE  ViewOK(u)
  <2>1. w1 = w
    BY <1>13 DEF w, w1
  <2>2. h1 = h
    BY <1>4, <2>1
  <2>3. v < 0 => below - v < VGA_HEIGHT
    BY <1>1, <1>3, <1>4, <1>5, <1>7, <1>8, <1>11, <1>13, Sizes
  <2> QED
    BY <1>3, <1>5, <1>6, <1>7, <1>13, <2>2, <2>3
<1> QED
  BY <1>12, <1>13 DEF v, below, v1

\* The view when the cursor takes the place of the top of a full buffer.
LEMMA WrapView ==
  ASSUME NEW s, s.top \in Lines, s.cursor \in Lines, s.viewport \in Views, ViewOK(s),
         Depth(s) = SB_HEIGHT - 1,
         NEW u, u.top = sb_addline(s.top, 1), u.cursor = s.top
  PROVE  /\ s.viewport = s.top =>
              /\ u.viewport = u.top => ViewOK(u)
              /\ sb_ldiff(u.top, s.top) = VGA_HEIGHT
                   /\ u.viewport = sb_addline(u.top, 1) => ViewOK(u)
         /\ s.viewport # s.top =>
              /\ sb_ldiff(s.viewport, s.top) = VGA_HEIGHT
                   /\ u.viewport = sb_addline(s.viewport, 1) => ViewOK(u)
              /\ sb_ldiff(s.viewport, s.top) # VGA_HEIGHT /\ u.viewport = s.viewport
                   => /\ ViewOK(u)
                      /\ \A r \in Rows : sb_addline(s.viewport, r) # s.top
<1> DEFINE t == s.top
           c == s.cursor
           v == s.viewport
           w == v % SB_HEIGHT
           e == Depth(s)
           h == Height(s)
           t1 == u.top
           v1 == u.viewport
           w1 == v1 % SB_HEIGHT
           h1 == Height(u)
           e1 == Depth(u)
<1>1. /\ t \in Int /\ 0 <= t /\ t < SB_HEIGHT
      /\ c \in Int /\ 0 <= c /\ c < SB_HEIGHT
      /\ v \in Int /\ -VGA_HEIGHT < v /\ v < SB_HEIGHT
      /\ w \in Int /\ 0 <= w /\ w < SB_HEIGHT
      /\ w = (IF v < 0 THEN v + SB_HEIGHT ELSE v)
  BY Sizes, ViewLine DEF Lines
<1>2. h \in Lines
  BY Ring, ViewLine DEF Height
<1>3. e = SB_HEIGHT - 1 /\ h \in Int /\ 0 <= h /\ h < SB_HEIGHT
  BY <1>2, Sizes DEF Lines
<1>4. /\ e = (IF t <= c THEN c - t ELSE (SB_HEIGHT - t) + c)
      /\ h = (IF t <= w THEN w - t ELSE (SB_HEIGHT - t) + w)
      /\ h1 = (IF t1 <= w1 THEN w1 - t1 ELSE (SB_HEIGHT - t1) + w1)
      /\ sb_ldiff(v, t) = (IF v <= t THEN t - v ELSE (SB_HEIGHT - v) + t)
  BY DEF Depth, Height, sb_ldiff
<1>5. /\ h <= SB_HEIGHT - VGA_HEIGHT
      /\ v < 0 => c - v < VGA_HEIGHT
  BY DEF ViewOK
<1>6. ViewOK(u) <=> /\ h1 <= e1 /\ h1 <= SB_HEIGHT - VGA_HEIGHT
                    /\ v1 < 0 => t - v1 < VGA_HEIGHT
  BY DEF ViewOK
<1>7. e1 = SB_HEIGHT - 1 /\ sb_ldiff(t1, t) = SB_HEIGHT - 1
  BY NextLine DEF Depth
<1>8. /\ t1 \in Int /\ 0 <= t1 /\ t1 < SB_HEIGHT
      /\ t1 = (IF t + 1 < SB_HEIGHT THEN t + 1 ELSE t + 1 - SB_HEIGHT)
  <2>1. 1 \in Lines /\ t \in Lines
    BY Sizes DEF Lines
  <2>2. t1 \in Lines /\ t1 = (IF t + 1 < SB_HEIGHT THEN t + 1 ELSE t + 1 - SB_HEIGHT)
    BY <2>1, AddLines
  <2> QED
    BY <2>2, Sizes DEF Lines
<1>9. /\ sb_addline(v, 1) \in Lines
      /\ sb_addline(v, 1) = (IF v + 1 < 0 THEN v + 1 + SB_HEIGHT
                             ELSE IF v + 1 < SB_HEIGHT THEN v + 1 ELSE v + 1 - SB_HEIGHT)
      /\ sb_addline(t1, 1) \in Lines
      /\ sb_addline(t1, 1) = (IF t1 + 1 < SB_HEIGHT THEN t1 + 1 ELSE t1 + 1 - SB_HEIGHT)
  <2>1. 1 \in Lines /\ t1 \in Lines
    BY <1>8, Sizes DEF Lines
  <2>2. -SB_HEIGHT <= v + 1 /\ v + 1 < SB_HEIGHT + SB_HEIGHT /\ v \in Int
    BY <1>1, Sizes
  <2>3. /\ sb_addline(t1, 1) \in Lines
        /\ sb_addline(t1, 1) = (IF t1 + 1 < SB_HEIGHT THEN t1 + 1 ELSE t1 + 1 - SB_HEIGHT)
    BY <2>1, AddLines
  <2> HIDE DEF v
  <2>4. /\ sb_addline(v, 1) \in Lines
        /\ sb_addline(v, 1) = (IF v + 1 < 0 THEN v + 1 + SB_HEIGHT
                               ELSE IF v + 1 < SB_HEIGHT THEN v + 1 ELSE v + 1 - SB_HEIGHT)
    BY <2>2, AddLine
  <2> QED
    BY <2>3, <2>4
<1>10. v1 \in Lines => v1 \in Int /\ 0 <= v1 /\ v1 < SB_HEIGHT /\ w1 = v1
  <2>1. v1 \in Lines => v1 \in Views /\ v1 \in Int /\ 0 <= v1 /\ v1 < SB_HEIGHT
    BY Sizes DEF Lines, Views
  <2> QED
    BY <2>1, ViewLine
<1>11. t1 \in Lines
  BY <1>8, Sizes DEF Lines
<1>12. ASSUME NEW r \in Rows
       PROVE  /\ r \in Int /\ 0 <= r /\ r < VGA_HEIGHT
              /\ sb_addline(v, r) = IF v + r < 0 THEN v + r + SB_HEIGHT
                                    ELSE IF v + r < SB_HEIGHT THEN v + r
                                    ELSE v + r - SB_HEIGHT
  <2>1. r \in Int /\ 0 <= r /\ r < VGA_HEIGHT
    BY Sizes DEF Rows
  <2> QED
    BY <1>1, <2>1, Sizes, AddLine
<1> HIDE DEF t, c, v, w, e, h, t1, v1, w1, h1, e1
<1>13. ASSUME v = t, v1 = t1
       PROVE  ViewOK(u)
  <2>1. w1 = t1 /\ 0 <= v1
    BY <1>8, <1>10, <1>11, <1>13
  <2>2. h1 = 0
    BY <1>4, <1>8, <2>1
  <2> QED
    BY <1>6, <1>7, <1>8, <1>13, <2>1, <2>2, Sizes
<1>14. ASSUME v = t, sb_ldiff(t1, t) = VGA_HEIGHT, v1 = sb_addline(t1, 1)
       PROVE  ViewOK(u)
  <2>1. w1 = v1 /\ 0 <= v1
    BY <1>9, <1>10, <1>14
  <2>2. h1 = 1
    BY <1>4, <1>8, <1>9, <1>14, <2>1, Sizes
  <2>3. SB_HEIGHT - 1 = VGA_HEIGHT
    BY <1>7, <1>14
  <2> QED
    BY <1>6, <1>7, <1>9, <1>10, <1>14, <2>1, <2>2, <2>3, Sizes
<1>15. ASSUME v # t
       PROVE  sb_ldiff(v, t) = SB_HEIGHT - h /\ h >= 1
  BY <1>1, <1>3, <1>4, <1>5, <1>15, Sizes
<1>16. ASSUME v # t, sb_ldiff(v, t) = VGA_HEIGHT, v1 = sb_addline(v, 1)
       PROVE  ViewOK(u)
  <2>1. w1 = v1 /\ 0 <= v1 /\ v1 \in Int
    BY <1>9, <1>10, <1>16
  <2>2. h1 = h
    BY <1>1, <1>3, <1>4, <1>5, <1>8, <1>9, <1>15, <1>16, <2>1, Sizes
  <2> QED
    BY <1>3, <1>5, <1>6, <1>7, <2>1, <2>2, Sizes
<1>17. ASSUME v # t, sb_ldiff(v, t) # VGA_HEIGHT, v1 = v
       PROVE  ViewOK(u) /\ \A r \in Rows : sb_addline(v, r) # t
  <2>1. w1 = w
    BY <1>17 DEF w, w1
  <2>2. h1 = h - 1
    BY <1>1, <1>3, <1>4, <1>5, <1>8, <1>15, <1>17, <2>1, Sizes
  <2>3. ~(v < 0)
    BY <1>1, <1>3, <1>4, <1>5, <1>15, <1>17, Sizes
  <2>4. ASSUME NEW r \in Rows
        PROVE  sb_addline(v, r) # t
    BY <1>1, <1>3, <1>4, <1>5, <1>12, <1>15, <1>17, Sizes
  <2> QED
    BY <1>3, <1>5, <1>6, <1>7, <1>17, <2>2, <2>3, <2>4, Sizes
<1> QED
  BY <1>13, <1>14, <1>16, <1>17 DEF t, v, t1, v1

-----------------------------------------------------------------------------
(***************************************************************************)
(* Writing a cell                                                          *)
(***************************************************************************)

\* Lines counted from the top: their type, and the cursor's line.
LEMMA LineIs ==
  ASSUME NEW s, s.top \in Lines, s.cursor \in Lines, s.buf \in Texts
  PROVE  /\ Depth(s) \in Lines
         /\ Line(s, Depth(s)) = s.buf[s.cursor]
         /\ \A k \in Lines : Line(s, k) \in [Columns -> Cells]
         /\ \A k \in Lines : sb_addline(s.top, k) = s.cursor <=> k = Depth(s)
<1>1. /\ Depth(s) \in Lines /\ sb_addline(s.top, Depth(s)) = s.cursor
      /\ \A k \in Lines : sb_addline(s.top, k) \in Lines
                          /\ sb_ldiff(s.top, sb_addline(s.top, k)) = k
  BY Ring DEF Depth
<1>2. \A k \in Lines : Line(s, k) \in [Columns -> Cells]
  BY <1>1 DEF Line, Texts
<1>3. Line(s, Depth(s)) = s.buf[s.cursor]
  BY <1>1 DEF Line
<1>4. \A k \in Lines : sb_addline(s.top, k) = s.cursor => k = Depth(s)
  BY <1>1 DEF Depth
<1> QED
  BY <1>1, <1>2, <1>3, <1>4

\* The cursor is on display or below it, whatever the viewport.
LEMMA RowType ==
  ASSUME NEW s \in Bufs
  PROVE  /\ sb_ldiff(s.viewport, s.cursor) \in Int
         /\ sb_ldiff(s.viewport, s.cursor) < VGA_HEIGHT
              => sb_ldiff(s.viewport, s.cursor) \in Rows
<1>1. /\ s.viewport \in Int /\ -VGA_HEIGHT < s.viewport /\ s.viewport < SB_HEIGHT
      /\ s.cursor \in Int /\ 0 <= s.cursor
  BY ViewLine, Sizes DEF Bufs, Lines
<1>2. sb_ldiff(s.viewport, s.cursor) \in Int /\ sb_ldiff(s.viewport, s.cursor) >= 0
  BY <1>1, Sizes DEF sb_ldiff
<1> QED
  BY <1>2, Sizes DEF Rows

\* sb_write_word: the cell changes, in the buffer and on the display.
LEMMA WriteIs ==
  ASSUME NEW s \in Bufs, s.offset \in Columns, NEW cell \in Cells
  PROVE  LET u == sb_write_word(s, cell)
         IN  /\ u \in Bufs
             /\ u.top = s.top /\ u.viewport = s.viewport /\ u.cursor = s.cursor
             /\ u.offset = s.offset /\ u.loaded = s.loaded
             /\ u.buf = [s.buf EXCEPT ![s.cursor][s.offset] = cell]
             /\ s.loaded /\ ViewOK(s) /\ s.vga = Shown(s) => u.vga = Shown(u)
<1> DEFINE row == sb_ldiff(s.viewport, s.cursor)
           t == [s EXCEPT !.buf[s.cursor][s.offset] = cell]
           w == [t EXCEPT !.vga[row][s.offset] = cell]
           u == sb_write_word(s, cell)
           text == [s.buf EXCEPT ![s.cursor][s.offset] = cell]
<1>1. /\ s.top \in Lines /\ s.viewport \in Views /\ s.cursor \in Lines
      /\ s.buf \in Texts /\ s.vga \in Displays
  BY DEF Bufs
<1>2. text \in Texts
  BY <1>1 DEF Texts
<1>3. /\ t \in Bufs /\ t.top = s.top /\ t.viewport = s.viewport /\ t.cursor = s.cursor
      /\ t.offset = s.offset /\ t.loaded = s.loaded /\ t.buf = text /\ t.vga = s.vga
  BY <1>2 DEF Bufs
<1>4. row \in Rows => [s.vga EXCEPT ![row][s.offset] = cell] \in Displays
  BY <1>1 DEF Displays
<1>5. u = IF s.loaded /\ row < VGA_HEIGHT THEN w ELSE t
  BY DEF sb_write_word
<1>6. ASSUME row \in Rows
      PROVE  /\ w \in Bufs /\ w.top = s.top /\ w.viewport = s.viewport
             /\ w.cursor = s.cursor /\ w.offset = s.offset /\ w.loaded = s.loaded
             /\ w.buf = text /\ w.vga = [s.vga EXCEPT ![row][s.offset] = cell]
  BY <1>3, <1>4, <1>6 DEF Bufs
<1>7. ASSUME ViewOK(s), s.vga = Shown(s), NEW x, x.viewport = s.viewport, x.buf = text
      PROVE  Shown(x) = IF row < VGA_HEIGHT THEN [s.vga EXCEPT ![row][s.offset] = cell]
                                            ELSE s.vga
  <2>1. /\ Shown(x) = [r \in Rows |-> text[sb_addline(s.viewport, r)]]
        /\ s.vga = [r \in Rows |-> s.buf[sb_addline(s.viewport, r)]]
    BY <1>7 DEF Shown
  <2>2. \A r \in Rows : /\ sb_addline(s.viewport, r) \in Lines
                        /\ sb_addline(s.viewport, r) = s.cursor <=> r = row
    BY <1>1, <1>7, RowIs
  <2> HIDE DEF row
  <2>3. \A r \in Rows : text[sb_addline(s.viewport, r)] =
          IF r = row THEN [s.vga[r] EXCEPT ![s.offset] = cell] ELSE s.vga[r]
    <3> SUFFICES ASSUME NEW r \in Rows
                 PROVE  text[sb_addline(s.viewport, r)] =
                   IF r = row THEN [s.vga[r] EXCEPT ![s.offset] = cell] ELSE s.vga[r]
      OBVIOUS
    <3>1. s.vga[r] = s.buf[sb_addline(s.viewport, r)]
      BY <2>1
    <3>2. \A l \in Lines : text[l] = IF l = s.cursor
                                     THEN [s.buf[l] EXCEPT ![s.offset] = cell]
                                     ELSE s.buf[l]
      BY <1>1 DEF Texts
    <3> QED
      BY <2>2, <3>1, <3>2
  <2>4. row < VGA_HEIGHT <=> row \in Rows
    BY RowType, Sizes DEF Rows, row
  <2> HIDE DEF text
  <2>5. CASE row \in Rows
    BY <1>1, <2>1, <2>3, <2>4, <2>5 DEF Displays
  <2>6. CASE row \notin Rows
    BY <1>1, <2>1, <2>3, <2>4, <2>6 DEF Displays
  <2> QED
    BY <2>5, <2>6
<1>8. row < VGA_HEIGHT => row \in Rows
  BY RowType
<1> HIDE DEF row, t, w, u, text
<1>9. /\ u \in Bufs /\ u.top = s.top /\ u.viewport = s.viewport /\ u.cursor = s.cursor
      /\ u.offset = s.offset /\ u.loaded = s.loaded /\ u.buf = text
      /\ s.loaded => u.vga = IF row < VGA_HEIGHT
                             THEN [s.vga EXCEPT ![row][s.offset] = cell] ELSE s.vga
  BY <1>3, <1>5, <1>6, <1>8
<1>10. s.loaded /\ ViewOK(s) /\ s.vga = Shown(s) => u.vga = Shown(u)
  BY <1>7, <1>9
<1> QED
  BY <1>9, <1>10 DEF u, text

\* u is s with the cursor at the start of a fresh line.
Advanced(s, u) ==
  LET below == sb_addline(s.cursor, 1)
  IN  /\ u.top = (IF below = s.top THEN sb_addline(s.top, 1) ELSE s.top)
      /\ u.cursor = below /\ u.offset = 0 /\ u.loaded = s.loaded
      /\ u.buf = [s.buf EXCEPT ![below] = BlankLine]

\* sb_crlf advances the cursor and keeps the view and the display in order.
LEMMA CrlfIs ==
  ASSUME NEW s \in Bufs
  PROVE  LET u == sb_crlf(s)
         IN  /\ u \in Bufs /\ Advanced(s, u)
             /\ ViewOK(s) => ViewOK(u)
             /\ /\ s.loaded /\ ViewOK(s) /\ s.vga = Shown(s)
                /\ Depth(s) # SB_HEIGHT - 1 =>
                     s.buf[sb_addline(s.cursor, 1)] = BlankLine
                => u.vga = Shown(u)
<1> DEFINE below == sb_addline(s.cursor, 1)
           t1 == sb_addline(s.top, 1)
           text == [s.buf EXCEPT ![below] = BlankLine]
           a == [s EXCEPT !.offset = 0, !.cursor = below, !.buf[below] = BlankLine]
           b == IF a.viewport = a.top
                THEN sb_sync([a EXCEPT !.viewport = sb_addline(a.top, 1)])
                ELSE a
           c == IF a.cursor = a.top THEN [b EXCEPT !.top = sb_addline(a.top, 1)] ELSE a
           u == sb_crlf(s)
           fresh == Depth(s) # SB_HEIGHT - 1 => s.buf[below] = BlankLine
           good == s.loaded /\ ViewOK(s) /\ s.vga = Shown(s) /\ fresh
<1>1. /\ s.top \in Lines /\ s.viewport \in Views /\ s.cursor \in Lines
      /\ s.buf \in Texts /\ s.vga \in Displays /\ s.loaded \in BOOLEAN
  BY DEF Bufs
<1>2. /\ below \in Lines /\ t1 \in Lines /\ t1 \in Views
      /\ below = s.top <=> Depth(s) = SB_HEIGHT - 1
  <2>1. /\ below \in Lines /\ t1 \in Lines
        /\ below = s.top <=> Depth(s) = SB_HEIGHT - 1
    BY <1>1, NextLine
  <2>2. \A l \in Lines : l \in Views
    BY Sizes DEF Lines, Views
  <2> QED
    BY <2>1, <2>2
<1>3. text \in Texts
  BY <1>1 DEF Texts, BlankLine, Cells
<1>4. /\ a \in Bufs /\ a.top = s.top /\ a.viewport = s.viewport /\ a.cursor = below
      /\ a.offset = 0 /\ a.loaded = s.loaded /\ a.buf = text /\ a.vga = s.vga
  <2> HIDE DEF below
  <2>1. a = [s EXCEPT !.offset = 0, !.cursor = below, !.buf = text]
    BY DEF Bufs
  <2> HIDE DEF a, text
  <2>2. /\ a.top = s.top /\ a.viewport = s.viewport /\ a.cursor = below
        /\ a.offset = 0 /\ a.loaded = s.loaded /\ a.buf = text /\ a.vga = s.vga
    BY <2>1 DEF Bufs
  <2>3. [s EXCEPT !.offset = 0] \in Bufs
    BY DEF Bufs
  <2>4. [[s EXCEPT !.offset = 0] EXCEPT !.cursor = below] \in Bufs
    BY <1>2, <2>3 DEF Bufs
  <2>5. [[[s EXCEPT !.offset = 0] EXCEPT !.cursor = below] EXCEPT !.buf = text] \in Bufs
    BY <1>3, <2>4 DEF Bufs
  <2>6. a \in Bufs
    BY <2>1, <2>5
  <2> QED
    BY <2>2, <2>6
<1>5. u = IF sb_ldiff(c.viewport, c.cursor) = VGA_HEIGHT THEN sb_scroll(c, 1) ELSE c
  BY DEF sb_crlf
<1>6. c = IF below = s.top
          THEN IF s.viewport = s.top
               THEN [sb_sync([a EXCEPT !.viewport = t1]) EXCEPT !.top = t1]
               ELSE [a EXCEPT !.top = t1]
          ELSE a
  <2> HIDE DEF a
  <2> QED
    BY <1>4
<1> HIDE DEF a, b, c, u, below, t1, text, fresh
<1>7. /\ c \in Bufs /\ c.cursor = below /\ c.offset = 0 /\ c.loaded = s.loaded
      /\ c.buf = text /\ c.top = (IF below = s.top THEN t1 ELSE s.top)
      /\ c.viewport = (IF below = s.top /\ s.viewport = s.top THEN t1 ELSE s.viewport)
      /\ IF below = s.top /\ s.viewport = s.top
         THEN s.loaded => c.vga = Shown(c)
         ELSE c.vga = s.vga
  <2>1. CASE below # s.top
    BY <1>4, <1>6, <2>1
  <2>2. CASE below = s.top /\ s.viewport # s.top
    <3>1. c = [a EXCEPT !.top = t1]
      BY <1>6, <2>2
    <3>2. /\ c \in Bufs /\ c.cursor = a.cursor /\ c.offset = a.offset
          /\ c.loaded = a.loaded /\ c.buf = a.buf /\ c.top = t1
          /\ c.viewport = a.viewport /\ c.vga = a.vga
      BY <1>2, <1>4, <3>1 DEF Bufs
    <3> QED
      BY <1>4, <2>2, <3>2
  <2>3. CASE below = s.top /\ s.viewport = s.top
    <3> DEFINE d == sb_sync([a EXCEPT !.viewport = t1])
    <3>1. c = [d EXCEPT !.top = t1]
      BY <1>6, <2>3
    <3>2. /\ d \in Bufs /\ d.viewport = t1 /\ SameText(a, d)
          /\ a.loaded => d.vga = Shown(d)
      BY <1>2, <1>4, MovedIs
    <3> HIDE DEF d
    <3>3. /\ c \in Bufs /\ c.cursor = d.cursor /\ c.offset = d.offset
          /\ c.loaded = d.loaded /\ c.buf = d.buf /\ c.top = t1
          /\ c.viewport = d.viewport /\ c.vga = d.vga
      BY <1>2, <3>1, <3>2 DEF Bufs
    <3>4. Shown(c) = Shown(d)
      BY <3>3 DEF Shown
    <3> QED
      BY <1>4, <2>3, <3>2, <3>3, <3>4 DEF SameText
  <2> QED
    BY <2>1, <2>2, <2>3
<1>8. CASE sb_ldiff(c.viewport, below) = VGA_HEIGHT
  <2> DEFINE v == sb_addline(c.viewport, 1)
  <2>1. u = sb_sync([c EXCEPT !.viewport = v]) /\ v \in Lines
    BY <1>5, <1>7, <1>8, ScrollIs
  <2>2. v \in Views
    BY <2>1, Sizes DEF Lines, Views
  <2>3. /\ u \in Bufs /\ u.viewport = v /\ SameText(c, u)
        /\ c.loaded => u.vga = Shown(u)
    BY <1>7, <2>1, <2>2, MovedIs
  <2> HIDE DEF v
  <2>4. Advanced(s, u)
    BY <1>7, <2>3 DEF SameText, Advanced, below, t1, text
  <2>5. u.top = c.top /\ u.cursor = c.cursor
    BY <2>3 DEF SameText
  <2>6. ASSUME ViewOK(s), below # s.top
        PROVE  ViewOK(u)
    BY <1>1, <1>2, <1>7, <1>8, <2>3, <2>5, <2>6, NextView DEF v, below
  <2>7. ASSUME ViewOK(s), below = s.top
        PROVE  ViewOK(u)
    <3>1. Depth(s) = SB_HEIGHT - 1 /\ u.top = sb_addline(s.top, 1) /\ u.cursor = s.top
      BY <1>2, <1>7, <2>5, <2>7 DEF t1
    <3>2. CASE s.viewport = s.top
      BY <1>1, <1>7, <1>8, <2>3, <2>7, <3>1, <3>2, WrapView DEF v, t1
    <3>3. CASE s.viewport # s.top
      BY <1>1, <1>7, <1>8, <2>3, <2>7, <3>1, <3>3, WrapView DEF v
    <3> QED
      BY <3>2, <3>3
  <2> QED
    BY <1>7, <2>3, <2>4, <2>6, <2>7 DEF u
<1>9. CASE sb_ldiff(c.viewport, below) # VGA_HEIGHT
  <2>1. u = c
    BY <1>5, <1>7, <1>9
  <2>2. Advanced(s, u)
    BY <1>7, <2>1 DEF Advanced, below, t1, text
  <2>3. ASSUME ViewOK(s), below # s.top
        PROVE  ViewOK(u)
    BY <1>1, <1>2, <1>7, <1>9, <2>1, <2>3, NextView DEF below
  <2>4. ASSUME good, below # s.top
        PROVE  u.vga = Shown(u)
    <3>1. text = s.buf
      BY <1>1, <1>2, <2>4 DEF fresh, text, Texts
    <3> QED
      BY <1>7, <2>1, <2>4, <3>1 DEF Shown
  <2>5. ASSUME below = s.top
        PROVE  Depth(s) = SB_HEIGHT - 1 /\ u.top = sb_addline(s.top, 1) /\ u.cursor = s.top
    BY <1>2, <1>7, <2>1, <2>5 DEF t1
  <2>6. ASSUME below = s.top, s.viewport = s.top
        PROVE  /\ ViewOK(s) => ViewOK(u)
               /\ s.loaded => u.vga = Shown(u)
    <3>1. u.viewport = u.top
      BY <1>7, <2>1, <2>6
    <3> QED
      BY <1>1, <1>7, <2>1, <2>5, <2>6, <3>1, WrapView
  <2>7. ASSUME below = s.top, s.viewport # s.top, ViewOK(s)
        PROVE  ViewOK(u) /\ \A r \in Rows : sb_addline(s.viewport, r) # s.top
    <3>1. u.viewport = s.viewport /\ sb_ldiff(s.viewport, s.top) # VGA_HEIGHT
      BY <1>7, <1>9, <2>1, <2>7
    <3> QED
      BY <1>1, <2>5, <2>7, <3>1, WrapView
  <2>8. ASSUME below = s.top, s.viewport # s.top, good
        PROVE  u.vga = Shown(u)
    <3>1. u.vga = [r \in Rows |-> s.buf[sb_addline(s.viewport, r)]]
      BY <1>7, <2>1, <2>8 DEF Shown
    <3>2. Shown(u) = [r \in Rows |-> text[sb_addline(s.viewport, r)]]
      BY <1>7, <2>1, <2>8 DEF Shown
    <3>3. ASSUME NEW r \in Rows
          PROVE  text[sb_addline(s.viewport, r)] = s.buf[sb_addline(s.viewport, r)]
      <4>1. sb_addline(s.viewport, r) # below
        BY <2>7, <2>8
      <4>2. sb_addline(s.viewport, r) \in Lines
        BY <1>1, <2>8, RowIs
      <4> QED
        BY <1>1, <4>1, <4>2 DEF text, Texts
    <3> QED
      BY <3>1, <3>2, <3>3
  <2> QED
    BY <1>7, <2>1, <2>2, <2>3, <2>4, <2>6, <2>7, <2>8 DEF u, fresh, below
<1> QED
  BY <1>8, <1>9 DEF u, fresh, below

-----------------------------------------------------------------------------
(***************************************************************************)
(* The same, line by line from the top                                     *)
(***************************************************************************)

\* A line, and a buffer's text, with a cell written.
SetCell(line, o, cell) == [line EXCEPT ![o] = cell]
SetText(s, o, cell) == [s.buf EXCEPT ![s.cursor][o] = cell]

\* A cell written under the cursor.
LEMMA WriteLines ==
  ASSUME NEW s, s.top \in Lines, s.cursor \in Lines, s.buf \in Texts, NEW o, NEW cell,
         NEW u, u.top = s.top, u.cursor = s.cursor, u.buf = SetText(s, o, cell)
  PROVE  /\ Depth(u) = Depth(s)
         /\ \A k \in Lines :
              Line(u, k) = IF k = Depth(s) THEN SetCell(Line(s, k), o, cell)
                                           ELSE Line(s, k)
<1>1. Depth(u) = Depth(s)
  BY DEF Depth
<1>2. ASSUME NEW k \in Lines
      PROVE  Line(u, k) = IF k = Depth(s) THEN SetCell(Line(s, k), o, cell)
                                          ELSE Line(s, k)
  <2> DEFINE l == sb_addline(s.top, k)
  <2>1. l \in Lines /\ (l = s.cursor <=> k = Depth(s))
    BY LineIs, Ring
  <2>2. Line(u, k) = u.buf[l] /\ Line(s, k) = s.buf[l]
    BY DEF Line
  <2> HIDE DEF l
  <2> QED
    BY <2>1, <2>2 DEF Texts, SetCell, SetText
<1> QED
  BY <1>1, <1>2

\* A fresh line: at the end, or at the end with the oldest one gone.
LEMMA AdvanceLines ==
  ASSUME NEW s, s.top \in Lines, s.cursor \in Lines, s.buf \in Texts,
         NEW u, Advanced(s, u)
  PROVE  /\ Depth(s) # SB_HEIGHT - 1 =>
              /\ Depth(u) = Depth(s) + 1
              /\ \A k \in Lines :
                   Line(u, k) = IF k = Depth(s) + 1 THEN BlankLine ELSE Line(s, k)
         /\ Depth(s) = SB_HEIGHT - 1 =>
              /\ Depth(u) = SB_HEIGHT - 1
              /\ \A k \in Lines :
                   Line(u, k) = IF k = SB_HEIGHT - 1 THEN BlankLine ELSE Line(s, k + 1)
<1> DEFINE below == sb_addline(s.cursor, 1)
           t1 == sb_addline(s.top, 1)
<1>1. /\ Depth(s) \in Lines /\ below \in Lines /\ t1 \in Lines
      /\ below = s.top <=> Depth(s) = SB_HEIGHT - 1
      /\ Depth(s) # SB_HEIGHT - 1 => sb_ldiff(s.top, below) = Depth(s) + 1
      /\ sb_ldiff(t1, s.top) = SB_HEIGHT - 1
      /\ \A k \in Lines : k < SB_HEIGHT - 1 =>
           k + 1 \in Lines /\ sb_addline(t1, k) = sb_addline(s.top, k + 1)
      /\ sb_addline(t1, SB_HEIGHT - 1) = s.top
  BY NextLine
<1>2. /\ u.top = (IF below = s.top THEN t1 ELSE s.top)
      /\ u.cursor = below /\ u.buf = [s.buf EXCEPT ![below] = BlankLine]
  BY DEF Advanced
<1> HIDE DEF below, t1
<1>3. \A l \in Lines : u.buf[l] = IF l = below THEN BlankLine ELSE s.buf[l]
  BY <1>1, <1>2 DEF Texts
<1>4. ASSUME Depth(s) # SB_HEIGHT - 1
      PROVE  /\ Depth(u) = Depth(s) + 1
             /\ \A k \in Lines :
                  Line(u, k) = IF k = Depth(s) + 1 THEN BlankLine ELSE Line(s, k)
  <2>1. u.top = s.top /\ Depth(u) = Depth(s) + 1
    BY <1>1, <1>2, <1>4 DEF Depth
  <2>2. ASSUME NEW k \in Lines
        PROVE  Line(u, k) = IF k = Depth(s) + 1 THEN BlankLine ELSE Line(s, k)
    <3>1. /\ sb_addline(s.top, k) \in Lines
          /\ sb_ldiff(s.top, sb_addline(s.top, k)) = k
          /\ sb_addline(s.top, sb_ldiff(s.top, below)) = below
      BY <1>1, Ring
    <3>2. sb_addline(s.top, k) = below <=> k = Depth(s) + 1
      BY <1>1, <1>4, <3>1
    <3> QED
      BY <1>3, <2>1, <3>1, <3>2 DEF Line
  <2> QED
    BY <2>1, <2>2
<1>5. ASSUME Depth(s) = SB_HEIGHT - 1
      PROVE  /\ Depth(u) = SB_HEIGHT - 1
             /\ \A k \in Lines :
                  Line(u, k) = IF k = SB_HEIGHT - 1 THEN BlankLine ELSE Line(s, k + 1)
  <2>1. u.top = t1 /\ u.cursor = s.top /\ below = s.top /\ Depth(u) = SB_HEIGHT - 1
    BY <1>1, <1>2, <1>5 DEF Depth
  <2>2. ASSUME NEW k \in Lines
        PROVE  Line(u, k) = IF k = SB_HEIGHT - 1 THEN BlankLine ELSE Line(s, k + 1)
    <3>1. CASE k = SB_HEIGHT - 1
      BY <1>1, <1>3, <2>1, <3>1 DEF Line
    <3>2. CASE k # SB_HEIGHT - 1
      <4>1. k < SB_HEIGHT - 1 /\ 0 <= k /\ k \in Int
        BY <3>2, Sizes DEF Lines
      <4>2. k + 1 \in Lines /\ sb_addline(t1, k) = sb_addline(s.top, k + 1)
        BY <1>1, <4>1
      <4>3. sb_addline(s.top, k + 1) # s.top
        <5>1. sb_ldiff(s.top, sb_addline(s.top, k + 1)) = k + 1
          BY <4>2, Ring
        <5>2. s.top \in Int
          BY Sizes DEF Lines
        <5>3. sb_ldiff(s.top, s.top) = 0
          BY <5>2 DEF sb_ldiff
        <5> QED
          BY <4>1, <5>1, <5>3
      <4>4. sb_addline(s.top, k + 1) \in Lines
        BY <4>2, Ring
      <4> QED
        BY <1>3, <2>1, <3>2, <4>2, <4>3, <4>4 DEF Line
    <3> QED
      BY <3>1, <3>2
  <2> QED
    BY <2>1, <2>2
<1> QED
  BY <1>4, <1>5

\* The line above the cursor's, and the view when the cursor goes there: a
\* viewport before the buffer misleads sb_diff when the cursor is on line 0.
LEMMA PrevLine ==
  ASSUME NEW s, s.top \in Lines, s.cursor \in Lines, s.viewport \in Views,
         Depth(s) >= 1,
         NEW u, u.top = s.top, u.cursor = sb_addline(s.cursor, -1)
  PROVE  /\ u.cursor \in Lines /\ Depth(u) = Depth(s) - 1
         /\ ViewOK(s) =>
              /\ s.viewport = s.cursor =>
                   /\ Height(s) >= 1
                   /\ u.viewport = sb_addline(s.viewport, -1) => ViewOK(u)
              /\ s.viewport # s.cursor /\ u.viewport = s.viewport
                   => ViewOK(u) \/ Misleads(u)
<1> DEFINE t == s.top
           c == s.cursor
           v == s.viewport
           w == v % SB_HEIGHT
           e == Depth(s)
           h == Height(s)
           c1 == u.cursor
           v1 == u.viewport
           w1 == v1 % SB_HEIGHT
           h1 == Height(u)
           e1 == Depth(u)
<1>1. /\ t \in Int /\ 0 <= t /\ t < SB_HEIGHT
      /\ c \in Int /\ 0 <= c /\ c < SB_HEIGHT
      /\ v \in Int /\ -VGA_HEIGHT < v /\ v < SB_HEIGHT
      /\ w \in Int /\ 0 <= w /\ w < SB_HEIGHT
      /\ w = (IF v < 0 THEN v + SB_HEIGHT ELSE v)
  BY Sizes, ViewLine DEF Lines
<1>2. e \in Lines /\ h \in Lines
  BY Ring, ViewLine DEF Depth, Height
<1>3. /\ e \in Int /\ 1 <= e /\ e < SB_HEIGHT
      /\ h \in Int /\ 0 <= h /\ h < SB_HEIGHT
  BY <1>2, Sizes DEF Lines
<1>4. /\ e = (IF t <= c THEN c - t ELSE (SB_HEIGHT - t) + c)
      /\ h = (IF t <= w THEN w - t ELSE (SB_HEIGHT - t) + w)
      /\ h1 = (IF t <= w1 THEN w1 - t ELSE (SB_HEIGHT - t) + w1)
      /\ e1 = (IF t <= c1 THEN c1 - t ELSE (SB_HEIGHT - t) + c1)
  BY DEF Depth, Height, sb_ldiff
<1>5. ViewOK(s) => /\ h <= e /\ h <= SB_HEIGHT - VGA_HEIGHT
                   /\ v < 0 => c - v < VGA_HEIGHT
  BY DEF ViewOK
<1>6. ViewOK(u) <=> /\ h1 <= e1 /\ h1 <= SB_HEIGHT - VGA_HEIGHT
                    /\ v1 < 0 => c1 - v1 < VGA_HEIGHT
  BY DEF ViewOK
<1>7. Misleads(u) <=> (IF v1 <= c1 THEN c1 - v1 ELSE (SB_HEIGHT - v1) + c1) #
                      (IF w1 <= c1 THEN c1 - w1 ELSE (SB_HEIGHT - w1) + c1)
  BY DEF Misleads, sb_ldiff
<1>8. c1 = sb_addline(c, -1)
  OBVIOUS
<1>9. v1 = v => w1 = w
  OBVIOUS
<1>10. v1 \in Lines => v1 \in Int /\ 0 <= v1 /\ v1 < SB_HEIGHT /\ w1 = v1
  <2>1. v1 \in Lines => v1 \in Views /\ v1 \in Int /\ 0 <= v1 /\ v1 < SB_HEIGHT
    BY Sizes DEF Lines, Views
  <2> QED
    BY <2>1, ViewLine
<1> HIDE DEF t, c, v, w, e, h, c1, v1, w1, h1, e1
<1>11. /\ c1 \in Lines /\ c1 \in Int
       /\ c1 = (IF c = 0 THEN SB_HEIGHT - 1 ELSE c - 1)
  <2>1. c + (-1) = c - 1 /\ -1 \in Int
    BY <1>1
  <2>2. /\ -SB_HEIGHT <= c + (-1) /\ c + (-1) < SB_HEIGHT
        /\ c + (-1) < SB_HEIGHT + SB_HEIGHT
    BY <1>1, Sizes
  <2>3. /\ sb_addline(c, -1) \in Lines
        /\ sb_addline(c, -1) = IF c + (-1) < 0 THEN c + (-1) + SB_HEIGHT
                               ELSE IF c + (-1) < SB_HEIGHT THEN c + (-1)
                               ELSE c + (-1) - SB_HEIGHT
    BY <1>1, <2>1, <2>2, AddLine
  <2> QED
    BY <1>1, <1>8, <2>1, <2>2, <2>3, Sizes
<1>12. e1 = e - 1
  BY <1>1, <1>3, <1>4, <1>11, Sizes
<1>13. ASSUME ViewOK(s), v = c
       PROVE  h >= 1 /\ (v1 = c1 => ViewOK(u))
  <2>1. h = e
    BY <1>1, <1>4, <1>13
  <2>2. v1 = c1 => h1 = e - 1 /\ 0 <= v1
    BY <1>4, <1>10, <1>11, <1>12
  <2> QED
    BY <1>3, <1>5, <1>6, <1>11, <1>12, <1>13, <2>1, <2>2, Sizes
<1>14. ASSUME ViewOK(s), v # c, v1 = v
       PROVE  ViewOK(u) \/ Misleads(u)
  <2>1. w1 = w /\ h1 = h
    BY <1>4, <1>9, <1>14
  <2>2. h # e
    BY <1>1, <1>3, <1>4, <1>5, <1>14, Sizes
  <2>3. CASE ~(v < 0 /\ c = 0)
    <3>1. h1 <= e1 /\ h1 <= SB_HEIGHT - VGA_HEIGHT
      BY <1>3, <1>5, <1>12, <1>14, <2>1, <2>2
    <3>2. v < 0 => c1 = c - 1 /\ c - v < VGA_HEIGHT
      BY <1>1, <1>5, <1>11, <1>14, <2>3
    <3>3. v < 0 => c1 - v < VGA_HEIGHT
      BY <1>1, <3>2, Sizes
    <3> QED
      BY <1>6, <1>14, <3>1, <3>3
  <2>4. CASE v < 0 /\ c = 0
    BY <1>1, <1>7, <1>11, <1>14, <2>1, <2>4, Sizes
  <2> QED
    BY <2>3, <2>4
<1>15. v = c => sb_addline(v, -1) = c1
  BY <1>8
<1> QED
  BY <1>11, <1>12, <1>13, <1>14, <1>15 DEF t, c, v, w, e, h, c1, v1, w1, h1, e1

-----------------------------------------------------------------------------
(***************************************************************************)
(* What printing and erasing do to a buffer in order                       *)
(***************************************************************************)

\* What every operation keeps, up to the cursor registers: the text is in
\* order, and so are view and display unless sb_diff is misled.
Inner(s, u) ==
  /\ u \in Bufs /\ u.loaded = s.loaded
  /\ TextOK(u)
  /\ ViewOK(s) => ViewOK(u) \/ Misleads(u)
  /\ s.loaded /\ ViewOK(s) /\ s.vga = Shown(s) /\ ViewOK(u) => u.vga = Shown(u)

\* The same with the registers.
Keeps(s, u) ==
  /\ u \in Bufs /\ u.loaded = s.loaded
  /\ TextOK(u)
  /\ ViewOK(s) => ViewOK(u) \/ Misleads(u)
  /\ s.loaded /\ ViewOK(s) /\ Mirrors(s) /\ ViewOK(u) => Mirrors(u)

\* Text that is the same is in order, and can be erased, alike.
LEMMA TextSame ==
  ASSUME NEW s, NEW u, SameText(s, u)
  PROVE  /\ TextOK(s) => TextOK(u)
         /\ \A n \in Nat : TypedOK(s, n) => TypedOK(u, n)
         /\ Page(u) = Page(s)
<1>1. Depth(u) = Depth(s) /\ u.offset = s.offset /\ u.top = s.top /\ u.buf = s.buf
  BY DEF SameText, Depth
<1>2. \A k : Line(u, k) = Line(s, k)
  BY <1>1 DEF Line
<1>3. Page(u) = Page(s)
  BY <1>1 DEF Page, SameText
<1>4. TextOK(s) => TextOK(u)
  BY <1>1, <1>2 DEF TextOK, Below
<1>5. \A n \in Nat : TypedOK(s, n) => TypedOK(u, n)
  BY <1>1, <1>2 DEF TypedOK
<1> QED
  BY <1>3, <1>4, <1>5

\* PlaceCursor puts the registers in order.
LEMMA PlaceIs ==
  ASSUME NEW s, NEW x, Inner(s, x)
  PROVE  /\ Keeps(s, PlaceCursor(x)) /\ SameText(x, PlaceCursor(x))
         /\ ViewOK(x) => ViewOK(PlaceCursor(x))
<1> DEFINE reg == cursor_update(x.hw, CursorPos(x))
           u == [x EXCEPT !.hw = reg]
<1>1. /\ x \in Bufs /\ TextOK(x) /\ x.loaded = s.loaded
      /\ x.top \in Lines /\ x.cursor \in Lines /\ x.viewport \in Views
      /\ x.offset \in Columns /\ x.offset \in Int /\ x.hw \in Registers
  BY DEF Inner, Bufs, TextOK
<1>2. CursorPos(x) \in Int /\ reg \in Registers
  BY <1>1, PosType, CursorUpdate
<1>3. ViewOK(x) => reg = Placed(x)
  BY <1>1, <1>2, PosFits, CursorUpdate DEF Placed
<1> HIDE DEF reg
<1>4. /\ u \in Bufs /\ SameText(x, u) /\ u.viewport = x.viewport
      /\ u.vga = x.vga /\ u.hw = reg
  BY <1>1, <1>2 DEF Bufs, SameText
<1>5. u = PlaceCursor(x)
  BY DEF PlaceCursor, reg
<1> HIDE DEF u
<1>6. ViewOK(u) <=> ViewOK(x)
  BY <1>4, ViewSame
<1>7. Misleads(u) <=> Misleads(x)
  BY <1>4 DEF Misleads, SameText
<1>8. Shown(u) = Shown(x) /\ Placed(u) = Placed(x)
  BY <1>4 DEF Shown, Placed, CursorPos, SameText
<1>9. TextOK(u) /\ u.loaded = x.loaded
  BY <1>1, <1>4, TextSame DEF SameText
<1>10. Keeps(s, u)
  BY <1>1, <1>3, <1>4, <1>6, <1>7, <1>8, <1>9 DEF Keeps, Inner, Mirrors
<1> QED
  BY <1>4, <1>5, <1>6, <1>10

\* The line after the cursor's, while there is one.
LEMMA NextFresh ==
  ASSUME NEW s, s.top \in Lines, s.cursor \in Lines, Below(s), Depth(s) # SB_HEIGHT - 1
  PROVE  s.buf[sb_addline(s.cursor, 1)] = BlankLine
<1> DEFINE below == sb_addline(s.cursor, 1)
<1>1. below \in Lines /\ sb_ldiff(s.top, below) = Depth(s) + 1 /\ Depth(s) \in Lines
  BY NextLine
<1>2. sb_addline(s.top, Depth(s) + 1) = below /\ Depth(s) + 1 \in Lines
  BY <1>1, Ring
<1>3. Depth(s) + 1 > Depth(s)
  BY <1>1 DEF Lines
<1> QED
  BY <1>2, <1>3 DEF Below, Line

\* A fresh line leaves the text in order.
LEMMA AdvanceText ==
  ASSUME NEW s, s.top \in Lines, s.cursor \in Lines, s.buf \in Texts, Below(s),
         NEW u, Advanced(s, u)
  PROVE  TextOK(u)
<1>1. Depth(s) \in Lines /\ (Depth(s) # SB_HEIGHT - 1 => Depth(s) + 1 \in Lines)
  BY LineIs, Sizes DEF Lines
<1>2. Depth(u) \in Lines /\ Line(u, Depth(u)) = BlankLine
  BY <1>1, AdvanceLines
<1>3. \A j \in Columns : j < 0 <=> Line(u, Depth(u))[j] # BLANK
  BY <1>2, Sizes DEF BlankLine, Columns
<1>4. Below(u)
  <2>1. CASE Depth(s) # SB_HEIGHT - 1
    <3> SUFFICES ASSUME NEW k \in Lines, k > Depth(u)
                 PROVE  Line(u, k) = BlankLine
      BY DEF Below
    <3>1. Depth(u) = Depth(s) + 1 /\ (k # Depth(s) + 1 => Line(u, k) = Line(s, k))
      BY <2>1, AdvanceLines
    <3>2. k > Depth(s) /\ k # Depth(s) + 1
      BY <1>1, <3>1, Sizes DEF Lines
    <3> QED
      BY <3>1, <3>2 DEF Below
  <2>2. CASE Depth(s) = SB_HEIGHT - 1
    <3>1. Depth(u) = SB_HEIGHT - 1
      BY <2>2, AdvanceLines
    <3> QED
      BY <3>1, Sizes DEF Below, Lines
  <2> QED
    BY <2>1, <2>2
<1>5. u.offset = 0 /\ 0 \in Columns
  BY Sizes DEF Advanced, Columns
<1> QED
  BY <1>3, <1>4, <1>5 DEF TextOK

\* sb_crlf, from any column.
LEMMA NewlineIs ==
  ASSUME NEW s \in Bufs, Below(s)
  PROVE  /\ Inner(s, sb_crlf(s)) /\ Advanced(s, sb_crlf(s))
         /\ ViewOK(s) => ViewOK(sb_crlf(s))
<1> DEFINE u == sb_crlf(s)
<1>1. s.top \in Lines /\ s.cursor \in Lines /\ s.buf \in Texts
  BY DEF Bufs
<1>2. Depth(s) # SB_HEIGHT - 1 => s.buf[sb_addline(s.cursor, 1)] = BlankLine
  BY <1>1, NextFresh
<1>3. /\ u \in Bufs /\ Advanced(s, u)
      /\ ViewOK(s) => ViewOK(u)
      /\ s.loaded /\ ViewOK(s) /\ s.vga = Shown(s) => u.vga = Shown(u)
  BY <1>2, CrlfIs
<1> HIDE DEF u
<1>4. TextOK(u)
  BY <1>1, <1>3, AdvanceText
<1>5. u.loaded = s.loaded
  BY <1>3 DEF Advanced
<1>6. Inner(s, u)
  BY <1>3, <1>4, <1>5 DEF Inner
<1> QED
  BY <1>3, <1>6 DEF u

\* One more line is VGA_WIDTH more cells.
LEMMA OneMore ==
  ASSUME NEW a \in Int
  PROVE  /\ (a + 1) * VGA_WIDTH = a * VGA_WIDTH + VGA_WIDTH
         /\ (a - 1) * VGA_WIDTH = a * VGA_WIDTH - VGA_WIDTH
         /\ a * VGA_WIDTH \in Int
BY Sizes, SMT

\* The buffer after sb_regular has written, before it looks at the column.
Wrote(s, c) == [sb_write_word(s, c) EXCEPT !.offset = s.offset + 1]

\* The text after that.
LEMMA WroteIs ==
  ASSUME NEW s \in Bufs, TextOK(s), NEW c \in CHARS
  PROVE  LET t == Wrote(s, c)
         IN  /\ t \in Bufs /\ t.loaded = s.loaded /\ t.offset = s.offset + 1
             /\ t.top = s.top /\ t.cursor = s.cursor
             /\ Depth(t) = Depth(s) /\ Below(t)
             /\ Line(t, Depth(s)) = SetCell(Line(s, Depth(s)), s.offset, c)
             /\ \A j \in Columns : j < t.offset <=> Line(t, Depth(t))[j] # BLANK
             /\ \A k \in Lines : k # Depth(s) => Line(t, k) = Line(s, k)
             /\ ViewOK(t) <=> ViewOK(s)
             /\ s.loaded /\ ViewOK(s) /\ s.vga = Shown(s) => t.vga = Shown(t)
<1> DEFINE w == sb_write_word(s, c)
           t == Wrote(s, c)
<1>1. /\ s.top \in Lines /\ s.cursor \in Lines /\ s.buf \in Texts /\ s.offset \in Columns
      /\ s.offset \in Int /\ c \in Cells /\ c # BLANK /\ s.viewport \in Views
  BY ScreenbufAssumption DEF Bufs, TextOK, Cells
<1>2. /\ w \in Bufs
      /\ w.top = s.top /\ w.viewport = s.viewport /\ w.cursor = s.cursor
      /\ w.offset = s.offset /\ w.loaded = s.loaded
      /\ w.buf = SetText(s, s.offset, c)
      /\ s.loaded /\ ViewOK(s) /\ s.vga = Shown(s) => w.vga = Shown(w)
  BY <1>1, WriteIs DEF SetText
<1>3. t = [w EXCEPT !.offset = s.offset + 1]
  BY DEF Wrote
<1> HIDE DEF w, t
<1>4. /\ t \in Bufs /\ t.top = w.top /\ t.viewport = w.viewport /\ t.cursor = w.cursor
      /\ t.offset = s.offset + 1 /\ t.loaded = w.loaded /\ t.buf = w.buf /\ t.vga = w.vga
  BY <1>1, <1>2, <1>3 DEF Bufs
<1>5. Shown(t) = Shown(w) /\ (ViewOK(t) <=> ViewOK(s))
  BY <1>2, <1>4 DEF Shown, ViewOK, Depth, Height
<1>6. /\ Depth(t) = Depth(s) /\ Depth(s) \in Lines
      /\ \A k \in Lines :
           Line(t, k) = IF k = Depth(s) THEN SetCell(Line(s, k), s.offset, c)
                                        ELSE Line(s, k)
  <2>1. t.top = s.top /\ t.cursor = s.cursor /\ t.buf = SetText(s, s.offset, c)
    BY <1>2, <1>4
  <2>2. Depth(s) \in Lines
    BY <1>1, LineIs
  <2> QED
    BY <1>1, <2>1, <2>2, WriteLines
<1>7. Line(s, Depth(s)) \in [Columns -> Cells]
  BY <1>1, LineIs
<1>8. \A j \in Columns : j < t.offset <=> Line(t, Depth(t))[j] # BLANK
  <2> SUFFICES ASSUME NEW j \in Columns
               PROVE  j < s.offset + 1 <=> Line(t, Depth(s))[j] # BLANK
    BY <1>4, <1>6
  <2>1. Line(t, Depth(s))[j] = IF j = s.offset THEN c ELSE Line(s, Depth(s))[j]
    BY <1>6, <1>7 DEF SetCell
  <2>2. j < s.offset <=> Line(s, Depth(s))[j] # BLANK
    BY DEF TextOK
  <2>3. j \in Int
    BY Sizes DEF Columns
  <2> QED
    BY <1>1, <2>1, <2>2, <2>3
<1>9. Below(t)
  <2> SUFFICES ASSUME NEW k \in Lines, k > Depth(t)
               PROVE  Line(t, k) = BlankLine
    BY DEF Below
  <2>1. k # Depth(s) /\ k > Depth(s)
    BY <1>6 DEF Lines
  <2> QED
    BY <1>6, <2>1 DEF TextOK, Below
<1>10. s.loaded /\ ViewOK(s) /\ s.vga = Shown(s) => t.vga = Shown(t)
  BY <1>2, <1>4, <1>5
<1> QED
  BY <1>2, <1>4, <1>5, <1>6, <1>8, <1>9, <1>10 DEF t

\* sb_regular: the character, and a fresh line when this one is full.
LEMMA RegularIs ==
  ASSUME NEW s \in Bufs, TextOK(s), NEW c \in CHARS
  PROVE  /\ Inner(s, sb_regular(s, c))
         /\ ViewOK(s) => ViewOK(sb_regular(s, c))
         /\ s.offset + 1 = VGA_WIDTH => Advanced(Wrote(s, c), sb_regular(s, c))
         /\ s.offset + 1 # VGA_WIDTH => sb_regular(s, c) = Wrote(s, c)
<1> DEFINE t == Wrote(s, c)
           u == sb_regular(s, c)
<1>1. /\ t \in Bufs /\ t.loaded = s.loaded /\ t.offset = s.offset + 1 /\ Below(t)
      /\ \A j \in Columns : j < t.offset <=> Line(t, Depth(t))[j] # BLANK
      /\ ViewOK(t) <=> ViewOK(s)
      /\ s.loaded /\ ViewOK(s) /\ s.vga = Shown(s) => t.vga = Shown(t)
  BY WroteIs
<1>2. u = IF s.offset + 1 = VGA_WIDTH THEN sb_crlf(t) ELSE t
  <2>1. u = IF t.offset = VGA_WIDTH THEN sb_crlf(t) ELSE t
    BY DEF sb_regular, Wrote
  <2> HIDE DEF t, u
  <2> QED
    BY <1>1, <2>1
<1> HIDE DEF t, u
<1>3. CASE s.offset + 1 = VGA_WIDTH
  <2>1. Inner(t, u) /\ Advanced(t, u) /\ (ViewOK(t) => ViewOK(u))
    BY <1>1, <1>2, <1>3, NewlineIs
  <2>2. Inner(s, u)
    BY <1>1, <2>1 DEF Inner
  <2> QED
    BY <1>1, <1>3, <2>1, <2>2 DEF t, u
<1>4. CASE s.offset + 1 # VGA_WIDTH
  <2>1. s.offset + 1 \in Columns
    BY <1>4, Sizes DEF TextOK, Columns
  <2>2. u = t
    BY <1>2, <1>4
  <2>3. TextOK(t)
    BY <1>1, <2>1 DEF TextOK
  <2>4. Inner(s, u)
    BY <1>1, <2>2, <2>3 DEF Inner
  <2> QED
    BY <1>1, <1>4, <2>2, <2>4 DEF t, u
<1> QED
  BY <1>3, <1>4

\* With nothing typed there is nothing to erase.
LEMMA TypedNone ==
  ASSUME NEW s \in Bufs, TextOK(s)
  PROVE  TypedOK(s, 0)
<1>1. Depth(s) \in Lines /\ s.offset \in Columns
  BY LineIs DEF Bufs, TextOK
<1>2. Depth(s) \in Nat /\ s.offset \in Nat
  BY <1>1, Sizes DEF Lines, Columns
<1>3. Depth(s) * VGA_WIDTH \in Nat
  BY <1>2, Sizes, Product
<1>4. ASSUME NEW k \in Lines, k < Depth(s)
      PROVE  ~(0 > s.offset + (Depth(s) - k - 1) * VGA_WIDTH)
  <2>1. Depth(s) - k - 1 \in Nat
    BY <1>2, <1>4, Sizes DEF Lines
  <2>2. (Depth(s) - k - 1) * VGA_WIDTH \in Nat
    BY <2>1, Sizes, Product
  <2> QED
    BY <1>2, <2>2
<1> QED
  BY <1>2, <1>3, <1>4 DEF TypedOK

\* A typed character can be erased, even when the buffer has wrapped.
LEMMA RegularTyped ==
  ASSUME NEW s \in Bufs, TextOK(s), NEW c \in CHARS,
         NEW n \in Nat, n + 1 < NSH_BUFSIZE, TypedOK(s, n)
  PROVE  TypedOK(sb_regular(s, c), n + 1)
<1> DEFINE t == Wrote(s, c)
           u == sb_regular(s, c)
           d == Depth(s)
           o == s.offset
           Full(x, k) == \A j \in Columns : Line(x, k)[j] # BLANK
<1>1. /\ t.top \in Lines /\ t.cursor \in Lines /\ t.buf \in Texts /\ t.offset = o + 1
      /\ Depth(t) = d
      /\ \A j \in Columns : j < t.offset <=> Line(t, Depth(t))[j] # BLANK
      /\ \A k \in Lines : k # d => Line(t, k) = Line(s, k)
  BY WroteIs DEF Bufs
<1>2. /\ d \in Lines /\ o \in Columns
      /\ n <= d * VGA_WIDTH + o
      /\ \A k \in Lines : k < d /\ n > o + (d - k - 1) * VGA_WIDTH => Full(s, k)
  BY LineIs DEF Bufs, TextOK, TypedOK
<1>3. /\ o + 1 = VGA_WIDTH => Advanced(t, u)
      /\ o + 1 # VGA_WIDTH => u = t
  BY RegularIs
<1>4. ASSUME n + 1 <= Depth(u) * VGA_WIDTH + u.offset,
             ASSUME NEW k \in Lines, k < Depth(u),
                    n + 1 > u.offset + (Depth(u) - k - 1) * VGA_WIDTH
             PROVE  Full(u, k)
      PROVE  TypedOK(u, n + 1)
  BY <1>4 DEF TypedOK
<1> HIDE DEF t, u, d, o, Full
<1>5. d \in Int /\ 0 <= d /\ o \in Int /\ 0 <= o /\ o < VGA_WIDTH /\ d < SB_HEIGHT
  BY <1>2, Sizes DEF Lines, Columns
<1>6. \A k \in Lines : k \in Int /\ 0 <= k /\ k < SB_HEIGHT
  BY Sizes DEF Lines
<1>7. \A k \in Lines : k # d => (Full(t, k) <=> Full(s, k))
  BY <1>1 DEF Full
<1>8. CASE o + 1 # VGA_WIDTH
  <2>1. u = t /\ u.offset = o + 1 /\ Depth(u) = d
    BY <1>1, <1>3, <1>8
  <2>2. n + 1 <= d * VGA_WIDTH + (o + 1)
    BY <1>2, <1>5, OneMore
  <2>3. ASSUME NEW k \in Lines, k < d, n + 1 > (o + 1) + (d - k - 1) * VGA_WIDTH
        PROVE  Full(u, k)
    <3>1. d - k - 1 \in Int
      BY <1>5, <1>6
    <3>2. (d - k - 1) * VGA_WIDTH \in Int
      BY <3>1, OneMore
    <3>3. n > o + (d - k - 1) * VGA_WIDTH /\ k # d
      BY <1>5, <1>6, <2>3, <3>2
    <3> QED
      BY <1>2, <1>7, <2>1, <2>3, <3>3
  <2>4. n + 1 <= Depth(u) * VGA_WIDTH + u.offset
    BY <2>1, <2>2
  <2>5. ASSUME NEW k \in Lines, k < Depth(u),
               n + 1 > u.offset + (Depth(u) - k - 1) * VGA_WIDTH
        PROVE  Full(u, k)
    <3>1. k < d /\ n + 1 > (o + 1) + (d - k - 1) * VGA_WIDTH
      BY <2>1, <2>5
    <3> QED
      BY <2>3, <3>1
  <2> QED
    BY <1>4, <2>4, <2>5 DEF u
<1>9. ASSUME o + 1 = VGA_WIDTH
      PROVE  /\ u.offset = 0
             /\ Full(t, d)
             /\ \A k \in Lines : k < d /\ n + 1 > (d - k) * VGA_WIDTH => Full(t, k)
  <2>1. u.offset = 0
    BY <1>3, <1>9 DEF Advanced
  <2>2. Full(t, d)
    BY <1>1, <1>5, <1>9, Sizes DEF Full, Columns
  <2>3. ASSUME NEW k \in Lines, k < d, n + 1 > (d - k) * VGA_WIDTH
        PROVE  Full(t, k)
    <3>1. d - k \in Int /\ k # d
      BY <1>5, <1>6, <2>3
    <3>2. /\ (d - k - 1) * VGA_WIDTH = (d - k) * VGA_WIDTH - VGA_WIDTH
          /\ (d - k) * VGA_WIDTH \in Int
      BY <3>1, OneMore
    <3>3. n > o + (d - k - 1) * VGA_WIDTH
      BY <1>5, <1>9, <2>3, <3>2, Sizes
    <3> QED
      BY <1>2, <1>7, <2>3, <3>1, <3>3
  <2> QED
    BY <2>1, <2>2, <2>3
<1>10. CASE o + 1 = VGA_WIDTH /\ d # SB_HEIGHT - 1
  <2>1. /\ Depth(u) = d + 1 /\ u.offset = 0
        /\ \A k \in Lines : k # d + 1 => Line(u, k) = Line(t, k)
    BY <1>1, <1>3, <1>9, <1>10, AdvanceLines
  <2>2. (d + 1) * VGA_WIDTH = d * VGA_WIDTH + VGA_WIDTH /\ d * VGA_WIDTH \in Int
    BY <1>5, OneMore
  <2>3. n + 1 <= (d + 1) * VGA_WIDTH + 0
    BY <1>2, <1>5, <1>10, <2>2, Sizes
  <2>4. ASSUME NEW k \in Lines, k < d + 1, n + 1 > 0 + ((d + 1) - k - 1) * VGA_WIDTH
        PROVE  Full(u, k)
    <3>1. (d + 1) - k - 1 = d - k /\ k # d + 1 /\ (k = d \/ k < d) /\ d - k \in Int
      BY <1>5, <1>6, <2>4
    <3>2. (d - k) * VGA_WIDTH \in Int
      BY <3>1, OneMore
    <3>3. n + 1 > (d - k) * VGA_WIDTH
      BY <2>4, <3>1, <3>2
    <3>4. Full(t, k)
      BY <1>9, <1>10, <3>1, <3>3
    <3> QED
      BY <2>1, <3>1, <3>4 DEF Full
  <2>5. n + 1 <= Depth(u) * VGA_WIDTH + u.offset
    BY <2>1, <2>3
  <2>6. ASSUME NEW k \in Lines, k < Depth(u),
               n + 1 > u.offset + (Depth(u) - k - 1) * VGA_WIDTH
        PROVE  Full(u, k)
    <3>1. k < (d + 1) /\ n + 1 > 0 + ((d + 1) - k - 1) * VGA_WIDTH
      BY <2>1, <2>6
    <3> QED
      BY <2>4, <3>1
  <2> QED
    BY <1>4, <2>5, <2>6 DEF u
<1>11. CASE o + 1 = VGA_WIDTH /\ d = SB_HEIGHT - 1
  <2>1. /\ Depth(u) = d /\ u.offset = 0
        /\ \A k \in Lines : k # SB_HEIGHT - 1 => Line(u, k) = Line(t, k + 1)
    BY <1>1, <1>3, <1>9, <1>11, AdvanceLines
  <2>2. n + 1 <= d * VGA_WIDTH + 0
    <3>1. NSH_BUFSIZE <= d * VGA_WIDTH /\ NSH_BUFSIZE \in Int
      BY <1>11, ScreenbufAssumption
    <3>2. d * VGA_WIDTH \in Int
      BY <1>5, OneMore
    <3> QED
      BY <3>1, <3>2
  <2>3. ASSUME NEW k \in Lines, k < d, n + 1 > 0 + (d - k - 1) * VGA_WIDTH
        PROVE  Full(u, k)
    <3>1. /\ k + 1 \in Lines /\ k # SB_HEIGHT - 1 /\ (k + 1 = d \/ k + 1 < d)
          /\ d - k - 1 = d - (k + 1) /\ d - (k + 1) \in Int
      BY <1>5, <1>6, <1>11, <2>3, Sizes DEF Lines
    <3>2. (d - (k + 1)) * VGA_WIDTH \in Int
      BY <3>1, OneMore
    <3>3. n + 1 > (d - (k + 1)) * VGA_WIDTH
      BY <2>3, <3>1, <3>2
    <3>4. Full(t, k + 1)
      BY <1>9, <1>11, <3>1, <3>3
    <3> QED
      BY <2>1, <3>1, <3>4 DEF Full
  <2>4. n + 1 <= Depth(u) * VGA_WIDTH + u.offset
    BY <2>1, <2>2
  <2>5. ASSUME NEW k \in Lines, k < Depth(u),
               n + 1 > u.offset + (Depth(u) - k - 1) * VGA_WIDTH
        PROVE  Full(u, k)
    <3>1. k < d /\ n + 1 > 0 + (d - k - 1) * VGA_WIDTH
      BY <2>1, <2>5
    <3> QED
      BY <2>3, <3>1
  <2> QED
    BY <1>4, <2>4, <2>5 DEF u
<1> QED
  BY <1>8, <1>10, <1>11 DEF u

\* The cursor goes to the end of a full line.
LEMMA UsedFull ==
  ASSUME NEW line, \A j \in Columns : line[j] # BLANK
  PROVE  Used(line) = VGA_WIDTH
<1> DEFINE P(k) == /\ k = VGA_WIDTH \/ line[k] = BLANK
                   /\ \A j \in 0 .. (k - 1) : line[j] # BLANK
<1>1. VGA_WIDTH \in 0 .. VGA_WIDTH
  BY Sizes
<1>2. P(VGA_WIDTH)
  BY DEF Columns
<1>3. \A k \in 0 .. VGA_WIDTH : P(k) => k = VGA_WIDTH
  <2> SUFFICES ASSUME NEW k \in 0 .. VGA_WIDTH, P(k), k # VGA_WIDTH
               PROVE  FALSE
    OBVIOUS
  <2>1. k \in Columns
    BY Sizes DEF Columns
  <2> QED
    BY <2>1
<1>4. Used(line) = CHOOSE k \in 0 .. VGA_WIDTH : P(k)
  BY DEF Used
<1> HIDE DEF P
<1>5. Used(line) \in 0 .. VGA_WIDTH /\ P(Used(line))
  BY <1>1, <1>2, <1>4
<1> QED
  BY <1>3, <1>5

\* A column counted down in an unsigned short.
LEMMA OneLess ==
  ASSUME NEW o \in Int, 1 <= o, o <= VGA_WIDTH
  PROVE  (o - 1) % USHORT = o - 1 /\ o - 1 \in Columns
<1>1. USHORT \in Nat /\ USHORT > 0
  BY DEF USHORT
<1>2. VGA_WIDTH <= USHORT
  BY ScreenbufAssumption
<1>3. o - 1 \in Int /\ 0 <= o - 1 /\ o - 1 < USHORT
  BY <1>1, <1>2, Sizes
<1>4. o - 1 \in Columns
  BY Sizes DEF Columns
<1> QED
  BY <1>1, <1>3, <1>4, Remainders

\* Where sb_backspace has the cursor before it blanks the cell: Erasing(s).
Erasing(s) ==
  LET up == IF s.viewport = s.cursor THEN sb_scroll(s, -1) ELSE s
      line == sb_addline(s.cursor, -1)
      back == [up EXCEPT !.cursor = line, !.offset = Used(up.buf[line])]
      from == IF s.offset = 0 THEN back ELSE s
  IN  [from EXCEPT !.offset = (from.offset - 1) % USHORT]

\* In the middle of a line it is one column back.
LEMMA ErasingHere ==
  ASSUME NEW s \in Bufs, TextOK(s), s.offset # 0
  PROVE  LET t == Erasing(s)
         IN  /\ sb_backspace(s) = sb_write_word(t, BLANK)
             /\ t \in Bufs /\ t.loaded = s.loaded /\ t.top = s.top /\ t.cursor = s.cursor
             /\ t.buf = s.buf /\ t.offset = s.offset - 1 /\ t.offset \in Columns
             /\ ViewOK(s) => ViewOK(t)
             /\ s.vga = Shown(s) => t.vga = Shown(t)
<1> DEFINE t == Erasing(s)
<1>1. t = [s EXCEPT !.offset = (s.offset - 1) % USHORT]
  BY DEF Erasing
<1>2. sb_backspace(s) = sb_write_word(t, BLANK)
  BY DEF sb_backspace, Erasing
<1>3. s.offset \in Int /\ 1 <= s.offset /\ s.offset <= VGA_WIDTH
  BY Sizes DEF TextOK, Columns
<1>4. (s.offset - 1) % USHORT = s.offset - 1 /\ s.offset - 1 \in Columns
  BY <1>3, OneLess
<1> HIDE DEF t
<1>5. t = [s EXCEPT !.offset = s.offset - 1]
  BY <1>1, <1>4
<1>6. /\ t \in Bufs /\ t.loaded = s.loaded /\ t.top = s.top /\ t.cursor = s.cursor
      /\ t.buf = s.buf /\ t.offset = s.offset - 1 /\ t.viewport = s.viewport /\ t.vga = s.vga
  BY <1>3, <1>5 DEF Bufs
<1>7. (ViewOK(s) => ViewOK(t)) /\ Shown(t) = Shown(s)
  BY <1>6 DEF ViewOK, Depth, Height, Shown
<1> QED
  BY <1>2, <1>4, <1>6, <1>7 DEF t

\* From the start of a line it is the last column of the line above, which is
\* full as long as there is something to erase.
LEMMA ErasingAbove ==
  ASSUME NEW s \in Bufs, TextOK(s), s.offset = 0, NEW n \in Nat, n > 0, TypedOK(s, n)
  PROVE  LET t == Erasing(s)
         IN  /\ sb_backspace(s) = sb_write_word(t, BLANK)
             /\ t \in Bufs /\ t.loaded = s.loaded /\ t.top = s.top
             /\ t.cursor = sb_addline(s.cursor, -1) /\ t.buf = s.buf
             /\ t.offset = VGA_WIDTH - 1 /\ t.offset \in Columns
             /\ Depth(s) >= 1 /\ Depth(t) = Depth(s) - 1
             /\ \A j \in Columns : Line(s, Depth(s) - 1)[j] # BLANK
             /\ ViewOK(s) => ViewOK(t) \/ Misleads(t)
             /\ s.loaded /\ ViewOK(s) /\ s.vga = Shown(s) => t.vga = Shown(t)
<1> DEFINE up == IF s.viewport = s.cursor THEN sb_scroll(s, -1) ELSE s
           line == sb_addline(s.cursor, -1)
           back == [up EXCEPT !.cursor = line, !.offset = Used(up.buf[line])]
           t == Erasing(s)
           d == Depth(s)
<1>1. /\ s.top \in Lines /\ s.cursor \in Lines /\ s.viewport \in Views
      /\ s.buf \in Texts /\ d \in Lines /\ d \in Int
  <2>1. s.top \in Lines /\ s.cursor \in Lines /\ s.viewport \in Views /\ s.buf \in Texts
    BY DEF Bufs
  <2>2. d \in Lines
    BY <2>1, LineIs
  <2> QED
    BY <2>1, <2>2, Sizes DEF Lines
<1>2. d >= 1
  <2>1. n <= d * VGA_WIDTH + 0
    BY DEF TypedOK
  <2>2. d = 0 => d * VGA_WIDTH = 0
    BY Sizes
  <2> HIDE DEF d
  <2> QED
    BY <1>1, <2>1, <2>2, Sizes DEF Lines
<1>3. \A j \in Columns : Line(s, d - 1)[j] # BLANK
  <2> HIDE DEF d
  <2>1. d - 1 \in Lines /\ d - 1 < d /\ d - (d - 1) - 1 = 0
    BY <1>1, <1>2, Sizes DEF Lines
  <2>2. (d - (d - 1) - 1) * VGA_WIDTH = 0
    BY <2>1, Sizes
  <2>3. n > s.offset + (d - (d - 1) - 1) * VGA_WIDTH
    BY <2>2
  <2>4. \A k \in Lines : k < d /\ n > s.offset + (d - k - 1) * VGA_WIDTH =>
           \A j \in Columns : Line(s, k)[j] # BLANK
    BY DEF TypedOK, d
  <2> QED
    BY <2>1, <2>3, <2>4
<1>4. s.cursor # s.top
  <2>1. s.cursor = s.top => sb_ldiff(s.top, s.cursor) = 0
    BY <1>1, Sizes DEF sb_ldiff, Lines
  <2> QED
    BY <1>2, <2>1 DEF Depth
<1>5. sb_backspace(s) = sb_write_word(t, BLANK)
  BY <1>4 DEF sb_backspace, Erasing
<1>6. t = [back EXCEPT !.offset = (back.offset - 1) % USHORT]
  BY DEF Erasing
<1>7. up \in Bufs /\ SameText(s, up)
  BY ScrollIs DEF ScrollFacts, SameText
<1>8. line \in Lines /\ (ViewOK(s) /\ s.viewport = s.cursor => Height(s) >= 1)
  <2> DEFINE x == [s EXCEPT !.cursor = line]
  <2>1. x.top = s.top /\ x.cursor = sb_addline(s.cursor, -1)
    BY DEF Bufs
  <2> HIDE DEF x
  <2> QED
    BY <1>1, <1>2, <2>1, PrevLine
<1>9. Line(s, d - 1) = s.buf[line]
  <2> DEFINE x == [s EXCEPT !.cursor = line]
  <2>1. x.top = s.top /\ x.cursor = sb_addline(s.cursor, -1) /\ x.buf = s.buf
    BY DEF Bufs
  <2> HIDE DEF x
  <2>2. Depth(x) = d - 1 /\ x.cursor \in Lines
    BY <1>1, <1>2, <2>1, PrevLine
  <2>3. Line(x, Depth(x)) = x.buf[x.cursor]
    BY <1>1, <2>1, <2>2, LineIs
  <2> QED
    BY <2>1, <2>2, <2>3 DEF Line
<1>10. Used(up.buf[line]) = VGA_WIDTH
  BY <1>3, <1>7, <1>9, UsedFull DEF SameText
<1> HIDE DEF up, line, t, d
<1>11. back = [up EXCEPT !.cursor = line, !.offset = VGA_WIDTH]
  BY <1>10
<1>12. back.offset = VGA_WIDTH
  BY <1>7, <1>11 DEF Bufs
<1>13. (VGA_WIDTH - 1) % USHORT = VGA_WIDTH - 1 /\ VGA_WIDTH - 1 \in Columns
  BY OneLess, Sizes
<1>14. t = [up EXCEPT !.cursor = line, !.offset = VGA_WIDTH - 1]
  <2>1. t = [back EXCEPT !.offset = VGA_WIDTH - 1]
    BY <1>6, <1>12, <1>13
  <2> HIDE DEF back
  <2> QED
    BY <1>7, <1>11, <2>1 DEF Bufs
<1>15. /\ t \in Bufs /\ t.loaded = up.loaded /\ t.top = up.top /\ t.cursor = line
       /\ t.buf = up.buf /\ t.offset = VGA_WIDTH - 1 /\ t.viewport = up.viewport
       /\ t.vga = up.vga
  <2>1. [up EXCEPT !.cursor = line] \in Bufs
    BY <1>7, <1>8 DEF Bufs
  <2>2. VGA_WIDTH - 1 \in Int
    BY Sizes
  <2>3. t \in Bufs
    <3> DEFINE w == VGA_WIDTH - 1
    <3>1. w \in Int /\ t = [[up EXCEPT !.cursor = line] EXCEPT !.offset = w]
      BY <1>14, <2>2
    <3> HIDE DEF w
    <3> QED
      BY <2>1, <3>1 DEF Bufs
  <2> QED
    BY <1>7, <1>14, <2>3 DEF Bufs
<1>16. t.loaded = s.loaded /\ t.top = s.top /\ t.buf = s.buf
       /\ t.cursor = sb_addline(s.cursor, -1)
  BY <1>7, <1>15 DEF SameText, line
<1>17. Depth(t) = d - 1
  BY <1>1, <1>2, <1>16, PrevLine DEF d
<1>18. Shown(t) = Shown(up)
  BY <1>15 DEF Shown
<1>19. CASE s.viewport = s.cursor
  <2>1. up = sb_scroll(s, -1)
    BY <1>19 DEF up
  <2>2. sb_addline(s.viewport, -1) \in Lines
    BY ScrollIs
  <2>3. sb_addline(s.viewport, -1) \in Views
    BY <2>2, Sizes DEF Lines, Views
  <2>4. ASSUME ViewOK(s)
        PROVE  ViewOK(t) /\ (s.loaded => t.vga = Shown(t))
    <3>1. up = sb_sync([s EXCEPT !.viewport = sb_addline(s.viewport, -1)])
      BY <1>8, <1>19, <2>1, <2>4, ScrollIs
    <3>2. up.viewport = sb_addline(s.viewport, -1) /\ (s.loaded => up.vga = Shown(up))
      BY <2>3, <3>1, MovedIs
    <3>3. ViewOK(t)
      BY <1>1, <1>2, <1>15, <1>16, <1>19, <2>4, <3>2, PrevLine DEF d
    <3> QED
      BY <1>15, <1>18, <3>2, <3>3
  <2> QED
    BY <1>2, <1>3, <1>5, <1>13, <1>15, <1>16, <1>17, <2>4 DEF t, d
<1>20. CASE s.viewport # s.cursor
  <2>1. up = s
    BY <1>20 DEF up
  <2>2. ViewOK(s) => ViewOK(t) \/ Misleads(t)
    BY <1>1, <1>2, <1>15, <1>16, <1>20, <2>1, PrevLine DEF d
  <2> QED
    BY <1>2, <1>3, <1>5, <1>13, <1>15, <1>16, <1>17, <1>18, <2>1, <2>2 DEF t, d
<1> QED
  BY <1>19, <1>20

\* The line and the column that sb_backspace erases.
BackLine(s) == IF s.offset = 0 THEN Depth(s) - 1 ELSE Depth(s)
BackColumn(s) == IF s.offset = 0 THEN VGA_WIDTH - 1 ELSE s.offset - 1

\* Both, whichever line it is: what comes before them is written, what comes
\* after them is blank.
LEMMA ErasingIs ==
  ASSUME NEW s \in Bufs, TextOK(s), NEW n \in Nat, n > 0, TypedOK(s, n)
  PROVE  LET t == Erasing(s)
             d == BackLine(s)
             o == BackColumn(s)
         IN  /\ sb_backspace(s) = sb_write_word(t, BLANK)
             /\ t \in Bufs /\ t.loaded = s.loaded /\ t.top = s.top /\ t.buf = s.buf
             /\ t.offset = o /\ o \in Columns /\ Depth(t) = d /\ d \in Lines
             /\ ViewOK(s) => ViewOK(t) \/ Misleads(t)
             /\ s.loaded /\ ViewOK(s) /\ s.vga = Shown(s) => t.vga = Shown(t)
             /\ \A j \in Columns : j <= o <=> Line(s, d)[j] # BLANK
             /\ \A k \in Lines : k > d => Line(s, k) = BlankLine
             /\ n <= d * VGA_WIDTH + o + 1
             /\ \A k \in Lines : k < d /\ n > o + 1 + (d - k - 1) * VGA_WIDTH =>
                  \A j \in Columns : Line(s, k)[j] # BLANK
<1> DEFINE t == Erasing(s)
           e == Depth(s)
           p == s.offset
           d == BackLine(s)
           o == BackColumn(s)
<1>1. s.top \in Lines /\ s.cursor \in Lines /\ s.buf \in Texts /\ p \in Columns
  BY DEF Bufs, TextOK
<1>2. e \in Lines /\ \A k \in Lines : Line(s, k) \in [Columns -> Cells]
  BY <1>1, LineIs
<1>3. e \in Int /\ p \in Int /\ 0 <= p /\ p < VGA_WIDTH /\ e < SB_HEIGHT /\ 0 <= e
  BY <1>1, <1>2, Sizes DEF Lines, Columns
<1>4. /\ \A j \in Columns : j < p <=> Line(s, e)[j] # BLANK
      /\ \A k \in Lines : k > e => Line(s, k) = BlankLine
  BY DEF TextOK, Below
<1>5. /\ n <= e * VGA_WIDTH + p
      /\ \A k \in Lines : k < e /\ n > p + (e - k - 1) * VGA_WIDTH =>
           \A j \in Columns : Line(s, k)[j] # BLANK
  BY DEF TypedOK
<1>6. \A j \in Columns : j \in Int /\ 0 <= j /\ j < VGA_WIDTH
  BY Sizes DEF Columns
<1>7. \A k \in Lines : k \in Int /\ 0 <= k /\ k < SB_HEIGHT
  BY Sizes DEF Lines
<1>8. CASE p # 0
  <2>1. d = e /\ o = p - 1
    BY <1>8 DEF BackLine, BackColumn
  <2>2. /\ sb_backspace(s) = sb_write_word(t, BLANK)
        /\ t \in Bufs /\ t.loaded = s.loaded /\ t.top = s.top /\ t.cursor = s.cursor
        /\ t.buf = s.buf /\ t.offset = p - 1 /\ t.offset \in Columns
        /\ ViewOK(s) => ViewOK(t)
        /\ s.vga = Shown(s) => t.vga = Shown(t)
    BY <1>8, ErasingHere
  <2>3. Depth(t) = e
    BY <2>2 DEF Depth
  <2> HIDE DEF t, e, p, d, o
  <2>4. \A j \in Columns : j <= o <=> Line(s, d)[j] # BLANK
    BY <1>3, <1>4, <1>6, <2>1
  <2>5. n <= d * VGA_WIDTH + o + 1
    BY <1>3, <1>5, <2>1, OneMore
  <2>6. ASSUME NEW k \in Lines, k < d, n > o + 1 + (d - k - 1) * VGA_WIDTH
        PROVE  \A j \in Columns : Line(s, k)[j] # BLANK
    <3>1. o + 1 = p
      BY <1>3, <2>1
    <3>2. n > p + (e - k - 1) * VGA_WIDTH /\ k < e
      BY <2>1, <2>6, <3>1
    <3> QED
      BY <1>5, <3>2
  <2> QED
    BY <1>2, <1>4, <2>1, <2>2, <2>3, <2>4, <2>5, <2>6 DEF t, d, o
<1>9. CASE p = 0
  <2>1. d = e - 1 /\ o = VGA_WIDTH - 1
    BY <1>9 DEF BackLine, BackColumn
  <2>2. /\ sb_backspace(s) = sb_write_word(t, BLANK)
        /\ t \in Bufs /\ t.loaded = s.loaded /\ t.top = s.top /\ t.buf = s.buf
        /\ t.offset = VGA_WIDTH - 1 /\ t.offset \in Columns
        /\ e >= 1 /\ Depth(t) = e - 1
        /\ \A j \in Columns : Line(s, e - 1)[j] # BLANK
        /\ ViewOK(s) => ViewOK(t) \/ Misleads(t)
        /\ s.loaded /\ ViewOK(s) /\ s.vga = Shown(s) => t.vga = Shown(t)
    BY <1>9, ErasingAbove
  <2> HIDE DEF t, e, p, d, o
  <2>3. d \in Lines
    BY <1>3, <2>1, <2>2, Sizes DEF Lines
  <2>4. \A j \in Columns : j <= o <=> Line(s, d)[j] # BLANK
    BY <1>6, <2>1, <2>2, Sizes
  <2>5. ASSUME NEW k \in Lines, k > d
        PROVE  Line(s, k) = BlankLine
    <3>1. k = e \/ k > e
      BY <1>3, <1>7, <2>1, <2>5
    <3>2. \A j \in Columns : Line(s, e)[j] = BLANK
      BY <1>4, <1>6, <1>9
    <3>3. Line(s, e) = BlankLine
      BY <1>2, <3>2 DEF BlankLine
    <3> QED
      BY <1>4, <3>1, <3>3
  <2>6. d * VGA_WIDTH = e * VGA_WIDTH - VGA_WIDTH /\ e * VGA_WIDTH \in Int
    BY <1>3, <2>1, OneMore
  <2>7. n <= d * VGA_WIDTH + o + 1
    BY <1>3, <1>5, <1>9, <2>1, <2>6, Sizes
  <2>8. ASSUME NEW k \in Lines, k < d, n > o + 1 + (d - k - 1) * VGA_WIDTH
        PROVE  \A j \in Columns : Line(s, k)[j] # BLANK
    <3>1. d - k - 1 = (e - k - 1) - 1 /\ e - k - 1 \in Int /\ k < e
      BY <1>3, <1>7, <2>1, <2>8
    <3>2. /\ (d - k - 1) * VGA_WIDTH = (e - k - 1) * VGA_WIDTH - VGA_WIDTH
          /\ (e - k - 1) * VGA_WIDTH \in Int
      BY <3>1, OneMore
    <3>3. n > p + (e - k - 1) * VGA_WIDTH
      BY <1>9, <2>1, <2>8, <3>2, Sizes
    <3> QED
      BY <1>5, <3>1, <3>3
  <2> QED
    BY <2>1, <2>2, <2>3, <2>4, <2>5, <2>7, <2>8 DEF t, d, o
<1> QED
  BY <1>8, <1>9

\* sb_backspace of a typed character.
LEMMA BackspaceIs ==
  ASSUME NEW s \in Bufs, TextOK(s), NEW n \in Nat, n > 0, TypedOK(s, n)
  PROVE  LET u == sb_backspace(s)
             d == BackLine(s)
             o == BackColumn(s)
         IN  /\ Inner(s, u) /\ TypedOK(u, n - 1)
             /\ d \in Lines /\ o \in Columns /\ Depth(u) = d /\ u.offset = o
             /\ \A k \in Lines :
                  Line(u, k) = IF k = d THEN SetCell(Line(s, k), o, BLANK)
                                        ELSE Line(s, k)
<1> DEFINE t == Erasing(s)
           u == sb_backspace(s)
           d == BackLine(s)
           o == BackColumn(s)
<1>1. /\ u = sb_write_word(t, BLANK)
      /\ t \in Bufs /\ t.loaded = s.loaded /\ t.top = s.top /\ t.buf = s.buf
      /\ t.offset = o /\ o \in Columns /\ Depth(t) = d /\ d \in Lines
      /\ ViewOK(s) => ViewOK(t) \/ Misleads(t)
      /\ s.loaded /\ ViewOK(s) /\ s.vga = Shown(s) => t.vga = Shown(t)
      /\ \A j \in Columns : j <= o <=> Line(s, d)[j] # BLANK
      /\ \A k \in Lines : k > d => Line(s, k) = BlankLine
      /\ n <= d * VGA_WIDTH + o + 1
      /\ \A k \in Lines : k < d /\ n > o + 1 + (d - k - 1) * VGA_WIDTH =>
           \A j \in Columns : Line(s, k)[j] # BLANK
  BY ErasingIs
<1> HIDE DEF t, u, d, o
<1>2. /\ u \in Bufs
      /\ u.top = t.top /\ u.viewport = t.viewport /\ u.cursor = t.cursor
      /\ u.offset = o /\ u.loaded = s.loaded /\ u.buf = SetText(t, o, BLANK)
      /\ t.loaded /\ ViewOK(t) /\ t.vga = Shown(t) => u.vga = Shown(u)
  BY <1>1, WriteIs DEF SetText, Cells
<1>3. t.top \in Lines /\ t.cursor \in Lines /\ t.buf \in Texts
  BY <1>1 DEF Bufs
<1>4. \A k : Line(t, k) = Line(s, k)
  BY <1>1 DEF Line
<1>5. /\ Depth(u) = d
      /\ \A k \in Lines : Line(u, k) = IF k = d THEN SetCell(Line(s, k), o, BLANK)
                                                ELSE Line(s, k)
  <2>1. /\ Depth(u) = Depth(t)
        /\ \A k \in Lines : Line(u, k) = IF k = Depth(t) THEN SetCell(Line(t, k), o, BLANK)
                                                  ELSE Line(t, k)
    BY <1>2, <1>3, WriteLines
  <2> QED
    BY <1>1, <1>4, <2>1
<1>6. (ViewOK(u) <=> ViewOK(t)) /\ (Misleads(u) <=> Misleads(t))
  BY <1>2 DEF ViewOK, Depth, Height, Misleads
<1>7. Line(s, d) \in [Columns -> Cells]
  BY <1>1, <1>3, <1>4, LineIs
<1>8. TextOK(u)
  <2>1. ASSUME NEW j \in Columns
        PROVE  j < o <=> Line(u, d)[j] # BLANK
    <3>1. Line(u, d)[j] = IF j = o THEN BLANK ELSE Line(s, d)[j]
      BY <1>1, <1>5, <1>7 DEF SetCell
    <3>2. j \in Int /\ o \in Int
      BY <1>1, Sizes DEF Columns
    <3>3. j <= o <=> Line(s, d)[j] # BLANK
      BY <1>1
    <3> QED
      BY <3>1, <3>2, <3>3
  <2>2. ASSUME NEW k \in Lines, k > d
        PROVE  Line(u, k) = BlankLine
    <3>1. k # d
      BY <1>1, <2>2 DEF Lines
    <3> QED
      BY <1>1, <1>5, <2>2, <3>1
  <2> QED
    BY <1>1, <1>2, <1>5, <2>1, <2>2 DEF TextOK, Below
<1>9. Inner(s, u)
  BY <1>1, <1>2, <1>6, <1>8 DEF Inner
<1>10. TypedOK(u, n - 1)
  <2>1. d \in Int /\ o \in Int /\ d * VGA_WIDTH \in Int
    <3>1. d \in Int /\ o \in Int
      BY <1>1, Sizes DEF Lines, Columns
    <3> QED
      BY <3>1, OneMore
  <2>2. n - 1 <= Depth(u) * VGA_WIDTH + u.offset
    BY <1>1, <1>2, <1>5, <2>1
  <2>3. ASSUME NEW k \in Lines, k < Depth(u),
               n - 1 > u.offset + (Depth(u) - k - 1) * VGA_WIDTH
        PROVE  \A j \in Columns : Line(u, k)[j] # BLANK
    <3>1. k < d /\ n - 1 > o + (d - k - 1) * VGA_WIDTH
      BY <1>2, <1>5, <2>3
    <3>2. k \in Int /\ d - k - 1 \in Int /\ k # d
      BY <2>1, <3>1, Sizes DEF Lines
    <3>3. (d - k - 1) * VGA_WIDTH \in Int
      BY <3>2, OneMore
    <3>4. n > o + 1 + (d - k - 1) * VGA_WIDTH
      BY <2>1, <3>1, <3>3
    <3> QED
      BY <1>1, <1>5, <3>1, <3>2, <3>4
  <2> QED
    BY <2>2, <2>3 DEF TypedOK
<1> QED
  BY <1>1, <1>2, <1>5, <1>9, <1>10 DEF u, d, o

-----------------------------------------------------------------------------
(***************************************************************************)
(* Initialising, clearing and loading                                      *)
(***************************************************************************)

\* A buffer as sb_init leaves it.
Fresh(pic, reg, b) ==
  [top |-> 0, viewport |-> 0, cursor |-> 0, offset |-> 0, loaded |-> b,
   buf |-> [l \in Lines |-> BlankLine], vga |-> pic, hw |-> reg]

\* It has one blank line, on display.
LEMMA InitIs ==
  ASSUME NEW pic \in Displays, NEW reg \in Registers, NEW b \in BOOLEAN
  PROVE  LET s == Fresh(pic, reg, b)
         IN  /\ s \in Bufs /\ s.loaded = b /\ s.offset = 0 /\ TextOK(s) /\ ViewOK(s)
             /\ Depth(s) = 0 /\ \A k \in Lines : Line(s, k) = BlankLine
<1> DEFINE s == Fresh(pic, reg, b)
           text == [l \in Lines |-> BlankLine]
<1>1. /\ s.top = 0 /\ s.viewport = 0 /\ s.cursor = 0 /\ s.offset = 0 /\ s.loaded = b
      /\ s.buf = text /\ s.vga = pic /\ s.hw = reg
  BY DEF Fresh
<1>2. /\ 0 \in Lines /\ 0 \in Views /\ 0 \in Columns /\ 0 \in Int /\ text \in Texts
  <2>1. BlankLine \in [Columns -> Cells]
    BY DEF BlankLine, Cells
  <2>2. text \in Texts
    BY <2>1 DEF Texts
  <2>3. 0 \in Lines /\ 0 \in Views /\ 0 \in Columns
    BY Sizes DEF Lines, Views, Columns
  <2> QED
    BY <2>2, <2>3
<1>3. s = [top |-> 0, viewport |-> 0, cursor |-> 0, offset |-> 0, loaded |-> b,
           buf |-> text, vga |-> pic, hw |-> reg]
  BY DEF Fresh
<1>4. s \in Bufs
  <2> HIDE DEF s, text
  <2> QED
    BY <1>2, <1>3 DEF Bufs
<1> HIDE DEF s
<1>5. 0 % SB_HEIGHT = 0
  BY Remainders, Sizes
<1>6. sb_ldiff(0, 0) = 0
  BY DEF sb_ldiff
<1>7. Depth(s) = 0 /\ Height(s) = 0
  BY <1>1, <1>5, <1>6 DEF Depth, Height
<1>8. ViewOK(s)
  BY <1>1, <1>7, Sizes DEF ViewOK
<1>9. \A k \in Lines : Line(s, k) = BlankLine
  BY <1>1, <1>2, Ring DEF Line
<1>10. \A j \in Columns : j < 0 <=> BlankLine[j] # BLANK
  BY Sizes DEF Columns, BlankLine
<1>11. TextOK(s)
  BY <1>1, <1>2, <1>7, <1>9, <1>10 DEF TextOK, Below
<1> QED
  BY <1>1, <1>4, <1>7, <1>8, <1>9, <1>11 DEF s

\* sb_clear: a buffer as new, on display if it was.
LEMMA ClearIs ==
  ASSUME NEW s \in Bufs
  PROVE  LET u == sb_clear(s)
         IN  /\ Keeps(s, u) /\ u.offset = 0
             /\ Depth(u) = 0 /\ \A k \in Lines : Line(u, k) = BlankLine
<1> DEFINE x == Fresh(s.vga, s.hw, s.loaded)
           u == sb_clear(s)
<1>1. s.vga \in Displays /\ s.hw \in Registers /\ s.loaded \in BOOLEAN
  BY DEF Bufs
<1>2. /\ x \in Bufs /\ x.loaded = s.loaded /\ x.offset = 0 /\ TextOK(x) /\ ViewOK(x)
      /\ Depth(x) = 0 /\ \A k \in Lines : Line(x, k) = BlankLine
  BY <1>1, InitIs
<1>3. u = sb_sync(x)
  BY DEF sb_clear, sb_init, Fresh
<1> HIDE DEF x, u
<1>4. /\ u \in Bufs /\ u.viewport = x.viewport /\ SameText(x, u)
      /\ x.loaded /\ x.offset \in Columns /\ ViewOK(x) => Mirrors(u)
  BY <1>2, <1>3, SyncIs
<1>5. x.offset \in Columns
  BY <1>2 DEF TextOK
<1>6. TextOK(u) /\ ViewOK(u)
  BY <1>2, <1>4, TextSame, ViewSame
<1>7. /\ Depth(u) = 0 /\ u.offset = 0 /\ u.loaded = s.loaded
      /\ \A k \in Lines : Line(u, k) = BlankLine
  BY <1>2, <1>4 DEF SameText, Depth, Line
<1>8. Keeps(s, u)
  BY <1>2, <1>4, <1>5, <1>6, <1>7 DEF Keeps
<1> QED
  BY <1>7, <1>8 DEF u

\* sb_load: the display becomes the buffer's.
LEMMA LoadIs ==
  ASSUME NEW s \in Bufs, TextOK(s)
  PROVE  LET u == sb_load(s)
         IN  /\ u \in Bufs /\ u.loaded /\ u.viewport = s.viewport
             /\ u.top = s.top /\ u.cursor = s.cursor /\ u.offset = s.offset
             /\ u.buf = s.buf /\ TextOK(u) /\ Page(u) = Page(s)
             /\ \A n \in Nat : TypedOK(s, n) => TypedOK(u, n)
             /\ ViewOK(s) => ViewOK(u) /\ Mirrors(u)
<1> DEFINE x == [s EXCEPT !.loaded = TRUE]
           u == sb_load(s)
<1>1. /\ x \in Bufs /\ x.loaded = TRUE /\ x.viewport = s.viewport /\ x.top = s.top
      /\ x.cursor = s.cursor /\ x.offset = s.offset /\ x.buf = s.buf
  BY DEF Bufs
<1>2. u = sb_sync(x)
  BY DEF sb_load
<1> HIDE DEF x, u
<1>3. /\ u \in Bufs /\ u.viewport = x.viewport /\ SameText(x, u)
      /\ x.loaded /\ x.offset \in Columns /\ ViewOK(x) => Mirrors(u)
  BY <1>1, <1>2, SyncIs
<1>4. x.offset \in Columns
  BY <1>1 DEF TextOK
<1>5. /\ u.top = s.top /\ u.cursor = s.cursor /\ u.offset = s.offset
      /\ u.buf = s.buf /\ u.viewport = s.viewport /\ u.loaded = TRUE
  BY <1>1, <1>3 DEF SameText
<1>6. Depth(u) = Depth(s) /\ \A k : Line(u, k) = Line(s, k)
  BY <1>5 DEF Depth, Line
<1>7. TextOK(u) /\ Page(u) = Page(s) /\ \A n \in Nat : TypedOK(s, n) => TypedOK(u, n)
  <2>1. TextOK(u)
    BY <1>5, <1>6 DEF TextOK, Below
  <2>2. Page(u) = Page(s)
    BY <1>5 DEF Page
  <2>3. \A n \in Nat : TypedOK(s, n) => TypedOK(u, n)
    BY <1>5, <1>6 DEF TypedOK
  <2> QED
    BY <2>1, <2>2, <2>3
<1>8. (ViewOK(u) <=> ViewOK(s)) /\ (ViewOK(x) <=> ViewOK(s))
  BY <1>1, <1>5 DEF ViewOK, Depth, Height
<1> QED
  BY <1>1, <1>3, <1>4, <1>5, <1>7, <1>8 DEF u

-----------------------------------------------------------------------------
(***************************************************************************)
(* sb_putchar, and scrolling down before it                                *)
(***************************************************************************)

\* A printable character.
LEMMA PutcharIs ==
  ASSUME NEW s \in Bufs, TextOK(s), NEW c \in CHARS
  PROVE  /\ Keeps(s, sb_putchar(s, c))
         /\ SameText(sb_regular(s, c), sb_putchar(s, c))
         /\ ViewOK(s) => ViewOK(sb_putchar(s, c))
         /\ \A n \in Nat : n + 1 < NSH_BUFSIZE /\ TypedOK(s, n)
                             => TypedOK(sb_putchar(s, c), n + 1)
<1> DEFINE x == sb_regular(s, c)
           u == sb_putchar(s, c)
<1>1. Inner(s, x) /\ (ViewOK(s) => ViewOK(x))
  BY RegularIs
<1>2. u = PlaceCursor(x)
  BY DEF sb_putchar
<1>3. \A n \in Nat : n + 1 < NSH_BUFSIZE /\ TypedOK(s, n) => TypedOK(x, n + 1)
  BY RegularTyped
<1> HIDE DEF x, u
<1>4. Keeps(s, u) /\ SameText(x, u) /\ (ViewOK(x) => ViewOK(u))
  BY <1>1, <1>2, PlaceIs
<1>5. \A n \in Nat : n + 1 < NSH_BUFSIZE /\ TypedOK(s, n) => TypedOK(u, n + 1)
  <2>1. \A m \in Nat : TypedOK(x, m) => TypedOK(u, m)
    BY <1>4, TextSame
  <2>2. \A n \in Nat : n + 1 \in Nat
    OBVIOUS
  <2> QED
    BY <1>3, <2>1, <2>2
<1> QED
  BY <1>1, <1>4, <1>5 DEF x, u

\* A newline.
LEMMA PutnlIs ==
  ASSUME NEW s \in Bufs, TextOK(s)
  PROVE  /\ Keeps(s, sb_putnl(s))
         /\ SameText(sb_crlf(s), sb_putnl(s))
         /\ ViewOK(s) => ViewOK(sb_putnl(s))
<1> DEFINE x == sb_crlf(s)
           u == sb_putnl(s)
<1>1. Inner(s, x) /\ (ViewOK(s) => ViewOK(x))
  BY NewlineIs DEF TextOK
<1>2. u = PlaceCursor(x)
  BY DEF sb_putnl
<1> HIDE DEF x, u
<1>3. Keeps(s, u) /\ SameText(x, u) /\ (ViewOK(x) => ViewOK(u))
  BY <1>1, <1>2, PlaceIs
<1> QED
  BY <1>1, <1>3 DEF x, u

\* A backspace.
LEMMA PutbackIs ==
  ASSUME NEW s \in Bufs, TextOK(s), NEW n \in Nat, n > 0, TypedOK(s, n)
  PROVE  /\ Keeps(s, sb_putback(s))
         /\ SameText(sb_backspace(s), sb_putback(s))
         /\ TypedOK(sb_putback(s), n - 1)
<1> DEFINE x == sb_backspace(s)
           u == sb_putback(s)
<1>1. Inner(s, x) /\ TypedOK(x, n - 1)
  BY BackspaceIs
<1>2. u = PlaceCursor(x)
  BY DEF sb_putback
<1> HIDE DEF x, u
<1>3. Keeps(s, u) /\ SameText(x, u)
  BY <1>1, <1>2, PlaceIs
<1>4. n - 1 \in Nat
  OBVIOUS
<1>5. TypedOK(u, n - 1)
  BY <1>1, <1>3, <1>4, TextSame
<1> QED
  BY <1>3, <1>5 DEF x, u

\* Scrolling keeps all of it.
LEMMA ScrollKeeps ==
  ASSUME NEW s, NEW u, TextOK(s), ScrollFacts(s, u)
  PROVE  /\ Keeps(s, u) /\ SameText(s, u)
         /\ \A n \in Nat : TypedOK(s, n) => TypedOK(u, n)
<1>1. u \in Bufs /\ SameText(s, u) /\ u.loaded = s.loaded
  BY DEF ScrollFacts, SameText
<1>2. TextOK(u) /\ \A n \in Nat : TypedOK(s, n) => TypedOK(u, n)
  BY <1>1, TextSame
<1>3. s.offset \in Columns
  BY DEF TextOK
<1> QED
  BY <1>1, <1>2, <1>3 DEF Keeps, ScrollFacts

\* And so does an operation after it.
LEMMA ScrollThen ==
  ASSUME NEW s, NEW x, NEW u, TextOK(s), ScrollFacts(s, x), Keeps(x, u)
  PROVE  Keeps(s, u)
<1>1. s.offset \in Columns /\ x.loaded = s.loaded
  BY DEF TextOK, ScrollFacts, SameText
<1> QED
  BY <1>1 DEF Keeps, ScrollFacts

-----------------------------------------------------------------------------
(***************************************************************************)
(* The invariant                                                           *)
(***************************************************************************)

\* A buffer with a display.
Mounted(b, pic, reg) ==
  [top |-> b.top, viewport |-> b.viewport, cursor |-> b.cursor, offset |-> b.offset,
   loaded |-> b.loaded, buf |-> b.buf, vga |-> pic, hw |-> reg]

\* Taking the display to a buffer and away from it.
LEMMA MountIs ==
  ASSUME NEW b \in Buffers, NEW pic \in Displays, NEW reg \in Registers
  PROVE  LET s == Mounted(b, pic, reg)
         IN  /\ s \in Bufs /\ SameText(b, s) /\ s.viewport = b.viewport
             /\ s.vga = pic /\ s.hw = reg
BY DEF Buffers, Bufs, SameText, Mounted

\* Taking it away.
LEMMA FieldsIs ==
  ASSUME NEW s \in Bufs
  PROVE  /\ Fields(s) \in Buffers /\ SameText(s, Fields(s)) /\ SameText(Fields(s), s)
         /\ Fields(s).viewport = s.viewport
BY DEF Buffers, Bufs, SameText, Fields

\* What SInv says of the current buffer.
LEMMA CurrentIs ==
  ASSUME SInv
  PROVE  /\ Current \in Bufs /\ TextOK(Current) /\ TypedOK(Current, typed)
         /\ Current.loaded /\ SameText(sb[sb_current], Current)
         /\ ~misled => ViewOK(Current) /\ Mirrors(Current)
<1> DEFINE b == sb[sb_current]
           s == Mounted(b, vga, hw)
<1>1. /\ b \in Buffers /\ vga \in Displays /\ hw \in Registers /\ typed \in Nat
      /\ TextOK(b) /\ b.loaded /\ TypedOK(b, typed)
      /\ ~misled => ViewOK(b)
      /\ ~misled => vga = Shown(b) /\ hw = Placed(b)
  <2>1. vga \in Displays /\ hw \in Registers /\ b \in Buffers /\ sb_current \in Screens
    BY DEF SInv
  <2>2. typed \in Nat
    BY ScreenbufAssumption DEF SInv
  <2>3. TextOK(b) /\ b.loaded /\ TypedOK(b, typed) /\ (~misled => ViewOK(b))
    BY DEF SInv
  <2>4. ~misled => vga = Shown(b) /\ hw = Placed(b)
    BY DEF SInv, MirrorInv, Window, Shown, Placed
  <2> QED
    BY <2>1, <2>2, <2>3, <2>4
<1>2. Current = s
  BY DEF Current, WithDisplay, Mounted
<1>3. /\ s \in Bufs /\ SameText(b, s) /\ s.viewport = b.viewport
      /\ s.vga = vga /\ s.hw = hw
  BY <1>1, MountIs
<1> HIDE DEF s, b
<1>4. TextOK(s) /\ TypedOK(s, typed) /\ s.loaded = b.loaded
  BY <1>1, <1>3, TextSame DEF SameText
<1>5. ViewOK(s) <=> ViewOK(b)
  BY <1>3, ViewSame
<1>6. Shown(s) = Shown(b) /\ Placed(s) = Placed(b)
  BY <1>3 DEF Shown, Placed, CursorPos, SameText
<1>7. ~misled => Mirrors(s)
  BY <1>1, <1>3, <1>6 DEF Mirrors
<1>8. s.loaded /\ SameText(b, s) /\ (~misled => ViewOK(s))
  BY <1>1, <1>3, <1>4, <1>5
<1> QED
  BY <1>2, <1>3, <1>4, <1>7, <1>8 DEF b

\* A step that changes the current buffer keeps the invariant if the operation
\* keeps buffer and display in order.
LEMMA ChangeInv ==
  ASSUME SInv, NEW u, Keeps(Current, u), SetCurrent(u), sb_current' = sb_current,
         typed' \in 0 .. (NSH_BUFSIZE - 1), TypedOK(u, typed'), wiped' \in BOOLEAN
  PROVE  SInv'
<1> DEFINE f == Fields(u)
           i == sb_current
<1>1. /\ Current.loaded /\ (~misled => ViewOK(Current) /\ Mirrors(Current))
  BY CurrentIs
<1>2. /\ u \in Bufs /\ u.loaded /\ TextOK(u)
      /\ ~misled => ViewOK(u) \/ Misleads(u)
      /\ ~misled /\ ViewOK(u) => Mirrors(u)
  BY <1>1 DEF Keeps
<1>3. f \in Buffers /\ SameText(u, f) /\ f.viewport = u.viewport
  BY <1>2, FieldsIs
<1>4. /\ sb' = [sb EXCEPT ![i] = f] /\ vga' = u.vga /\ hw' = u.hw
      /\ misled' = (misled \/ Misleads(u))
  BY DEF SetCurrent
<1>5. /\ i \in Screens /\ sb \in [Screens -> Buffers] /\ misled \in BOOLEAN
      /\ \A j \in Screens : TextOK(sb[j]) /\ (sb[j].loaded <=> j = i)
      /\ ~misled => \A j \in Screens : ViewOK(sb[j])
  BY DEF SInv
<1>6. typed' \in Nat
  BY ScreenbufAssumption
<1> HIDE DEF f
<1>7. /\ TextOK(f) /\ f.loaded /\ TypedOK(f, typed')
      /\ (ViewOK(f) <=> ViewOK(u)) /\ Shown(f) = Shown(u) /\ Placed(f) = Placed(u)
  <2>1. TextOK(f) /\ f.loaded /\ TypedOK(f, typed')
    BY <1>2, <1>3, <1>6, TextSame DEF SameText
  <2>2. ViewOK(f) <=> ViewOK(u)
    BY <1>3, ViewSame
  <2>3. Shown(f) = Shown(u) /\ Placed(f) = Placed(u)
    BY <1>3 DEF Shown, Placed, CursorPos, SameText
  <2> QED
    BY <2>1, <2>2, <2>3
<1>8. /\ sb' \in [Screens -> Buffers] /\ sb'[i] = f
      /\ \A j \in Screens : j # i => sb'[j] = sb[j]
  BY <1>3, <1>4, <1>5
<1>9. vga' \in Displays /\ hw' \in Registers
  BY <1>2, <1>4 DEF Bufs
<1>10. misled' \in BOOLEAN /\ (~misled' => ~misled /\ ViewOK(u) /\ Mirrors(u))
  BY <1>2, <1>4, Zenon
<1>11. \A j \in Screens : TextOK(sb'[j]) /\ (sb'[j].loaded <=> j = i)
  BY <1>5, <1>7, <1>8
<1>12. ~misled' => \A j \in Screens : ViewOK(sb'[j])
  BY <1>5, <1>7, <1>8, <1>10
<1>13. ~misled' => vga' = Shown(sb'[i]) /\ hw' = Placed(sb'[i])
  BY <1>4, <1>7, <1>8, <1>10 DEF Mirrors
<1>14. MirrorInv'
  BY <1>13 DEF MirrorInv, Window, Shown, Placed
<1>15. TypedOK(sb'[i], typed')
  BY <1>7, <1>8
<1> HIDE DEF i
<1>16. sb_current' = i
  BY DEF i
<1> QED
  BY <1>5, <1>8, <1>9, <1>10, <1>11, <1>12, <1>14, <1>15, <1>16 DEF SInv

\* Switching screens loads a buffer in order.
LEMMA SwitchInv ==
  ASSUME SInv, NEW i \in Screens, SwitchTo(i)
  PROVE  SInv'
<1> PICK c : c = sb_current
  OBVIOUS
<1> DEFINE off == Fields(sb_unload(Current))
           left == [sb EXCEPT ![c] = off]
           m == Mounted(left[i], vga, hw)
           s == sb_load(m)
           f == Fields(s)
<1>1. /\ c \in Screens /\ sb \in [Screens -> Buffers] /\ misled \in BOOLEAN
      /\ vga \in Displays /\ hw \in Registers
      /\ \A j \in Screens : TextOK(sb[j]) /\ (sb[j].loaded <=> j = c)
      /\ ~misled => \A j \in Screens : ViewOK(sb[j])
  BY DEF SInv
<1>2. /\ sb' = [left EXCEPT ![i] = f] /\ sb_current' = i /\ vga' = s.vga /\ hw' = s.hw
      /\ wiped' = FALSE /\ typed' = 0 /\ typed = 0 /\ misled' = misled
  BY DEF SwitchTo, WithDisplay, Mounted
<1>3. /\ off \in Buffers /\ off.loaded = FALSE /\ TextOK(off)
      /\ ViewOK(off) <=> ViewOK(sb[c])
  <2> PICK k : k = Current
    OBVIOUS
  <2> DEFINE x == sb_unload(k)
  <2>1. k \in Bufs /\ TextOK(k) /\ SameText(sb[c], k) /\ k.viewport = sb[c].viewport
    BY CurrentIs DEF Current, WithDisplay
  <2>2. /\ x \in Bufs /\ x.loaded = FALSE /\ x.top = k.top /\ x.cursor = k.cursor
        /\ x.offset = k.offset /\ x.buf = k.buf /\ x.viewport = k.viewport
    BY <2>1 DEF sb_unload, Bufs
  <2>3. off = Fields(x)
    OBVIOUS
  <2> HIDE DEF x, off
  <2>4. off \in Buffers /\ SameText(x, off) /\ off.viewport = x.viewport
    BY <2>2, <2>3, FieldsIs
  <2>5. /\ off.top = k.top /\ off.cursor = k.cursor /\ off.offset = k.offset
        /\ off.buf = k.buf /\ off.loaded = FALSE /\ off.viewport = k.viewport
    BY <2>2, <2>4 DEF SameText
  <2>6. Depth(off) = Depth(k) /\ \A l : Line(off, l) = Line(k, l)
    BY <2>5 DEF Depth, Line
  <2>7. TextOK(off)
    BY <2>1, <2>5, <2>6 DEF TextOK, Below
  <2>8. (ViewOK(off) <=> ViewOK(k)) /\ (ViewOK(k) <=> ViewOK(sb[c]))
    BY <2>1, <2>5 DEF ViewOK, Depth, Height, SameText
  <2> QED
    BY <2>4, <2>5, <2>7, <2>8
<1> HIDE DEF off
<1>4. /\ left \in [Screens -> Buffers]
      /\ \A j \in Screens : /\ TextOK(left[j]) /\ left[j].loaded = FALSE
                            /\ ViewOK(left[j]) <=> ViewOK(sb[j])
  <2>1. left \in [Screens -> Buffers]
    BY <1>1, <1>3
  <2>2. \A j \in Screens : left[j] = IF j = c THEN off ELSE sb[j]
    BY <1>1
  <2>3. \A j \in Screens : j # c => sb[j].loaded = FALSE
    <3> SUFFICES ASSUME NEW j \in Screens, j # c
                 PROVE  sb[j].loaded = FALSE
      OBVIOUS
    <3>1. sb[j].loaded \in BOOLEAN
      BY <1>1 DEF Buffers
    <3> QED
      BY <1>1, <3>1
  <2> QED
    BY <1>1, <1>3, <2>1, <2>2, <2>3
<1> HIDE DEF left
<1>5. /\ m \in Bufs /\ SameText(left[i], m) /\ m.viewport = left[i].viewport
  BY <1>1, <1>4, MountIs
<1> HIDE DEF m
<1>6. TextOK(m) /\ (ViewOK(m) <=> ViewOK(sb[i]))
  BY <1>4, <1>5, TextSame, ViewSame
<1>7. /\ s \in Bufs /\ s.loaded /\ TextOK(s)
      /\ ViewOK(m) => ViewOK(s) /\ Mirrors(s)
  BY <1>5, <1>6, LoadIs
<1> HIDE DEF s
<1>8. f \in Buffers /\ SameText(s, f) /\ f.viewport = s.viewport
  BY <1>7, FieldsIs
<1> HIDE DEF f
<1>9. /\ TextOK(f) /\ f.loaded
      /\ (ViewOK(f) <=> ViewOK(s)) /\ Shown(f) = Shown(s) /\ Placed(f) = Placed(s)
  <2>1. TextOK(f) /\ f.loaded
    BY <1>7, <1>8, TextSame DEF SameText
  <2>2. ViewOK(f) <=> ViewOK(s)
    BY <1>8, ViewSame
  <2>3. Shown(f) = Shown(s) /\ Placed(f) = Placed(s)
    BY <1>8 DEF Shown, Placed, CursorPos, SameText
  <2> QED
    BY <2>1, <2>2, <2>3
<1>10. TypedOK(f, 0)
  <2>1. TypedOK(s, 0) /\ 0 \in Nat
    BY <1>7, TypedNone
  <2> QED
    BY <1>8, <2>1, TextSame
<1>11. /\ sb' \in [Screens -> Buffers] /\ sb'[i] = f
       /\ \A j \in Screens : j # i => sb'[j] = left[j]
  BY <1>2, <1>4, <1>8
<1>12. vga' \in Displays /\ hw' \in Registers
  BY <1>2, <1>7 DEF Bufs
<1>13. \A j \in Screens : TextOK(sb'[j]) /\ (sb'[j].loaded <=> j = i)
  BY <1>4, <1>9, <1>11
<1>14. ~misled' => \A j \in Screens : ViewOK(sb'[j])
  BY <1>1, <1>2, <1>4, <1>6, <1>7, <1>9, <1>11
<1>15. ~misled' => vga' = Shown(sb'[i]) /\ hw' = Placed(sb'[i])
  BY <1>1, <1>2, <1>6, <1>7, <1>9, <1>11 DEF Mirrors
<1>16. MirrorInv'
  BY <1>2, <1>15 DEF MirrorInv, Window, Shown, Placed
<1>17. TypedOK(sb'[i], 0)
  BY <1>10, <1>11
<1>18. typed' \in 0 .. (NSH_BUFSIZE - 1) /\ wiped' \in BOOLEAN /\ misled' \in BOOLEAN
  <2>1. typed' \in 0 .. (NSH_BUFSIZE - 1)
    BY <1>2, ScreenbufAssumption
  <2>2. wiped' \in BOOLEAN /\ misled' \in BOOLEAN
    BY <1>1, <1>2, Zenon
  <2> QED
    BY <2>1, <2>2
<1> QED
  BY <1>2, <1>11, <1>12, <1>13, <1>14, <1>16, <1>17, <1>18, SMT DEF SInv

\* kernel_main's buffers: the first is on display, the others wait.
LEMMA InitInv ==
  ASSUME SInit
  PROVE  SInv
<1> DEFINE dark == [r \in Rows |-> BlankLine]
           reg == [on |-> TRUE, pos |-> 0]
           c == CHOOSE x \in CHARS : TRUE
           new == sb_init(dark, reg)
           greeting == sb_putchar(new, c)
           welcome == sb_putnl(greeting)
           first == sb_load(welcome)
           f == Fields(first)
           w == Fields(welcome)
<1>1. /\ sb = [i \in Screens |-> Fields(IF i = 0 THEN first ELSE welcome)]
      /\ sb_current = 0 /\ vga = first.vga /\ hw = first.hw
      /\ typed = 0 /\ wiped = FALSE /\ misled = FALSE
  BY DEF SInit
<1>2. dark \in Displays /\ reg \in Registers
  BY DEF Displays, Registers, BlankLine, Cells
<1>3. c \in CHARS
  BY ScreenbufAssumption
<1>4. new = Fresh(dark, reg, FALSE)
  BY DEF sb_init, Fresh
<1> HIDE DEF dark, reg, c, new
<1>5. new \in Bufs /\ new.loaded = FALSE /\ TextOK(new) /\ ViewOK(new)
  BY <1>2, <1>4, InitIs
<1>6. Keeps(new, greeting) /\ ViewOK(greeting)
  BY <1>3, <1>5, PutcharIs
<1> HIDE DEF greeting
<1>7. greeting \in Bufs /\ TextOK(greeting) /\ greeting.loaded = FALSE
  BY <1>5, <1>6 DEF Keeps
<1>8. Keeps(greeting, welcome) /\ ViewOK(welcome)
  BY <1>6, <1>7, PutnlIs
<1> HIDE DEF welcome
<1>9. welcome \in Bufs /\ TextOK(welcome) /\ welcome.loaded = FALSE
  BY <1>7, <1>8 DEF Keeps
<1>10. first \in Bufs /\ first.loaded /\ TextOK(first) /\ ViewOK(first) /\ Mirrors(first)
  BY <1>8, <1>9, LoadIs
<1> HIDE DEF first
<1>11. /\ f \in Buffers /\ SameText(first, f) /\ f.viewport = first.viewport
       /\ w \in Buffers /\ SameText(welcome, w) /\ w.viewport = welcome.viewport
  BY <1>9, <1>10, FieldsIs
<1>12. \A i \in Screens : sb[i] = IF i = 0 THEN f ELSE w
  BY <1>1
<1>13. sb \in [Screens -> Buffers]
  BY <1>1, <1>11
<1> HIDE DEF f, w
<1>14. /\ TextOK(f) /\ f.loaded /\ ViewOK(f) /\ Shown(f) = Shown(first)
       /\ Placed(f) = Placed(first) /\ TypedOK(f, 0)
  <2>1. TextOK(f) /\ f.loaded
    BY <1>10, <1>11, TextSame DEF SameText
  <2>2. ViewOK(f)
    BY <1>10, <1>11, ViewSame
  <2>3. Shown(f) = Shown(first) /\ Placed(f) = Placed(first)
    BY <1>11 DEF Shown, Placed, CursorPos, SameText
  <2>4. TypedOK(first, 0) /\ 0 \in Nat
    BY <1>10, TypedNone
  <2>5. TypedOK(f, 0)
    BY <1>11, <2>4, TextSame
  <2> QED
    BY <2>1, <2>2, <2>3, <2>5
<1>15. TextOK(w) /\ w.loaded = FALSE /\ ViewOK(w)
  <2>1. TextOK(w) /\ w.loaded = FALSE
    BY <1>9, <1>11, TextSame DEF SameText
  <2>2. ViewOK(w)
    BY <1>8, <1>11, ViewSame
  <2> QED
    BY <2>1, <2>2
<1>16. 0 \in Screens /\ sb[0] = f
  <2>1. 0 \in Screens
    BY ScreenbufAssumption DEF Screens
  <2> QED
    BY <1>12, <2>1
<1>17. \A i \in Screens : TextOK(sb[i]) /\ (sb[i].loaded <=> i = 0) /\ ViewOK(sb[i])
  BY <1>12, <1>14, <1>15
<1>18. vga = Shown(sb[0]) /\ hw = Placed(sb[0])
  BY <1>1, <1>10, <1>14, <1>16 DEF Mirrors
<1>19. MirrorInv
  BY <1>1, <1>18 DEF MirrorInv, Window, Shown, Placed
<1>20. vga \in Displays /\ hw \in Registers
  BY <1>1, <1>10 DEF Bufs
<1>21. typed \in 0 .. (NSH_BUFSIZE - 1)
  BY <1>1, ScreenbufAssumption
<1>22. wiped \in BOOLEAN /\ misled \in BOOLEAN
  BY <1>1
<1>23. TypedOK(sb[sb_current], typed)
  BY <1>1, <1>14, <1>16
<1> QED
  BY <1>1, <1>13, <1>16, <1>17, <1>19, <1>20, <1>21, <1>22, <1>23 DEF SInv

\* Printing: PrintChar and PrintNewline.
LEMMA PrintInv ==
  ASSUME SInv, (\E c \in CHARS : PrintChar(c)) \/ PrintNewline
  PROVE  SInv'
<1> PICK s : s = Current
  OBVIOUS
<1>1. s \in Bufs /\ TextOK(s)
  BY CurrentIs
<1>2. PICK u : SetCurrent(u) /\ Keeps(s, u)
  <2>1. CASE PrintNewline
    BY <1>1, <2>1, PutnlIs DEF PrintNewline
  <2>2. ASSUME NEW c \in CHARS, PrintChar(c)
        PROVE  SetCurrent(sb_putchar(s, c)) /\ Keeps(s, sb_putchar(s, c))
    BY <1>1, <2>2, PutcharIs DEF PrintChar
  <2> QED
    BY <2>1, <2>2
<1>3. sb_current' = sb_current /\ typed' = 0 /\ wiped' = FALSE
  BY DEF PrintChar, PrintNewline
<1>4. TypedOK(u, 0) /\ 0 \in 0 .. (NSH_BUFSIZE - 1)
  BY <1>2, TypedNone, ScreenbufAssumption DEF Keeps
<1> QED
  BY <1>2, <1>3, <1>4, ChangeInv

\* Typing: TypeChar, TypeEnter and TypeBackspace, each after scrolling down.
LEMMA TypeInv ==
  ASSUME SInv, (\E c \in CHARS : TypeChar(c)) \/ TypeEnter \/ TypeBackspace
  PROVE  SInv'
<1> PICK s : s = Current
  OBVIOUS
<1> PICK n : n = typed
  OBVIOUS
<1> DEFINE x == sb_scroll_down(s)
<1>1. s \in Bufs /\ TextOK(s) /\ TypedOK(s, n)
  BY CurrentIs
<1>2. n \in Nat /\ n <= NSH_BUFSIZE - 1 /\ n \in 0 .. (NSH_BUFSIZE - 1)
      /\ NSH_BUFSIZE \in Nat /\ NSH_BUFSIZE > 0
  BY ScreenbufAssumption DEF SInv
<1>3. ScrollFacts(s, x)
  BY <1>1, ScrollDownIs
<1> HIDE DEF x
<1>4. Keeps(s, x) /\ TypedOK(x, n)
  BY <1>1, <1>2, <1>3, ScrollKeeps
<1>5. x \in Bufs /\ TextOK(x)
  BY <1>4 DEF Keeps
<1>6. ASSUME NEW u, Keeps(x, u), SetCurrent(u), sb_current' = sb_current, wiped' = FALSE,
             typed' \in 0 .. (NSH_BUFSIZE - 1), TypedOK(u, typed')
      PROVE  SInv'
  <2>1. Keeps(s, u)
    BY <1>1, <1>3, <1>6, ScrollThen
  <2> QED
    BY <1>6, <2>1, ChangeInv
<1>7. ASSUME SetCurrent(x), sb_current' = sb_current, wiped' = FALSE, typed' = typed
      PROVE  SInv'
  BY <1>2, <1>4, <1>7, ChangeInv
<1>8. CASE TypeEnter
  <2> DEFINE u == sb_putnl(x)
  <2>1. SetCurrent(u) /\ sb_current' = sb_current /\ wiped' = FALSE /\ typed' = 0
    BY <1>8 DEF TypeEnter, x
  <2>2. Keeps(x, u)
    BY <1>5, PutnlIs
  <2> HIDE DEF u
  <2>3. TypedOK(u, 0) /\ 0 \in 0 .. (NSH_BUFSIZE - 1)
    BY <1>2, <2>2, TypedNone DEF Keeps
  <2> QED
    BY <1>6, <2>1, <2>2, <2>3
<1>9. ASSUME NEW c \in CHARS, TypeChar(c)
      PROVE  SInv'
  <2> DEFINE u == sb_putchar(x, c)
  <2>1. sb_current' = sb_current /\ wiped' = FALSE
    BY <1>9 DEF TypeChar
  <2>2. CASE n < NSH_BUFSIZE - 1
    <3>1. SetCurrent(u) /\ typed' = n + 1
      BY <1>2, <1>9, <2>2 DEF TypeChar, x
    <3>2. Keeps(x, u) /\ TypedOK(u, n + 1)
      BY <1>2, <1>4, <1>5, <1>9, <2>2, PutcharIs
    <3>3. n + 1 \in 0 .. (NSH_BUFSIZE - 1)
      BY <1>2, <2>2
    <3> HIDE DEF u
    <3> QED
      BY <1>6, <2>1, <3>1, <3>2, <3>3
  <2>3. CASE ~(n < NSH_BUFSIZE - 1)
    BY <1>7, <1>9, <2>1, <2>3 DEF TypeChar, x
  <2> QED
    BY <2>2, <2>3
<1>10. CASE TypeBackspace
  <2> DEFINE u == sb_putback(x)
  <2>1. sb_current' = sb_current /\ wiped' = FALSE
    BY <1>10 DEF TypeBackspace
  <2>2. CASE n > 0
    <3>1. SetCurrent(u) /\ typed' = n - 1
      BY <1>2, <1>10, <2>2 DEF TypeBackspace, x
    <3>2. Keeps(x, u) /\ TypedOK(u, n - 1)
      BY <1>2, <1>4, <1>5, <2>2, PutbackIs
    <3>3. n - 1 \in 0 .. (NSH_BUFSIZE - 1)
      BY <1>2, <2>2
    <3> HIDE DEF u
    <3> QED
      BY <1>6, <2>1, <3>1, <3>2, <3>3
  <2>3. CASE n = 0
    <3>1. SetCurrent(x) /\ typed' = typed
      BY <1>10, <2>3 DEF TypeBackspace, x
    <3> QED
      BY <1>7, <2>1, <3>1
  <2> QED
    BY <1>2, <2>2, <2>3
<1> QED
  BY <1>8, <1>9, <1>10

\* The scrolling shortcuts.
LEMMA ShortcutInv ==
  ASSUME SInv, CursorUp \/ CursorDown \/ PageUp \/ PageDown
  PROVE  SInv'
<1> PICK s : s = Current
  OBVIOUS
<1>1. s \in Bufs /\ TextOK(s) /\ TypedOK(s, typed)
  BY CurrentIs
<1>2. PICK u : Shortcut(u) /\ ScrollFacts(s, u)
  <2>1. /\ ScrollFacts(s, sb_scroll(s, -1)) /\ ScrollFacts(s, sb_scroll(s, 1))
        /\ ScrollFacts(s, sb_scroll_top(s)) /\ ScrollFacts(s, sb_scroll_down(s))
    BY <1>1, ScrollIs, ScrollTopIs, ScrollDownIs
  <2>2. \/ Shortcut(sb_scroll(s, -1)) \/ Shortcut(sb_scroll(s, 1))
        \/ Shortcut(sb_scroll_top(s)) \/ Shortcut(sb_scroll_down(s))
    BY DEF CursorUp, CursorDown, PageUp, PageDown
  <2> QED
    BY <2>1, <2>2
<1>3. SetCurrent(u) /\ wiped' = FALSE /\ sb_current' = sb_current /\ typed' = typed
  BY <1>2 DEF Shortcut
<1>4. typed \in 0 .. (NSH_BUFSIZE - 1) /\ typed \in Nat
  BY ScreenbufAssumption DEF SInv
<1>5. Keeps(s, u) /\ TypedOK(u, typed)
  BY <1>1, <1>2, <1>4, ScrollKeeps
<1> QED
  BY <1>3, <1>4, <1>5, ChangeInv

\* The builtins clear, next and prev.
LEMMA BuiltinInv ==
  ASSUME SInv, clear \/ next \/ prev
  PROVE  SInv'
<1>1. CASE clear
  <2> PICK s : s = Current
    OBVIOUS
  <2> PICK u : u = sb_clear(s)
    OBVIOUS
  <2>1. Keeps(s, u)
    BY CurrentIs, ClearIs
  <2>2. SetCurrent(u) /\ typed' = 0 /\ sb_current' = sb_current /\ wiped' = TRUE
    BY <1>1 DEF clear
  <2>3. TypedOK(u, 0) /\ 0 \in 0 .. (NSH_BUFSIZE - 1)
    BY <2>1, TypedNone, ScreenbufAssumption DEF Keeps
  <2> QED
    BY <2>1, <2>2, <2>3, ChangeInv
<1>2. CASE next \/ prev
  <2>1. sb_current \in Screens
    BY DEF SInv
  <2>2. PICK i \in Screens : SwitchTo(i)
    BY <1>2, <2>1, ScreenbufAssumption DEF next, prev, Screens
  <2> QED
    BY <2>2, SwitchInv
<1> QED
  BY <1>1, <1>2

\* The inductive invariant.
LEMMA SInvariant == SSpec => []SInv
<1>1. SInit => SInv
  BY InitInv
<1>2. SInv /\ [SNext]_sbvars => SInv'
  <2> SUFFICES ASSUME SInv, [SNext]_sbvars
               PROVE  SInv'
    OBVIOUS
  <2>1. CASE UNCHANGED sbvars
    <3>1. /\ sb' = sb /\ sb_current' = sb_current /\ vga' = vga /\ hw' = hw
          /\ typed' = typed /\ wiped' = wiped /\ misled' = misled
      BY <2>1 DEF sbvars
    <3> QED
      BY <3>1 DEF SInv, MirrorInv, Window
  <2>2. CASE SNext
    <3>1. \/ (\E c \in CHARS : PrintChar(c)) \/ PrintNewline
          \/ (\E c \in CHARS : TypeChar(c)) \/ TypeEnter \/ TypeBackspace
          \/ CursorUp \/ CursorDown \/ PageUp \/ PageDown
          \/ clear \/ next \/ prev
      BY <2>2 DEF SNext
    <3> QED
      BY <3>1, PrintInv, TypeInv, ShortcutInv, BuiltinInv
  <2> QED
    BY <2>1, <2>2
<1> QED
  BY <1>1, <1>2, PTL DEF SSpec

-----------------------------------------------------------------------------
(***************************************************************************)
(* The safety theorems                                                     *)
(***************************************************************************)

\* Positions stay on lines of the buffer and the column on the line, for any
\* sizes of the buffers and of the display.
THEOREM ScreenbufTypes == SSpec => []STypeOK
<1>1. SInv => STypeOK
  <2> SUFFICES ASSUME SInv PROVE STypeOK
    OBVIOUS
  <2>1. /\ sb_current \in Screens /\ vga \in Displays
        /\ typed \in 0 .. (NSH_BUFSIZE - 1) /\ wiped \in BOOLEAN /\ misled \in BOOLEAN
    BY DEF SInv
  <2>2. ASSUME NEW i \in Screens
        PROVE  /\ sb[i].top \in Lines /\ sb[i].cursor \in Lines
               /\ sb[i].viewport \in Views /\ sb[i].offset \in Columns
               /\ sb[i].buf \in Texts
    <3>1. sb[i] \in Buffers /\ TextOK(sb[i])
      BY DEF SInv
    <3> QED
      BY <3>1 DEF Buffers, TextOK
  <2>3. {wiped, misled} \subseteq BOOLEAN
    BY <2>1
  <2> QED
    BY <2>1, <2>2, <2>3 DEF STypeOK, Views, Texts, Displays
<1> QED
  BY <1>1, SInvariant, PTL

\* Until sb_diff is misled the display mirrors the current buffer and its cursor:
\* the single cells that sb_write_word copies and the whole displays that sb_sync
\* copies add up, across scrolling, wraps of the circular buffer and switches.
THEOREM DisplayIsMirror == SSpec => []DisplayMirrorsBuffer
<1>1. SInv => DisplayMirrorsBuffer
  <2> SUFFICES ASSUME SInv, ~misled
               PROVE  Mirrored
    BY DEF DisplayMirrorsBuffer
  <2> DEFINE s == sb[sb_current]
             pos == sb_ldiff(s.viewport % SB_HEIGHT, s.cursor) * VGA_WIDTH + s.offset
  <2>1. s \in Buffers /\ ViewOK(s) /\ vga = Window /\ hw = Placed(s)
    BY DEF SInv, MirrorInv
  <2>2. ~Misleads(s)
    BY <2>1, RowIs DEF Buffers
  <2> HIDE DEF s
  <2>3. CursorPos(s) = pos
    BY <2>2 DEF Misleads, CursorPos
  <2>4. hw.on = TRUE /\ hw.pos = pos
    BY <2>1, <2>3 DEF Placed
  <2> HIDE DEF pos
  <2> QED
    BY <2>1, <2>4 DEF Mirrored, pos, s
<1> QED
  BY <1>1, SInvariant, PTL

\* No display starts above the oldest line or below the cursor, however often
\* the circular buffer has wrapped.
THEOREM ViewStaysInHistory == SSpec => []ViewWithinHistory
<1>1. SInv => ViewWithinHistory
  BY DEF SInv, ViewOK, ViewWithinHistory, Height, Depth
<1> QED
  BY <1>1, SInvariant, PTL

-----------------------------------------------------------------------------
(***************************************************************************)
(* The refinement of Scrollback                                            *)
(***************************************************************************)

Rowset == [Columns -> Cells]

\* A buffer's page, line by line.
LEMMA PageIs ==
  ASSUME NEW s, s.top \in Lines, s.cursor \in Lines, s.buf \in Texts
  PROVE  /\ Page(s) \in Seq(Rowset)
         /\ Depth(s) \in Nat /\ Depth(s) < SB_HEIGHT /\ Len(Page(s)) = Depth(s) + 1
         /\ \A k \in 1 .. (Depth(s) + 1) : k - 1 \in Lines /\ Page(s)[k] = Line(s, k - 1)
<1> DEFINE d == Depth(s)
           row(k) == Line(s, k - 1)
<1>1. d \in Lines /\ \A k \in Lines : Line(s, k) \in Rowset
  BY LineIs DEF Rowset
<1>2. d \in Nat /\ d < SB_HEIGHT /\ d + 1 \in Nat
  BY <1>1, Sizes DEF Lines
<1>3. Page(s) = [k \in 1 .. (d + 1) |-> row(k)]
  BY DEF Page, Depth, Line
<1> HIDE DEF d
<1>4. \A k \in 1 .. (d + 1) : k - 1 \in Lines
  BY <1>2, Sizes DEF Lines
<1>5. \A k \in 1 .. (d + 1) : row(k) \in Rowset
  BY <1>1, <1>4
<1> HIDE DEF row
<1>6. Page(s) \in [1 .. (d + 1) -> Rowset]
  BY <1>3, <1>5
<1>7. Page(s) \in Seq(Rowset) /\ Len(Page(s)) = d + 1
  BY <1>2, <1>6
<1>8. \A k \in 1 .. (d + 1) : Page(s)[k] = row(k)
  BY <1>3
<1> QED
  BY <1>2, <1>4, <1>7, <1>8 DEF d, row

\* Two sequences of lines.
LEMMA SamePage ==
  ASSUME NEW p \in Seq(Rowset), NEW q \in Seq(Rowset), Len(p) = Len(q),
         \A k \in 1 .. Len(q) : p[k] = q[k]
  PROVE  p = q
BY SeqEqual

\* What Push makes of a page.
LEMMA PushIs ==
  ASSUME NEW p \in Seq(Rowset), Len(p) >= 1, Len(p) <= SB_HEIGHT
  PROVE  LET q == SB!Push(p)
         IN  /\ q \in Seq(Rowset)
             /\ Len(p) # SB_HEIGHT =>
                  /\ Len(q) = Len(p) + 1
                  /\ \A k \in 1 .. (Len(p) + 1) :
                       q[k] = IF k = Len(p) + 1 THEN BlankLine ELSE p[k]
             /\ Len(p) = SB_HEIGHT =>
                  /\ Len(q) = Len(p)
                  /\ \A k \in 1 .. Len(p) :
                       q[k] = IF k = Len(p) THEN BlankLine ELSE p[k + 1]
<1> DEFINE q == SB!Push(p)
           t == Tail(p)
<1>1. q = IF Len(p) = SB_HEIGHT THEN Append(t, BlankLine) ELSE Append(p, BlankLine)
  BY DEF SB!Push, SB!BlankLine, BlankLine, Columns
<1>2. BlankLine \in Rowset
  BY DEF BlankLine, Rowset, Cells
<1>3. Len(p) \in Nat /\ p # << >>
  BY LenProperties
<1>4. t \in Seq(Rowset) /\ Len(t) = Len(p) - 1 /\ \A k \in 1 .. Len(t) : t[k] = p[k + 1]
  BY <1>3, HeadTailProperties
<1>5. ASSUME NEW x \in Seq(Rowset)
      PROVE  /\ Append(x, BlankLine) \in Seq(Rowset)
             /\ Len(Append(x, BlankLine)) = Len(x) + 1
             /\ \A k \in 1 .. (Len(x) + 1) :
                  Append(x, BlankLine)[k] = IF k = Len(x) + 1 THEN BlankLine ELSE x[k]
  BY <1>2, AppendProperties
<1> HIDE DEF q, t
<1>6. CASE Len(p) # SB_HEIGHT
  BY <1>1, <1>5, <1>6 DEF q
<1>7. CASE Len(p) = SB_HEIGHT
  <2>1. q = Append(t, BlankLine) /\ q \in Seq(Rowset) /\ Len(q) = Len(p)
    BY <1>1, <1>3, <1>4, <1>5, <1>7
  <2>2. ASSUME NEW k \in 1 .. Len(p)
        PROVE  q[k] = IF k = Len(p) THEN BlankLine ELSE p[k + 1]
    <3>1. q[k] = IF k = Len(t) + 1 THEN BlankLine ELSE t[k]
      BY <1>3, <1>4, <1>5, <2>1
    <3>2. Len(t) + 1 = Len(p) /\ (k # Len(p) => k \in 1 .. Len(t))
      BY <1>3, <1>4
    <3> QED
      BY <1>4, <3>1, <3>2
  <2> QED
    BY <1>7, <2>1, <2>2 DEF q
<1> QED
  BY <1>6, <1>7

\* A page with a cell written on line n.
SetPage(p, n, o, cell) == [p EXCEPT ![n][o] = cell]

\* The others are as before.
LEMMA CellPage ==
  ASSUME NEW p \in Seq(Rowset), NEW n \in 1 .. Len(p), NEW o \in Columns, NEW cell \in Cells
  PROVE  LET q == SetPage(p, n, o, cell)
         IN  /\ q \in Seq(Rowset) /\ Len(q) = Len(p)
             /\ \A k \in 1 .. Len(p) : q[k] = IF k = n THEN SetCell(p[k], o, cell) ELSE p[k]
<1> DEFINE e == SetCell(p[n], o, cell)
           q == [p EXCEPT ![n] = e]
<1>1. p[n] \in Rowset
  BY ElementOfSeq
<1>2. e \in Rowset
  BY <1>1 DEF SetCell, Rowset
<1>3. SetPage(p, n, o, cell) = q
  BY DEF SetCell, SetPage
<1> HIDE DEF e
<1>4. /\ q \in Seq(Rowset) /\ Len(q) = Len(p)
      /\ \A k \in 1 .. Len(p) : q[k] = IF k = n THEN e ELSE p[k]
  BY <1>2, ExceptSeq
<1> HIDE DEF q
<1>5. \A k \in 1 .. Len(p) : q[k] = IF k = n THEN SetCell(p[k], o, cell) ELSE p[k]
  BY <1>4 DEF e
<1> QED
  BY <1>3, <1>4, <1>5

\* A fresh line is pushed.
LEMMA AdvancePage ==
  ASSUME NEW s \in Bufs, NEW u \in Bufs, Advanced(s, u)
  PROVE  Page(u) = SB!Push(Page(s)) /\ u.offset = 0
<1> DEFINE p == Page(s)
           q == SB!Push(p)
           r == Page(u)
           d == Depth(s)
           e == Depth(u)
<1>1. /\ s.top \in Lines /\ s.cursor \in Lines /\ s.buf \in Texts
      /\ u.top \in Lines /\ u.cursor \in Lines /\ u.buf \in Texts
  BY DEF Bufs
<1>2. /\ p \in Seq(Rowset) /\ d \in Nat /\ d < SB_HEIGHT /\ Len(p) = d + 1
      /\ \A k \in 1 .. (d + 1) : k - 1 \in Lines /\ p[k] = Line(s, k - 1)
  BY <1>1, PageIs
<1>3. /\ r \in Seq(Rowset) /\ e \in Nat /\ Len(r) = e + 1
      /\ \A k \in 1 .. (e + 1) : k - 1 \in Lines /\ r[k] = Line(u, k - 1)
  BY <1>1, PageIs
<1>4. /\ d # SB_HEIGHT - 1 =>
           /\ e = d + 1
           /\ \A k \in Lines : Line(u, k) = IF k = d + 1 THEN BlankLine ELSE Line(s, k)
      /\ d = SB_HEIGHT - 1 =>
           /\ e = d
           /\ \A k \in Lines : Line(u, k) = IF k = SB_HEIGHT - 1 THEN BlankLine
                                                                ELSE Line(s, k + 1)
  BY <1>1, AdvanceLines
<1>5. Len(p) >= 1 /\ Len(p) <= SB_HEIGHT
  BY <1>2, Sizes
<1> HIDE DEF p
<1>6. /\ q \in Seq(Rowset)
      /\ Len(p) # SB_HEIGHT =>
           /\ Len(q) = Len(p) + 1
           /\ \A k \in 1 .. (Len(p) + 1) :
                q[k] = IF k = Len(p) + 1 THEN BlankLine ELSE p[k]
      /\ Len(p) = SB_HEIGHT =>
           /\ Len(q) = Len(p)
           /\ \A k \in 1 .. Len(p) : q[k] = IF k = Len(p) THEN BlankLine ELSE p[k + 1]
  BY <1>2, <1>5, PushIs
<1> HIDE DEF q, r, d, e
<1>7. CASE d # SB_HEIGHT - 1
  <2>1. /\ e = d + 1 /\ Len(q) = d + 2 /\ Len(r) = d + 2
        /\ \A k \in 1 .. (d + 2) : q[k] = IF k = d + 2 THEN BlankLine ELSE p[k]
    BY <1>2, <1>3, <1>4, <1>6, <1>7, Sizes
  <2>2. ASSUME NEW k \in 1 .. (d + 2)
        PROVE  r[k] = q[k]
    <3>1. r[k] = Line(u, k - 1) /\ k - 1 \in Lines
      BY <1>2, <1>3, <2>1
    <3>2. r[k] = IF k - 1 = d + 1 THEN BlankLine ELSE Line(s, k - 1)
      BY <1>4, <1>7, <3>1
    <3>3. k # d + 2 => p[k] = Line(s, k - 1)
      BY <1>2
    <3> QED
      BY <1>2, <2>1, <3>2, <3>3
  <2> QED
    BY <1>3, <1>6, <2>1, <2>2, SamePage DEF q, r, p, Advanced
<1>8. CASE d = SB_HEIGHT - 1
  <2>1. /\ e = d /\ Len(q) = d + 1 /\ Len(r) = d + 1
        /\ \A k \in 1 .. (d + 1) : q[k] = IF k = d + 1 THEN BlankLine ELSE p[k + 1]
    BY <1>2, <1>3, <1>4, <1>6, <1>8, Sizes
  <2>2. ASSUME NEW k \in 1 .. (d + 1)
        PROVE  r[k] = q[k]
    <3>1. r[k] = Line(u, k - 1) /\ k - 1 \in Lines
      BY <1>3, <2>1
    <3>2. r[k] = IF k - 1 = d THEN BlankLine ELSE Line(s, (k - 1) + 1)
      BY <1>4, <1>8, <3>1
    <3>3. k # d + 1 => p[k + 1] = Line(s, (k + 1) - 1)
      BY <1>2
    <3>4. (k - 1) + 1 = (k + 1) - 1 /\ (k - 1 = d <=> k = d + 1)
      BY <1>2
    <3> QED
      BY <2>1, <3>2, <3>3, <3>4
  <2> QED
    BY <1>3, <1>6, <2>1, <2>2, SamePage DEF q, r, p, Advanced
<1> QED
  BY <1>7, <1>8

\* A character is written on the last line.
LEMMA WrotePage ==
  ASSUME NEW s \in Bufs, TextOK(s), NEW c \in CHARS
  PROVE  LET p == Page(s)
         IN  /\ Wrote(s, c) \in Bufs
             /\ Page(Wrote(s, c)) = SetPage(p, Len(p), s.offset, c)
<1> DEFINE t == Wrote(s, c)
           p == Page(s)
           r == Page(t)
           d == Depth(s)
           q == SetPage(p, Len(p), s.offset, c)
<1>1. /\ s.top \in Lines /\ s.cursor \in Lines /\ s.buf \in Texts /\ s.offset \in Columns
      /\ c \in Cells
  BY DEF Bufs, TextOK, Cells
<1>2. /\ t \in Bufs /\ Depth(t) = d
      /\ Line(t, d) = SetCell(Line(s, d), s.offset, c)
      /\ \A k \in Lines : k # d => Line(t, k) = Line(s, k)
  BY WroteIs
<1> HIDE DEF t
<1>3. t.top \in Lines /\ t.cursor \in Lines /\ t.buf \in Texts
  BY <1>2 DEF Bufs
<1>4. /\ p \in Seq(Rowset) /\ d \in Nat /\ Len(p) = d + 1
      /\ \A k \in 1 .. (d + 1) : k - 1 \in Lines /\ p[k] = Line(s, k - 1)
  BY <1>1, PageIs
<1>5. /\ r \in Seq(Rowset) /\ Len(r) = d + 1
      /\ \A k \in 1 .. (d + 1) : r[k] = Line(t, k - 1)
  BY <1>2, <1>3, PageIs
<1> HIDE DEF p, r, d
<1>6. Len(p) \in 1 .. Len(p)
  BY <1>4
<1>7. /\ q \in Seq(Rowset) /\ Len(q) = Len(p)
      /\ \A k \in 1 .. Len(p) :
           q[k] = IF k = Len(p) THEN SetCell(p[k], s.offset, c) ELSE p[k]
  BY <1>1, <1>4, <1>6, CellPage
<1> HIDE DEF q
<1>8. ASSUME NEW k \in 1 .. (d + 1)
      PROVE  r[k] = q[k]
  <2>1. r[k] = Line(t, k - 1) /\ p[k] = Line(s, k - 1) /\ k - 1 \in Lines
    BY <1>4, <1>5
  <2>2. q[k] = IF k = d + 1 THEN SetCell(p[k], s.offset, c) ELSE p[k]
    BY <1>4, <1>7
  <2>3. CASE k = d + 1
    <3>1. k - 1 = d
      BY <1>4, <2>3
    <3> QED
      BY <1>2, <2>1, <2>2, <2>3, <3>1
  <2>4. CASE k # d + 1
    <3>1. k - 1 # d
      BY <1>4, <2>4
    <3> QED
      BY <1>2, <2>1, <2>2, <2>4, <3>1
  <2> QED
    BY <2>3, <2>4
<1>9. r = q
  BY <1>4, <1>5, <1>7, <1>8, SamePage
<1> QED
  BY <1>2, <1>9 DEF t, p, q, r

\* sb_putchar writes, and pushes a line when this one is full.
LEMMA PutcharPage ==
  ASSUME NEW s \in Bufs, TextOK(s), NEW c \in CHARS
  PROVE  LET p == Page(s)
             u == sb_putchar(s, c)
             w == SetPage(p, Len(p), s.offset, c)
         IN  \/ s.offset + 1 = VGA_WIDTH /\ Page(u) = SB!Push(w) /\ u.offset = 0
             \/ s.offset + 1 < VGA_WIDTH /\ Page(u) = w /\ u.offset = s.offset + 1
<1> DEFINE t == Wrote(s, c)
           x == sb_regular(s, c)
           u == sb_putchar(s, c)
           w == SetPage(Page(s), Len(Page(s)), s.offset, c)
<1>1. t \in Bufs /\ Page(t) = w /\ t.offset = s.offset + 1
  BY WrotePage, WroteIs
<1>2. /\ Inner(s, x)
      /\ s.offset + 1 = VGA_WIDTH => Advanced(t, x)
      /\ s.offset + 1 # VGA_WIDTH => x = t
  BY RegularIs
<1>3. SameText(x, u)
  BY PutcharIs
<1>4. s.offset \in Int /\ s.offset < VGA_WIDTH
  BY Sizes DEF TextOK, Columns
<1> HIDE DEF t, x, u, w
<1>5. x \in Bufs
  BY <1>2 DEF Inner
<1>6. Page(u) = Page(x) /\ u.offset = x.offset
  BY <1>3, TextSame DEF SameText
<1>7. CASE s.offset + 1 = VGA_WIDTH
  <2>1. Page(x) = SB!Push(Page(t)) /\ x.offset = 0
    BY <1>1, <1>2, <1>5, <1>7, AdvancePage
  <2> QED
    BY <1>1, <1>6, <1>7, <2>1 DEF u, w
<1>8. CASE s.offset + 1 # VGA_WIDTH
  <2>1. s.offset + 1 < VGA_WIDTH
    BY <1>4, <1>8, Sizes
  <2> QED
    BY <1>1, <1>2, <1>6, <1>8, <2>1 DEF u, w
<1> QED
  BY <1>7, <1>8

\* sb_crlf pushes a line.
LEMMA PutnlPage ==
  ASSUME NEW s \in Bufs, TextOK(s)
  PROVE  Page(sb_putnl(s)) = SB!Push(Page(s)) /\ sb_putnl(s).offset = 0
<1> DEFINE x == sb_crlf(s)
           u == sb_putnl(s)
<1>1. Inner(s, x) /\ Advanced(s, x)
  BY NewlineIs DEF TextOK
<1>2. SameText(x, u)
  BY PutnlIs
<1> HIDE DEF x, u
<1>3. x \in Bufs
  BY <1>1 DEF Inner
<1>4. Page(x) = SB!Push(Page(s)) /\ x.offset = 0
  BY <1>1, <1>3, AdvancePage
<1>5. Page(u) = Page(x) /\ u.offset = x.offset
  BY <1>2, TextSame DEF SameText
<1> QED
  BY <1>4, <1>5 DEF u

\* sb_backspace takes the last character, or the last line and the last
\* character of the one before.
LEMMA PutbackPage ==
  ASSUME NEW s \in Bufs, TextOK(s), NEW n \in Nat, n > 0, TypedOK(s, n)
  PROVE  LET p == Page(s)
             u == sb_putback(s)
         IN  \/ /\ s.offset > 0 /\ u.offset = s.offset - 1
                /\ Page(u) = SetPage(p, Len(p), s.offset - 1, BLANK)
             \/ /\ s.offset = 0 /\ Len(p) > 1 /\ u.offset = VGA_WIDTH - 1
                /\ Page(u) = SetPage(SubSeq(p, 1, Len(p) - 1), Len(p) - 1,
                                     VGA_WIDTH - 1, BLANK)
<1> DEFINE p == Page(s)
           x == sb_backspace(s)
           u == sb_putback(s)
           d == BackLine(s)
           o == BackColumn(s)
           r == Page(x)
<1>1. /\ Inner(s, x) /\ d \in Lines /\ o \in Columns /\ Depth(x) = d /\ x.offset = o
      /\ \A k \in Lines : Line(x, k) = IF k = d THEN SetCell(Line(s, k), o, BLANK)
                                                ELSE Line(s, k)
  BY BackspaceIs
<1>2. SameText(x, u)
  BY PutbackIs
<1> HIDE DEF x, u
<1>3. /\ s.top \in Lines /\ s.cursor \in Lines /\ s.buf \in Texts /\ s.offset \in Columns
      /\ x.top \in Lines /\ x.cursor \in Lines /\ x.buf \in Texts
  BY <1>1 DEF Bufs, TextOK, Inner
<1>4. /\ p \in Seq(Rowset) /\ Depth(s) \in Nat /\ Len(p) = Depth(s) + 1
      /\ \A k \in 1 .. (Depth(s) + 1) : k - 1 \in Lines /\ p[k] = Line(s, k - 1)
  BY <1>3, PageIs
<1>5. /\ r \in Seq(Rowset) /\ d \in Nat /\ Len(r) = d + 1
      /\ \A k \in 1 .. (d + 1) : k - 1 \in Lines /\ r[k] = Line(x, k - 1)
  BY <1>1, <1>3, PageIs
<1>6. Page(u) = r /\ u.offset = o
  BY <1>1, <1>2, TextSame DEF SameText
<1>7. s.offset \in Int /\ 0 <= s.offset /\ BLANK \in Cells
  BY <1>3, Sizes DEF Columns, Cells
<1>8. /\ s.offset = 0 => d = Depth(s) - 1 /\ o = VGA_WIDTH - 1
      /\ s.offset # 0 => d = Depth(s) /\ o = s.offset - 1
  BY DEF BackLine, BackColumn
<1> HIDE DEF p, r, d, o
<1>9. ASSUME NEW q \in Seq(Rowset), Len(q) = d + 1,
             \A k \in 1 .. (d + 1) : q[k] = Line(s, k - 1)
      PROVE  r = SetPage(q, d + 1, o, BLANK)
  <2> DEFINE w == SetPage(q, d + 1, o, BLANK)
  <2>1. d + 1 \in 1 .. Len(q)
    BY <1>5, <1>9
  <2>2. /\ w \in Seq(Rowset) /\ Len(w) = Len(q)
        /\ \A k \in 1 .. Len(q) :
             w[k] = IF k = d + 1 THEN SetCell(q[k], o, BLANK) ELSE q[k]
    BY <1>1, <1>7, <2>1, CellPage
  <2> HIDE DEF w
  <2>3. ASSUME NEW k \in 1 .. (d + 1)
        PROVE  r[k] = w[k]
    <3>1. r[k] = Line(x, k - 1) /\ q[k] = Line(s, k - 1) /\ k - 1 \in Lines
      BY <1>5, <1>9
    <3>2. w[k] = IF k = d + 1 THEN SetCell(q[k], o, BLANK) ELSE q[k]
      BY <1>9, <2>2
    <3>3. k - 1 = d <=> k = d + 1
      BY <1>5
    <3> QED
      BY <1>1, <3>1, <3>2, <3>3
  <2>4. r = w
    BY <1>5, <1>9, <2>2, <2>3, SamePage
  <2> QED
    BY <2>4 DEF w
<1>10. CASE s.offset # 0
  <2>1. d = Depth(s) /\ o = s.offset - 1 /\ s.offset > 0 /\ Len(p) = d + 1
    BY <1>4, <1>7, <1>8, <1>10
  <2>2. r = SetPage(p, d + 1, o, BLANK)
    BY <1>4, <1>9, <2>1
  <2> QED
    BY <1>6, <2>1, <2>2 DEF p, u
<1>11. CASE s.offset = 0
  <2> DEFINE q == SubSeq(p, 1, Len(p) - 1)
  <2>1. d = Depth(s) - 1 /\ o = VGA_WIDTH - 1 /\ d \in Nat
    BY <1>5, <1>8, <1>11
  <2>2. Len(p) - 1 = d + 1 /\ Len(p) > 1 /\ Len(p) - 1 \in Int /\ 1 <= Len(p) - 1
    BY <1>4, <2>1
  <2>3. \A k \in 1 .. (Len(p) - 1) : k \in 1 .. (Depth(s) + 1) /\ p[k] \in Rowset
    BY <1>4, ElementOfSeq
  <2>4. /\ q \in Seq(Rowset)
        /\ Len(q) = IF 1 <= Len(p) - 1 THEN Len(p) - 1 - 1 + 1 ELSE 0
        /\ \A k \in 1 .. (Len(p) - 1 - 1 + 1) : q[k] = p[1 + k - 1]
    BY <2>2, <2>3, SubSeqProperties
  <2>5. Len(q) = d + 1 /\ Len(p) - 1 - 1 + 1 = d + 1
    BY <2>1, <2>2, <2>4
  <2> HIDE DEF q
  <2>6. \A k \in 1 .. (d + 1) : q[k] = Line(s, k - 1)
    <3> SUFFICES ASSUME NEW k \in 1 .. (d + 1)
                 PROVE  q[k] = Line(s, k - 1)
      OBVIOUS
    <3>1. 1 + k - 1 = k /\ k \in 1 .. (Depth(s) + 1)
      BY <1>4, <2>1
    <3> QED
      BY <1>4, <2>4, <2>5, <3>1
  <2>7. r = SetPage(q, d + 1, o, BLANK)
    BY <1>9, <2>4, <2>5, <2>6
  <2> QED
    BY <1>6, <1>11, <2>1, <2>2, <2>7 DEF q, p, u
<1> QED
  BY <1>10, <1>11

\* sb_clear leaves one blank line.
LEMMA ClearPage ==
  ASSUME NEW s \in Bufs
  PROVE  Page(sb_clear(s)) = <<BlankLine>> /\ sb_clear(s).offset = 0
<1> DEFINE u == sb_clear(s)
<1>1. /\ Keeps(s, u) /\ u.offset = 0
      /\ Depth(u) = 0 /\ \A k \in Lines : Line(u, k) = BlankLine
  BY ClearIs
<1> HIDE DEF u
<1>2. u.top \in Lines /\ u.cursor \in Lines /\ u.buf \in Texts
  BY <1>1 DEF Keeps, Bufs
<1>3. /\ Page(u) \in Seq(Rowset) /\ Len(Page(u)) = 0 + 1
      /\ \A k \in 1 .. (0 + 1) : k - 1 \in Lines /\ Page(u)[k] = Line(u, k - 1)
  BY <1>1, <1>2, PageIs
<1>4. Page(u)[1] = BlankLine /\ Len(Page(u)) = 1
  BY <1>1, <1>3
<1>5. <<BlankLine>> \in Seq(Rowset) /\ Len(<<BlankLine>>) = 1 /\ <<BlankLine>>[1] = BlankLine
  <2>1. BlankLine \in Rowset
    BY DEF BlankLine, Rowset, Cells
  <2> QED
    BY <2>1
<1>6. Page(u) = <<BlankLine>>
  BY <1>3, <1>4, <1>5, SamePage
<1> QED
  BY <1>1, <1>6 DEF u

\* The refinement mapping.
Pages == [i \in Screens |-> Page(sb[i])]
Column == [i \in Screens |-> sb[i].offset]

\* How a step that changes the current buffer changes it.
LEMMA MapChange ==
  ASSUME SInv, NEW u \in Bufs, SetCurrent(u)
  PROVE  /\ Pages' = [Pages EXCEPT ![sb_current] = Page(u)]
         /\ Column' = [Column EXCEPT ![sb_current] = u.offset]
         /\ sb_current \in Screens
         /\ Pages[sb_current] = Page(Current) /\ Column[sb_current] = Current.offset
<1> PICK c : c = sb_current
  OBVIOUS
<1> DEFINE f == Fields(u)
<1>1. c \in Screens /\ sb \in [Screens -> Buffers] /\ sb' = [sb EXCEPT ![c] = f]
  BY DEF SInv, SetCurrent
<1>2. SameText(u, f)
  BY FieldsIs
<1> HIDE DEF f
<1>3. Page(f) = Page(u) /\ f.offset = u.offset
  BY <1>2, TextSame DEF SameText
<1>4. \A i \in Screens : sb'[i] = IF i = c THEN f ELSE sb[i]
  BY <1>1
<1>5. Pages' = [i \in Screens |-> Page(sb'[i])] /\ Column' = [i \in Screens |-> sb'[i].offset]
  BY DEF Pages, Column, Page
<1>6. Pages' = [Pages EXCEPT ![c] = Page(u)]
  BY <1>3, <1>4, <1>5 DEF Pages
<1>7. Column' = [Column EXCEPT ![c] = u.offset]
  BY <1>3, <1>4, <1>5 DEF Column
<1>8. SameText(sb[c], Current)
  BY CurrentIs
<1>9. Page(Current) = Page(sb[c]) /\ Current.offset = sb[c].offset
  BY <1>8, TextSame DEF SameText
<1> QED
  BY <1>1, <1>6, <1>7, <1>9 DEF Pages, Column

\* Scrollback's actions through the mapping.
LEMMA MapWrite ==
  ASSUME NEW i \in Screens, NEW cell, wiped' = FALSE,
         LET p == Pages[i]
             w == SetPage(p, Len(p), Column[i], cell)
         IN  \/ /\ Column[i] + 1 = VGA_WIDTH
                /\ Pages' = [Pages EXCEPT ![i] = SB!Push(w)]
                /\ Column' = [Column EXCEPT ![i] = 0]
             \/ /\ Column[i] + 1 < VGA_WIDTH
                /\ Pages' = [Pages EXCEPT ![i] = w]
                /\ Column' = [Column EXCEPT ![i] = Column[i] + 1]
  PROVE  SB!Write(i, cell)
<1>1. /\ Pages = [j \in Screens |-> Page(sb[j])]
      /\ Column = [j \in Screens |-> sb[j].offset]
  BY DEF Pages, Column
<1>2. [Column EXCEPT ![i] = Column[i] + 1] = [Column EXCEPT ![i] = @ + 1]
  BY <1>1
<1> QED
  BY <1>2 DEF SB!Write, SetPage, Pages, Column

\* A pushed line.
LEMMA MapNewLine ==
  ASSUME NEW i \in Screens, wiped' = FALSE,
         Pages' = [Pages EXCEPT ![i] = SB!Push(Pages[i])],
         Column' = [Column EXCEPT ![i] = 0]
  PROVE  SB!NewLine(i)
<1>1. [Pages EXCEPT ![i] = SB!Push(Pages[i])] = [Pages EXCEPT ![i] = SB!Push(@)]
  BY DEF Pages
<1> QED
  BY <1>1 DEF SB!NewLine, Pages, Column

\* An erased character.
LEMMA MapErase ==
  ASSUME NEW i \in Screens, wiped' = FALSE,
         LET p == Pages[i]
         IN  \/ /\ Column[i] > 0
                /\ Pages' = [Pages EXCEPT ![i] = SetPage(p, Len(p), Column[i] - 1, BLANK)]
                /\ Column' = [Column EXCEPT ![i] = Column[i] - 1]
             \/ /\ Column[i] = 0 /\ Len(p) > 1
                /\ Pages' = [Pages EXCEPT ![i] = SetPage(SubSeq(p, 1, Len(p) - 1),
                                                   Len(p) - 1, VGA_WIDTH - 1, BLANK)]
                /\ Column' = [Column EXCEPT ![i] = VGA_WIDTH - 1]
  PROVE  SB!Erase(i)
<1> DEFINE p == Pages[i]
<1>1. /\ Pages = [j \in Screens |-> Page(sb[j])]
      /\ Column = [j \in Screens |-> sb[j].offset]
  BY DEF Pages, Column
<1>2. [Column EXCEPT ![i] = Column[i] - 1] = [Column EXCEPT ![i] = @ - 1]
  BY <1>1
<1>3. [Pages EXCEPT ![i] = SetPage(p, Len(p), Column[i] - 1, BLANK)]
        = [Pages EXCEPT ![i][Len(p)][Column[i] - 1] = BLANK]
  BY <1>1 DEF SetPage
<1> QED
  BY <1>2, <1>3 DEF SB!Erase, SetPage, Pages, Column

\* A cleared screen.
LEMMA MapClear ==
  ASSUME NEW i \in Screens, wiped' = TRUE,
         Pages' = [Pages EXCEPT ![i] = <<BlankLine>>],
         Column' = [Column EXCEPT ![i] = 0]
  PROVE  SB!Clear(i)
BY DEF SB!Clear, Pages, Column, SB!BlankLine, BlankLine, Columns

\* Steps that only look at a screen.
LEMMA MapLook ==
  ASSUME wiped' = FALSE, Pages' = Pages, Column' = Column
  PROVE  SB!Look
BY DEF SB!Look, Pages, Column

\* The same for a step of the model that leaves the current text alone.
LEMMA MapScroll ==
  ASSUME SInv, NEW u \in Bufs, SetCurrent(u), SameText(Current, u), wiped' = FALSE
  PROVE  SB!PNext
<1>1. /\ Pages' = [Pages EXCEPT ![sb_current] = Page(u)]
      /\ Column' = [Column EXCEPT ![sb_current] = u.offset]
      /\ sb_current \in Screens
      /\ Pages[sb_current] = Page(Current) /\ Column[sb_current] = Current.offset
  BY MapChange
<1>2. Page(u) = Page(Current) /\ u.offset = Current.offset
  BY TextSame DEF SameText
<1>3. Pages' = [Pages EXCEPT ![sb_current] = Pages[sb_current]]
      /\ Column' = [Column EXCEPT ![sb_current] = Column[sb_current]]
  BY <1>1, <1>2
<1>4. Pages' = Pages
  BY <1>1, <1>3 DEF Pages
<1>5. Column' = Column
  BY <1>1, <1>3 DEF Column
<1>6. SB!Look
  BY <1>4, <1>5, MapLook
<1> QED
  BY <1>6 DEF SB!PNext

\* What sb_putchar does to a buffer with the text of the current one.
LEMMA MapPut ==
  ASSUME SInv, NEW x \in Bufs, TextOK(x), SameText(Current, x), wiped' = FALSE
  PROVE  /\ \A c \in CHARS : SetCurrent(sb_putchar(x, c)) => SB!PNext
         /\ SetCurrent(sb_putnl(x)) => SB!PNext
         /\ \A n \in Nat : n > 0 /\ TypedOK(x, n) /\ SetCurrent(sb_putback(x)) => SB!PNext
<1> PICK i : i = sb_current
  OBVIOUS
<1>1. Page(x) = Page(Current) /\ x.offset = Current.offset
  BY TextSame DEF SameText
<1>2. ASSUME NEW u \in Bufs, SetCurrent(u)
      PROVE  /\ Pages' = [Pages EXCEPT ![i] = Page(u)]
             /\ Column' = [Column EXCEPT ![i] = u.offset]
             /\ i \in Screens /\ Pages[i] = Page(x) /\ Column[i] = x.offset
  BY <1>1, <1>2, MapChange
<1>3. ASSUME NEW c \in CHARS, SetCurrent(sb_putchar(x, c))
      PROVE  SB!PNext
  <2> DEFINE u == sb_putchar(x, c)
             p == Pages[i]
             w == SetPage(p, Len(p), Column[i], c)
  <2>1. u \in Bufs
    BY PutcharIs DEF Keeps
  <2>2. /\ Pages' = [Pages EXCEPT ![i] = Page(u)]
        /\ Column' = [Column EXCEPT ![i] = u.offset]
        /\ i \in Screens /\ Pages[i] = Page(x) /\ Column[i] = x.offset
    BY <1>2, <1>3, <2>1
  <2>3. \/ Column[i] + 1 = VGA_WIDTH /\ Page(u) = SB!Push(w) /\ u.offset = 0
        \/ Column[i] + 1 < VGA_WIDTH /\ Page(u) = w /\ u.offset = Column[i] + 1
    BY <2>2, PutcharPage
  <2> HIDE DEF u, w
  <2>4. \/ /\ Column[i] + 1 = VGA_WIDTH
           /\ Pages' = [Pages EXCEPT ![i] = SB!Push(w)]
           /\ Column' = [Column EXCEPT ![i] = 0]
        \/ /\ Column[i] + 1 < VGA_WIDTH
           /\ Pages' = [Pages EXCEPT ![i] = w]
           /\ Column' = [Column EXCEPT ![i] = Column[i] + 1]
    BY <2>2, <2>3, Zenon
  <2>5. SB!Write(i, c)
    BY <2>2, <2>4, MapWrite DEF w
  <2>6. c \in Cells \ {BLANK}
    BY ScreenbufAssumption DEF Cells
  <2> QED
    BY <2>2, <2>5, <2>6 DEF SB!PNext
<1>4. ASSUME SetCurrent(sb_putnl(x))
      PROVE  SB!PNext
  <2> DEFINE u == sb_putnl(x)
  <2>1. u \in Bufs
    BY PutnlIs DEF Keeps
  <2>2. /\ Pages' = [Pages EXCEPT ![i] = Page(u)]
        /\ Column' = [Column EXCEPT ![i] = u.offset]
        /\ i \in Screens /\ Pages[i] = Page(x)
    BY <1>2, <1>4, <2>1
  <2>3. Page(u) = SB!Push(Pages[i]) /\ u.offset = 0
    BY <2>2, PutnlPage
  <2> HIDE DEF u
  <2>4. SB!NewLine(i)
    BY <2>2, <2>3, MapNewLine
  <2> QED
    BY <2>2, <2>4 DEF SB!PNext
<1>5. ASSUME NEW n \in Nat, n > 0, TypedOK(x, n), SetCurrent(sb_putback(x))
      PROVE  SB!PNext
  <2> DEFINE u == sb_putback(x)
             p == Pages[i]
             w == SetPage(p, Len(p), Column[i] - 1, BLANK)
             v == SetPage(SubSeq(p, 1, Len(p) - 1), Len(p) - 1, VGA_WIDTH - 1, BLANK)
  <2>1. u \in Bufs
    BY <1>5, PutbackIs DEF Keeps
  <2>2. /\ Pages' = [Pages EXCEPT ![i] = Page(u)]
        /\ Column' = [Column EXCEPT ![i] = u.offset]
        /\ i \in Screens /\ Pages[i] = Page(x) /\ Column[i] = x.offset
    BY <1>2, <1>5, <2>1
  <2>3. \/ Column[i] > 0 /\ u.offset = Column[i] - 1 /\ Page(u) = w
        \/ Column[i] = 0 /\ Len(p) > 1 /\ u.offset = VGA_WIDTH - 1 /\ Page(u) = v
    BY <1>5, <2>2, PutbackPage
  <2> HIDE DEF u, v, w
  <2>4. \/ /\ Column[i] > 0
           /\ Pages' = [Pages EXCEPT ![i] = w]
           /\ Column' = [Column EXCEPT ![i] = Column[i] - 1]
        \/ /\ Column[i] = 0 /\ Len(p) > 1
           /\ Pages' = [Pages EXCEPT ![i] = v]
           /\ Column' = [Column EXCEPT ![i] = VGA_WIDTH - 1]
    BY <2>2, <2>3, Zenon
  <2>5. SB!Erase(i)
    BY <2>2, <2>4, MapErase DEF v, w
  <2> QED
    BY <2>2, <2>5 DEF SB!PNext
<1> QED
  BY <1>3, <1>4, <1>5

\* Switching screens changes no page.
LEMMA MapSwitch ==
  ASSUME SInv, NEW i \in Screens, SwitchTo(i)
  PROVE  SB!PNext
<1> PICK c : c = sb_current
  OBVIOUS
<1> DEFINE off == Fields(sb_unload(Current))
           left == [sb EXCEPT ![c] = off]
           m == Mounted(left[i], vga, hw)
           s == sb_load(m)
           f == Fields(s)
           Same(a, b) == /\ b.top = a.top /\ b.cursor = a.cursor
                         /\ b.offset = a.offset /\ b.buf = a.buf
<1>1. /\ c \in Screens /\ sb \in [Screens -> Buffers]
      /\ vga \in Displays /\ hw \in Registers
      /\ \A j \in Screens : TextOK(sb[j])
  BY DEF SInv
<1>2. sb' = [left EXCEPT ![i] = f] /\ wiped' = FALSE
  BY DEF SwitchTo, WithDisplay, Mounted
<1>3. off \in Buffers /\ Same(sb[c], off)
  <2> PICK k : k = Current
    OBVIOUS
  <2> DEFINE x == sb_unload(k)
  <2>1. k \in Bufs /\ SameText(sb[c], k)
    BY CurrentIs
  <2>2. x \in Bufs /\ Same(k, x)
    BY <2>1 DEF sb_unload, Bufs
  <2>3. off = Fields(x)
    OBVIOUS
  <2> HIDE DEF x, off
  <2>4. off \in Buffers /\ SameText(x, off)
    BY <2>2, <2>3, FieldsIs
  <2> QED
    BY <2>1, <2>2, <2>4 DEF SameText
<1> HIDE DEF off
<1>4. left \in [Screens -> Buffers] /\ \A j \in Screens : Same(sb[j], left[j])
  <2>1. left \in [Screens -> Buffers]
    BY <1>1, <1>3
  <2>2. \A j \in Screens : left[j] = IF j = c THEN off ELSE sb[j]
    BY <1>1
  <2> HIDE DEF left
  <2>3. ASSUME NEW j \in Screens
        PROVE  Same(sb[j], left[j])
    BY <1>3, <2>2
  <2> QED
    BY <2>1, <2>3
<1> HIDE DEF left
<1>5. m \in Bufs /\ SameText(left[i], m)
  BY <1>1, <1>4, MountIs
<1> HIDE DEF m
<1>6. TextOK(m)
  <2>1. Same(sb[i], m) /\ TextOK(sb[i])
    BY <1>1, <1>4, <1>5 DEF SameText
  <2>2. Depth(m) = Depth(sb[i]) /\ \A l : Line(m, l) = Line(sb[i], l)
    BY <2>1 DEF Depth, Line
  <2> QED
    BY <2>1, <2>2 DEF TextOK, Below
<1>7. s \in Bufs /\ Same(m, s)
  BY <1>5, <1>6, LoadIs
<1> HIDE DEF s
<1>8. SameText(s, f)
  BY <1>7, FieldsIs
<1> HIDE DEF f
<1>9. \A j \in Screens : sb'[j] = IF j = i THEN f ELSE left[j]
  BY <1>2, <1>4
<1>10. ASSUME NEW j \in Screens
       PROVE  Same(sb[j], sb'[j])
  <2>1. Same(sb[i], f)
    BY <1>4, <1>5, <1>7, <1>8 DEF SameText
  <2> QED
    BY <1>4, <1>9, <2>1
<1>11. ASSUME NEW j \in Screens
       PROVE  Page(sb'[j]) = Page(sb[j]) /\ sb'[j].offset = sb[j].offset
  BY <1>10 DEF Page
<1>12. Pages' = [j \in Screens |-> Page(sb'[j])] /\ Column' = [j \in Screens |-> sb'[j].offset]
  BY DEF Pages, Column, Page
<1>13. Pages' = Pages /\ Column' = Column
  BY <1>11, <1>12 DEF Pages, Column
<1>14. SB!Look
  BY <1>2, <1>13, MapLook
<1> QED
  BY <1>14 DEF SB!PNext

\* Every step is one of Scrollback's.
LEMMA MapNext ==
  ASSUME SInv, SNext
  PROVE  SB!PNext
<1> PICK s : s = Current
  OBVIOUS
<1> PICK n : n = typed
  OBVIOUS
<1>1. s \in Bufs /\ TextOK(s) /\ TypedOK(s, n) /\ n \in Nat
  BY CurrentIs, ScreenbufAssumption DEF SInv
<1> DEFINE x == sb_scroll_down(s)
<1>2. ScrollFacts(s, x)
  BY <1>1, ScrollDownIs
<1> HIDE DEF x
<1>3. x \in Bufs /\ TextOK(x) /\ SameText(s, x) /\ TypedOK(x, n)
  BY <1>1, <1>2, ScrollKeeps DEF Keeps
<1>4. SameText(s, s)
  BY DEF SameText
<1>5. ASSUME NEW c \in CHARS, PrintChar(c)
      PROVE  SB!PNext
  <2>1. SetCurrent(sb_putchar(s, c)) /\ wiped' = FALSE
    BY <1>5 DEF PrintChar
  <2> QED
    BY <1>1, <1>4, <2>1, MapPut
<1>6. CASE PrintNewline
  <2>1. SetCurrent(sb_putnl(s)) /\ wiped' = FALSE
    BY <1>6 DEF PrintNewline
  <2> QED
    BY <1>1, <1>4, <2>1, MapPut
<1>7. ASSUME NEW c \in CHARS, TypeChar(c)
      PROVE  SB!PNext
  <2>1. wiped' = FALSE /\ (SetCurrent(sb_putchar(x, c)) \/ SetCurrent(x))
    BY <1>7 DEF TypeChar, x
  <2>2. CASE SetCurrent(x)
    BY <1>3, <2>1, <2>2, MapScroll
  <2>3. CASE SetCurrent(sb_putchar(x, c))
    BY <1>3, <2>1, <2>3, MapPut
  <2> QED
    BY <2>1, <2>2, <2>3
<1>8. CASE TypeEnter
  <2>1. SetCurrent(sb_putnl(x)) /\ wiped' = FALSE
    BY <1>8 DEF TypeEnter, x
  <2> QED
    BY <1>3, <2>1, MapPut
<1>9. CASE TypeBackspace
  <2>1. wiped' = FALSE /\ ((n > 0 /\ SetCurrent(sb_putback(x))) \/ SetCurrent(x))
    BY <1>9 DEF TypeBackspace, x
  <2>2. CASE SetCurrent(x)
    BY <1>3, <2>1, <2>2, MapScroll
  <2>3. CASE n > 0 /\ SetCurrent(sb_putback(x))
    BY <1>1, <1>3, <2>1, <2>3, MapPut
  <2> QED
    BY <2>1, <2>2, <2>3
<1>10. CASE CursorUp \/ CursorDown \/ PageUp \/ PageDown
  <2>1. PICK u : Shortcut(u) /\ ScrollFacts(s, u)
    <3>1. /\ ScrollFacts(s, sb_scroll(s, -1)) /\ ScrollFacts(s, sb_scroll(s, 1))
          /\ ScrollFacts(s, sb_scroll_top(s)) /\ ScrollFacts(s, sb_scroll_down(s))
      BY <1>1, ScrollIs, ScrollTopIs, ScrollDownIs
    <3>2. \/ Shortcut(sb_scroll(s, -1)) \/ Shortcut(sb_scroll(s, 1))
          \/ Shortcut(sb_scroll_top(s)) \/ Shortcut(sb_scroll_down(s))
      BY <1>10 DEF CursorUp, CursorDown, PageUp, PageDown
    <3> QED
      BY <3>1, <3>2
  <2>2. SetCurrent(u) /\ wiped' = FALSE /\ u \in Bufs /\ SameText(s, u)
    BY <2>1 DEF Shortcut, ScrollFacts
  <2> QED
    BY <2>2, MapScroll
<1>11. CASE clear
  <2> PICK u : u = sb_clear(s)
    OBVIOUS
  <2> PICK i : i = sb_current
    OBVIOUS
  <2>1. Keeps(s, u) /\ Page(u) = <<BlankLine>> /\ u.offset = 0
    BY <1>1, ClearIs, ClearPage
  <2>2. SetCurrent(u) /\ wiped' = TRUE /\ u \in Bufs
    BY <1>11, <2>1 DEF clear, Keeps
  <2>3. /\ Pages' = [Pages EXCEPT ![i] = <<BlankLine>>]
        /\ Column' = [Column EXCEPT ![i] = 0] /\ i \in Screens
    BY <2>1, <2>2, MapChange
  <2>4. SB!Clear(i)
    BY <2>2, <2>3, MapClear
  <2> QED
    BY <2>3, <2>4 DEF SB!PNext
<1>12. CASE next \/ prev
  <2>1. sb_current \in Screens
    BY DEF SInv
  <2>2. PICK i \in Screens : SwitchTo(i)
    BY <1>12, <2>1, ScreenbufAssumption DEF next, prev, Screens
  <2> QED
    BY <2>2, MapSwitch
<1> QED
  BY <1>5, <1>6, <1>7, <1>8, <1>9, <1>10, <1>11, <1>12 DEF SNext

\* The buffers start as pages.
LEMMA MapInit ==
  ASSUME SInit
  PROVE  SB!PInit
<1>1. SInv /\ wiped = FALSE
  BY InitInv DEF SInit
<1>2. ASSUME NEW i \in Screens
      PROVE  /\ Page(sb[i]) \in Seq(Rowset) /\ Len(Page(sb[i])) \in 1 .. SB_HEIGHT
             /\ sb[i].offset \in Columns
  <2> PICK b : b = sb[i]
    OBVIOUS
  <2>1. b \in Buffers /\ TextOK(b)
    BY <1>1 DEF SInv
  <2>2. b.top \in Lines /\ b.cursor \in Lines /\ b.buf \in Texts /\ b.offset \in Columns
    BY <2>1 DEF Buffers, TextOK
  <2>3. /\ Page(b) \in Seq(Rowset)
        /\ Depth(b) \in Nat /\ Depth(b) < SB_HEIGHT /\ Len(Page(b)) = Depth(b) + 1
    BY <2>2, PageIs
  <2>4. Len(Page(b)) \in 1 .. SB_HEIGHT
    BY <2>3, Sizes
  <2> QED
    BY <2>2, <2>3, <2>4
<1>3. Pages \in [Screens -> Seq(Rowset)] /\ \A i \in Screens : Len(Pages[i]) \in 1 .. SB_HEIGHT
  BY <1>2 DEF Pages
<1>4. Column \in [Screens -> Columns]
  BY <1>2 DEF Column
<1> QED
  BY <1>1, <1>3, <1>4 DEF SB!PInit, Pages, Column, Rowset, Columns

\* Each screen buffer is the queue of the last SB_HEIGHT lines written to it:
\* the circular buffer of screenbuf.c, with its two wrapping positions and its
\* viewport, implements Scrollback.
THEOREM ScreensKeepLastLines == SSpec => KeepsLastLines
<1>1. SInit => SB!PInit
  BY MapInit
<1>2. SInv /\ [SNext]_sbvars => [SB!PNext]_(SB!pvars)
  <2> SUFFICES ASSUME SInv, [SNext]_sbvars
               PROVE  [SB!PNext]_(SB!pvars)
    OBVIOUS
  <2>1. CASE SNext
    BY <2>1, MapNext
  <2>2. CASE UNCHANGED sbvars
    <3>1. sb' = sb /\ wiped' = wiped
      BY <2>2 DEF sbvars
    <3>2. UNCHANGED SB!pvars
      BY <3>1 DEF SB!pvars, Page
    <3> QED
      BY <3>2
  <2> QED
    BY <2>1, <2>2
<1>3. SSpec => SB!PSpec
  BY <1>1, <1>2, SInvariant, PTL DEF SSpec, SB!PSpec
<1> QED
  BY <1>3 DEF KeepsLastLines
=============================================================================
