----------------------------- MODULE Scrollback -----------------------------
(***************************************************************************)
(* What a screen buffer promises the code that prints to it: each screen   *)
(* keeps the last SB_HEIGHT lines that were written, in order, whatever    *)
(* part of them is on display.                                             *)
(***************************************************************************)
EXTENDS Integers, Sequences

CONSTANTS SCREENS,    \* the screens
          VGA_WIDTH,  \* cells of a line
          SB_HEIGHT,  \* lines a screen keeps
          CELLS,      \* what a cell can hold
          BLANK       \* the cell of a fresh line

VARIABLES pages,      \* pages[i]: the lines screen i keeps, oldest first
          column,     \* column[i]: where the next character goes
          wiped       \* the last command was to clear a screen

pvars == <<pages, column, wiped>>

BlankLine == [k \in 0 .. (VGA_WIDTH - 1) |-> BLANK]

\* A fresh line at the end; the oldest line makes room.
Push(p) == IF Len(p) = SB_HEIGHT THEN Append(Tail(p), BlankLine)
                                 ELSE Append(p, BlankLine)

PInit ==
  /\ pages \in [SCREENS -> Seq([0 .. (VGA_WIDTH - 1) -> CELLS])]
  /\ \A i \in SCREENS : Len(pages[i]) \in 1 .. SB_HEIGHT
  /\ column \in [SCREENS -> 0 .. (VGA_WIDTH - 1)]
  /\ wiped = FALSE

\* The cell at the column is set; a full line is followed by a fresh one.
Write(i, cell) ==
  LET p == pages[i]
      written == [p EXCEPT ![Len(p)][column[i]] = cell]
  IN  /\ \/ /\ column[i] + 1 = VGA_WIDTH
            /\ pages' = [pages EXCEPT ![i] = Push(written)]
            /\ column' = [column EXCEPT ![i] = 0]
         \/ /\ column[i] + 1 < VGA_WIDTH
            /\ pages' = [pages EXCEPT ![i] = written]
            /\ column' = [column EXCEPT ![i] = @ + 1]
      /\ wiped' = FALSE

NewLine(i) ==
  /\ pages' = [pages EXCEPT ![i] = Push(@)]
  /\ column' = [column EXCEPT ![i] = 0]
  /\ wiped' = FALSE

\* The last cell goes; from the start of a line, so does that line.
Erase(i) ==
  LET p == pages[i]
  IN  /\ \/ /\ column[i] > 0
            /\ pages' = [pages EXCEPT ![i][Len(p)][column[i] - 1] = BLANK]
            /\ column' = [column EXCEPT ![i] = @ - 1]
         \/ /\ column[i] = 0 /\ Len(p) > 1
            /\ pages' = [pages EXCEPT
                           ![i] = [SubSeq(p, 1, Len(p) - 1) EXCEPT
                                     ![Len(p) - 1][VGA_WIDTH - 1] = BLANK]]
            /\ column' = [column EXCEPT ![i] = VGA_WIDTH - 1]
      /\ wiped' = FALSE

Clear(i) ==
  /\ pages' = [pages EXCEPT ![i] = <<BlankLine>>]
  /\ column' = [column EXCEPT ![i] = 0]
  /\ wiped' = TRUE

\* Scrolling and switching screens: nothing is lost.
Look ==
  /\ wiped' = FALSE
  /\ UNCHANGED <<pages, column>>

PNext ==
  \/ \E i \in SCREENS :
       \/ \E cell \in CELLS \ {BLANK} : Write(i, cell)
       \/ NewLine(i)
       \/ Erase(i)
       \/ Clear(i)
  \/ Look

PSpec == PInit /\ [][PNext]_pvars
=============================================================================
