----------------------------- MODULE LineEditor -----------------------------
(***************************************************************************)
(* What someone typing into the editor sees: lines, a row and a column.    *)
(***************************************************************************)
EXTENDS Naturals, Sequences

LOCAL INSTANCE SequencesExt

CONSTANTS Char, Room   \* characters; how many fit, line ends included

VARIABLES lines, row, col

viewVars == <<lines, row, col>>

Size == FoldLeft(LAMBDA n, l : n + Len(l), Len(lines) - 1, lines)

Above == SubSeq(lines, 1, row - 1)
Below == SubSeq(lines, row + 1, Len(lines))
Before == SubSeq(lines[row], 1, col)
After == SubSeq(lines[row], col + 1, Len(lines[row]))

Init == row = 1 /\ col = 0

Type(c) ==
  /\ Size < Room
  /\ lines' = [lines EXCEPT ![row] = Append(Before, c) \o After]
  /\ col' = col + 1
  /\ UNCHANGED row

Newline ==
  /\ Size < Room
  /\ lines' = Above \o <<Before, After>> \o Below
  /\ row' = row + 1
  /\ col' = 0

Backspace ==
  \/ /\ col > 0
     /\ lines' = [lines EXCEPT ![row] = Front(Before) \o After]
     /\ col' = col - 1
     /\ UNCHANGED row
  \/ /\ col = 0 /\ row > 1
     /\ lines' = Front(Above) \o <<lines[row - 1] \o After>> \o Below
     /\ row' = row - 1
     /\ col' = Len(lines[row - 1])

MoveTo(r, c) == row' = r /\ col' = c /\ UNCHANGED lines

\* The column nearest to c that line r has.
Clip(r, c) == IF c < Len(lines[r]) THEN c ELSE Len(lines[r])

Left ==
  \/ col > 0 /\ MoveTo(row, col - 1)
  \/ col = 0 /\ row > 1 /\ MoveTo(row - 1, Len(lines[row - 1]))

Right ==
  \/ col < Len(lines[row]) /\ MoveTo(row, col + 1)
  \/ col = Len(lines[row]) /\ row < Len(lines) /\ MoveTo(row + 1, 0)

Up == row > 1 /\ MoveTo(row - 1, Clip(row - 1, col))

Down == row < Len(lines) /\ MoveTo(row + 1, Clip(row + 1, col))

Home == MoveTo(row, 0)

End == MoveTo(row, Len(lines[row]))

Next ==
  \/ \E c \in Char : Type(c)
  \/ Newline \/ Backspace
  \/ Left \/ Right \/ Up \/ Down \/ Home \/ End

Spec == Init /\ [][Next]_viewVars
=============================================================================
