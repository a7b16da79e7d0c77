------------------------------- MODULE Paper -------------------------------
(***************************************************************************)
(* What the console promises: what is printed stands on one long sheet,    *)
(* row after row, and only the place at the cursor ever changes.  The      *)
(* screen, which shows the end of the sheet, is in Console.                *)
(***************************************************************************)
EXTENDS Integers

CONSTANTS
    Width,
    Rows,       \* how many rows the sheet has, a bound
    Printable,
    BLANK

VARIABLES
    sheet,      \* what stands in each row and column
    row, col    \* the cursor; col = Width is the end of a full row

vars == <<sheet, row, col>>

Init ==
    /\ sheet = [r \in 0 .. Rows - 1 |-> [c \in 0 .. Width - 1 |-> BLANK]]
    /\ row = 0 /\ col = 0

Type(x) ==
    /\ col < Width
    /\ sheet' = [sheet EXCEPT ![row][col] = x]
    /\ col' = col + 1
    /\ UNCHANGED row

NewRow == row' = row + 1 /\ col' = 0 /\ UNCHANGED sheet

Return == col' = 0 /\ UNCHANGED <<sheet, row>>

(* Backspace goes back within a row; at the start of one it goes to the    *)
(* end of the row before, unless that is out of sight.                     *)
Back ==
    /\ \/ col > 0 /\ col' = col - 1 /\ UNCHANGED row
       \/ col = 0 /\ row' = row - 1 /\ col' = Width - 1
       \/ col = 0 /\ UNCHANGED <<row, col>>
    /\ sheet' = [sheet EXCEPT ![row'][col'] = BLANK]

Next == (\E x \in Printable : Type(x)) \/ NewRow \/ Return \/ Back

Spec == Init /\ [][Next]_vars
=============================================================================
