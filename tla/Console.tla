------------------------------ MODULE Console ------------------------------
(***************************************************************************)
(* Console.cpp: kprint puts characters into the video memory at a cursor   *)
(* and scrolls.  All the other output functions are calls of kprint; a     *)
(* string is its characters, one after the other.  It runs with interrupts *)
(* on, so another printer may come between two of its statements.          *)
(***************************************************************************)
EXTENDS Integers, Sequences

CONSTANTS
    SCREEN_WIDTH,
    SCREEN_HEIGHT,
    Printer,      \* the threads that print
    Printable,    \* the characters that are put on the screen
    BLANK,        \* the cell kclearScreen and kscroll leave
    MaxScrolls    \* a bound: nothing is printed any more when kprint has
                  \* scrolled so often

ASSUME SizeAssumption ==
    /\ SCREEN_WIDTH \in Nat \ {0} /\ SCREEN_HEIGHT \in Nat /\ SCREEN_HEIGHT >= 3
    /\ MaxScrolls \in Nat
ASSUME PrintableAssumption ==
    Printable \cap {BLANK, "newline", "return", "backspace"} = {}

Control == {"newline", "return", "backspace"}

VARIABLES
    videoram,   \* the cells of the screen, row by row
    cursorX, cursorY,
    pc,         \* where each printer is in the loop of kprint
    char,       \* msg[i] of each printer
    beyond,     \* a cell behind the screen has been written
    gone        \* the rows that were scrolled off the screen

cursor == <<cursorX, cursorY>>
vars == <<videoram, cursor, pc, char, beyond, gone>>

Cell == 0 .. SCREEN_WIDTH * SCREEN_HEIGHT - 1
Column == 0 .. SCREEN_WIDTH - 1

TypeOK ==
    /\ videoram \in [Cell -> Printable \cup {BLANK}]
    /\ cursorX \in Nat /\ cursorY \in Int
    /\ pc \in [Printer -> {"idle", "height", "width", "msg", "put", "erase", "advance"}]
    /\ char \in [Printer -> Printable \cup Control \cup {BLANK}]
    /\ beyond \in BOOLEAN
    /\ gone \in Seq([Column -> Printable \cup {BLANK}])

(* kclearScreen, with which kmain begins. *)
Init ==
    /\ videoram = [c \in Cell |-> BLANK]
    /\ cursorX = 0 /\ cursorY = 0
    /\ pc = [p \in Printer |-> "idle"]
    /\ char = [p \in Printer |-> BLANK]
    /\ beyond = FALSE
    /\ gone = <<>>

At(p, label) == pc[p] = label

Goto(p, label) == pc' = [pc EXCEPT ![p] = label]

----------------------------------------------------------------------------

(* The next character of a string. *)
kprint(p) ==
    /\ At(p, "idle") /\ Goto(p, "height")
    /\ Len(gone) < 3 * MaxScrolls
    /\ \E c \in Printable \cup Control : char' = [char EXCEPT ![p] = c]
    /\ UNCHANGED <<videoram, cursor, beyond, gone>>

Row(j) == [i \in Column |-> videoram[i + j * SCREEN_WIDTH]]

(* Mutants: the last rows stay; the cursor stays. *)
ScrolledUncleared(n) ==
    [c \in Cell |-> IF c + n * SCREEN_WIDTH \in Cell THEN videoram[c + n * SCREEN_WIDTH] ELSE videoram[c]]

kscrollUnderCursor(n) ==
    /\ videoram' = [c \in Cell |-> IF c + n * SCREEN_WIDTH \in Cell THEN videoram[c + n * SCREEN_WIDTH] ELSE BLANK]
    /\ gone' = gone \o [j \in 1 .. n |-> Row(j - 1)]
    /\ UNCHANGED cursorY

(* kscroll, n times: the rows move up and blank ones come in below. *)
Scrolled(n) ==
    [c \in Cell |-> IF c + n * SCREEN_WIDTH \in Cell THEN videoram[c + n * SCREEN_WIDTH] ELSE BLANK]

kscroll(n) ==
    /\ videoram' = Scrolled(n)
    /\ cursorY' = cursorY - n
    /\ gone' = gone \o [j \in 1 .. n |-> Row(j - 1)]

TestHeight(p) ==
    /\ At(p, "height") /\ Goto(p, "width")
    /\ \/ cursorY = SCREEN_HEIGHT /\ kscroll(3)
       \/ cursorY # SCREEN_HEIGHT /\ UNCHANGED <<videoram, cursorY, gone>>
    /\ UNCHANGED <<cursorX, char, beyond>>

(* Mutants: the character goes on in the new row without another look at   *)
(* the height; it is taken up again in the old row.                        *)
WrapOnward(p) ==
    /\ At(p, "width") /\ Goto(p, "msg")
    /\ \/ cursorX = SCREEN_WIDTH /\ cursorY' = cursorY + 1 /\ cursorX' = 0
       \/ cursorX # SCREEN_WIDTH /\ UNCHANGED cursor
    /\ UNCHANGED <<videoram, char, beyond, gone>>

WrapNowhere(p) ==
    /\ At(p, "width")
    /\ Goto(p, IF cursorX = SCREEN_WIDTH THEN "height" ELSE "msg")
    /\ UNCHANGED <<videoram, cursor, char, beyond, gone>>

(* A full row: i-- and continue take the same character up again. *)
TestWidth(p) ==
    /\ At(p, "width")
    /\ \/ /\ cursorX = SCREEN_WIDTH /\ Goto(p, "height")
          /\ cursorY' = cursorY + 1 /\ cursorX' = 0
       \/ /\ cursorX # SCREEN_WIDTH /\ Goto(p, "msg")
          /\ UNCHANGED cursor
    /\ UNCHANGED <<videoram, char, beyond, gone>>

Ends(p) == Goto(p, "idle") /\ char' = [char EXCEPT ![p] = BLANK]

NewLine(p) ==
    /\ At(p, "msg") /\ char[p] = "newline" /\ Ends(p)
    /\ cursorY' = cursorY + 1 /\ cursorX' = 0
    /\ UNCHANGED <<videoram, beyond, gone>>

CarriageReturn(p) ==
    /\ At(p, "msg") /\ char[p] = "return" /\ Ends(p)
    /\ cursorX' = 0
    /\ UNCHANGED <<videoram, cursorY, beyond, gone>>

Backspace(p) ==
    /\ At(p, "msg") /\ char[p] = "backspace" /\ Goto(p, "erase")
    /\ \/ cursorX > 0 /\ cursorX' = cursorX - 1 /\ UNCHANGED cursorY
       \/ cursorX = 0 /\ cursorY > 0 /\ cursorY' = cursorY - 1 /\ cursorX' = SCREEN_WIDTH - 1
       \/ cursorX = 0 /\ cursorY <= 0 /\ UNCHANGED cursor
    /\ UNCHANGED <<videoram, char, beyond, gone>>

Character(p) ==
    /\ At(p, "msg") /\ char[p] \in Printable /\ Goto(p, "put")
    /\ UNCHANGED <<videoram, cursor, char, beyond, gone>>

Put(x) ==
    LET pos == cursorY * SCREEN_WIDTH + cursorX
    IN  IF pos \in Cell
        THEN videoram' = [videoram EXCEPT ![pos] = x] /\ UNCHANGED beyond
        ELSE beyond' = TRUE /\ UNCHANGED videoram

PutCharacter(p) ==
    /\ At(p, "put") /\ Goto(p, "advance")
    /\ Put(char[p])
    /\ UNCHANGED <<cursor, char, gone>>

Erase(p) ==
    /\ At(p, "erase") /\ Ends(p)
    /\ Put(BLANK)
    /\ UNCHANGED <<cursor, gone>>

Advance(p) ==
    /\ At(p, "advance") /\ Ends(p)
    /\ cursorX' = cursorX + 1
    /\ UNCHANGED <<videoram, cursorY, beyond, gone>>

Loop(p) ==
    \/ TestHeight(p) \/ TestWidth(p)
    \/ NewLine(p) \/ CarriageReturn(p) \/ Backspace(p) \/ Character(p)
    \/ PutCharacter(p) \/ Erase(p) \/ Advance(p)

Next == \E p \in Printer : kprint(p) \/ Loop(p)

(* A printer in the middle of kprint goes on. *)
Spec == Init /\ [][Next]_vars /\ \A p \in Printer : WF_vars(Loop(p))
----------------------------------------------------------------------------

(* Whatever is printed, the cursor is on the screen, behind the end of a   *)
(* row or below the last one, where kprint takes it for the mark to wrap   *)
(* or to scroll; one step further, and the two tests never see it again.   *)
CursorOnScreen == cursorX \in 0 .. SCREEN_WIDTH /\ cursorY \in 0 .. SCREEN_HEIGHT

(* kprint stores into the screen only. *)
NeverBeyond == ~beyond

(* A string is printed to its end, although a full row does not take its   *)
(* character and goes through the loop again.                              *)
Returns == \A p \in Printer : pc[p] # "idle" ~> pc[p] = "idle"

----------------------------------------------------------------------------
(* The sheet: what was scrolled away, then the screen.  A printer that has *)
(* put its character has moved on, one that goes back has erased already.  *)

SomeAt(label) == \E p \in Printer : pc[p] = label

OnScreen(r, c) ==
    LET pos == (r - Len(gone)) * SCREEN_WIDTH + c
    IN  IF pos \in Cell /\ ~(SomeAt("erase") /\ pos = cursorY * SCREEN_WIDTH + cursorX)
        THEN videoram[pos] ELSE BLANK

SheetRows == 3 * MaxScrolls + SCREEN_HEIGHT + 1

P == INSTANCE Paper WITH
    Width <- SCREEN_WIDTH, Rows <- SheetRows,
    sheet <- [r \in 0 .. SheetRows - 1 |-> [c \in 0 .. SCREEN_WIDTH - 1 |->
                 IF r < Len(gone) THEN gone[r + 1][c] ELSE OnScreen(r, c)]],
    row <- Len(gone) + cursorY,
    col <- IF SomeAt("advance") THEN cursorX + 1 ELSE cursorX

(* What is printed stands where it was put, in its row and column, until   *)
(* the cursor comes there again: wrapping and scrolling, by three rows at  *)
(* a time, change nothing of it.                                           *)
WritesOnPaper == P!Spec
=============================================================================
