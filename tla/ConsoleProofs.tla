--------------------------- MODULE ConsoleProofs ---------------------------
(* The console with one printer, on a screen of any size. *)
EXTENDS Console, SequenceTheorems, TLAPS

(* Where the cursor is at each place of the loop of kprint: a character is *)
(* put and erased on the screen only.                                      *)
Places(p) ==
    /\ pc[p] \in {"idle", "height"} => cursorX \in 0 .. SCREEN_WIDTH /\ cursorY \in 0 .. SCREEN_HEIGHT
    /\ pc[p] = "width" => cursorX \in 0 .. SCREEN_WIDTH /\ cursorY \in 0 .. SCREEN_HEIGHT - 1
    /\ pc[p] \in {"msg", "put", "erase", "advance"} => cursorX \in Column /\ cursorY \in 0 .. SCREEN_HEIGHT - 1

Typed ==
    /\ cursorX \in Int /\ cursorY \in Int
    /\ pc \in [Printer -> {"idle", "height", "width", "msg", "put", "erase", "advance"}]
    /\ beyond = FALSE

(* One printer. *)
Alone == Printer # {} /\ \A p, q \in Printer : p = q

IInv == Typed /\ \A p \in Printer : Places(p)

(* The cell at a cursor on the screen is a cell of the screen. *)
LEMMA CellOfCursor ==
    ASSUME NEW x \in Column, NEW y \in 0 .. SCREEN_HEIGHT - 1
    PROVE  y * SCREEN_WIDTH + x \in Cell
<1>1. SCREEN_WIDTH \in Nat \ {0} /\ SCREEN_HEIGHT \in Nat /\ SCREEN_HEIGHT >= 3
  BY SizeAssumption
<1>2. \A w \in Nat, d \in Nat : d * w \in Nat
  OBVIOUS
<1>3. (SCREEN_HEIGHT - 1 - y) * SCREEN_WIDTH \in Nat /\ y * SCREEN_WIDTH \in Nat
  BY <1>1, <1>2
<1>4. SCREEN_WIDTH * SCREEN_HEIGHT
          = y * SCREEN_WIDTH + (SCREEN_HEIGHT - 1 - y) * SCREEN_WIDTH + SCREEN_WIDTH
  BY <1>1
<1>5. x \in Nat /\ x < SCREEN_WIDTH
  BY <1>1 DEF Column
<1> QED
  BY <1>1, <1>3, <1>4, <1>5 DEF Cell

(* One turn of the loop leaves the cursor where the next one expects it.   *)
LEMMA Step ==
    ASSUME Alone, IInv, NEW p \in Printer, kprint(p) \/ Loop(p)
    PROVE  IInv'
<1> USE DEF At, Goto, Ends, Typed, Places, Column
<1>0. SCREEN_WIDTH \in Nat \ {0} /\ SCREEN_HEIGHT \in Nat /\ SCREEN_HEIGHT >= 3
  BY SizeAssumption
<1>s. SUFFICES Typed' /\ Places(p)'
  BY DEF Alone, IInv
<1>1. CASE kprint(p)
  BY <1>0, <1>1 DEF IInv, kprint, cursor
<1>2. CASE TestHeight(p)
  BY <1>0, <1>2 DEF IInv, TestHeight, kscroll
<1>3. CASE TestWidth(p)
  BY <1>0, <1>3 DEF IInv, TestWidth, cursor
<1>4. CASE NewLine(p)
  BY <1>0, <1>4 DEF IInv, NewLine
<1>5. CASE CarriageReturn(p)
  BY <1>0, <1>5 DEF IInv, CarriageReturn
<1>6. CASE Backspace(p)
  BY <1>0, <1>6 DEF IInv, Backspace, cursor
<1>7. CASE Character(p)
  BY <1>0, <1>7 DEF IInv, Character, cursor
<1>8. CASE PutCharacter(p)
  <2>1. cursorY * SCREEN_WIDTH + cursorX \in Cell
    BY <1>8, CellOfCursor DEF IInv, PutCharacter
  <2> QED
    BY <1>0, <1>8, <2>1 DEF IInv, PutCharacter, Put, cursor
<1>9. CASE Erase(p)
  <2>1. cursorY * SCREEN_WIDTH + cursorX \in Cell
    BY <1>9, CellOfCursor DEF IInv, Erase
  <2> QED
    BY <1>0, <1>9, <2>1 DEF IInv, Erase, Put, cursor
<1>10. CASE Advance(p)
  BY <1>0, <1>10 DEF IInv, Advance
<1> QED
  BY <1>1, <1>2, <1>3, <1>4, <1>5, <1>6, <1>7, <1>8, <1>9, <1>10 DEF Loop

LEMMA Invariance == ASSUME Alone PROVE Spec => []IInv
<1>1. Init => IInv
  BY SizeAssumption DEF Init, IInv, Typed, Places
<1>2. IInv /\ [Next]_vars => IInv'
  <2>1. CASE Next
    BY <2>1, Step DEF Next
  <2>2. CASE UNCHANGED vars
    BY <2>2 DEF vars, cursor, IInv, Typed, Places, Column
  <2> QED
    BY <2>1, <2>2
<1> QED
  BY <1>1, <1>2, PTL DEF Spec

(* Whatever is printed, the cursor does not leave the screen by more than  *)
(* the one column and the one row that kprint looks for.                   *)
THEOREM CursorStays == ASSUME Alone PROVE Spec => []CursorOnScreen
<1>1. Alone /\ IInv => CursorOnScreen
  BY SizeAssumption DEF Alone, IInv, Typed, Places, CursorOnScreen, Column
<1> QED
  BY <1>1, Invariance, PTL

(* kprint never stores outside the video memory. *)
THEOREM StoresStay == ASSUME Alone PROVE Spec => []NeverBeyond
<1>1. IInv => NeverBeyond
  BY DEF IInv, Typed, NeverBeyond
<1> QED
  BY <1>1, Invariance, PTL

----------------------------------------------------------------------------
(* What the screen and the printed characters are. *)

Shown == Printable \cup {BLANK}

Kept ==
    /\ videoram \in [Cell -> Shown]
    /\ char \in [Printer -> Shown \cup Control]
    /\ gone \in Seq([Column -> Shown])
    /\ \A p \in Printer : pc[p] = "put" => char[p] \in Printable

LEMMA RowsOfScreen ==
    ASSUME videoram \in [Cell -> Shown], NEW j \in 0 .. SCREEN_HEIGHT - 1
    PROVE  Row(j) \in [Column -> Shown]
<1>1. ASSUME NEW i \in Column PROVE i + j * SCREEN_WIDTH \in Cell
  <2>1. j * SCREEN_WIDTH + i \in Cell
    BY CellOfCursor
  <2>2. i \in Int /\ j \in Int /\ SCREEN_WIDTH \in Int
    BY SizeAssumption DEF Column
  <2>3. \A w, d \in Int : d * w \in Int
    OBVIOUS
  <2> QED  BY <2>1, <2>2, <2>3
<1>2. \A i \in Column : videoram[i + j * SCREEN_WIDTH] \in Shown
  BY <1>1
<1> QED  BY <1>2 DEF Row

(* The three rows that kscroll takes away. *)
Away == [j \in 1 .. 3 |-> Row(j - 1)]

LEMMA AwayRows ==
    ASSUME videoram \in [Cell -> Shown]
    PROVE  Away \in Seq([Column -> Shown]) /\ Len(Away) = 3
<1>1. \A j \in 1 .. 3 : j - 1 \in 0 .. SCREEN_HEIGHT - 1
  BY SizeAssumption
<1>2. \A j \in 1 .. 3 : Row(j - 1) \in [Column -> Shown]
  BY <1>1, RowsOfScreen
<1> QED  BY <1>2 DEF Away

LEMMA StepKept ==
    ASSUME Kept, pc \in [Printer -> {"idle", "height", "width", "msg", "put", "erase", "advance"}],
           NEW p \in Printer, kprint(p) \/ Loop(p)
    PROVE  Kept'
<1> USE DEF At, Goto, Ends, Kept, Shown
<1>1. CASE kprint(p)
  BY <1>1 DEF kprint
<1>2. CASE TestHeight(p)
  <2>1. CASE kscroll(3)
    <3>1. videoram' \in [Cell -> Shown]
      BY <2>1 DEF kscroll, Scrolled
    <3>2. gone' = gone \o Away
      BY <2>1 DEF kscroll, Away
    <3>3. gone' \in Seq([Column -> Shown])
      <4> HIDE DEF Shown
      <4> QED  BY <3>2, AwayRows
    <3> QED  BY <1>2, <3>1, <3>3 DEF TestHeight
  <2>2. CASE UNCHANGED <<videoram, cursorY, gone>>
    BY <1>2, <2>2 DEF TestHeight
  <2> QED  BY <1>2, <2>1, <2>2 DEF TestHeight
<1>3. CASE TestWidth(p) \/ NewLine(p) \/ CarriageReturn(p) \/ Backspace(p) \/ Advance(p)
  BY <1>3 DEF TestWidth, NewLine, CarriageReturn, Backspace, Advance
<1>4. CASE Character(p)
  BY <1>4 DEF Character
<1>5. CASE PutCharacter(p) \/ Erase(p)
  <2>1. \E x \in Shown : Put(x)
    BY <1>5 DEF PutCharacter, Erase
  <2>2. videoram' \in [Cell -> Shown]
    BY <2>1 DEF Put
  <2> QED  BY <1>5, <2>2 DEF PutCharacter, Erase
<1> QED  BY <1>1, <1>2, <1>3, <1>4, <1>5 DEF Loop

LEMMA KeptAlways == ASSUME Alone PROVE Spec => []Kept
<1>1. Init => Kept
  BY DEF Init, Kept, Shown
<1>2. IInv /\ Kept /\ [Next]_vars => Kept'
  <2>1. CASE Next
    BY <2>1, StepKept DEF Next, IInv, Typed
  <2>2. CASE UNCHANGED vars
    BY <2>2 DEF vars, Kept
  <2> QED  BY <2>1, <2>2
<1> QED  BY <1>1, <1>2, Invariance, PTL DEF Spec

----------------------------------------------------------------------------
(* The refinement: the screen is the end of one long sheet. *)

(* A cell has one row and one column. *)
LEMMA OnePlace ==
    ASSUME NEW a \in Int, NEW b \in Int, NEW x \in Column, NEW y \in Column,
           a * SCREEN_WIDTH + x = b * SCREEN_WIDTH + y
    PROVE  a = b /\ x = y
<1>1. PICK w \in Nat \ {0} : w = SCREEN_WIDTH
  BY SizeAssumption
<1>2. x \in 0 .. w - 1 /\ y \in 0 .. w - 1
  BY <1>1 DEF Column
<1>3. PICK d \in Int : d = a - b
  OBVIOUS
<1>4. d * w = y - x
  BY <1>1, <1>2, <1>3
<1>5. d >= 1 => d * w >= w
  <2> SUFFICES ASSUME d >= 1 PROVE d * w >= w
    OBVIOUS
  <2>1. d - 1 \in Nat
    OBVIOUS
  <2>2. \A m, n \in Nat : m * n \in Nat
    OBVIOUS
  <2>3. (d - 1) * w \in Nat
    BY <2>1, <2>2
  <2>4. d * w = (d - 1) * w + w
    OBVIOUS
  <2> QED  BY <2>3, <2>4
<1>6. d <= -1 => d * w <= -w
  <2> SUFFICES ASSUME d <= -1 PROVE d * w <= -w
    OBVIOUS
  <2>1. -d - 1 \in Nat
    OBVIOUS
  <2>2. \A m, n \in Nat : m * n \in Nat
    OBVIOUS
  <2>3. (-d - 1) * w \in Nat
    BY <2>1, <2>2
  <2>4. d * w = -((-d - 1) * w) - w
    OBVIOUS
  <2> QED  BY <2>3, <2>4
<1>7. d = 0
  BY <1>2, <1>4, <1>5, <1>6
<1> QED  BY <1>2, <1>3, <1>4, <1>7

(* What stands in a row and a column of the sheet. *)
Seen(r, c) == IF r < Len(gone) THEN gone[r + 1][c] ELSE OnScreen(r, c)

Sheet == [r \in 0 .. SheetRows - 1 |-> [c \in 0 .. SCREEN_WIDTH - 1 |-> Seen(r, c)]]

LEMMA SheetSame ==
    ASSUME \A r \in Nat, c \in Column : Seen(r, c)' = Seen(r, c)
    PROVE  Sheet' = Sheet
BY SizeAssumption DEF Sheet, SheetRows, Column

LEMMA SheetChanged ==
    ASSUME NEW a \in Nat, NEW b \in Column, NEW x,
           \A r \in Nat, c \in Column : Seen(r, c)' = IF r = a /\ c = b THEN x ELSE Seen(r, c)
    PROVE  Sheet' = [Sheet EXCEPT ![a][b] = x]
<1>1. 0 .. SheetRows - 1 \subseteq Nat
  OBVIOUS
<1>2. ASSUME NEW r \in 0 .. SheetRows - 1
      PROVE  Sheet'[r] = IF r = a THEN [Sheet[a] EXCEPT ![b] = x] ELSE Sheet[r]
  <2>1. /\ Sheet'[r] = [c \in 0 .. SCREEN_WIDTH - 1 |-> Seen(r, c)']
        /\ Sheet[r] = [c \in 0 .. SCREEN_WIDTH - 1 |-> Seen(r, c)]
    BY DEF Sheet, SheetRows
  <2>2. \A c \in 0 .. SCREEN_WIDTH - 1 :
           Seen(r, c)' = IF r = a /\ c = b THEN x ELSE Seen(r, c)
    BY <1>1 DEF Column
  <2>3. CASE r # a
    BY <2>1, <2>2, <2>3
  <2>4. CASE r = a
    <3>1. PICK f : f = Sheet[a]
      OBVIOUS
    <3>2. /\ f = [c \in 0 .. SCREEN_WIDTH - 1 |-> f[c]]
          /\ \A c \in 0 .. SCREEN_WIDTH - 1 : f[c] = Seen(r, c)
      BY <2>1, <2>4, <3>1
    <3>3. Sheet'[r] = [c \in 0 .. SCREEN_WIDTH - 1 |-> IF c = b THEN x ELSE f[c]]
      BY <2>1, <2>2, <2>4, <3>2
    <3>4. [f EXCEPT ![b] = x] = [c \in 0 .. SCREEN_WIDTH - 1 |-> IF c = b THEN x ELSE f[c]]
      BY <3>2
    <3> QED  BY <2>4, <3>1, <3>3, <3>4
  <2> QED  BY <2>3, <2>4
<1>3. /\ Sheet' = [r \in 0 .. SheetRows - 1 |-> Sheet'[r]]
      /\ Sheet = [r \in 0 .. SheetRows - 1 |-> Sheet[r]]
  BY DEF Sheet, SheetRows
<1> QED  BY <1>2, <1>3

(* The column of the cursor on the sheet. *)
Col == IF SomeAt("advance") THEN cursorX + 1 ELSE cursorX

(* Nothing shown changes with the cursor alone. *)
LEMMA SameScreen ==
    ASSUME Alone, NEW p \in Printer, UNCHANGED <<videoram, gone>>,
           pc[p] # "erase", pc'[p] # "erase"
    PROVE  Sheet' = Sheet
<1>1. ~SomeAt("erase") /\ ~SomeAt("erase")'
  BY DEF SomeAt, Alone
<1>2. \A r \in Nat, c \in Column : Seen(r, c)' = Seen(r, c)
  BY <1>1 DEF Seen, OnScreen
<1> QED  BY <1>2, SheetSame

(* kscroll: the rows that go are the next ones of the sheet. *)
LEMMA ScrollSame ==
    ASSUME Alone, IInv, Kept, NEW p \in Printer, TestHeight(p), kscroll(3)
    PROVE  Sheet' = Sheet /\ Len(gone') + cursorY' = Len(gone) + cursorY
<1>0. PICK w \in Nat \ {0}, h \in Nat : w = SCREEN_WIDTH /\ h = SCREEN_HEIGHT /\ h >= 3
  BY SizeAssumption
<1>1. PICK n \in Nat : n = Len(gone)
  BY DEF Kept
<1>2. /\ pc[p] = "height" /\ pc'[p] = "width"
      /\ gone' = gone \o Away /\ cursorY' = cursorY - 3 /\ videoram' = Scrolled(3)
      /\ gone \in Seq([Column -> Shown]) /\ Away \in Seq([Column -> Shown]) /\ Len(Away) = 3
  BY AwayRows DEF TestHeight, At, Goto, kscroll, Away, IInv, Typed, Kept
<1>3. /\ Len(gone') = n + 3
      /\ \A k \in 1 .. n : gone'[k] = gone[k]
      /\ \A k \in 1 .. 3 : gone'[n + k] = Row(k - 1)
  <2>1. PICK g \in Seq([Column -> Shown]), a \in Seq([Column -> Shown]) : g = gone /\ a = Away
    BY <1>2
  <2>2. Len(g) = n /\ Len(a) = 3 /\ gone' = g \o a /\ \A k \in 1 .. 3 : a[k] = Row(k - 1)
    BY <1>1, <1>2, <2>1 DEF Away
  <2>3. Len(g \o a) = n + 3 /\ \A k \in 1 .. n + 3 : (g \o a)[k] = IF k <= n THEN g[k] ELSE a[k - n]
    <3>1. /\ Len(g \o a) = Len(g) + Len(a)
          /\ \A k \in 1 .. Len(g) + Len(a) : (g \o a)[k] = IF k <= Len(g) THEN g[k] ELSE a[k - Len(g)]
      BY ConcatProperties
    <3> QED  BY <2>2, <3>1
  <2>4. \A k \in 1 .. n : (g \o a)[k] = g[k]
    BY <2>3
  <2>5. \A k \in 1 .. 3 : (g \o a)[n + k] = a[k]
    BY <2>3
  <2> QED  BY <2>1, <2>2, <2>3, <2>4, <2>5
<1>4. ~SomeAt("erase") /\ ~SomeAt("erase")'
  BY <1>2 DEF SomeAt, Alone
<1>5. ASSUME NEW r \in Nat, NEW c \in Column PROVE Seen(r, c)' = Seen(r, c)
  <2>1. CASE r < n
    <3>1. r + 1 \in 1 .. n /\ r < Len(gone')
      BY <1>3, <2>1
    <3> QED  BY <1>1, <1>3, <2>1, <3>1 DEF Seen
  <2>2. CASE r >= n /\ r < n + 3
    <3>1. PICK k \in 0 .. 2 : k = r - n
      BY <2>2
    <3>2. r + 1 = n + (k + 1) /\ k + 1 \in 1 .. 3 /\ (k + 1) - 1 = k /\ r < Len(gone') /\ ~(r < Len(gone))
      BY <1>1, <1>3, <2>2, <3>1
    <3>3. gone'[r + 1] = Row(k)
      BY <1>3, <3>2
    <3>4. k * SCREEN_WIDTH + c \in Cell
      <4>1. k \in 0 .. SCREEN_HEIGHT - 1
        BY <1>0
      <4> QED  BY <4>1, CellOfCursor
    <3>5. c + k * SCREEN_WIDTH = k * SCREEN_WIDTH + c
      BY <1>0 DEF Column
    <3>6. Seen(r, c) = videoram[k * SCREEN_WIDTH + c]
      BY <1>1, <1>4, <3>1, <3>2, <3>4 DEF Seen, OnScreen
    <3>7. Seen(r, c)' = Row(k)[c]
      BY <3>2, <3>3 DEF Seen
    <3> QED  BY <3>5, <3>6, <3>7 DEF Row
  <2>3. CASE r >= n + 3
    <3>1. PICK a \in Nat, b \in Nat : a = r - n /\ b = r - (n + 3)
      BY <2>3
    <3>2. ~(r < Len(gone')) /\ ~(r < Len(gone))
      BY <1>1, <1>3, <2>3
    <3>3. PICK x \in Int : x = b * w + c
      <4>1. c \in Int /\ b * w \in Int
        BY <1>0 DEF Column
      <4> QED  BY <4>1
    <3>4. a * w + c = x + 3 * w /\ x >= 0
      <4>1. a = b + 3 /\ c \in Nat
        BY <3>1 DEF Column
      <4>2. \A i, j \in Nat : i * j \in Nat
        OBVIOUS
      <4>3. b * w \in Nat
        BY <4>2
      <4>4. (b + 3) * w = b * w + 3 * w
        OBVIOUS
      <4> QED  BY <3>3, <4>1, <4>3, <4>4
    <3>5. Seen(r, c) = IF x + 3 * w \in Cell THEN videoram[x + 3 * w] ELSE BLANK
      BY <1>0, <1>1, <1>4, <3>1, <3>2, <3>4 DEF Seen, OnScreen
    <3>6. Seen(r, c)' = IF x \in Cell THEN Scrolled(3)[x] ELSE BLANK
      <4>1. Seen(r, c)' = IF (r - Len(gone')) * SCREEN_WIDTH + c \in Cell
                          THEN videoram'[(r - Len(gone')) * SCREEN_WIDTH + c] ELSE BLANK
        BY <1>4, <3>2 DEF Seen, OnScreen, Cell
      <4>2. (r - Len(gone')) * SCREEN_WIDTH + c = x
        BY <1>0, <1>3, <3>1, <3>3
      <4> QED  BY <1>2, <4>1, <4>2
    <3>7. x + 3 * w \in Cell => x \in Cell
      <4>1. PICK m \in Int : m = w * h
        OBVIOUS
      <4>2. Cell = 0 .. m - 1
        BY <1>0, <4>1 DEF Cell
      <4> QED  BY <3>4, <4>2
    <3>8. x \in Cell => Scrolled(3)[x] = IF x + 3 * w \in Cell THEN videoram[x + 3 * w] ELSE BLANK
      BY <1>0 DEF Scrolled
    <3> QED  BY <3>5, <3>6, <3>7, <3>8
  <2> QED  BY <2>1, <2>2, <2>3
<1>6. Len(gone') + cursorY' = Len(gone) + cursorY
  BY <1>1, <1>2, <1>3 DEF IInv, Typed
<1> QED  BY <1>5, <1>6, SheetSame

(* The store of a character at the cursor, on the screen and on the sheet. *)
LEMMA PutChanges ==
    ASSUME Alone, IInv, Kept, Kept', NEW p \in Printer, PutCharacter(p)
    PROVE  Sheet' = [Sheet EXCEPT ![Len(gone) + cursorY][cursorX] = char[p]]
<1>1. /\ pc[p] = "put" /\ pc'[p] = "advance" /\ Put(char[p])
      /\ UNCHANGED <<cursorX, cursorY, char, gone>>
  BY DEF PutCharacter, At, Goto, IInv, Typed, cursor
<1>2. PICK x \in Column, y \in 0 .. SCREEN_HEIGHT - 1, n \in Nat, e \in Shown \cup Control :
          x = cursorX /\ y = cursorY /\ n = Len(gone) /\ e = char[p]
  BY <1>1 DEF IInv, Places, Kept
<1>3. y * SCREEN_WIDTH + x \in Cell
  BY CellOfCursor
<1>4. videoram' = [videoram EXCEPT ![y * SCREEN_WIDTH + x] = e]
  BY <1>1, <1>2, <1>3 DEF Put
<1>5. ~SomeAt("erase") /\ ~SomeAt("erase")'
  BY <1>1 DEF SomeAt, Alone
<1>6. ASSUME NEW r \in Nat, NEW c \in Column
      PROVE  Seen(r, c)' = IF r = n + y /\ c = x THEN e ELSE Seen(r, c)
  <2>1. CASE r < n
    <3>1. r # n + y
      BY <2>1, SizeAssumption
    <3> QED  BY <1>1, <1>2, <2>1, <3>1 DEF Seen
  <2>2. CASE r >= n
    <3>1. PICK q : q = (r - n) * SCREEN_WIDTH + c
      OBVIOUS
    <3>2. /\ Seen(r, c)' = IF q \in Cell THEN videoram'[q] ELSE BLANK
          /\ Seen(r, c) = IF q \in Cell THEN videoram[q] ELSE BLANK
      BY <1>1, <1>2, <1>5, <2>2, <3>1 DEF Seen, OnScreen, Cell
    <3>3. q = y * SCREEN_WIDTH + x <=> r = n + y /\ c = x
      <4>1. r - n \in Int /\ y \in Int /\ (r - n = y <=> r = n + y)
        BY SizeAssumption
      <4>2. q = y * SCREEN_WIDTH + x => r - n = y /\ c = x
        BY <3>1, <4>1, OnePlace
      <4> QED  BY <3>1, <4>1, <4>2
    <3> QED  BY <1>3, <1>4, <3>2, <3>3 DEF Kept
  <2> QED  BY <2>1, <2>2
<1>7. n + y \in Nat
  BY SizeAssumption
<1>8. Sheet' = [Sheet EXCEPT ![n + y][x] = e]
  BY <1>6, <1>7, SheetChanged
<1> QED  BY <1>2, <1>8

(* A backspace shows its blank before it is stored. *)
LEMMA BackChanges ==
    ASSUME Alone, IInv, IInv', Kept, Kept', NEW p \in Printer, Backspace(p)
    PROVE  Sheet' = [Sheet EXCEPT ![Len(gone') + cursorY'][cursorX'] = BLANK]
<1>1. /\ pc[p] = "msg" /\ pc'[p] = "erase"
      /\ UNCHANGED <<videoram, gone>>
  BY DEF Backspace, At, Goto, IInv, Typed
<1>2. PICK x \in Column, y \in 0 .. SCREEN_HEIGHT - 1, n \in Nat :
          x = cursorX' /\ y = cursorY' /\ n = Len(gone)
  BY <1>1 DEF IInv, Places, Kept
<1>3. ~SomeAt("erase") /\ SomeAt("erase")'
  BY <1>1 DEF SomeAt, Alone
<1>4. ASSUME NEW r \in Nat, NEW c \in Column
      PROVE  Seen(r, c)' = IF r = n + y /\ c = x THEN BLANK ELSE Seen(r, c)
  <2>1. CASE r < n
    <3>1. r # n + y
      BY <2>1, SizeAssumption
    <3> QED  BY <1>1, <1>2, <2>1, <3>1 DEF Seen
  <2>2. CASE r >= n
    <3>1. PICK q : q = (r - n) * SCREEN_WIDTH + c
      OBVIOUS
    <3>2. /\ Seen(r, c)' = IF q \in Cell /\ ~(q = y * SCREEN_WIDTH + x) THEN videoram[q] ELSE BLANK
          /\ Seen(r, c) = IF q \in Cell THEN videoram[q] ELSE BLANK
      BY <1>1, <1>2, <1>3, <2>2, <3>1 DEF Seen, OnScreen, Cell
    <3>3. q = y * SCREEN_WIDTH + x <=> r = n + y /\ c = x
      <4>1. r - n \in Int /\ y \in Int /\ (r - n = y <=> r = n + y)
        BY SizeAssumption
      <4>2. q = y * SCREEN_WIDTH + x => r - n = y /\ c = x
        BY <3>1, <4>1, OnePlace
      <4> QED  BY <3>1, <4>1, <4>2
    <3> QED  BY <3>2, <3>3
  <2> QED  BY <2>1, <2>2
<1>5. n + y \in Nat
  BY SizeAssumption
<1>6. Sheet' = [Sheet EXCEPT ![n + y][x] = BLANK]
  BY <1>4, <1>5, SheetChanged
<1> QED  BY <1>1, <1>2, <1>6

LEMMA EraseSame ==
    ASSUME Alone, IInv, Kept, Kept', NEW p \in Printer, Erase(p)
    PROVE  Sheet' = Sheet
<1>1. /\ pc[p] = "erase" /\ pc'[p] = "idle" /\ Put(BLANK)
      /\ UNCHANGED <<cursorX, cursorY, gone>>
  BY DEF Erase, Ends, At, Goto, IInv, Typed, cursor
<1>2. PICK x \in Column, y \in 0 .. SCREEN_HEIGHT - 1, n \in Nat :
          x = cursorX /\ y = cursorY /\ n = Len(gone)
  BY <1>1 DEF IInv, Places, Kept
<1>3. y * SCREEN_WIDTH + x \in Cell
  BY CellOfCursor
<1>4. videoram' = [videoram EXCEPT ![y * SCREEN_WIDTH + x] = BLANK]
  BY <1>1, <1>2, <1>3 DEF Put
<1>5. SomeAt("erase") /\ ~SomeAt("erase")'
  BY <1>1 DEF SomeAt, Alone
<1>6. ASSUME NEW r \in Nat, NEW c \in Column PROVE Seen(r, c)' = Seen(r, c)
  <2>1. CASE r < n
    BY <1>1, <1>2, <2>1 DEF Seen
  <2>2. CASE r >= n
    <3>1. PICK q : q = (r - n) * SCREEN_WIDTH + c
      OBVIOUS
    <3>2. /\ Seen(r, c)' = IF q \in Cell THEN videoram'[q] ELSE BLANK
          /\ Seen(r, c) = IF q \in Cell /\ ~(q = y * SCREEN_WIDTH + x) THEN videoram[q] ELSE BLANK
      BY <1>1, <1>2, <1>5, <2>2, <3>1 DEF Seen, OnScreen, Cell
    <3> QED  BY <1>3, <1>4, <3>2 DEF Kept
  <2> QED  BY <2>1, <2>2
<1> QED  BY <1>6, SheetSame

LEMMA StepOnPaper ==
    ASSUME Alone, IInv, IInv', Kept, Kept', NEW p \in Printer, kprint(p) \/ Loop(p)
    PROVE  [P!Next]_(P!vars)
<1>0. /\ SomeAt("advance") <=> pc[p] = "advance"
      /\ SomeAt("advance")' <=> pc'[p] = "advance"
  BY DEF SomeAt, Alone
<1>1. cursorX \in Int /\ cursorY \in Int /\ Len(gone) \in Nat
  BY DEF IInv, Typed, Kept
<1> DEFINE Paper == Len(gone) + cursorY
<1> USE DEF At, Goto, Ends, cursor
<1>2. ASSUME Sheet' = Sheet, Paper' = Paper, Col' = Col PROVE UNCHANGED P!vars
  BY <1>2 DEF P!vars, Sheet, Seen, Col
<1>3. CASE kprint(p) \/ Character(p) \/ Advance(p)
  <2>1. Sheet' = Sheet
    BY <1>3, SameScreen DEF kprint, Character, Advance, IInv, Typed
  <2>2. Paper' = Paper /\ Col' = Col
    BY <1>0, <1>1, <1>3 DEF kprint, Character, Advance, IInv, Typed, Col
  <2> QED  BY <1>2, <2>1, <2>2
<1>4. CASE TestHeight(p)
  <2>1. Sheet' = Sheet /\ Paper' = Paper
    <3>1. CASE kscroll(3)
      BY <1>4, <3>1, ScrollSame
    <3>2. CASE UNCHANGED <<videoram, cursorY, gone>>
      BY <1>4, <3>2, SameScreen DEF TestHeight, IInv, Typed
    <3> QED  BY <1>4, <3>1, <3>2 DEF TestHeight
  <2>2. Col' = Col
    BY <1>0, <1>4 DEF TestHeight, IInv, Typed, Col
  <2> QED  BY <1>2, <2>1, <2>2
<1>5. CASE Erase(p)
  <2>1. Paper' = Paper /\ Col' = Col
    BY <1>0, <1>5 DEF Erase, IInv, Typed, Col
  <2> QED  BY <1>2, <1>5, <2>1, EraseSame
<1>6. CASE TestWidth(p) \/ NewLine(p)
  <2>1. Sheet' = Sheet
    BY <1>6, SameScreen DEF TestWidth, NewLine, IInv, Typed
  <2>2. CASE UNCHANGED <<cursorX, cursorY>>
    <3>1. Paper' = Paper /\ Col' = Col
      BY <1>0, <1>6, <2>2 DEF TestWidth, NewLine, IInv, Typed, Col
    <3> QED  BY <1>2, <2>1, <3>1
  <2>3. CASE cursorY' = cursorY + 1 /\ cursorX' = 0
    <3>1. Paper' = Paper + 1 /\ Col' = 0
      BY <1>0, <1>1, <1>6, <2>3 DEF TestWidth, NewLine, IInv, Typed, Col
    <3>2. P!NewRow
      BY <2>1, <3>1 DEF P!NewRow, Sheet, Seen, Col
    <3> QED  BY <3>2 DEF P!Next
  <2> QED  BY <1>6, <2>2, <2>3 DEF TestWidth, NewLine
<1>7. CASE CarriageReturn(p)
  <2>1. Sheet' = Sheet
    BY <1>7, SameScreen DEF CarriageReturn, IInv, Typed
  <2>2. Paper' = Paper /\ Col' = 0
    BY <1>0, <1>7 DEF CarriageReturn, IInv, Typed, Col
  <2>3. P!Return
    BY <2>1, <2>2 DEF P!Return, Sheet, Seen, Col
  <2> QED  BY <2>3 DEF P!Next
<1>8. CASE Backspace(p)
  <2>1. pc[p] = "msg" /\ pc'[p] = "erase" /\ gone' = gone
    BY <1>8 DEF Backspace, IInv, Typed
  <2>2. Col = cursorX /\ Col' = cursorX'
    BY <1>0, <2>1 DEF Col
  <2>3. Sheet' = [Sheet EXCEPT ![Paper'][Col'] = BLANK]
    BY <1>8, <2>2, BackChanges
  <2>4. \/ Col > 0 /\ Col' = Col - 1 /\ Paper' = Paper
        \/ Col = 0 /\ Paper' = Paper - 1 /\ Col' = SCREEN_WIDTH - 1
        \/ Col = 0 /\ Paper' = Paper /\ Col' = Col
    BY <1>1, <1>8, <2>1, <2>2 DEF Backspace
  <2>5. P!Back
    BY <2>3, <2>4 DEF P!Back, Sheet, Seen, Col
  <2> QED  BY <2>5 DEF P!Next
<1>9. CASE PutCharacter(p)
  <2>1. /\ pc[p] = "put" /\ pc'[p] = "advance" /\ gone' = gone
        /\ cursorX' = cursorX /\ cursorY' = cursorY
    BY <1>9 DEF PutCharacter, IInv, Typed
  <2>2. Col = cursorX /\ Col' = Col + 1 /\ Paper' = Paper /\ Col < SCREEN_WIDTH
    BY <1>0, <2>1, SizeAssumption DEF Col, IInv, Places, Column
  <2>3. PICK x \in Printable : x = char[p]
    BY <2>1 DEF Kept
  <2>4. Sheet' = [Sheet EXCEPT ![Paper][Col] = x]
    BY <1>9, <2>2, <2>3, PutChanges
  <2>5. P!Type(x)
    BY <2>2, <2>4 DEF P!Type, Sheet, Seen, Col
  <2> QED  BY <2>5 DEF P!Next
<1> QED  BY <1>3, <1>4, <1>5, <1>6, <1>7, <1>8, <1>9 DEF Loop

(* [Console.cpp kprint, kscroll] On a screen of any size, what one printer *)
(* prints stands as on one long sheet: each statement of kprint types a    *)
(* character, begins a row, moves the cursor or changes nothing, and       *)
(* wrapping and scrolling change nothing of what was printed before.       *)
THEOREM OnPaper == ASSUME Alone PROVE Spec => WritesOnPaper
<1>1. Init => P!Init
  <2> SUFFICES ASSUME Init PROVE P!Init
    OBVIOUS
  <2>1. gone = <<>> /\ Len(gone) = 0 /\ cursorX = 0 /\ cursorY = 0
    BY DEF Init
  <2>2. ~SomeAt("advance") /\ ~SomeAt("erase")
    BY DEF Init, SomeAt
  <2>3. \A r \in 0 .. SheetRows - 1, c \in 0 .. SCREEN_WIDTH - 1 : Seen(r, c) = BLANK
    BY <2>1 DEF Init, Seen, OnScreen
  <2>4. Sheet = [r \in 0 .. SheetRows - 1 |-> [c \in 0 .. SCREEN_WIDTH - 1 |-> BLANK]]
    BY <2>3 DEF Sheet
  <2> QED  BY <2>1, <2>2, <2>4 DEF P!Init, Sheet, Seen
<1>2. IInv /\ IInv' /\ Kept /\ Kept' /\ [Next]_vars => [P!Next]_(P!vars)
  <2> SUFFICES ASSUME IInv, IInv', Kept, Kept', [Next]_vars PROVE [P!Next]_(P!vars)
    OBVIOUS
  <2>1. CASE Next
    BY <2>1, StepOnPaper DEF Next
  <2>2. CASE UNCHANGED vars
    BY <2>2 DEF vars, cursor, P!vars, OnScreen, SomeAt, SheetRows
  <2> QED  BY <2>1, <2>2
<1> QED  BY <1>1, <1>2, Invariance, KeptAlways, PTL DEF Spec, WritesOnPaper, P!Spec
=============================================================================
