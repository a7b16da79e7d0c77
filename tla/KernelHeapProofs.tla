-------------------------- MODULE KernelHeapProofs --------------------------
(* The kernel's heap, for an arena, a header and lengths of any size and   *)
(* any number of callers, as long as one call of kernel_malloc waits for   *)
(* the other; kernel_free may come in the middle of any call.              *)
EXTENDS KernelHeap, FiniteSetTheorems, TLAPS

Block == [owner : Caller, from : Nat, length : Length]
Local == [bytes : Length \cup {0}, curr : Nat, curr_size : Nat, ret : Nat]

(* Between the store into the header that is found and the return. *)
Taking == {"mark", "skip", "ret", "advance", "split"}

Shape ==
    /\ DOMAIN block \subseteq 0 .. Size - Header
    /\ \A a \in DOMAIN block : block[a] \in [is_available : BOOLEAN, size : Nat]
    /\ current_address \in Nat
    /\ held \subseteq Block /\ freed \subseteq Block
    /\ pc \in [Caller -> {"idle", "test", "lost"} \cup Taking]
    /\ call \in [Caller -> Local]
    /\ overrun \in BOOLEAN

(* One call at a time. *)
Alone == \A c, d \in Caller : pc[c] # "idle" /\ pc[d] # "idle" => c = d

Called ==
    \A c \in Caller :
        /\ pc[c] = "idle" => call[c] = NoCall
        /\ pc[c] # "idle" => call[c].bytes \in Length

(* The blocks that were given lie below base, each behind its header.      *)
GivenBelow(base) ==
    \A b \in held \cup freed :
        /\ Header <= b.from /\ b.from + b.length <= base
        /\ b.from - Header \in DOMAIN block
        /\ block[b.from - Header].size = b.length + Header
        /\ \A a \in DOMAIN block : a + Header <= b.from \/ b.from + b.length <= a

Marked == \A b \in held : ~block[b.from - Header].is_available

Single ==
    /\ \A b, d \in held \cup freed : b.from = d.from => b = d
    /\ held \cap freed = {}

(* Every byte below base is in one of them or in its header. *)
Covered(base) ==
    \A x \in 0 .. base - 1 : \E b \in held \cup freed :
        b.from - Header <= x /\ x < b.from + b.length

(* The last header is at base, and what it describes is all the rest;      *)
(* there is none if no header fits.                                        *)
RestAt(base) ==
    /\ base + Header <= Size <=> base \in DOMAIN block
    /\ base \in DOMAIN block => block[base] = [is_available |-> TRUE, size |-> Size - base]

(* Where the call under way has come to, when base is where its block is.  *)
Progress(c, base) ==
    /\ pc[c] = "test" => \/ call[c].curr = base
                         \/ call[c].curr > Size /\ base + call[c].bytes + Header > Size
    /\ pc[c] = "lost" => base + call[c].bytes + Header > Size
    /\ pc[c] \in Taking =>
          /\ call[c].curr = base /\ base \in DOMAIN block
          /\ base + call[c].bytes + Header <= Size /\ call[c].curr_size = Size - base
    /\ pc[c] = "mark" => RestAt(base) /\ current_address = base
    /\ pc[c] \in Taking \ {"mark"} =>
          block[base] = [is_available |-> FALSE, size |-> call[c].bytes + Header]
    /\ pc[c] = "skip" => current_address = base
    /\ pc[c] = "ret" => current_address = base + Header
    /\ pc[c] = "advance" => current_address = base + Header /\ call[c].ret = current_address
    /\ pc[c] = "split" => current_address = base + Header + call[c].bytes
                          /\ call[c].ret = base + Header

Quiet(base) ==
    (\A c \in Caller : pc[c] \notin Taking) => current_address = base /\ RestAt(base)

Heap(base) ==
    /\ GivenBelow(base) /\ Covered(base)
    /\ \A a \in DOMAIN block : a <= base
    /\ \A c \in Caller : Progress(c, base)
    /\ Quiet(base)
    /\ overrun => base + Header > Size

(* The inductive invariant: up to base the arena is given. *)
Inv == Shape /\ Alone /\ Called /\ Marked /\ Single /\ \E base \in 0 .. Size : Heap(base)
----------------------------------------------------------------------------

LEMMA Sizes ==
    /\ Header \in Nat /\ Header >= 2 /\ Size \in Nat
    /\ \A n \in Length : n \in Nat /\ n >= 1
  BY HeapAssumption

LEMMA InitInv == Init => Inv
<1> SUFFICES ASSUME Init PROVE Inv
  OBVIOUS
<1>1. DOMAIN block = {0} /\ block[0] = [is_available |-> TRUE, size |-> Size]
  BY DEF Init
<1>2. Shape
  <2>1. call \in [Caller -> Local] /\ pc \in [Caller -> {"idle", "test", "lost"} \cup Taking]
    BY DEF Init, Local, NoCall
  <2>2. \A a \in DOMAIN block : block[a] \in [is_available : BOOLEAN, size : Nat]
    <3>1. [is_available |-> TRUE, size |-> Size] \in [is_available : BOOLEAN, size : Nat]
      BY HeapAssumption
    <3> QED  BY <1>1, <3>1, Zenon
  <2>3. DOMAIN block \subseteq 0 .. Size - Header
    BY <1>1, HeapAssumption
  <2> QED  BY <2>1, <2>2, <2>3 DEF Init, Shape
<1>4. Alone /\ Called /\ Marked /\ Single
  BY DEF Init, Alone, Called, Marked, Single
<1>3. Heap(0)
  BY <1>1, HeapAssumption
     DEF Init, Heap, GivenBelow, Covered, Progress, Taking, Quiet, RestAt
<1> QED  BY <1>2, <1>3, <1>4, HeapAssumption DEF Inv

(* The others are idle while a call is under way. *)
LEMMA OneCall ==
    ASSUME Inv, NEW c \in Caller, NEW label \in {"test", "lost"} \cup Taking, Goto(c, label),
           \A d \in Caller : d # c => pc[d] = "idle",
           \A d \in Caller : d # c => call'[d] = call[d],
           call'[c].bytes \in Length
    PROVE  /\ pc' \in [Caller -> {"idle", "test", "lost"} \cup Taking]
           /\ pc'[c] = label /\ \A d \in Caller : d # c => pc'[d] = "idle"
           /\ Alone' /\ Called'
<1>1. /\ pc' \in [Caller -> {"idle", "test", "lost"} \cup Taking]
      /\ pc'[c] = label /\ \A d \in Caller : d # c => pc'[d] = "idle"
  BY DEF Goto, Inv, Shape
<1>2. label # "idle"
  BY DEF Taking
<1> QED  BY <1>1, <1>2 DEF Alone, Called, Inv

LEMMA Others ==
    ASSUME Inv, NEW c \in Caller, pc[c] # "idle"
    PROVE  \A d \in Caller : d # c => pc[d] = "idle"
  BY DEF Inv, Alone

(* Steps that leave the headers and the blocks alone. *)
LEMMA Kept ==
    ASSUME Inv, NEW base, Heap(base), UNCHANGED <<block, users, overrun>>,
           pc' \in [Caller -> {"idle", "test", "lost"} \cup Taking],
           call' \in [Caller -> Local], current_address' \in Nat,
           Alone', Called', \A c \in Caller : Progress(c, base)', Quiet(base)', base \in 0 .. Size
    PROVE  Inv'
<1>1. Shape' /\ Marked' /\ Single'
  BY DEF Inv, Shape, Marked, Single, users
<1>2. GivenBelow(base)' /\ Covered(base)'
  BY DEF Heap, GivenBelow, Covered, users
<1>3. Heap(base)'
  BY <1>2 DEF Heap
<1> QED  BY <1>1, <1>3 DEF Inv

LEMMA MallocInv == ASSUME Exclusive, Inv, NEW c \in Caller, kernel_malloc(c) PROVE Inv'
<1>1. PICK n \in Length :
          call' = [call EXCEPT ![c] =
                      [bytes |-> n, curr |-> current_address, curr_size |-> 0, ret |-> 0]]
  BY DEF kernel_malloc
<1>2. PICK base \in 0 .. Size : Heap(base)
  BY DEF Inv
<1>3. /\ UNCHANGED <<block, current_address, users, overrun>> /\ Goto(c, "test")
      /\ \A d \in Caller : pc[d] = "idle"
  BY DEF kernel_malloc, memory, outside
<1>4. /\ call'[c] = [bytes |-> n, curr |-> current_address, curr_size |-> 0, ret |-> 0]
      /\ \A d \in Caller : d # c => call'[d] = call[d]
  BY <1>1 DEF Inv, Shape, NoCall
<1>5. call' \in [Caller -> Local]
  BY <1>1, <1>4 DEF Inv, Shape, Local, NoCall
<1>6. /\ pc' \in [Caller -> {"idle", "test", "lost"} \cup Taking]
      /\ pc'[c] = "test" /\ \A d \in Caller : d # c => pc'[d] = "idle"
      /\ Alone' /\ Called'
  BY <1>3, <1>4, OneCall
<1>7. current_address = base /\ RestAt(base)
  BY <1>2, <1>3 DEF Heap, Quiet, Taking
<1>8. \A d \in Caller : Progress(d, base)'
  BY <1>3, <1>4, <1>6, <1>7 DEF Progress, Taking
<1>9. Quiet(base)'
  BY <1>3, <1>7 DEF Quiet, RestAt
<1> QED  BY <1>2, <1>3, <1>5, <1>6, <1>8, <1>9, Kept DEF Inv, Shape

LEMMA FoundInv == ASSUME Inv, NEW c \in Caller, Found(c) PROVE Inv'
<1>1. /\ pc[c] = "test" /\ call[c].curr \in DOMAIN block /\ Fits(c) /\ Goto(c, "mark")
      /\ call' = [call EXCEPT ![c].curr_size = block[call[c].curr].size]
      /\ UNCHANGED <<block, current_address, users, overrun>>
  BY DEF Found, At, memory, outside
<1>2. PICK base \in 0 .. Size : Heap(base)
  BY DEF Inv
<1>3. /\ \A d \in Caller : d # c => pc[d] = "idle"
      /\ call[c].bytes \in Length /\ call[c] \in Local
  BY <1>1, Others DEF Inv, Called, Shape
<1>4. call[c].curr = base /\ base \in DOMAIN block /\ base \in Nat
  <2>1. call[c].curr \in Nat /\ call[c].curr <= Size - Header
    BY <1>1, <1>3, Sizes DEF Inv, Shape, Local
  <2>2. call[c].curr = base \/ call[c].curr > Size
    BY <1>1, <1>2 DEF Heap, Progress
  <2> QED  BY <1>1, <2>1, <2>2, Sizes
<1>5. current_address = base /\ RestAt(base)
  BY <1>1, <1>2, <1>3 DEF Heap, Quiet, Taking
<1>6. /\ block[base] = [is_available |-> TRUE, size |-> Size - base]
      /\ Size - base \in Nat /\ base + call[c].bytes + Header <= Size
  BY <1>1, <1>3, <1>4, <1>5, Sizes DEF RestAt, Fits
<1>7. /\ call'[c] = [call[c] EXCEPT !.curr_size = Size - base]
      /\ \A d \in Caller : d # c => call'[d] = call[d]
      /\ call' \in [Caller -> Local]
  BY <1>1, <1>3, <1>4, <1>6 DEF Inv, Shape, Local
<1>8. /\ call'[c].bytes = call[c].bytes /\ call'[c].curr = base
      /\ call'[c].curr_size = Size - base
  BY <1>3, <1>4, <1>7 DEF Local
<1>9. /\ pc' \in [Caller -> {"idle", "test", "lost"} \cup Taking]
      /\ pc'[c] = "mark" /\ \A d \in Caller : d # c => pc'[d] = "idle"
      /\ Alone' /\ Called'
  BY <1>1, <1>3, <1>7, <1>8, OneCall DEF Taking
<1>10. \A d \in Caller : Progress(d, base)'
  BY <1>1, <1>4, <1>5, <1>6, <1>8, <1>9 DEF Progress, Taking, RestAt
<1>11. Quiet(base)'
  BY <1>9 DEF Quiet, Taking
<1> QED  BY <1>1, <1>2, <1>7, <1>9, <1>10, <1>11, Kept DEF Inv, Shape

(* The walk steps on from the header of the rest only, and leaves the      *)
(* arena with that step: the size counts headers there.                    *)
LEMMA Times == ASSUME NEW n \in Nat, n > 0, NEW h \in Nat, h >= 2 PROVE h * n > n /\ h * n \in Nat
  OBVIOUS

LEMMA OnwardInv ==
    ASSUME Inv, NEW c \in Caller, Onward(c) PROVE Inv' /\ call'[c].bytes = call[c].bytes
                                                    /\ call' = [call EXCEPT ![c].curr = call'[c].curr]
<1>1. /\ pc[c] = "test" /\ call[c].curr \in DOMAIN block /\ ~Fits(c)
      /\ UNCHANGED <<block, current_address, users, overrun>>
  BY DEF Onward, At, memory, outside
<1>2. PICK base \in 0 .. Size : Heap(base)
  BY DEF Inv
<1>3. /\ \A d \in Caller : d # c => pc[d] = "idle"
      /\ call[c].bytes \in Length /\ call[c] \in Local
  BY <1>1, Others DEF Inv, Called, Shape
<1>4. call[c].curr = base /\ base \in DOMAIN block /\ base \in Nat
  <2>1. call[c].curr \in Nat /\ call[c].curr <= Size - Header
    BY <1>1, <1>3, Sizes DEF Inv, Shape, Local
  <2>2. call[c].curr = base \/ call[c].curr > Size
    BY <1>1, <1>2 DEF Heap, Progress
  <2> QED  BY <1>1, <2>1, <2>2, Sizes
<1>5. current_address = base /\ RestAt(base)
  BY <1>1, <1>2, <1>3 DEF Heap, Quiet, Taking
<1>6. /\ block[base] = [is_available |-> TRUE, size |-> Size - base]
      /\ Size - base \in Nat /\ Size - base > 0 /\ base + call[c].bytes + Header > Size
  BY <1>1, <1>3, <1>4, <1>5, Sizes DEF RestAt, Fits
<1>7. base + Header * (Size - base) > Size /\ Header * (Size - base) \in Nat
  BY <1>4, <1>6, Sizes, Times
<1>8. Behind(base) = base + Header * (Size - base) /\ Behind(base) \in Nat /\ Behind(base) > Size
  BY <1>4, <1>6, <1>7, Sizes DEF Behind
<1>9. Behind(base) # current_address
  BY <1>5, <1>8, Sizes
<1>10. call' = [call EXCEPT ![c].curr = Behind(base)] /\ UNCHANGED pc
  BY <1>4, <1>9 DEF Onward
<1>11. /\ call'[c] = [call[c] EXCEPT !.curr = Behind(base)]
       /\ \A d \in Caller : d # c => call'[d] = call[d]
       /\ call' \in [Caller -> Local]
  BY <1>3, <1>8, <1>10 DEF Inv, Shape, Local
<1>12. call'[c].bytes = call[c].bytes /\ call'[c].curr = Behind(base)
  BY <1>3, <1>11 DEF Local
<1>13. Alone' /\ Called'
  BY <1>1, <1>10, <1>11, <1>12 DEF Inv, Alone, Called
<1>14. \A d \in Caller : Progress(d, base)'
  BY <1>1, <1>3, <1>6, <1>8, <1>10, <1>12 DEF Progress, Taking
<1>15. Quiet(base)'
  BY <1>1, <1>5 DEF Quiet, RestAt
<1>16. Inv'
  BY <1>1, <1>2, <1>10, <1>11, <1>13, <1>14, <1>15, Kept DEF Inv, Shape
<1> QED  BY <1>10, <1>12, <1>16

LEMMA StrayInv ==
    ASSUME Inv, NEW c \in Caller, GoAstray(c) PROVE Inv'
<1>1. /\ pc[c] = "test" /\ call[c].curr \notin DOMAIN block /\ Goto(c, "lost")
      /\ UNCHANGED <<block, current_address, users, call, overrun>>
  BY DEF GoAstray, At, memory
<1>2. PICK base \in 0 .. Size : Heap(base)
  BY DEF Inv
<1>3. /\ \A d \in Caller : d # c => pc[d] = "idle"
      /\ call[c].bytes \in Length
  BY <1>1, Others DEF Inv, Called
<1>4. /\ pc' \in [Caller -> {"idle", "test", "lost"} \cup Taking]
      /\ pc'[c] = "lost" /\ \A d \in Caller : d # c => pc'[d] = "idle"
      /\ Alone' /\ Called'
  BY <1>1, <1>3, OneCall
<1>5. current_address = base /\ RestAt(base)
  BY <1>1, <1>2, <1>3 DEF Heap, Quiet, Taking
<1>6. base + call[c].bytes + Header > Size
  <2>1. CASE call[c].curr = base
    <3>1. base + Header > Size /\ base \in Nat
      BY <1>1, <1>5, <2>1, Sizes DEF RestAt
    <3> QED  BY <1>3, <3>1, Sizes
  <2>2. CASE call[c].curr # base
    BY <1>1, <1>2, <2>2 DEF Heap, Progress
  <2> QED  BY <2>1, <2>2
<1>7. \A d \in Caller : Progress(d, base)'
  BY <1>1, <1>4, <1>6 DEF Progress, Taking
<1>8. Quiet(base)'
  BY <1>1, <1>5 DEF Quiet, RestAt
<1> QED  BY <1>1, <1>2, <1>4, <1>7, <1>8, Kept DEF Inv, Shape

(* Steps between Mark and Split: current_address and ret. *)
LEMMA PointerInv ==
    ASSUME Inv, NEW c \in Caller, SkipHeader(c) \/ SetRet(c) \/ Advance(c) PROVE Inv'
<1>1. PICK base \in 0 .. Size : Heap(base)
  BY DEF Inv
<1>2. /\ pc[c] \in Taking \ {"mark", "split"}
      /\ UNCHANGED <<block, users, overrun>>
  BY DEF SkipHeader, SetRet, Advance, At, memory, outside, Taking
<1>3. /\ \A d \in Caller : d # c => pc[d] = "idle"
      /\ call[c].bytes \in Length /\ call[c] \in Local
  BY <1>2, Others DEF Inv, Called, Shape, Taking
<1>4. /\ call[c].curr = base /\ base \in DOMAIN block /\ base \in Nat
      /\ base + call[c].bytes + Header <= Size /\ call[c].curr_size = Size - base
      /\ block[base] = [is_available |-> FALSE, size |-> call[c].bytes + Header]
  BY <1>1, <1>2 DEF Heap, Progress
<1> DEFINE label == IF pc[c] = "skip" THEN "ret" ELSE IF pc[c] = "ret" THEN "advance" ELSE "split"
<1>5. Goto(c, label) /\ label \in Taking \ {"mark", "skip"}
  BY DEF SkipHeader, SetRet, Advance, At, Taking
<1>6. /\ \A d \in Caller : d # c => call'[d] = call[d]
      /\ call' \in [Caller -> Local] /\ current_address' \in Nat
      /\ call'[c].bytes = call[c].bytes /\ call'[c].curr = base
      /\ call'[c].curr_size = Size - base
      /\ label = "ret" => current_address' = base + Header
      /\ label = "advance" => current_address' = base + Header /\ call'[c].ret = base + Header
      /\ label = "split" => current_address' = base + Header + call[c].bytes
                            /\ call'[c].ret = base + Header
  <2>1. CASE SkipHeader(c)
    <3>1. current_address = base /\ label = "ret"
      BY <1>1, <2>1 DEF Heap, Progress, SkipHeader, At
    <3>2. call' = call /\ current_address' = base + Header
      BY <2>1, <3>1 DEF SkipHeader
    <3> QED  BY <1>4, <3>1, <3>2, Sizes DEF Inv, Shape
  <2>2. CASE SetRet(c)
    <3>1. current_address = base + Header /\ label = "advance"
      BY <1>1, <2>2 DEF Heap, Progress, SetRet, At
    <3>2. call' = [call EXCEPT ![c].ret = base + Header] /\ current_address' = current_address
      BY <2>2, <3>1 DEF SetRet, memory
    <3>3. base + Header \in Nat
      BY <1>4, Sizes
    <3> HIDE DEF label
    <3>4. /\ call'[c] = [call[c] EXCEPT !.ret = base + Header]
          /\ \A d \in Caller : d # c => call'[d] = call[d]
          /\ call' \in [Caller -> Local]
      BY <1>3, <3>2, <3>3 DEF Inv, Shape, Local
    <3>5. /\ call'[c].bytes = call[c].bytes /\ call'[c].curr = call[c].curr
          /\ call'[c].curr_size = call[c].curr_size /\ call'[c].ret = base + Header
      BY <1>3, <3>4 DEF Local
    <3> QED  BY <1>4, <3>1, <3>2, <3>3, <3>4, <3>5
  <2>3. CASE Advance(c)
    <3>1. current_address = base + Header /\ call[c].ret = base + Header /\ label = "split"
      BY <1>1, <2>3 DEF Heap, Progress, Advance, At
    <3>2. call' = call /\ current_address' = base + Header + call[c].bytes
      BY <2>3, <3>1 DEF Advance
    <3> QED  BY <1>3, <1>4, <3>1, <3>2, Sizes DEF Inv, Shape
  <2> QED  BY <2>1, <2>2, <2>3
<1> HIDE DEF label
<1>7. /\ pc' \in [Caller -> {"idle", "test", "lost"} \cup Taking]
      /\ pc'[c] = label /\ \A d \in Caller : d # c => pc'[d] = "idle"
      /\ Alone' /\ Called'
  BY <1>3, <1>5, <1>6, OneCall
<1>8. \A d \in Caller : Progress(d, base)'
  <2>1. Progress(c, base)'
    BY <1>2, <1>4, <1>5, <1>6, <1>7 DEF Progress, Taking
  <2>2. \A d \in Caller : d # c => Progress(d, base)'
    BY <1>7 DEF Progress, Taking
  <2> QED  BY <2>1, <2>2
<1>9. Quiet(base)'
  BY <1>5, <1>7 DEF Quiet
<1> QED  BY <1>1, <1>2, <1>6, <1>7, <1>8, <1>9, Kept

LEMMA MarkInv == ASSUME Inv, NEW c \in Caller, Mark(c) PROVE Inv'
<1> DEFINE header == [is_available |-> FALSE, size |-> call[c].bytes + Header]
<1>1. PICK base \in 0 .. Size : Heap(base)
  BY DEF Inv
<1>2. /\ pc[c] = "mark" /\ Goto(c, "skip") /\ block' = Written(call[c].curr, header)
      /\ UNCHANGED <<current_address, held, freed, call, overrun>>
  BY DEF Mark, At, users, outside
<1>3. /\ \A d \in Caller : d # c => pc[d] = "idle"
      /\ call[c].bytes \in Length /\ call[c].bytes + Header \in Nat
  BY <1>2, Others, Sizes DEF Inv, Called
<1>4. /\ call[c].curr = base /\ base \in DOMAIN block /\ base \in Nat
      /\ base + call[c].bytes + Header <= Size /\ call[c].curr_size = Size - base
      /\ current_address = base
  BY <1>1, <1>2 DEF Heap, Progress, Taking
<1>5. /\ DOMAIN block' = DOMAIN block /\ block'[base] = header
      /\ \A a \in DOMAIN block : a # base => block'[a] = block[a]
  BY <1>2, <1>4 DEF Written
<1>6. header \in [is_available : BOOLEAN, size : Nat]
  BY <1>3
<1>7. /\ pc' \in [Caller -> {"idle", "test", "lost"} \cup Taking]
      /\ pc'[c] = "skip" /\ \A d \in Caller : d # c => pc'[d] = "idle"
      /\ Alone' /\ Called'
  BY <1>2, <1>3, OneCall DEF Taking
<1> HIDE DEF header
<1>8. Shape'
  <2>1. \A a \in DOMAIN block' : block'[a] \in [is_available : BOOLEAN, size : Nat]
    BY <1>5, <1>6 DEF Inv, Shape
  <2> QED  BY <1>2, <1>5, <1>7, <2>1 DEF Inv, Shape
<1>9. ASSUME NEW b \in held \cup freed
      PROVE  b.from - Header \in DOMAIN block /\ block'[b.from - Header] = block[b.from - Header]
  <2>1. b.from \in Nat /\ b.length \in Length /\ b.from + b.length <= base
    BY <1>1 DEF Heap, GivenBelow, Inv, Shape, Block
  <2>2. b.from - Header # base
    BY <1>4, <2>1, Sizes
  <2> QED  BY <1>1, <1>5, <2>2 DEF Heap, GivenBelow
<1>10. Marked' /\ Single' /\ GivenBelow(base)' /\ Covered(base)'
  BY <1>1, <1>2, <1>5, <1>9 DEF Inv, Marked, Single, Heap, GivenBelow, Covered
<1>11. \A d \in Caller : Progress(d, base)'
  <2>1. Progress(c, base)'
    BY <1>2, <1>4, <1>5, <1>7 DEF Progress, Taking, header
  <2>2. \A d \in Caller : d # c => Progress(d, base)'
    BY <1>7 DEF Progress, Taking
  <2> QED  BY <2>1, <2>2
<1>12. Quiet(base)'
  BY <1>7 DEF Quiet, Taking
<1>13. Heap(base)'
  BY <1>1, <1>2, <1>5, <1>10, <1>11, <1>12 DEF Heap
<1> QED  BY <1>7, <1>8, <1>10, <1>13 DEF Inv

(* kernel_free stores in front of base, whatever call is under way.        *)
LEMMA FreeInv == ASSUME Inv, NEW b \in held, kernel_free(b) PROVE Inv'
<1> DEFINE at == b.from - Header
<1>1. PICK base \in 0 .. Size : Heap(base)
  BY DEF Inv
<1>2. /\ block' = [block EXCEPT ![at].is_available = TRUE]
      /\ held' = held \ {b} /\ freed' = freed \cup {b}
      /\ UNCHANGED <<current_address, pc, call, overrun>>
  BY DEF kernel_free, outside
<1>3. /\ b \in Block /\ b.from \in Nat /\ b.length \in Length /\ b.from + b.length <= base
      /\ at \in DOMAIN block
  BY <1>1 DEF Heap, GivenBelow, Inv, Shape, Block
<1>4. at # base
  BY <1>3, Sizes
<1> HIDE DEF at
<1>5. /\ DOMAIN block' = DOMAIN block
      /\ \A a \in DOMAIN block : a # at => block'[a] = block[a]
      /\ block'[at] = [block[at] EXCEPT !.is_available = TRUE]
  BY <1>2, <1>3
<1>6. /\ block[at] \in [is_available : BOOLEAN, size : Nat]
      /\ block'[at] \in [is_available : BOOLEAN, size : Nat]
      /\ block'[at].size = block[at].size
  BY <1>3, <1>5 DEF Inv, Shape
<1>7. held' \cup freed' = held \cup freed
  BY <1>2
<1>8. Shape'
  BY <1>2, <1>3, <1>5, <1>6 DEF Inv, Shape
<1>9. Single'
  BY <1>2, <1>7 DEF Inv, Single
<1>10. Marked'
  <2> SUFFICES ASSUME NEW d \in held, d # b PROVE ~block'[d.from - Header].is_available
    BY <1>2 DEF Marked
  <2>1. d.from # b.from /\ d.from \in Nat /\ d.from - Header \in DOMAIN block
    BY <1>1, <1>3 DEF Inv, Single, Heap, GivenBelow, Shape, Block
  <2>2. d.from - Header # at
    BY <1>3, <2>1, Sizes DEF at
  <2> QED  BY <1>5, <2>1, <2>2 DEF Inv, Marked
<1>11. GivenBelow(base)' /\ Covered(base)'
  <2>1. \A a \in DOMAIN block : block'[a].size = block[a].size
    BY <1>5, <1>6
  <2>2. \A d \in held \cup freed : d.from - Header \in DOMAIN block
    BY <1>1 DEF Heap, GivenBelow
  <2>3. GivenBelow(base)'
    BY <1>1, <1>5, <1>7, <2>1, <2>2 DEF Heap, GivenBelow
  <2> QED  BY <1>1, <1>7, <2>3 DEF Heap, Covered
<1>12. RestAt(base) <=> RestAt(base)'
  BY <1>4, <1>5 DEF RestAt
<1>13. \A d \in Caller : Progress(d, base)'
  BY <1>1, <1>2, <1>4, <1>5, <1>12 DEF Heap, Progress
<1>14. Quiet(base)'
  BY <1>1, <1>2, <1>12 DEF Heap, Quiet
<1>15. Heap(base)'
  BY <1>1, <1>2, <1>5, <1>11, <1>13, <1>14 DEF Heap
<1> QED  BY <1>2, <1>8, <1>9, <1>10, <1>15 DEF Inv, Alone, Called

(* The return: base moves behind the block, where the header of the rest   *)
(* is written if there is room for one.                                    *)
LEMMA SplitInv ==
    ASSUME Inv, NEW c \in Caller, Split(c)
    PROVE  /\ Inv'
           /\ \E b \in Block :
                 /\ b.owner = c /\ b.length = call[c].bytes
                 /\ b.from + b.length <= Size /\ Header <= b.from
                 /\ \A h \in held : h.from + h.length <= b.from
                 /\ held' = held \cup {b}
                 /\ b = [owner |-> c, from |-> b.from, length |-> call[c].bytes]
                 /\ call' = [call EXCEPT ![c] = NoCall]
<1> DEFINE n == call[c].bytes
           next == current_address
           rest == [is_available |-> TRUE, size |-> Size - next]
           b == [owner |-> c, from |-> call[c].ret, length |-> n]
<1>1. PICK base \in 0 .. Size : Heap(base)
  BY DEF Inv
<1>2. /\ pc[c] = "split" /\ Goto(c, "idle") /\ call' = [call EXCEPT ![c] = NoCall]
      /\ held' = held \cup {b} /\ UNCHANGED <<current_address, freed>>
  BY DEF Split, At
<1>3. /\ \A d \in Caller : d # c => pc[d] = "idle"
      /\ n \in Length /\ n \in Nat /\ n >= 1
  BY <1>2, Others, Sizes DEF Inv, Called
<1>4. /\ base \in DOMAIN block /\ base \in Nat
      /\ base + n + Header <= Size /\ call[c].curr_size = Size - base
      /\ block[base] = [is_available |-> FALSE, size |-> n + Header]
      /\ next = base + Header + n /\ call[c].ret = base + Header
  BY <1>1, <1>2 DEF Heap, Progress, Taking
<1>5. next \in Nat /\ next <= Size /\ next > base /\ rest \in [is_available : BOOLEAN, size : Nat]
  BY <1>3, <1>4, Sizes
<1>6. b \in Block /\ b.from = base + Header /\ b.length = n /\ b.owner = c
  BY <1>3, <1>4, Sizes DEF Block
<1> HIDE DEF b
<1>7. /\ \/ next = Size /\ UNCHANGED <<block, overrun>>
         \/ next # Size /\ next + Header <= Size /\ block' = Written(next, rest) /\ UNCHANGED overrun
         \/ next # Size /\ next + Header > Size /\ overrun' = TRUE /\ UNCHANGED block
  <2>1. call[c].curr_size # n + Header <=> next # Size
    BY <1>3, <1>4, <1>5, Sizes
  <2>2. call[c].curr_size - (n + Header) = Size - next
    BY <1>3, <1>4, <1>5, Sizes
  <2>3. CASE next = Size
    BY <2>1, <2>3 DEF Split
  <2>4. CASE next # Size
    <3>1. WriteRest(Size - next)
      BY <2>1, <2>2, <2>4 DEF Split
    <3>2. CASE next + Header <= Size
      BY <2>4, <3>1, <3>2 DEF WriteRest
    <3>3. CASE ~(next + Header <= Size)
      <4>1. next + Header > Size
        BY <1>5, <3>3, Sizes
      <4> QED  BY <2>4, <3>1, <3>3, <4>1 DEF WriteRest
    <3> QED  BY <3>2, <3>3
  <2> QED  BY <2>3, <2>4
<1> HIDE DEF n, next, rest
<1>8. \A a \in DOMAIN block : a <= base /\ a \in Nat
  BY <1>1, Sizes DEF Heap, Inv, Shape
<1>9. /\ next + Header <= Size => DOMAIN block' = DOMAIN block \cup {next} /\ block'[next] = rest
      /\ next + Header > Size => DOMAIN block' = DOMAIN block
      /\ \A a \in DOMAIN block : block'[a] = block[a]
  <2>1. next \notin DOMAIN block
    BY <1>4, <1>5, <1>8
  <2> QED  BY <1>5, <1>7, <2>1, Sizes DEF Written
<1>10. /\ pc' \in [Caller -> {"idle", "test", "lost"} \cup Taking] /\ \A d \in Caller : pc'[d] = "idle"
       /\ call' \in [Caller -> Local] /\ \A d \in Caller : call'[d] = NoCall
  <2>1. NoCall \in Local
    BY DEF NoCall, Local
  <2>2. call' \in [Caller -> Local] /\ call'[c] = NoCall
        /\ \A d \in Caller : d # c => call'[d] = call[d]
    BY <1>2, <2>1 DEF Inv, Shape
  <2> QED  BY <1>2, <1>3, <2>2 DEF Goto, Inv, Shape, Called
<1>11. Shape'
  <2>1. DOMAIN block' \subseteq 0 .. Size - Header
    BY <1>5, <1>9, Sizes DEF Inv, Shape
  <2>2. \A a \in DOMAIN block' : block'[a] \in [is_available : BOOLEAN, size : Nat]
    <3> TAKE a \in DOMAIN block'
    <3>1. CASE a \in DOMAIN block
      BY <1>9, <3>1 DEF Inv, Shape
    <3>2. CASE a \notin DOMAIN block
      <4>1. a = next /\ block'[next] = rest
        BY <1>5, <1>9, <3>2, Sizes
      <4> QED  BY <1>5, <4>1
    <3> QED  BY <3>1, <3>2
  <2>3. overrun' \in BOOLEAN
    BY <1>7 DEF Inv, Shape
  <2> QED  BY <1>2, <1>5, <1>6, <1>10, <2>1, <2>2, <2>3 DEF Inv, Shape
<1>12. \A d \in held \cup freed :
          /\ d.from \in Nat /\ d.length \in Nat /\ d.from + d.length <= base
          /\ d.from - Header \in DOMAIN block
  BY <1>1, Sizes DEF Heap, GivenBelow, Inv, Shape, Block
<1>13. b.from - Header = base /\ b.from + b.length = next
  BY <1>3, <1>4, <1>6, Sizes
<1>14. \A d \in held \cup freed : d.from < b.from
  BY <1>4, <1>6, <1>12, Sizes
<1>15. Single'
  <2>1. b \notin held \cup freed
    BY <1>6, <1>14, Sizes DEF Block
  <2>2. \A d \in held \cup freed : d.from # b.from
    BY <1>6, <1>12, <1>14, Sizes DEF Block
  <2> QED  BY <1>2, <2>1, <2>2 DEF Inv, Single
<1>16. Marked'
  BY <1>2, <1>4, <1>9, <1>12, <1>13 DEF Inv, Marked
<1>17. GivenBelow(next)'
  <2> SUFFICES ASSUME NEW d \in held \cup freed \cup {b}
               PROVE /\ Header <= d.from /\ d.from + d.length <= next
                     /\ d.from - Header \in DOMAIN block'
                     /\ block'[d.from - Header].size = d.length + Header
                     /\ \A a \in DOMAIN block' : a + Header <= d.from \/ d.from + d.length <= a
    BY <1>2 DEF GivenBelow, next
  <2>1. CASE d \in held \cup freed
    BY <1>1, <1>4, <1>5, <1>9, <1>12, <2>1, Sizes DEF Heap, GivenBelow
  <2>2. CASE d = b
    <3>1. \A a \in DOMAIN block' : a <= base \/ a = next
      BY <1>8, <1>9, <1>5, Sizes
    <3>2. \A a \in DOMAIN block' : a + Header <= d.from \/ d.from + d.length <= a
      <4> TAKE a \in DOMAIN block'
      <4>1. CASE a = next
        BY <1>5, <1>13, <2>2, <4>1
      <4>2. CASE a # next
        <5>1. a \in Nat /\ a <= base
          BY <1>8, <1>9, <1>5, <4>2, Sizes
        <5> QED  BY <1>4, <1>6, <2>2, <5>1, Sizes
      <4> QED  BY <4>1, <4>2
    <3>3. block'[base].size = b.length + Header /\ base \in DOMAIN block'
      BY <1>4, <1>5, <1>6, <1>9, Sizes
    <3> QED  BY <1>4, <1>5, <1>6, <1>13, <2>2, <3>2, <3>3, Sizes
  <2> QED  BY <2>1, <2>2
<1>18. Covered(next)'
  <2> SUFFICES ASSUME NEW x \in 0 .. next - 1
               PROVE  \E d \in held' \cup freed' : d.from - Header <= x /\ x < d.from + d.length
    BY <1>2 DEF Covered, next
  <2>1. CASE x < base
    <3>1. x \in 0 .. base - 1
      BY <1>4, <1>5, <2>1
    <3> QED  BY <1>1, <1>2, <3>1 DEF Heap, Covered
  <2>2. CASE base <= x
    BY <1>2, <1>5, <1>13, <2>2
  <2> QED  BY <1>4, <1>5, <2>1, <2>2
<1>19. \A a \in DOMAIN block' : a <= next
  BY <1>4, <1>5, <1>8, <1>9, Sizes
<1>20. \A d \in Caller : Progress(d, next)'
  BY <1>10 DEF Progress, Taking
<1>21. RestAt(next)'
  <2>1. next' = next
    BY <1>2 DEF next
  <2>2. next \in DOMAIN block' <=> next + Header <= Size
    BY <1>4, <1>5, <1>8, <1>9, Sizes
  <2> QED  BY <1>9, <2>1, <2>2 DEF RestAt, rest
<1>22. Quiet(next)'
  BY <1>2, <1>21 DEF Quiet, next
<1>23. overrun' => next + Header > Size
  <2>1. overrun => base + Header > Size
    BY <1>1 DEF Heap
  <2>2. ~overrun
    BY <1>3, <1>4, <2>1, Sizes
  <2> QED  BY <1>7, <2>2
<1>24. Heap(next)' /\ next' \in 0 .. Size
  BY <1>2, <1>5, <1>17, <1>18, <1>19, <1>20, <1>22, <1>23 DEF Heap, next
<1>25. Alone' /\ Called'
  BY <1>10 DEF Alone, Called
<1>26. Inv'
  BY <1>11, <1>15, <1>16, <1>24, <1>25 DEF Inv
<1>27. \A h \in held : h.from + h.length <= b.from
  BY <1>4, <1>6, <1>12, Sizes
<1>28. b.from + b.length <= Size /\ Header <= b.from
  BY <1>4, <1>5, <1>6, <1>13, Sizes
<1>29. b = [owner |-> c, from |-> b.from, length |-> call[c].bytes]
  BY DEF b, n
<1> QED  BY <1>2, <1>6, <1>26, <1>27, <1>28, <1>29 DEF n

LEMMA NextInv == Exclusive /\ Inv /\ [Next]_vars => Inv'
<1> SUFFICES ASSUME Exclusive, Inv, [Next]_vars PROVE Inv'
  OBVIOUS
<1>1. CASE UNCHANGED vars
  <2>1. UNCHANGED <<block, current_address, held, freed, pc, call, overrun>>
    BY <1>1 DEF vars, memory, users, outside
  <2>2. PICK base \in 0 .. Size : Heap(base)
    BY DEF Inv
  <2>3. Alone' /\ Called' /\ Quiet(base)' /\ \A c \in Caller : Progress(c, base)'
    BY <2>1, <2>2 DEF Inv, Alone, Called, Heap, Quiet, Progress, RestAt
  <2> QED  BY <2>1, <2>2, <2>3, Kept DEF Inv, Shape, users
<1> QED
  BY <1>1, MallocInv, FoundInv, OnwardInv, StrayInv, MarkInv, PointerInv, SplitInv, FreeInv
     DEF Next, Malloc

LEMMA Invariance == ASSUME Exclusive PROVE Spec => []Inv
<1>1. Inv /\ [Next]_vars => Inv'
  BY NextInv
<1> QED  BY <1>1, InitInv, PTL DEF Spec

----------------------------------------------------------------------------
(* What follows from it. *)

(* The header of a block that is held stays as kernel_malloc left it, and  *)
(* no header is ever written into the block: kernel_free finds its own.    *)
THEOREM HeadersStay == ASSUME Exclusive PROVE Spec => []HeadersIntact
<1>1. Inv => HeadersIntact
  <2> SUFFICES ASSUME Inv, NEW b \in held
               PROVE  /\ b.from - Header \in DOMAIN block
                      /\ block[b.from - Header] =
                            [is_available |-> FALSE, size |-> b.length + Header]
                      /\ \A a \in DOMAIN block : a + Header <= b.from \/ b.from + b.length <= a
    BY DEF HeadersIntact
  <2>1. PICK base \in 0 .. Size : Heap(base)
    BY DEF Inv
  <2>2. /\ b.from - Header \in DOMAIN block
        /\ block[b.from - Header].size = b.length + Header
        /\ \A a \in DOMAIN block : a + Header <= b.from \/ b.from + b.length <= a
    BY <2>1 DEF Heap, GivenBelow
  <2>3. /\ block[b.from - Header] \in [is_available : BOOLEAN, size : Nat]
        /\ ~block[b.from - Header].is_available
    BY <2>2 DEF Inv, Shape, Marked
  <2> QED  BY <2>2, <2>3
<1> QED  BY <1>1, Invariance, PTL

(* Two blocks that were ever given share no byte: a block with another     *)
(* header before it lies behind the one or before the other.               *)
LEMMA GivenApart ==
    ASSUME Inv, NEW b \in held \cup freed, NEW d \in held \cup freed, b # d
    PROVE  b.from + b.length <= d.from \/ d.from + d.length <= b.from
<1>1. PICK base \in 0 .. Size : Heap(base)
  BY DEF Inv
<1>2. /\ b.from \in Nat /\ b.length \in Nat /\ d.from \in Nat /\ d.length \in Nat
      /\ b.from # d.from
  BY Sizes DEF Inv, Shape, Block, Single
<1>3. /\ (d.from - Header) + Header <= b.from \/ b.from + b.length <= d.from - Header
      /\ (b.from - Header) + Header <= d.from \/ d.from + d.length <= b.from - Header
  BY <1>1 DEF Heap, GivenBelow
<1> QED  BY <1>2, <1>3, Sizes

(* What was freed stays as it was left, but for the mark: neither a block  *)
(* nor a header is ever put there again, so the timer's handler and        *)
(* clearMessages may go on reading it.                                     *)
THEOREM FreedStay == ASSUME Exclusive PROVE Spec => []FreedBytesStay
<1>1. Inv => FreedBytesStay
  <2> SUFFICES ASSUME Inv, NEW f \in freed
               PROVE  /\ \A b \in held :
                            b.from + b.length <= f.from \/ f.from + f.length <= b.from
                      /\ \A a \in DOMAIN block : a + Header <= f.from \/ f.from + f.length <= a
    BY DEF FreedBytesStay
  <2>1. \A b \in held : b # f
    BY DEF Inv, Single
  <2>2. \A a \in DOMAIN block : a + Header <= f.from \/ f.from + f.length <= a
    BY DEF Inv, Heap, GivenBelow
  <2> QED  BY <2>1, <2>2, GivenApart
<1> QED  BY <1>1, Invariance, PTL

(* The unspent bytes all lie behind base. *)
LEMMA UnspentBehind ==
    ASSUME Inv, NEW base \in 0 .. Size, Heap(base)
    PROVE  Cardinality(Unspent) <= Size - base /\ Cardinality(Unspent) \in Nat
<1>1. Unspent \subseteq base .. Size - 1
  <2> SUFFICES ASSUME NEW x \in Unspent, x < base PROVE FALSE
    BY Sizes DEF Unspent
  <2>1. x \in 0 .. base - 1
    BY Sizes DEF Unspent
  <2>2. PICK b \in held \cup freed : b.from - Header <= x /\ x < b.from + b.length
    BY <2>1 DEF Heap, Covered
  <2>3. b.from \in Nat /\ b.length \in Nat
    BY Sizes DEF Inv, Shape, Block
  <2>4. x \in b.from - Header .. b.from + b.length - 1
    BY <2>1, <2>2, <2>3, Sizes
  <2> QED  BY <2>4 DEF Unspent
<1>2. IsFiniteSet(base .. Size - 1) /\ Cardinality(base .. Size - 1) = Size - base
  <2>1. base \in Int /\ Size - 1 \in Int
    BY Sizes
  <2>2. CASE base = Size
    <3>1. base > Size - 1
      BY <2>2, Sizes
    <3> QED  BY <2>1, <2>2, <3>1, FS_Interval, Sizes
  <2>3. CASE base # Size
    <3>1. ~(base > Size - 1) /\ (Size - 1) - base + 1 = Size - base
      BY <2>3, Sizes
    <3> QED  BY <2>1, <3>1, FS_Interval
  <2> QED  BY <2>2, <2>3
<1> QED  BY <1>1, <1>2, FS_Subset, FS_CardinalityType

(* A walk leaves the arena, and a header is written across its end, only   *)
(* when too little is left: no byte is lost between the blocks.            *)
THEOREM SpentAtTheEnd == ASSUME Exclusive PROVE Spec => []EndsWhenSpent
<1>1. Inv => EndsWhenSpent
  <2> SUFFICES ASSUME Inv PROVE EndsWhenSpent
    OBVIOUS
  <2>1. PICK base \in 0 .. Size : Heap(base)
    BY DEF Inv
  <2>2. Cardinality(Unspent) <= Size - base /\ Cardinality(Unspent) \in Nat
    BY <2>1, UnspentBehind
  <2>3. ASSUME NEW c \in Caller, pc[c] = "lost"
        PROVE  Cardinality(Unspent) < call[c].bytes + Header
    <3>1. base + call[c].bytes + Header > Size /\ call[c].bytes \in Nat
      BY <2>1, <2>3, Sizes DEF Heap, Progress, Inv, Called
    <3> QED  BY <2>2, <3>1, Sizes
  <2>4. ASSUME overrun PROVE Cardinality(Unspent) < Header
    <3>1. base + Header > Size
      BY <2>1, <2>4 DEF Heap
    <3> QED  BY <2>2, <3>1, Sizes
  <2> QED  BY <2>3, <2>4 DEF EndsWhenSpent
<1> QED  BY <1>1, Invariance, PTL

----------------------------------------------------------------------------
(* kernel_malloc and kernel_free implement the allocator. *)

Asked == [c \in Caller |-> call[c].bytes]

LEMMA StutterRefines ==
    ASSUME UNCHANGED held, \A c \in Caller : call'[c].bytes = call[c].bytes
    PROVE  UNCHANGED A!vars
<1>1. Asked' = Asked
  BY DEF Asked
<1> QED  BY <1>1 DEF A!vars, Asked

LEMMA AskRefines == ASSUME Inv, NEW c \in Caller, kernel_malloc(c) PROVE A!Ask(c)
<1>1. PICK n \in Length :
          call' = [call EXCEPT ![c] =
                      [bytes |-> n, curr |-> current_address, curr_size |-> 0, ret |-> 0]]
  BY DEF kernel_malloc
<1>2. call[c].bytes = 0
  BY DEF kernel_malloc, At, Inv, Called, NoCall
<1>3. Asked' = [Asked EXCEPT ![c] = n]
  BY <1>1 DEF Asked, Inv, Shape
<1> QED  BY <1>2, <1>3 DEF A!Ask, Asked, kernel_malloc, users

LEMMA GiveRefines == ASSUME Inv, NEW c \in Caller, Split(c) PROVE A!Give(c)
<1>1. PICK b \in Block :
          /\ b.owner = c /\ b.length = call[c].bytes
          /\ b.from + b.length <= Size /\ Header <= b.from
          /\ \A h \in held : h.from + h.length <= b.from
          /\ held' = held \cup {b}
          /\ b = [owner |-> c, from |-> b.from, length |-> call[c].bytes]
          /\ call' = [call EXCEPT ![c] = NoCall]
  BY SplitInv
<1>2. call[c].bytes \in Nat /\ call[c].bytes >= 1 /\ b.from \in Nat
  BY <1>1, Sizes DEF Split, At, Inv, Called, Block
<1>3. b.from \in 0 .. Size - call[c].bytes
  BY <1>1, <1>2, Sizes
<1>4. \A h \in held : A!Bytes(b) \cap A!Bytes(h) = {}
  <2> TAKE h \in held
  <2>1. h.from \in Nat /\ h.length \in Nat /\ h.from + h.length <= b.from
    BY <1>1, Sizes DEF Inv, Shape, Block
  <2> QED  BY <1>1, <1>2, <2>1 DEF A!Bytes
<1>5. Asked' = [Asked EXCEPT ![c] = 0]
  BY <1>1 DEF Asked, Inv, Shape, NoCall
<1> QED  BY <1>1, <1>2, <1>3, <1>4, <1>5 DEF A!Give, Asked

(* Whatever is freed in the middle of it, kernel_malloc gives each caller  *)
(* a block of its own inside the arena, and kernel_free takes back that    *)
(* block and no other.                                                     *)
THEOREM Refinement == ASSUME Exclusive PROVE Spec => ImplementsAllocator
<1>1. Init => A!Init
  <2> SUFFICES ASSUME Init PROVE Asked = [c \in Caller |-> 0] /\ held = {}
    BY DEF A!Init, Asked
  <2> QED  BY DEF Init, Asked, NoCall
<1>2. Inv /\ [Next]_vars => [A!Next]_(A!vars)
  <2> SUFFICES ASSUME Inv, [Next]_vars PROVE A!Next \/ UNCHANGED A!vars
    OBVIOUS
  <2>1. ASSUME NEW b \in held, kernel_free(b) PROVE A!Next
    <3>1. Asked' = Asked
      BY <2>1 DEF kernel_free, Asked
    <3> QED  BY <2>1, <3>1 DEF A!Next, A!Free, Asked, kernel_free
  <2>2. ASSUME NEW c \in Caller, GoAstray(c) \/ Mark(c) \/ SkipHeader(c) \/ Advance(c)
        PROVE  UNCHANGED A!vars
    BY <2>2, StutterRefines DEF GoAstray, Mark, SkipHeader, Advance, users
  <2>3. ASSUME NEW c \in Caller, Found(c) \/ SetRet(c) PROVE UNCHANGED A!vars
    <3>1. call[c] \in Local /\ UNCHANGED held
      BY <2>3 DEF Inv, Shape, Found, SetRet, users
    <3>2. \A d \in Caller : call'[d].bytes = call[d].bytes
      BY <2>3, <3>1 DEF Found, SetRet, Inv, Shape, Local
    <3> QED  BY <3>1, <3>2, StutterRefines
  <2>4. ASSUME NEW c \in Caller, Onward(c) PROVE UNCHANGED A!vars
    <3>1. call'[c].bytes = call[c].bytes /\ call' = [call EXCEPT ![c].curr = call'[c].curr]
      BY <2>4, OnwardInv
    <3>2. \A d \in Caller : call'[d].bytes = call[d].bytes
      BY <3>1 DEF Inv, Shape
    <3> QED  BY <2>4, <3>2, StutterRefines DEF Onward, users
  <2>5. CASE UNCHANGED vars
    BY <2>5, StutterRefines DEF vars, users
  <2> QED
    BY <2>1, <2>2, <2>3, <2>4, <2>5, AskRefines, GiveRefines DEF Next, Malloc, A!Next
<1>3. QED  BY <1>1, <1>2, Invariance, PTL DEF Spec, ImplementsAllocator, A!Spec
=============================================================================
