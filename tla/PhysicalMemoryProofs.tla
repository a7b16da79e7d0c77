------------------------ MODULE PhysicalMemoryProofs ------------------------
(* The page allocator is correct as long as its calls exclude each other,  *)
(* for every number of pages, of boot pages and of callers.                *)
EXTENDS PhysicalMemory, TLAPS

Busy(c) == pc[c] # "idle"

(* Before map_pmm_to_virtual_space nobody but the boot code has pages. *)
Booting ==
    ~pmm_paging_active =>
        /\ ~halted /\ _last_available_index = 0
        /\ held[Kernel] = 1 .. pmm_location
        /\ \A c \in Client : pc[c] = "idle" /\ (c # Kernel => held[c] = {})

(* The pages below the index are taken, the one at the index is not. *)
Least(taken) ==
    /\ _first_free_index \in 1 .. Units
    /\ \A i \in 1 .. Units - 1 : i < _first_free_index => i \in taken
    /\ _first_free_index \notin taken

Marked(taken) == bitmap \cap (1 .. Units - 1) = taken

(* What the caller whose turn it is has done so far. *)
Progress(c) ==
    /\ pc[c] = "claim" => Marked(Given) /\ Least(Given) /\ _first_free_index < Units
    /\ pc[c] = "take" =>
          /\ _first_free_index < Units
          /\ Marked(Given \cup {_first_free_index}) /\ Least(Given)
    /\ pc[c] = "scan" =>
          /\ page[c] \in 1 .. Units - 1 /\ page[c] \notin Given
          /\ Marked(Given \cup {page[c]})
          /\ _first_free_index \in 1 .. Units
          /\ \A i \in 1 .. Units - 1 : i <= _first_free_index => i \in Given \cup {page[c]}
    /\ pc[c] = "lower" =>
          /\ page[c] \in 1 .. Units - 1 /\ page[c] \notin Given
          /\ Marked(Given)
          /\ _first_free_index \in 1 .. Units /\ _first_free_index \notin Given
          /\ \A i \in 1 .. Units - 1 : i < _first_free_index => i \in Given \cup {page[c]}

(* The inductive invariant. *)
Inv ==
    /\ TypeOK
    /\ Booting
    /\ Given \subseteq 1 .. Units - 1
    /\ \A c, d \in Client : c # d => held[c] \cap held[d] = {}
    /\ \A c, d \in Client : Busy(c) /\ Busy(d) => c = d
    /\ pmm_paging_active =>
          /\ pmm_location = BootPages /\ _last_available_index = Units /\ Units \in bitmap
          /\ (\A c \in Client : ~Busy(c)) => Marked(Given) /\ Least(Given)
          /\ \A c \in Client : Progress(c)
    /\ halted => _first_free_index = Units /\ \A c \in Client : ~Busy(c)

----------------------------------------------------------------------------

(* A page more for one caller is a page more that is given. *)
LEMMA GivenAdd ==
    ASSUME TypeOK, NEW c \in Client, NEW x, held' = [held EXCEPT ![c] = @ \cup {x}]
    PROVE  Given' = Given \cup {x}
<1>1. held'[c] = held[c] \cup {x} /\ \A d \in Client \ {c} : held'[d] = held[d]
  BY DEF TypeOK
<1> QED  BY <1>1 DEF Given

(* A page taken from its only holder is not given any more. *)
LEMMA GivenRemove ==
    ASSUME TypeOK, \A d, e \in Client : d # e => held[d] \cap held[e] = {},
           NEW c \in Client, NEW x \in held[c], held' = [held EXCEPT ![c] = @ \ {x}]
    PROVE  Given' = Given \ {x} /\ x \in Given
<1>1. held'[c] = held[c] \ {x} /\ \A d \in Client \ {c} : held'[d] = held[d]
  BY DEF TypeOK
<1>2. \A d \in Client \ {c} : x \notin held[d]
  OBVIOUS
<1> QED  BY <1>1, <1>2 DEF Given

LEMMA InitInv == Init => Inv
<1> SUFFICES ASSUME Init PROVE Inv
  OBVIOUS
<1>1. TypeOK
  <2>1. 0 \in Index /\ 0 \in 0 .. BootPages
    BY UnitsAssumption DEF Index
  <2> QED  BY <2>1 DEF Init, TypeOK
<1>2. Given = {}
  BY DEF Init, Given
<1>3. Booting
  BY ClientAssumption, UnitsAssumption DEF Init, Booting
<1> QED  BY <1>1, <1>2, <1>3 DEF Init, Inv, Busy

LEMMA BootInv == Inv /\ (BootAlloc \/ map_pmm_to_virtual_space) => Inv'
<1> USE UnitsAssumption, ClientAssumption
<1>1. ASSUME Inv, BootAlloc PROVE Inv'
  <2>1. Given' = Given \cup {pmm_location + 1}
    BY <1>1, GivenAdd DEF Inv, BootAlloc
  <2>2. TypeOK'
    BY <1>1 DEF Inv, BootAlloc, TypeOK, Index
  <2>3. /\ held'[Kernel] = held[Kernel] \cup {pmm_location + 1}
        /\ \A c \in Client \ {Kernel} : held'[c] = held[c] /\ held[c] = {}
    BY <1>1 DEF Inv, BootAlloc, TypeOK, Booting
  <2>4. Booting'
    BY <1>1, <2>3 DEF Inv, BootAlloc, TypeOK, Booting
  <2> QED  BY <1>1, <2>1, <2>2, <2>3, <2>4 DEF Inv, BootAlloc, TypeOK, Booting, Busy
<1>2. ASSUME Inv, map_pmm_to_virtual_space PROVE Inv'
  <2>1. held' = held /\ Given' = Given /\ pc' = pc /\ \A c \in Client : pc[c] = "idle"
    BY <1>2 DEF Inv, map_pmm_to_virtual_space, Given, Booting
  <2>2. Given = 1 .. BootPages
    BY <1>2 DEF Inv, map_pmm_to_virtual_space, Booting, Given
  <2>3. TypeOK'
    BY <1>2 DEF Inv, map_pmm_to_virtual_space, TypeOK, Index
  <2>4. Marked(Given)' /\ Least(Given)'
    BY <1>2, <2>1, <2>2 DEF Inv, TypeOK, map_pmm_to_virtual_space, Marked, Least
  <2> QED  BY <1>2, <2>1, <2>3, <2>4 DEF Inv, map_pmm_to_virtual_space, Booting, Busy, Progress
<1> QED  BY <1>1, <1>2

LEMMA StepInv ==
    ASSUME Exclusive, Inv, NEW c \in Client,
           Check(c) \/ Step(c) \/ \E i \in Index : ClearBit(c, i)
    PROVE  Inv'
<1> USE UnitsAssumption, ClientAssumption
<1>0. pmm_paging_active /\ ~halted
  BY DEF Inv, Booting, Check, Calls, Step, Claim, set_bit, Take, Scan, get_bit, LowerIndex, ClearBit, clear_bit, At
<1> DEFINE Alone == \A d \in Client : d # c => pc[d] = "idle" /\ pc'[d] = "idle"
<1>1. ASSUME Check(c) PROVE Inv'
  <2>1. Given' = Given /\ \A d \in Client : pc[d] = "idle"
    BY <1>1 DEF Check, Calls, Given
  <2>2. TypeOK'
    BY <1>1 DEF Inv, Check, TypeOK, Goto, boot
  <2>3. Alone
    BY <1>1, <2>1 DEF Check, Goto, Inv, TypeOK
  <2> QED
    BY <1>0, <1>1, <2>1, <2>2, <2>3
       DEF Inv, Booting, Check, Busy, Progress, Marked, Least, TypeOK, Goto, boot
<1>2. ASSUME Claim(c) PROVE Inv'
  <2>1. Given' = Given
    BY <1>2 DEF Claim, set_bit, Given
  <2>2. TypeOK'
    BY <1>2 DEF Inv, Claim, set_bit, TypeOK, Goto, boot
  <2>3. Alone /\ pc'[c] = "take"
    BY <1>2 DEF Claim, set_bit, At, Goto, Inv, TypeOK, Busy
  <2>4. Progress(c)'
    BY <1>0, <1>2, <2>1, <2>3 DEF Inv, Claim, set_bit, At, Progress, Marked, Least, TypeOK, Index
  <2> QED
    BY <1>0, <1>2, <2>1, <2>2, <2>3, <2>4 DEF Inv, Booting, Claim, set_bit, Busy, Progress, boot
<1>3. ASSUME Take(c) PROVE Inv'
  <2>1. Given' = Given
    BY <1>3 DEF Take, Given
  <2>2. TypeOK'
    BY <1>3 DEF Inv, Take, TypeOK, Goto, boot
  <2>3. Alone /\ pc'[c] = "scan" /\ page'[c] = _first_free_index
    BY <1>3 DEF Take, At, Goto, Inv, TypeOK, Busy
  <2>4. Progress(c)'
    BY <1>0, <1>3, <2>1, <2>3 DEF Inv, Take, At, Progress, Marked, Least, TypeOK, Index
  <2> QED
    BY <1>0, <1>3, <2>1, <2>2, <2>3, <2>4 DEF Inv, Booting, Take, Busy, Progress, boot
<1>4. ASSUME Scan(c) PROVE Inv'
  <2>1. /\ page[c] \in 1 .. Units - 1 /\ page[c] \notin Given
        /\ Marked(Given \cup {page[c]})
        /\ _first_free_index \in 1 .. Units
        /\ \A i \in 1 .. Units - 1 : i <= _first_free_index => i \in Given \cup {page[c]}
    BY <1>0, <1>4 DEF Inv, Progress, Scan, get_bit, At
  <2>2. Alone /\ bitmap' = bitmap /\ page' = page /\ UNCHANGED <<boot, halted>>
    BY <1>4 DEF Scan, get_bit, At, Return, Goto, Inv, TypeOK, Busy
  <2>3. CASE Return(c)
    <3>1. held' = [held EXCEPT ![c] = @ \cup {page[c]}] /\ pc'[c] = "idle"
      BY <2>3, <1>4 DEF Return, Goto, Inv, TypeOK
    <3>2. Given' = Given \cup {page[c]}
      BY <3>1, GivenAdd DEF Inv
    <3>3. _first_free_index' \in 1 .. Units /\ _first_free_index' \notin Given'
      BY <1>0, <1>4, <2>1, <3>2, <2>3 DEF Scan, get_bit, Return, Goto, At, Inv, Marked, TypeOK
    <3>4. \A i \in 1 .. Units - 1 : i < _first_free_index' => i \in Given'
      BY <1>4, <2>1, <3>2 DEF Scan, get_bit, Inv, TypeOK
    <3>5. Marked(Given)' /\ Least(Given)'
      BY <2>1, <2>2, <3>2, <3>3, <3>4 DEF Marked, Least
    <3>6. TypeOK'
      BY <2>1, <2>2, <3>1, <3>3, <2>3 DEF Inv, TypeOK, boot, Index, Return, Goto
    <3>7. \A d, e \in Client : d # e => held'[d] \cap held'[e] = {}
      BY <2>1, <3>1 DEF Inv, TypeOK, Given
    <3> QED
      BY <1>0, <2>1, <2>2, <3>1, <3>2, <3>5, <3>6, <3>7
         DEF Inv, Booting, Busy, Progress, boot
  <2>4. CASE UNCHANGED <<held, pc>>
    <3>1. /\ _first_free_index # Units /\ _first_free_index' = _first_free_index + 1
          /\ _first_free_index + 1 \in bitmap
      BY <1>0, <1>4, <2>4 DEF Scan, get_bit, Return, Goto, At, Inv, TypeOK
    <3>2. Given' = Given
      BY <2>4 DEF Given
    <3>3. TypeOK'
      BY <2>1, <2>2, <2>4, <3>1 DEF Inv, TypeOK, boot, Index
    <3>4. \A i \in 1 .. Units - 1 : i <= _first_free_index' => i \in Given \cup {page[c]}
      BY <2>1, <3>1 DEF Marked
    <3>5. Progress(c)'
      BY <1>4, <2>1, <2>2, <2>4, <3>1, <3>2, <3>4 DEF Progress, Marked, Scan, get_bit, At
    <3>6. \A d \in Client : Progress(d)'
      BY <2>2, <3>5 DEF Progress
    <3>7. Busy(c)' /\ (\A d \in Client : Busy(d)' => d = c) /\ ~halted' /\ pmm_paging_active'
      BY <1>0, <1>4, <2>2, <2>4 DEF Busy, Scan, get_bit, At, boot
    <3> QED
      BY <1>0, <2>2, <2>4, <3>2, <3>3, <3>6, <3>7 DEF Inv, Booting, boot
  <2> QED  BY <1>4, <2>3, <2>4 DEF Scan, get_bit
<1>5. ASSUME LowerIndex(c) PROVE Inv'
  <2>1. Given' = Given
    BY <1>5 DEF LowerIndex, Given
  <2>2. Alone /\ pc'[c] = "idle"
    BY <1>5 DEF LowerIndex, At, Goto, Inv, TypeOK, Busy
  <2>3. TypeOK'
    BY <1>5 DEF Inv, LowerIndex, TypeOK, Goto, boot
  <2>4. Marked(Given)' /\ Least(Given)'
    BY <1>0, <1>5, <2>1 DEF Inv, Progress, LowerIndex, At, Marked, Least, TypeOK
  <2> QED
    BY <1>0, <1>5, <2>1, <2>2, <2>3, <2>4 DEF Inv, Booting, LowerIndex, Busy, Progress, boot
<1>6. ASSUME NEW i \in Index, ClearBit(c, i) PROVE Inv'
  <2>1. i \in held[c] /\ held' = [held EXCEPT ![c] = @ \ {i}]
    BY <1>6 DEF ClearBit, clear_bit
  <2>2. Given' = Given \ {i} /\ i \in Given
    BY <2>1, GivenRemove DEF Inv
  <2>3. \A d \in Client : pc[d] = "idle"
    BY <1>6 DEF ClearBit, clear_bit, Calls
  <2>4. Alone /\ pc'[c] = "lower" /\ page'[c] = i
    BY <1>6, <2>3 DEF ClearBit, clear_bit, Goto, Inv, TypeOK
  <2>5. TypeOK'
    BY <1>6 DEF Inv, ClearBit, clear_bit, TypeOK, Goto, boot
  <2>6. \A d, e \in Client : d # e => held'[d] \cap held'[e] = {}
    BY <2>1 DEF Inv, TypeOK
  <2>7. Progress(c)'
    BY <1>0, <1>6, <2>2, <2>3, <2>4 DEF Inv, Progress, ClearBit, clear_bit, Marked, Least, Busy, TypeOK
  <2>8. \A d \in Client : Progress(d)'
    BY <2>4, <2>7 DEF Progress
  <2>9. /\ Busy(c)' /\ \A d \in Client : Busy(d)' => d = c
        /\ UNCHANGED <<boot, halted>> /\ bitmap' = bitmap \ {i}
    BY <1>6, <2>4 DEF Busy, ClearBit, clear_bit
  <2> QED
    BY <1>0, <2>2, <2>5, <2>6, <2>8, <2>9 DEF Inv, Booting, boot
<1> QED  BY <1>1, <1>2, <1>3, <1>4, <1>5, <1>6 DEF Step

(* The invariant is inductive when the calls exclude each other. *)
LEMMA NextInv == Exclusive /\ Inv /\ [Next]_vars => Inv'
<1>1. ASSUME Inv, UNCHANGED vars PROVE Inv'
  BY <1>1 DEF Inv, vars, boot, TypeOK, Booting, Given, Busy, Progress, Marked, Least
<1> QED  BY <1>1, BootInv, StepInv DEF Next

LEMMA Invariance == ASSUME Exclusive PROVE Spec => []Inv
<1>1. Inv /\ [Next]_vars => Inv'
  BY NextInv
<1> QED  BY <1>1, InitInv, PTL DEF Spec

(* No page is given to two callers: pmm_alloc_page returns a page that     *)
(* nobody has, whatever pages were freed before, if no other call comes in *)
(* between its steps.                                                      *)
THEOREM OwnersAreUnique == ASSUME Exclusive PROVE Spec => []PageHasOneOwner
<1>1. Inv => PageHasOneOwner
  BY DEF Inv, PageHasOneOwner, Progress, Booting
<1> QED  BY <1>1, Invariance, PTL

(* The bitmap's own page and the one at _last_available_index are never    *)
(* handed out.                                                             *)
THEOREM Limits == ASSUME Exclusive PROVE Spec => []LimitsNeverGiven
<1>1. Inv => LimitsNeverGiven
  BY UnitsAssumption DEF Inv, LimitsNeverGiven
<1> QED  BY <1>1, Invariance, PTL

(* The allocator does not run out of memory before every page is given. *)
THEOREM NoFalsePanic == ASSUME Exclusive PROVE Spec => []PanicOnlyWhenFull
<1>1. Inv => PanicOnlyWhenFull
  BY UnitsAssumption DEF Inv, PanicOnlyWhenFull, Booting, Least, Busy
<1> QED  BY <1>1, Invariance, PTL

(* Between calls the bitmap is exact, and the index is the least free one. *)
THEOREM ExactBitmap == ASSUME Exclusive PROVE Spec => []BitmapExact
<1>1. Inv => BitmapExact
  BY UnitsAssumption DEF Inv, BitmapExact, Quiet, Marked, Least, Busy
<1> QED  BY <1>1, Invariance, PTL
=============================================================================
