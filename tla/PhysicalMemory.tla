--------------------------- MODULE PhysicalMemory ---------------------------
(***************************************************************************)
(* mem/pmm.c: the physical pages, one bit each.  Before paging is on pages *)
(* are taken one after the other; then the bitmap is filled in and pages   *)
(* are taken at _first_free_index, which a scan moves on and a free moves  *)
(* back.  A page is named by its index, counted from the bitmap's own page.*)
(* The calls run with interrupts on: their steps interleave unless the     *)
(* callers exclude each other.                                             *)
(***************************************************************************)
EXTENDS Integers, FiniteSets

CONSTANTS
    Units,       \* MEM_SIZE / MEM_UNIT_SIZE
    BootPages,   \* the pages init_vmm takes before paging is on
    Client,      \* the callers
    Kernel,      \* the caller at boot
    Exclusive    \* whether no call starts while another one is under way

ASSUME UnitsAssumption == Units \in Nat /\ BootPages \in Nat /\ BootPages + 1 < Units
ASSUME ClientAssumption == Kernel \in Client /\ Exclusive \in BOOLEAN

VARIABLES
    bitmap,                   \* the indices whose bit is set
    pmm_location,             \* the last page taken before paging
    pmm_paging_active,
    _first_free_index,
    _last_available_index,
    held,                     \* the pages each caller has been given
    pc,                       \* where each caller is
    page,                     \* the page its call is about
    halted                    \* panic

boot == <<pmm_location, pmm_paging_active, _last_available_index>>
vars == <<boot, bitmap, _first_free_index, held, pc, page, halted>>

Index == 0 .. Units

TypeOK ==
    /\ bitmap \subseteq Index
    /\ pmm_location \in 0 .. BootPages
    /\ pmm_paging_active \in BOOLEAN
    /\ _first_free_index \in Index /\ _last_available_index \in {0, Units}
    /\ held \in [Client -> SUBSET Index]
    /\ pc \in [Client -> {"idle", "claim", "take", "scan", "lower"}]
    /\ page \in [Client -> Index]
    /\ halted \in BOOLEAN

(* init_pmm; what the bitmap's memory held before is unknown. *)
Init ==
    /\ bitmap \in SUBSET Index
    /\ pmm_location = 0 /\ pmm_paging_active = FALSE
    /\ _first_free_index = 0 /\ _last_available_index = 0
    /\ held = [c \in Client |-> {}]
    /\ pc = [c \in Client |-> "idle"] /\ page = [c \in Client |-> 0]
    /\ halted = FALSE

Calls(c) ==
    /\ ~halted /\ pmm_paging_active /\ pc[c] = "idle"
    /\ Exclusive => \A d \in Client : pc[d] = "idle"

At(c, label) == ~halted /\ pc[c] = label

Goto(c, label) == pc' = [pc EXCEPT ![c] = label]

set_bit(b) == bitmap' = bitmap \cup {b}

clear_bit(b) == bitmap' = bitmap \ {b}

get_bit(b) == b \in bitmap

----------------------------------------------------------------------------
(* Boot. *)

BootAlloc ==
    /\ ~pmm_paging_active /\ pmm_location < BootPages
    /\ pmm_location' = pmm_location + 1
    /\ held' = [held EXCEPT ![Kernel] = @ \cup {pmm_location + 1}]
    /\ UNCHANGED <<bitmap, pmm_paging_active, _first_free_index,
                   _last_available_index, pc, page, halted>>

(* The first loop sets the bits 1 .. skipped, the second clears those from *)
(* skipped on; bit 0 is never written.  init_vmm then turns paging on.     *)
map_pmm_to_virtual_space ==
    LET skipped == pmm_location + 1
    IN  /\ ~pmm_paging_active /\ pmm_location = BootPages
        /\ bitmap' = ((bitmap \cup 1 .. skipped) \ skipped .. Units - 1) \cup {Units}
        /\ _first_free_index' = skipped
        /\ _last_available_index' = Units
        /\ pmm_paging_active' = TRUE
        /\ UNCHANGED <<pmm_location, held, pc, page, halted>>

----------------------------------------------------------------------------
(* pmm_alloc_page with paging on. *)

(* A mutant: the panic comes one page too late. *)
CheckLate(c) ==
    /\ Calls(c)
    /\ IF _first_free_index > _last_available_index
       THEN halted' = TRUE /\ UNCHANGED pc
       ELSE Goto(c, "claim") /\ UNCHANGED halted
    /\ UNCHANGED <<boot, bitmap, _first_free_index, held, page>>

Check(c) ==
    /\ Calls(c)
    /\ IF _first_free_index = _last_available_index
       THEN halted' = TRUE /\ UNCHANGED pc
       ELSE Goto(c, "claim") /\ UNCHANGED halted
    /\ UNCHANGED <<boot, bitmap, _first_free_index, held, page>>

(* A mutant: the page is not marked as taken. *)
ClaimNothing(c) ==
    /\ At(c, "claim") /\ Goto(c, "take")
    /\ UNCHANGED <<boot, bitmap, _first_free_index, held, page, halted>>

Claim(c) ==
    /\ At(c, "claim") /\ Goto(c, "take")
    /\ set_bit(_first_free_index)
    /\ UNCHANGED <<boot, _first_free_index, held, page, halted>>

Take(c) ==
    /\ At(c, "take") /\ Goto(c, "scan")
    /\ page' = [page EXCEPT ![c] = _first_free_index]
    /\ UNCHANGED <<boot, bitmap, _first_free_index, held, halted>>

Return(c) ==
    /\ Goto(c, "idle")
    /\ held' = [held EXCEPT ![c] = @ \cup {page[c]}]

(* Mutants of Scan: it takes the next index whatever its bit; it does not  *)
(* move.                                                                   *)
ScanBlind(c) ==
    /\ At(c, "scan") /\ Return(c)
    /\ _first_free_index' = IF _first_free_index = _last_available_index
                            THEN _first_free_index ELSE _first_free_index + 1
    /\ UNCHANGED <<boot, bitmap, page, halted>>

ScanStuck(c) ==
    /\ At(c, "scan")
    /\ IF _first_free_index \in bitmap /\ _first_free_index # _last_available_index
       THEN UNCHANGED <<held, pc>> ELSE Return(c)
    /\ UNCHANGED <<boot, bitmap, _first_free_index, page, halted>>

(* One turn of the loop that looks for the next clear bit. *)
Scan(c) ==
    /\ At(c, "scan")
    /\ \/ /\ _first_free_index = _last_available_index
          /\ Return(c) /\ UNCHANGED _first_free_index
       \/ /\ _first_free_index # _last_available_index
          /\ _first_free_index < Units
          /\ _first_free_index' = _first_free_index + 1
          /\ IF get_bit(_first_free_index + 1) THEN UNCHANGED <<held, pc>> ELSE Return(c)
    /\ UNCHANGED <<boot, bitmap, page, halted>>

----------------------------------------------------------------------------
(* pmm_free_page *)

ClearBit(c, i) ==
    /\ Calls(c) /\ i \in held[c] /\ Goto(c, "lower")
    /\ clear_bit(i)
    /\ held' = [held EXCEPT ![c] = @ \ {i}]
    /\ page' = [page EXCEPT ![c] = i]
    /\ UNCHANGED <<boot, _first_free_index, halted>>

(* A mutant: the free leaves the index where it is. *)
KeepIndex(c) ==
    /\ At(c, "lower") /\ Goto(c, "idle")
    /\ UNCHANGED <<boot, bitmap, _first_free_index, held, page, halted>>

LowerIndex(c) ==
    /\ At(c, "lower") /\ Goto(c, "idle")
    /\ _first_free_index' = IF _first_free_index > page[c] THEN page[c]
                            ELSE _first_free_index
    /\ UNCHANGED <<boot, bitmap, held, page, halted>>

----------------------------------------------------------------------------

Step(c) == Claim(c) \/ Take(c) \/ Scan(c) \/ LowerIndex(c)

Next ==
    \/ BootAlloc \/ map_pmm_to_virtual_space
    \/ \E c \in Client :
          Step(c) \/ Check(c) \/ \E i \in Index : ClearBit(c, i)

(* A call that has begun goes on. *)
Spec == Init /\ [][Next]_vars /\ \A c \in Client : WF_vars(Step(c))

----------------------------------------------------------------------------

Given == UNION {held[c] : c \in Client}

(* A page is given to one caller at a time: what the scan of a free or of  *)
(* an earlier call left in _first_free_index is a page nobody has.         *)
PageHasOneOwner ==
    /\ \A c, d \in Client : c # d => held[c] \cap held[d] = {}
    /\ \A c \in Client : pc[c] = "scan" => page[c] \notin Given

(* The page at _last_available_index is never handed out, nor the one the  *)
(* bitmap lies in.                                                         *)
LimitsNeverGiven == Given \cap {0, Units} = {}

(* "Out of memory" is true: when the kernel panics every page that was     *)
(* not taken at boot has been given to somebody.                           *)
PanicOnlyWhenFull == halted => BootPages + 1 .. Units - 1 \subseteq Given

(* An allocation returns. *)
AllocationReturns == \A c \in Client : pc[c] = "claim" ~> pc[c] = "idle"

(* Between the calls the bitmap says which pages are given, and            *)
(* _first_free_index is the least free one.                                *)
Quiet == pmm_paging_active /\ \A c \in Client : pc[c] = "idle"

BitmapExact ==
    Quiet => /\ bitmap \cap 1 .. Units - 1 = Given
             /\ 1 .. _first_free_index - 1 \subseteq Given
             /\ _first_free_index \notin Given
=============================================================================
