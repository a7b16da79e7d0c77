--------------------------- MODULE VirtualMemory ---------------------------
(***************************************************************************)
(* mem/vmm.c on the processor's paging: directories and tables are frames  *)
(* of memory, an address is translated by walking them from cr3, and the   *)
(* TLB remembers translations until invlpg or a load of cr3.  The kernel   *)
(* reaches its tables through the last two entries of each directory, so   *)
(* every store of map, unmap and create_page_directory is translated too.  *)
(* It runs with interrupts on: each step may be followed by a switch to a  *)
(* thread of another address space.                                        *)
(*                                                                         *)
(* createProcess goes on inside the directory it made: it builds the heap  *)
(* there and takes the first thread's stack from it.  A tick in between    *)
(* brings the creator back with the kernel's directory.                    *)
(*                                                                         *)
(* A page is <<directory entry, table entry>>.  A frame handed out is the  *)
(* next one: nothing the kernel runs gives pages back, and the calls of    *)
(* pmm_alloc_page exclude each other here (PhysicalMemory has them).       *)
(***************************************************************************)
EXTENDS Integers

CONSTANTS
    Entries,    \* the entries of a directory or a table, 1024
    Last,       \* the last frame of the memory
    HeapPages,  \* a bound on the pages of a heap, from HEAP_START
    Kernel,     \* the kernel's address space
    Process,    \* the other address spaces
    Creator,    \* the thread that calls createProcess, in the kernel's space
    Aligned,    \* no header of a heap lies across a page end
    Undisturbed, \* no tick comes while createProcess is inside the new space
    Dirty,      \* the frames whose contents at boot are not zero
    NONE,       \* an entry that is zero
    JUNK        \* an entry left by what ran before

ASSUME EntriesAssumption == Entries \in Nat /\ Entries >= 5
ASSUME LastAssumption == Last \in Nat /\ Last >= Entries
ASSUME PagesAssumption == HeapPages \in 2 .. Entries
ASSUME TicksAssumption == Aligned \in BOOLEAN /\ Undisturbed \in BOOLEAN
ASSUME DirtyAssumption == Dirty \subseteq 0 .. Last
ASSUME NamesAssumption ==
    /\ Kernel \notin Process /\ Creator \notin Process \cup {Kernel}
    /\ NONE \notin Nat /\ JUNK \notin Nat /\ NONE # JUNK

(* Each space has a thread that uses its heap, named like the space.  What *)
(* the creator does inside the space is in the name of that thread, which  *)
(* is born when createProcess leaves again; the kernel's at boot.          *)
Space == {Kernel} \cup Process
Thread == Space \cup {Creator}
Home(t) == IF t = Creator THEN Kernel ELSE t

Index == 0 .. Entries - 1
Frame == 0 .. Last
Page == Index \X Index
HeapPage == {<<1, j>> : j \in 0 .. HeapPages - 1}

(* page_directory and page_tables; and the two pages, one behind the       *)
(* other, where create_page_directory maps what it writes.                 *)
DirectoryPage == <<Entries - 2, Entries - 1>>
TablePage(i) == <<Entries - 1, i>>
NewDirectoryPage == <<2, 0>>
NewTablePage == <<2, 1>>

VARIABLES
    memory,     \* the entries each frame holds
    next,       \* the frame pmm_alloc_page returns next
    directory,  \* the page directory of each space
    cr3,
    tlb,        \* the translation the processor remembers of each page
    running,    \* the thread on the processor
    pc,
    local,      \* the arguments and variables of a thread's call
    top,        \* the page of current_mem_addr in each space's heap
    seen,       \* the frame behind a heap page when it was last used
    halted      \* page_fault: the kernel panics

paging == <<directory, cr3, running>>
vars == <<memory, next, paging, tlb, pc, local, top, seen, halted>>

Zero == [i \in Index |-> NONE]
Identity == [i \in Index |-> i]
NoTlb == [p \in Page |-> NONE]
Idle == [space |-> Kernel, pd |-> NONE, page |-> DirectoryPage, frame |-> NONE,
         back |-> "idle", end |-> 0]

Labels == {"idle", "map", "newTable", "clearTable", "setEntry", "clearPd", "newLow",
           "fillLow", "unmapLow", "newLast", "fillLast", "loop", "unmapLast", "unmapPd",
           "enter", "inside", "unborn", "construct", "stack", "push", "leave", "mapped"}

TypeOK ==
    /\ memory \in [Frame -> [Index -> Frame \cup {NONE, JUNK}]]
    /\ next \in Nat
    /\ directory \in [Space -> Frame \cup {NONE}]
    /\ cr3 \in Frame \cup {NONE}
    /\ tlb \in [Page -> Frame \cup {NONE, JUNK}]
    /\ running \in Thread
    /\ pc \in [Thread -> Labels]
    /\ local \in [Thread -> [space : Space, pd : Frame \cup {NONE}, page : Page,
                             frame : Frame \cup {NONE}, back : Labels, end : Index]]
    /\ top \in [Space -> 0 .. HeapPages - 1 \cup {NONE}]
    /\ seen \in [Space -> [HeapPage -> Frame \cup {NONE, JUNK}]]
    /\ halted \in BOOLEAN

----------------------------------------------------------------------------
(* The processor. *)

(* The entry for page p in the tables of directory d. *)
Walk(d, p) ==
    LET table == memory[d][p[1]] IN IF table \in Frame THEN memory[table][p[2]] ELSE table

Translate(p) == IF tlb[p] # NONE THEN tlb[p] ELSE Walk(cr3, p)

(* What page p holds; every page that is read here is stored to next.      *)
Contents(p) == IF Translate(p) \in Frame THEN memory[Translate(p)] ELSE Zero

Remembered(p) == [tlb EXCEPT ![p] = Translate(p)]

(* Page p is written; a page fault when nothing is mapped there. *)
Store(p, contents) ==
    IF Translate(p) \in Frame
    THEN memory' = [memory EXCEPT ![Translate(p)] = contents] /\ UNCHANGED halted
    ELSE halted' = (Translate(p) = NONE) /\ UNCHANGED memory

Runs(t, label) == ~halted /\ running = t /\ pc[t] = label

Goto(t, label) == pc' = [pc EXCEPT ![t] = label]

(* A mutant: the page that is handed out stays the next one. *)
AllocateSame == next \in Frame /\ UNCHANGED next

(* pmm_alloc_page; the end of the memory is a panic that is not modelled. *)
Allocate == next \in Frame /\ next' = next + 1

----------------------------------------------------------------------------
(* Boot. *)

(* Before init_vmm: frame 1 is the bitmap's, the following ones are free.  *)
Init ==
    /\ memory = [f \in Frame |-> IF f \in Dirty THEN [i \in Index |-> JUNK] ELSE Zero]
    /\ next = 2
    /\ directory = [s \in Space |-> NONE]
    /\ cr3 = NONE /\ tlb = NoTlb
    /\ running = Creator
    /\ pc = [t \in Thread |-> IF t = Creator THEN "idle" ELSE "unborn"]
    /\ local = [t \in Thread |-> Idle]
    /\ top = [s \in Space |-> NONE]
    /\ seen = [s \in Space |-> [p \in HeapPage |-> NONE]]
    /\ halted = FALSE

(* The kernel's directory is written at physical addresses, paging being   *)
(* off: the first table maps the first frames to themselves, the last      *)
(* entry is the directory as a table, and the last entry of the last but   *)
(* one is the directory as a page.  TaskManager::init builds the kernel's  *)
(* heap next.                                                              *)
init_vmm ==
    LET pd == next  low == next + 1  last == next + 2
    IN  /\ cr3 = NONE
        /\ memory' = [memory EXCEPT
               ![pd] = [Zero EXCEPT ![0] = low, ![Entries - 2] = last, ![Entries - 1] = pd],
               ![low] = Identity,
               ![last] = [Zero EXCEPT ![Entries - 1] = pd]]
        /\ next' = next + 3
        /\ directory' = [directory EXCEPT ![Kernel] = pd]
        /\ cr3' = pd /\ running' = Kernel
        /\ pc' = [pc EXCEPT ![Creator] = "inside", ![Kernel] = "construct"]
        /\ UNCHANGED <<tlb, local, top, seen, halted>>

(* A thread the timer may switch to, and the directory it loads for it:    *)
(* the creator's own, the kernel's, for one that is inside another space.  *)
Ready(t) == t # running /\ pc[t] \notin {"unborn", "inside"}

Within(s) == pc[Creator] = "inside" /\ local[Creator].space = s

Saved(t) == IF Within(t) THEN directory[Kernel] ELSE directory[Home(t)]

(* switch_thread: loading cr3 empties the TLB. *)
Switch(t) ==
    /\ ~halted /\ Ready(t) /\ (Undisturbed => pc[Creator] # "inside")
    /\ running' = t
    /\ cr3' = Saved(t) /\ tlb' = NoTlb
    /\ UNCHANGED <<memory, next, directory, pc, local, top, seen, halted>>

----------------------------------------------------------------------------
(* map and unmap, for the page and frame in local. *)

Calls(t, page, frame, back) ==
    /\ local' = [local EXCEPT ![t].page = page, ![t].frame = frame, ![t].back = back]
    /\ Goto(t, "map")

(* A mutant: map takes it that the table is there. *)
MapUntested(t) ==
    /\ Runs(t, "map") /\ Goto(t, "setEntry")
    /\ tlb' = Remembered(DirectoryPage)
    /\ UNCHANGED <<memory, next, paging, local, top, seen, halted>>

map(t) ==
    /\ Runs(t, "map")
    /\ Goto(t, IF Contents(DirectoryPage)[local[t].page[1]] = NONE THEN "newTable" ELSE "setEntry")
    /\ tlb' = Remembered(DirectoryPage)
    /\ UNCHANGED <<memory, next, paging, local, top, seen, halted>>

NewTable(t) ==
    /\ Runs(t, "newTable") /\ Goto(t, "clearTable") /\ Allocate
    /\ Store(DirectoryPage, [Contents(DirectoryPage) EXCEPT ![local[t].page[1]] = next])
    /\ tlb' = Remembered(DirectoryPage)
    /\ UNCHANGED <<paging, local, top, seen>>

(* memset is given the first entry of the new table as the address: page 0 *)
(* is cleared if that entry is zero, otherwise whatever is there, or       *)
(* nothing is and it faults.  The table itself keeps what was in it.       *)
ClearTable(t) ==
    LET table == TablePage(local[t].page[1])
    IN  /\ Runs(t, "clearTable") /\ Goto(t, "setEntry")
        /\ \E p \in IF Contents(table)[0] = NONE THEN {<<0, 0>>} ELSE Page : Store(p, Zero)
        /\ tlb' = Remembered(table)
        /\ UNCHANGED <<next, paging, local, top, seen>>

SetEntry(t) ==
    LET table == TablePage(local[t].page[1])
    IN  /\ Runs(t, "setEntry") /\ Goto(t, local[t].back)
        /\ Store(table, [Contents(table) EXCEPT ![local[t].page[2]] = local[t].frame])
        /\ tlb' = Remembered(table)
        /\ UNCHANGED <<next, paging, local, top, seen>>

(* A mutant: no invlpg. *)
UnmapQuietly(p) ==
    LET table == TablePage(p[1])
    IN  /\ Store(table, [Contents(table) EXCEPT ![p[2]] = NONE])
        /\ tlb' = Remembered(table)

(* invlpg makes the processor forget the page. *)
unmap(p) ==
    LET table == TablePage(p[1])
    IN  /\ Store(table, [Contents(table) EXCEPT ![p[2]] = NONE])
        /\ tlb' = [Remembered(table) EXCEPT ![p] = NONE]

----------------------------------------------------------------------------
(* create_page_directory with paging on. *)

create_page_directory(t, s) ==
    /\ Runs(t, "idle") /\ cr3 # NONE /\ s \in Process
    /\ directory[s] = NONE
    /\ Allocate
    /\ local' = [local EXCEPT ![t] = [space |-> s, pd |-> next, page |-> NewDirectoryPage,
                                      frame |-> next, back |-> "clearPd", end |-> 0]]
    /\ Goto(t, "map")
    /\ UNCHANGED <<memory, paging, tlb, top, seen, halted>>

ClearDirectory(t) ==
    /\ Runs(t, "clearPd") /\ Goto(t, "newLow")
    /\ Store(NewDirectoryPage, Zero)
    /\ tlb' = Remembered(NewDirectoryPage)
    /\ UNCHANGED <<next, paging, local, top, seen>>

(* An entry of the new directory gets a new table, which is mapped to be   *)
(* written.                                                                *)
AddTable(t, label, i, back) ==
    /\ Runs(t, label) /\ Allocate
    /\ Store(NewDirectoryPage, [Contents(NewDirectoryPage) EXCEPT ![i] = next])
    /\ tlb' = Remembered(NewDirectoryPage)
    /\ Calls(t, NewTablePage, next, back)
    /\ UNCHANGED <<paging, top, seen>>

NewLowTable(t) == AddTable(t, "newLow", 0, "fillLow")

NewLastTable(t) == AddTable(t, "newLast", Entries - 2, "fillLast")

(* A mutant: the loop ends one entry early. *)
FillLowTableShort(t) ==
    /\ Runs(t, "fillLow") /\ Goto(t, "unmapLow")
    /\ Store(NewTablePage, [Contents(NewTablePage) EXCEPT ![0] = 0, ![1] = 1, ![2] = 2, ![3] = 3])
    /\ tlb' = Remembered(NewTablePage)
    /\ UNCHANGED <<next, paging, local, top, seen>>

FillLowTable(t) ==
    /\ Runs(t, "fillLow") /\ Goto(t, "unmapLow")
    /\ Store(NewTablePage, Identity)
    /\ tlb' = Remembered(NewTablePage)
    /\ UNCHANGED <<next, paging, local, top, seen>>

FillLastTable(t) ==
    /\ Runs(t, "fillLast") /\ Goto(t, "loop")
    /\ Store(NewTablePage, [Zero EXCEPT ![Entries - 1] = local[t].pd])
    /\ tlb' = Remembered(NewTablePage)
    /\ UNCHANGED <<next, paging, local, top, seen>>

CloseLoop(t) ==
    /\ Runs(t, "loop") /\ Goto(t, "unmapLast")
    /\ Store(NewDirectoryPage, [Contents(NewDirectoryPage) EXCEPT ![Entries - 1] = local[t].pd])
    /\ tlb' = Remembered(NewDirectoryPage)
    /\ UNCHANGED <<next, paging, local, top, seen>>

UnmapTable(t) ==
    /\ \/ Runs(t, "unmapLow") /\ Goto(t, "newLast")
       \/ Runs(t, "unmapLast") /\ Goto(t, "unmapPd")
    /\ unmap(NewTablePage)
    /\ UNCHANGED <<next, paging, local, top, seen>>

(* A mutant: the directory stays mapped. *)
LeaveMapped(t) ==
    /\ Runs(t, "unmapPd") /\ Goto(t, "enter")
    /\ directory' = [directory EXCEPT ![local[t].space] = local[t].pd]
    /\ local' = [local EXCEPT ![t] = [Idle EXCEPT !.space = local[t].space]]
    /\ UNCHANGED <<memory, next, cr3, running, tlb, top, seen, halted>>

UnmapDirectory(t) ==
    /\ Runs(t, "unmapPd") /\ Goto(t, "enter")
    /\ unmap(NewDirectoryPage)
    /\ directory' = [directory EXCEPT ![local[t].space] = local[t].pd]
    /\ local' = [local EXCEPT ![t] = [Idle EXCEPT !.space = local[t].space]]
    /\ UNCHANGED <<next, cr3, running, top, seen>>

----------------------------------------------------------------------------
(* The heap of a space.  A chunk is made behind the last one: its header   *)
(* is written first, then the pages behind the one it begins in are        *)
(* mapped, mapped already or not, and then current_mem_addr moves on.      *)

(* The pages in set are written. *)
Touch(s, set) ==
    /\ seen' = [seen EXCEPT ![s] =
           [p \in HeapPage |-> IF p \in set THEN Translate(p) ELSE seen[s][p]]]
    /\ tlb' = [p \in Page |-> IF p \in set THEN Translate(p) ELSE tlb[p]]
    /\ halted' = \E p \in set : Translate(p) = NONE

(* The last page mapped for a chunk that ends in page end. *)
Behind(s, end) == IF end = top[s] THEN top[s] + 1 ELSE end

(* A mutant: the pages are mapped from the one of the header. *)
ChunkHere(s, end, set, back) ==
    /\ Allocate /\ Behind(s, end) < HeapPages
    /\ Touch(s, set)
    /\ local' = [local EXCEPT ![s].page = <<1, top[s]>>, ![s].frame = next,
                              ![s].back = back, ![s].end = end]
    /\ Goto(s, "map")
    /\ UNCHANGED <<memory, paging, top>>

Chunk(s, end, set, back) ==
    /\ Allocate /\ Behind(s, end) < HeapPages
    /\ Touch(s, set)
    /\ local' = [local EXCEPT ![s].page = <<1, top[s] + 1>>, ![s].frame = next,
                              ![s].back = back, ![s].end = end]
    /\ Goto(s, "map")
    /\ UNCHANGED <<memory, paging, top>>

(* A chunk ends in the page of its header or in a later one. *)
kmalloc(s) ==
    /\ Runs(s, "idle")
    /\ \/ \E end \in top[s] .. HeapPages - 1 : Chunk(s, end, {<<1, top[s]>>}, "mapped")
       \/ /\ ~Aligned
          /\ \E end \in top[s] + 1 .. HeapPages - 1 :
                 Chunk(s, end, {<<1, top[s]>>, <<1, top[s] + 1>>}, "mapped")

(* The loop over the pages, and what follows it. *)
NextPage(s) ==
    LET page == local[s].page[2]  end == local[s].end
    IN  /\ Runs(s, "mapped")
        /\ \/ /\ page < Behind(s, end) /\ Allocate
              /\ Calls(s, <<1, page + 1>>, next, "mapped")
              /\ UNCHANGED top
           \/ /\ page = Behind(s, end) /\ Goto(s, "idle")
              /\ top' = [top EXCEPT ![s] = end]
              /\ UNCHANGED <<next, local>>
        /\ UNCHANGED <<memory, paging, tlb, seen, halted>>

(* The program uses its memory. *)
Use(s) ==
    /\ Runs(s, "idle")
    /\ \E j \in 0 .. top[s] : Touch(s, {<<1, j>>})
    /\ UNCHANGED <<memory, next, paging, pc, local, top>>

----------------------------------------------------------------------------
(* createProcess behind create_page_directory. *)

(* switch_page_directory(pd) *)
Enter(t) ==
    LET s == local[t].space
    IN  /\ Runs(t, "enter")
        /\ cr3' = directory[s] /\ tlb' = NoTlb /\ running' = s
        /\ pc' = [pc EXCEPT ![t] = "inside", ![s] = "construct"]
        /\ UNCHANGED <<memory, next, directory, local, top, seen, halted>>

(* new (heap) Heap() *)
Heap(s) ==
    /\ Runs(s, "construct") /\ Allocate
    /\ top' = [top EXCEPT ![s] = 0]
    /\ Calls(s, <<1, 0>>, next, "stack")
    /\ UNCHANGED <<memory, paging, tlb, seen, halted>>

(* createThread: the stack is less than a page, and three words go there.  *)
NewStack(s) == Runs(s, "stack") /\ Chunk(s, top[s], {<<1, top[s]>>}, "push")

Push(s) ==
    /\ Runs(s, "push") /\ Goto(s, "leave")
    /\ Touch(s, {<<1, top[s]>>})
    /\ UNCHANGED <<memory, next, paging, local, top>>

(* addThread, and the creator's directory again. *)
Leave(s) ==
    /\ Runs(s, "leave")
    /\ cr3' = directory[Kernel] /\ running' = Creator
    /\ tlb' = IF s = Kernel THEN tlb ELSE NoTlb
    /\ pc' = [pc EXCEPT ![s] = "idle", ![Creator] = "idle"]
    /\ local' = [local EXCEPT ![Creator] = Idle]
    /\ UNCHANGED <<memory, next, directory, top, seen, halted>>

Next ==
    \/ init_vmm
    \/ \E t \in Thread :
          \/ Switch(t)
          \/ map(t) \/ NewTable(t) \/ ClearTable(t) \/ SetEntry(t)
          \/ t = Creator /\ (Enter(t) \/ \E s \in Process : create_page_directory(t, s))
          \/ ClearDirectory(t) \/ NewLowTable(t) \/ FillLowTable(t) \/ NewLastTable(t)
          \/ FillLastTable(t) \/ CloseLoop(t) \/ UnmapTable(t) \/ UnmapDirectory(t)
          \/ /\ t \in Space
             /\ Heap(t) \/ NewStack(t) \/ Push(t) \/ Leave(t) \/ kmalloc(t) \/ NextPage(t) \/ Use(t)

Spec == Init /\ [][Next]_vars

----------------------------------------------------------------------------

(* Every address space maps the first frames to themselves, the kernel's   *)
(* code, stack and page bitmap among them, and shows its own directory and *)
(* tables where map and unmap look for them.  "Creates page directory and  *)
(* identity maps kernel" (vmm.h), with the stores of its eleven steps      *)
(* going through a mapping that other spaces do not have.                  *)
SpacesWhole ==
    \A s \in Space : directory[s] # NONE =>
        /\ \A j \in Index : Walk(directory[s], <<0, j>>) = j
        /\ Walk(directory[s], DirectoryPage) = directory[s]
        /\ \A i \in Index : Walk(directory[s], TablePage(i)) = memory[directory[s]][i]

(* The processor never remembers a translation the tables do not hold any  *)
(* more, although map does not invalidate the page it maps.                *)
TlbCoherent == cr3 # NONE => \A p \in Page : tlb[p] \in {NONE, Walk(cr3, p)}

(* The frames that hold the tables of a space, and its heap. *)
Tables(s) ==
    IF directory[s] = NONE THEN {}
    ELSE {directory[s]} \cup ({memory[directory[s]][i] : i \in Index} \ {NONE})

Heaps(s) ==
    IF directory[s] = NONE THEN {} ELSE {Walk(directory[s], p) : p \in HeapPage} \ {NONE}

(* No frame serves two spaces, and no heap lies on a table. *)
FramesApart ==
    \A s, r \in Space :
        /\ Heaps(s) \cap Tables(r) = {}
        /\ s # r => Tables(s) \cap Tables(r) = {} /\ Heaps(s) \cap Heaps(r) = {}

(* When create_page_directory has returned, the pages where it mapped the  *)
(* new directory and its tables are not mapped any more.                   *)
NothingLeftMapped ==
    cr3 # NONE /\ local[Creator].pd = NONE =>
        /\ Walk(directory[Kernel], NewDirectoryPage) = NONE
        /\ Walk(directory[Kernel], NewTablePage) = NONE

(* No store of vmm.c, and no use of the heap, faults. *)
NeverFaults == ~halted

----------------------------------------------------------------------------
(* What the tables and the TLB amount to. *)

Mapping ==
    [s \in Space |-> [p \in HeapPage |->
        IF directory[s] = NONE THEN NONE ELSE Walk(directory[s], p)]]

AS == INSTANCE AddressSpaces
    WITH Page <- HeapPage, None <- NONE, space <- Mapping

(* Each space has pages of its own, and what a thread leaves in one it     *)
(* finds there, through every switch and every change of the tables.       *)
ImplementsSpaces == AS!Spec
=============================================================================
