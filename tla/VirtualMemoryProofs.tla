------------------------ MODULE VirtualMemoryProofs ------------------------
(***************************************************************************)
(* The tables and the TLB, for any number of address spaces, entries and   *)
(* frames, at every step of map, unmap and create_page_directory and under *)
(* every switch between them.                                              *)
(*                                                                         *)
(* Each frame in use serves one end: it is the directory of a space, one   *)
(* of its tables, one of its pages, or was taken by a thread to become a   *)
(* page.  Owned says that there is a map from frames to such roles; a      *)
(* store through one role then changes nothing that is reached by another. *)
(***************************************************************************)
EXTENDS VirtualMemory, TLAPS

InMap(t) == pc[t] \in {"map", "newTable", "clearTable", "setEntry"}

(* The creator is in create_page_directory. *)
Making == pc[Creator] \notin {"idle", "enter", "inside"}

(* The directory of a space, from the moment its frame is taken. *)
Dir(s) ==
    IF directory[s] # NONE THEN directory[s]
    ELSE IF local[Creator].space = s THEN local[Creator].pd ELSE NONE

Role == {"directory", "table", "page", "held"} \X Space \X Index

Owns(own, f, kind, s, i) ==
    /\ f \in Frame /\ 2 <= f /\ f < next
    /\ own[f] = <<kind, s, i>>

OwnedBy(own, s) ==
    Dir(s) # NONE =>
        /\ Owns(own, Dir(s), "directory", s, 0)
        /\ \A i \in Index :
              \/ memory[Dir(s)][i] = NONE
              \/ i = Entries - 1 /\ memory[Dir(s)][i] = Dir(s)
              \/ Owns(own, memory[Dir(s)][i], "table", s, i)
        /\ memory[Dir(s)][1] # NONE => \A j \in Index :
              \/ memory[memory[Dir(s)][1]][j] = NONE
              \/ Owns(own, memory[memory[Dir(s)][1]][j], "page", s, j)

Holds(own, s) == InMap(s) => Owns(own, local[s].frame, "held", s, 0)

Owned(own) ==
    /\ own \in [Frame -> Role]
    /\ \A s \in Space : OwnedBy(own, s) /\ Holds(own, s)

(* Nothing has been written where no frame was handed out. *)
Free == next >= 2 /\ \A f \in Frame : f >= next => memory[f] = Zero

(* Until init_vmm nothing happens; from then on the tables of the thread   *)
(* on the processor are those of its space.                                *)
Booted ==
    /\ cr3 = NONE =>
          /\ \A s \in Space : directory[s] = NONE
          /\ pc[Creator] = "idle" /\ \A s \in Space : pc[s] = "unborn"
          /\ local[Creator] = Idle /\ tlb = NoTlb /\ running = Creator /\ next = 2
    /\ cr3 # NONE => directory[Kernel] # NONE /\ cr3 = directory[Home(running)]

(* What create_page_directory leaves behind it. *)
Complete(d) ==
    /\ memory[d][0] \in Frame /\ memory[memory[d][0]] = Identity
    /\ memory[d][Entries - 2] \in Frame
    /\ memory[memory[d][Entries - 2]][Entries - 1] = d
    /\ memory[d][Entries - 1] = d

Whole == \A s \in Space : directory[s] # NONE => Complete(directory[s])

(* How far create_page_directory is: what it is at, or what it calls map   *)
(* for.                                                                    *)
Stage == IF InMap(Creator) THEN local[Creator].back ELSE pc[Creator]

Closed == {"unmapLast", "unmapPd"}
LastFilled == {"loop"} \cup Closed
LastLinked == {"fillLast"} \cup LastFilled
LowFilled == {"unmapLow", "newLast"} \cup LastLinked
LowLinked == {"fillLow"} \cup LowFilled

Unfinished(s, d) ==
    /\ s \in Process /\ directory[s] = NONE
    /\ d \in Frame /\ memory[d][1] = NONE
    /\ Stage \in LowLinked => memory[d][0] \in Frame
    /\ Stage \in LowFilled => memory[memory[d][0]] = Identity
    /\ Stage \in LastLinked => memory[d][Entries - 2] \in Frame
    /\ Stage \in LastFilled => memory[memory[d][Entries - 2]][Entries - 1] = d
    /\ Stage \in Closed => memory[d][Entries - 1] = d

(* What create_page_directory calls map with. *)
Ordered(c) ==
    /\ c.back \in {"clearPd", "fillLow", "fillLast"}
    /\ c.back = "clearPd" => c.page = NewDirectoryPage /\ c.frame = c.pd
    /\ c.back = "fillLow" => c.page = NewTablePage /\ c.frame = memory[c.pd][0]
    /\ c.back = "fillLast" => c.page = NewTablePage /\ c.frame = memory[c.pd][Entries - 2]

Building ==
    /\ ~Making => local[Creator].pd = NONE
    /\ Making => Unfinished(local[Creator].space, local[Creator].pd)
    /\ InMap(Creator) => Ordered(local[Creator])

(* What the two pages for it show at each place of create_page_directory.  *)
ShownDirectory ==
    IF ~Making \/ (InMap(Creator) /\ local[Creator].back = "clearPd")
    THEN NONE ELSE local[Creator].pd

ShownTable ==
    IF pc[Creator] \in {"fillLow", "unmapLow"} THEN memory[local[Creator].pd][0]
    ELSE IF pc[Creator] \in {"fillLast", "loop", "unmapLast"}
    THEN memory[local[Creator].pd][Entries - 2] ELSE NONE

NewMapped ==
    cr3 # NONE =>
        /\ Walk(directory[Kernel], NewDirectoryPage) = ShownDirectory
        /\ Walk(directory[Kernel], NewTablePage) = ShownTable

(* Where the thread of a space can be, and the table map works on. *)
Steps == {"idle", "mapped", "unborn", "construct", "stack", "push", "leave"}

Growing(t) ==
    /\ pc[t] \in Steps \/ InMap(t)
    /\ pc[t] # "unborn" => directory[t] # NONE
    /\ InMap(t) =>
          /\ local[t].page \in HeapPage /\ local[t].back \in {"mapped", "stack", "push"}
          /\ seen[t][local[t].page] = NONE

AtTable(t, table) ==
    /\ pc[t] = "newTable" => table = NONE
    /\ pc[t] = "clearTable" => table \in Frame /\ memory[table][0] = NONE
    /\ pc[t] = "setEntry" => table \in Frame

Calling ==
    /\ \A t \in Space : Growing(t)
    /\ \A t \in Thread : AtTable(t, memory[directory[Home(t)]][local[t].page[1]])

(* No heap page is remembered that was not used. *)
TlbKnown == \A p \in HeapPage : tlb[p] # NONE => seen[Home(running)][p] # NONE

(* The tables, frames and the TLB. *)
Sound(own) ==
    /\ TypeOK /\ ~halted /\ Free /\ Booted /\ Owned(own)
    /\ Whole /\ Building /\ NewMapped /\ Calling
    /\ TlbCoherent /\ TlbKnown

(* The thread is made for, not run yet. *)
Early(s) ==
    \/ pc[s] \in {"construct", "stack", "push", "leave"}
    \/ InMap(s) /\ local[s].back # "mapped"

(* Its heap has been built: a page is mapped at current_mem_addr. *)
Built(s) == top[s] # NONE /\ ~(InMap(s) /\ local[s].back = "stack")

Lengthening(s) == pc[s] = "mapped" \/ (InMap(s) /\ local[s].back = "mapped")

(* The pages a heap has behind current_mem_addr are used by nobody, those  *)
(* up to it are mapped, and the loop of kmalloc maps one after the other.  *)
Tidy(s) ==
    /\ top[s] = NONE <=> pc[s] \in {"unborn", "construct"}
    /\ Early(s) => Within(s)
    /\ \A p \in HeapPage : seen[s][p] # NONE => Built(s) /\ p[2] <= top[s]
    /\ Built(s) => \A j \in 0 .. top[s] : Mapping[s][<<1, j>>] # NONE
    /\ InMap(s) /\ local[s].back = "stack" => top[s] = 0 /\ local[s].page = <<1, 0>>
    /\ Lengthening(s) =>
          /\ local[s].end \in top[s] .. HeapPages - 1
          /\ top[s] < local[s].page[2] /\ local[s].page[2] <= Behind(s, local[s].end)
          /\ Behind(s, local[s].end) < HeapPages
          /\ \A j \in top[s] + 1 .. local[s].page[2] - 1 : Mapping[s][<<1, j>>] # NONE
          /\ pc[s] = "mapped" => Mapping[s][<<1, local[s].page[2]>>] # NONE

(* createProcess enters a finished directory whose heap was never touched, *)
(* and no other thread runs until it has left.                             *)
Turns ==
    /\ pc[Creator] = "enter" =>
          /\ directory[local[Creator].space] # NONE
          /\ pc[local[Creator].space] = "unborn"
    /\ pc[Creator] = "inside" => running = local[Creator].space

Heaped == Turns /\ \A s \in Space : Tidy(s)

(* The inductive invariant. *)
Owning == \E own : Sound(own)

Inv == Heaped /\ Owning

----------------------------------------------------------------------------

LEMMA Indices ==
    /\ Entries \in Nat /\ Entries >= 5 /\ Last \in Nat /\ Last >= Entries
    /\ {0, 1, 2, Entries - 2, Entries - 1} \subseteq Index
    /\ Index \subseteq Frame /\ Frame \subseteq Nat
  BY EntriesAssumption, LastAssumption DEF Index, Frame

LEMMA Names ==
    /\ NONE \notin Frame /\ JUNK \notin Frame /\ NONE # JUNK
    /\ Kernel \in Space /\ Process \subseteq Space /\ Kernel \notin Process
    /\ Creator \notin Space /\ Creator \in Thread /\ Space \subseteq Thread
    /\ \A t \in Thread : Home(t) \in Space
    /\ \A t \in Space : Home(t) = t
    /\ Home(Creator) = Kernel
    /\ \A t \in Thread : t = Creator \/ t \in Space
  BY NamesAssumption, Indices DEF Space, Thread, Home

LEMMA PageParts ==
    /\ DirectoryPage[1] = Entries - 2 /\ DirectoryPage[2] = Entries - 1
    /\ NewDirectoryPage[1] = 2 /\ NewDirectoryPage[2] = 0
    /\ NewTablePage[1] = 2 /\ NewTablePage[2] = 1
    /\ \A i \in Index : TablePage(i)[1] = Entries - 1 /\ TablePage(i)[2] = i
  BY DEF DirectoryPage, NewDirectoryPage, NewTablePage, TablePage

LEMMA PageNames ==
    /\ \A i, j \in Index : <<i, j>> \in Page
    /\ \A p \in Page : p[1] \in Index /\ p[2] \in Index /\ p = <<p[1], p[2]>>
    /\ DirectoryPage \in Page /\ NewDirectoryPage \in Page /\ NewTablePage \in Page
    /\ \A i \in Index : TablePage(i) \in Page
<1>1. \A i, j \in Index : <<i, j>> \in Page
  BY DEF Page
<1>2. \A p \in Page : p[1] \in Index /\ p[2] \in Index /\ p = <<p[1], p[2]>>
  BY DEF Page
<1>3. /\ 0 \in Index /\ 1 \in Index /\ 2 \in Index
      /\ Entries - 2 \in Index /\ Entries - 1 \in Index
  BY Indices
<1>4. DirectoryPage \in Page /\ NewDirectoryPage \in Page /\ NewTablePage \in Page
  BY <1>1, <1>3 DEF DirectoryPage, NewDirectoryPage, NewTablePage
<1>5. \A i \in Index : TablePage(i) \in Page
  BY <1>1, <1>3 DEF TablePage
<1> QED  BY <1>1, <1>2, <1>4, <1>5

LEMMA HeapPageNames ==
    \A p \in HeapPage : p \in Page /\ p[1] = 1 /\ p[2] \in Index /\ p = <<1, p[2]>>
<1>1. \A j \in 0 .. HeapPages - 1 : j \in Index
  BY Indices, PagesAssumption DEF Index
<1> QED  BY <1>1, Indices, PageNames DEF HeapPage

(* Outside the pages of the heap. *)
LEMMA OtherPages ==
    /\ DirectoryPage \notin HeapPage /\ NewDirectoryPage \notin HeapPage
    /\ NewTablePage \notin HeapPage /\ \A i \in Index : TablePage(i) \notin HeapPage
<1>1. Entries - 2 # 1 /\ Entries - 1 # 1
  BY Indices
<1>2. \A p \in HeapPage : p[1] = 1
  BY HeapPageNames
<1>3. DirectoryPage[1] # 1 /\ \A i \in Index : TablePage(i)[1] # 1
  BY <1>1, PageParts
<1>4. NewDirectoryPage[1] # 1 /\ NewTablePage[1] # 1
  BY PageParts
<1> QED  BY <1>2, <1>3, <1>4

LEMMA ZeroIs == Zero \in [Index -> {NONE}] /\ \A i \in Index : Zero[i] = NONE
  BY DEF Zero

LEMMA IdentityIs == Identity \in [Index -> Frame] /\ \A i \in Index : Identity[i] = i
  BY Indices DEF Identity

(* The thread on the processor, and what it reaches. *)
LEMMA Here ==
    ASSUME NEW own, Sound(own), cr3 # NONE
    PROVE  /\ running \in Thread /\ Home(running) \in Space
           /\ directory[Home(running)] = cr3 /\ Dir(Home(running)) = cr3
           /\ cr3 \in Frame /\ Complete(cr3)
           /\ Owns(own, cr3, "directory", Home(running), 0) /\ OwnedBy(own, Home(running))
           /\ \A p \in Page : Translate(p) = Walk(cr3, p)
           /\ Walk(cr3, DirectoryPage) = cr3
           /\ \A i \in Index : Walk(cr3, TablePage(i)) = memory[cr3][i]
<1>1. running \in Thread /\ Home(running) \in Space /\ directory[Home(running)] = cr3
  BY Names DEF Sound, TypeOK, Booted
<1>2. Dir(Home(running)) = cr3 /\ cr3 \in Frame /\ Complete(cr3)
  BY <1>1 DEF Sound, TypeOK, Dir, Whole
<1>3. \A p \in Page : Translate(p) = Walk(cr3, p)
  BY DEF Sound, TlbCoherent, Translate
<1>4. Walk(cr3, DirectoryPage) = cr3
  BY <1>2 DEF Complete, Walk, DirectoryPage
<1>5. \A i \in Index : Walk(cr3, TablePage(i)) = memory[cr3][i]
  BY <1>2 DEF Complete, Walk, TablePage
<1>6. Owns(own, cr3, "directory", Home(running), 0) /\ OwnedBy(own, Home(running))
  BY <1>1, <1>2, Names DEF Sound, Owned, OwnedBy
<1> QED  BY <1>1, <1>2, <1>3, <1>4, <1>5, <1>6

(* A thread in a call runs after init_vmm. *)
LEMMA BootedRuns ==
    ASSUME NEW own, Sound(own), NEW t \in Thread, NEW label, Runs(t, label), label # "idle"
    PROVE  cr3 # NONE /\ running = t /\ pc[t] = label
  BY DEF Sound, Booted, Runs

(* Frames with different roles are different. *)
LEMMA Distinct ==
    ASSUME NEW own, NEW f, NEW g, NEW k, NEW l, NEW s, NEW r, NEW i, NEW j,
           Owns(own, f, k, s, i), Owns(own, g, l, r, j),
           k # l \/ s # r \/ i # j
    PROVE  f # g
  BY DEF Owns

----------------------------------------------------------------------------
(* What a store leaves alone. *)

(* Frame f is of no use to space s. *)
Alien(own, f, s) == \A k, i : ~Owns(own, f, k, s, i)

OnlyAt(x) == \A f \in Frame : f # x => memory'[f] = memory[f]

(* One table of directory d, or all of them, are as they were. *)
SameTable(d, i) ==
    /\ memory'[d][i] = memory[d][i]
    /\ memory[d][i] \in Frame => memory'[memory[d][i]] = memory[memory[d][i]]

SameTables(d) == memory'[d] = memory[d] /\ \A i \in Index : SameTable(d, i)

LEMMA OtherRole ==
    ASSUME NEW own, NEW f, NEW k, NEW s, NEW i, Owns(own, f, k, s, i), NEW r, r # s
    PROVE  Alien(own, f, r)
  BY DEF Owns, Alien

LEMMA LowAlien ==
    ASSUME next \in Nat PROVE \A own, s : Alien(own, 0, s) /\ Alien(own, next, s)
  BY DEF Owns, Alien

LEMMA Untouched ==
    ASSUME NEW own, Owned(own), NEW s \in Space, Dir(s) # NONE,
           NEW x, Alien(own, x, s), OnlyAt(x)
    PROVE  SameTables(Dir(s))
<1>1. memory'[Dir(s)] = memory[Dir(s)]
  BY DEF Owned, OwnedBy, Owns, Alien, OnlyAt
<1>2. ASSUME NEW i \in Index, memory[Dir(s)][i] \in Frame
      PROVE  memory'[memory[Dir(s)][i]] = memory[memory[Dir(s)][i]]
  <2>1. CASE memory[Dir(s)][i] = Dir(s)
    BY <1>1, <2>1
  <2>2. CASE Owns(own, memory[Dir(s)][i], "table", s, i)
    BY <2>2 DEF Owns, Alien, OnlyAt
  <2> QED  BY <1>2, <2>1, <2>2, Names DEF Owned, OwnedBy
<1> QED  BY <1>1, <1>2 DEF SameTables, SameTable

LEMMA SameWalk ==
    ASSUME NEW d, NEW p, SameTable(d, p[1])
    PROVE  Walk(d, p)' = Walk(d, p)
  BY DEF SameTable, Walk

LEMMA SameWalks ==
    ASSUME NEW d, SameTables(d)
    PROVE  /\ \A p \in Page : Walk(d, p)' = Walk(d, p)
           /\ Complete(d) => Complete(d)'
<1>1. ASSUME NEW p \in Page PROVE Walk(d, p)' = Walk(d, p)
  BY PageNames, SameWalk DEF SameTables
<1>2. Complete(d) => Complete(d)'
  BY Indices DEF SameTables, SameTable, Complete
<1> QED  BY <1>1, <1>2

(* A store that no finished space can tell. *)
Hidden(x) ==
    /\ UNCHANGED <<directory, cr3, running, seen, top>>
    /\ OnlyAt(x)
    /\ tlb' = tlb \/ \E p \in Page \ HeapPage : tlb' = Remembered(p)

LEMMA Quiet ==
    ASSUME NEW own, Sound(own), cr3 # NONE, NEW x, Hidden(x),
           \A s \in Space : directory[s] # NONE => Alien(own, x, s)
    PROVE  /\ Whole' /\ TlbCoherent' /\ TlbKnown' /\ Mapping' = Mapping
           /\ \A s \in Space : directory[s] # NONE => SameTables(directory[s])
<1>1. \A s \in Space : directory[s] # NONE => SameTables(directory[s])
  BY Untouched DEF Sound, Dir, Hidden
<1>2. \A s \in Space : directory[s] # NONE =>
          \A p \in Page : Walk(directory[s], p)' = Walk(directory[s], p)
  BY <1>1, SameWalks DEF Hidden
<1>3. Whole'
  BY <1>1, SameWalks DEF Hidden, Whole, Sound
<1>4. Mapping' = Mapping
  BY <1>2, HeapPageNames DEF Hidden, Mapping
<1>5. \A p \in Page : Walk(cr3, p)' = Walk(cr3, p)
  BY <1>2, Here DEF Hidden
<1>6. tlb \in [Page -> Frame \cup {NONE, JUNK}] /\ \A p \in Page : tlb[p] \in {NONE, Walk(cr3, p)}
  BY DEF Sound, TypeOK, TlbCoherent
<1>7. TlbCoherent' /\ TlbKnown'
  <2>1. CASE tlb' = tlb
    BY <1>5, <1>6, <2>1, HeapPageNames DEF Hidden, TlbCoherent, TlbKnown, Sound
  <2>2. ASSUME NEW q \in Page \ HeapPage, tlb' = [tlb EXCEPT ![q] = Walk(cr3, q)]
        PROVE  TlbCoherent' /\ TlbKnown'
    BY <1>5, <1>6, <2>2, HeapPageNames DEF Hidden, TlbCoherent, TlbKnown, Sound
  <2> QED  BY <2>1, <2>2, Here DEF Hidden, Remembered
<1> QED  BY <1>1, <1>3, <1>4, <1>7

(* The roles of a space that a store does not reach. *)
LEMMA OwnedElsewhere ==
    ASSUME NEW own, Owned(own), NEW new, NEW s \in Space, Dir(s)' = Dir(s),
           NEW x, Alien(own, x, s), OnlyAt(x),
           \A f, i : \A k \in {"directory", "table", "page"} :
               Owns(own, f, k, s, i) => Owns(new, f, k, s, i)'
    PROVE  OwnedBy(new, s)'
<1> SUFFICES ASSUME Dir(s) # NONE
             PROVE  OwnedBy(new, s)'
  BY DEF OwnedBy
<1> DEFINE d == Dir(s)
<1>1. d' = d /\ SameTables(d)
  BY Untouched
<1>2. memory'[d] = memory[d]
  BY <1>1 DEF SameTables
<1>3. Owns(new, Dir(s), "directory", s, 0)'
  BY <1>1 DEF Owned, OwnedBy, Owns
<1>4. ASSUME NEW i \in Index
      PROVE  \/ memory'[d'][i] = NONE
             \/ i = Entries - 1 /\ memory'[d'][i] = d'
             \/ Owns(new, memory[d][i], "table", s, i)'
  <2>1. \/ memory[d][i] = NONE
        \/ i = Entries - 1 /\ memory[d][i] = d
        \/ Owns(own, memory[d][i], "table", s, i)
    BY DEF Owned, OwnedBy
  <2> QED  BY <1>1, <1>2, <2>1 DEF Owns
<1>5. ASSUME memory'[d'][1] # NONE, NEW j \in Index
      PROVE  \/ memory'[memory'[d'][1]][j] = NONE
             \/ Owns(new, memory[memory[d][1]][j], "page", s, j)'
  <2>1. memory[d][1] # NONE /\ memory'[d'][1] = memory[d][1]
    BY <1>1, <1>2, <1>5
  <2>2. /\ \/ memory[memory[d][1]][j] = NONE
           \/ Owns(own, memory[memory[d][1]][j], "page", s, j)
        /\ memory[d][1] \in Frame
    BY <2>1, Indices DEF Owned, OwnedBy, Owns
  <2>3. memory'[memory[d][1]] = memory[memory[d][1]]
    BY <1>1, <2>2, Indices DEF SameTables, SameTable
  <2> QED  BY <2>1, <2>2, <2>3 DEF Owns
<1> QED  BY <1>3, <1>4, <1>5 DEF OwnedBy

(* Nothing is handed out, and no frame changes its role. *)
LEMMA SameOwned ==
    ASSUME NEW own, Owned(own), next \in Nat, next' \in Nat, next' >= next,
           UNCHANGED memory, \A s \in Space : Dir(s)' = Dir(s),
           \A s \in Space : Holds(own, s)'
    PROVE  Owned(own)'
<1>1. OnlyAt(0) /\ \A s : Alien(own, 0, s)
  BY LowAlien DEF OnlyAt
<1>2. \A f, k, s, i : Owns(own, f, k, s, i) => Owns(own, f, k, s, i)'
  BY Indices DEF Owns
<1>3. \A s \in Space : OwnedBy(own, s)'
  BY <1>1, <1>2, OwnedElsewhere
<1> QED  BY <1>3 DEF Owned

(* What does not reach the new directory does not disturb its making, nor  *)
(* do the steps of a map that it called.                                   *)
LEMMA UnfinishedKept ==
    ASSUME NEW own, Sound(own), NEW x, OnlyAt(x), Making,
           Alien(own, x, local[Creator].space),
           UNCHANGED <<directory, local[Creator]>>,
           \A X \in {LowLinked, LowFilled, LastLinked, LastFilled, Closed} :
               Stage' \in X => Stage \in X
    PROVE  /\ Unfinished(local[Creator].space, local[Creator].pd)'
           /\ memory'[local[Creator].pd] = memory[local[Creator].pd]
<1> DEFINE c == local[Creator]
<1>1. Unfinished(c.space, c.pd) /\ c.space \in Space /\ Dir(c.space) = c.pd /\ c.pd # NONE
  BY Names DEF Sound, Building, Unfinished, Dir, Making
<1>2. SameTables(c.pd)
  BY <1>1, Untouched DEF Sound
<1>3. memory'[c.pd] = memory[c.pd]
  BY <1>2 DEF SameTables
<1>4. Unfinished(c.space, c.pd)'
  BY <1>1, <1>2, <1>3, Indices
  DEF Unfinished, SameTables, SameTable, LowLinked, LowFilled, LastLinked, LastFilled, Closed
<1> QED  BY <1>3, <1>4

LEMMA BuildingKept ==
    ASSUME NEW own, Sound(own), NEW x, OnlyAt(x),
           Making => Alien(own, x, local[Creator].space),
           UNCHANGED <<directory, local[Creator]>>,
           UNCHANGED pc[Creator] \/ (InMap(Creator) /\ InMap(Creator)')
    PROVE  Building' /\ UNCHANGED <<ShownDirectory, ShownTable>>
<1> DEFINE c == local[Creator]
<1>1. CASE ~Making
  BY <1>1 DEF Sound, Building, InMap, ShownDirectory, ShownTable, Making
<1>2. CASE Making
  <2>1. UNCHANGED <<InMap(Creator), Stage>> /\ Making'
    BY <1>2 DEF InMap, Stage, Making
  <2>2. Unfinished(c.space, c.pd)' /\ memory'[c.pd] = memory[c.pd]
    BY <1>2, <2>1, UnfinishedKept
  <2>3. InMap(Creator) => Ordered(c)'
    BY <2>2 DEF Sound, Building, Ordered, Making
  <2>4. UNCHANGED ShownDirectory
    BY <1>2, <2>1 DEF ShownDirectory, Making
  <2>5. UNCHANGED ShownTable
    BY <2>2 DEF ShownTable, InMap, Making
  <2> QED  BY <1>2, <2>1, <2>2, <2>3, <2>4, <2>5 DEF Building, Making
<1> QED  BY <1>1, <1>2

(* Nor does a thread disturb what another one is at. *)
LEMMA CallKept ==
    ASSUME NEW t \in Thread, UNCHANGED <<pc[t], local[t]>>,
           Calling, local[t].page[1] \in Index,
           t \in Space => seen'[t] = seen[t],
           t \in Space /\ directory[t] # NONE => directory'[t] = directory[t],
           InMap(t) => directory'[Home(t)] = directory[Home(t)],
           InMap(t) => SameTable(directory[Home(t)], local[t].page[1])
    PROVE  /\ t \in Space => Growing(t)'
           /\ AtTable(t, memory[directory[Home(t)]][local[t].page[1]])'
<1>1. t \in Space => Growing(t)'
  BY Names DEF Calling, Growing, InMap
<1>2. CASE InMap(t)
  <2> DEFINE d == directory[Home(t)]
             table == memory[d][local[t].page[1]]
  <2>1. d' = d /\ table' = table
    BY <1>2 DEF SameTable
  <2>2. table \in Frame => memory'[table] = memory[table]
    BY <1>2 DEF SameTable
  <2>3. AtTable(t, table)
    BY DEF Calling
  <2> HIDE DEF table, d
  <2>4. AtTable(t, table)'
    BY <2>1, <2>2, <2>3 DEF AtTable
  <2> QED  BY <1>1, <2>4 DEF table, d
<1>3. CASE ~InMap(t)
  BY <1>1, <1>3 DEF AtTable, InMap
<1> QED  BY <1>1, <1>2, <1>3

(* The directory entry that a thread in map works on. *)
LEMMA EntryOf ==
    ASSUME NEW own, Sound(own), cr3 # NONE, NEW t \in Thread, InMap(t)
    PROVE  /\ local[t].page \in Page /\ local[t].page[1] \in {1, 2}
           /\ local[t].page[1] \in Index /\ local[t].page[2] \in Index
           /\ t \in Space => local[t].page \in HeapPage /\ local[t].page[1] = 1
           /\ t = Creator => /\ local[t].page \in {NewDirectoryPage, NewTablePage}
                             /\ local[t].page[1] = 2
           /\ directory[Home(t)] # NONE /\ directory[Home(t)] \in Frame
           /\ LET table == memory[directory[Home(t)]][local[t].page[1]]
              IN  table = NONE \/ Owns(own, table, "table", Home(t), local[t].page[1])
<1>1. local[t].page \in Page
  BY DEF Sound, TypeOK
<1>2. t \in Space => local[t].page \in HeapPage /\ local[t].page[1] = 1
  BY HeapPageNames DEF Sound, Calling, Growing
<1>3. t = Creator => /\ local[t].page \in {NewDirectoryPage, NewTablePage}
                     /\ local[t].page[1] = 2
  BY PageParts DEF Sound, Building, Ordered, Making
<1>4. directory[Home(t)] # NONE /\ directory[Home(t)] \in Frame
  <2>1. directory[Home(t)] # NONE
    BY Names DEF Sound, Booted, Calling, Growing, InMap
  <2> QED  BY <2>1, Names DEF Sound, TypeOK
<1>5. local[t].page[1] \in {1, 2}
  BY <1>2, <1>3, Names
<1>6. Dir(Home(t)) = directory[Home(t)] /\ Home(t) \in Space
  BY <1>4, Names DEF Dir
<1>7. LET table == memory[directory[Home(t)]][local[t].page[1]]
      IN  table = NONE \/ Owns(own, table, "table", Home(t), local[t].page[1])
  BY <1>4, <1>5, <1>6, Indices DEF Sound, Owned, OwnedBy
<1> QED  BY <1>1, <1>2, <1>3, <1>4, <1>5, <1>7, PageNames

(* What a translation is, and the TLB after it. *)
LEMMA TlbTyped ==
    ASSUME NEW own, Sound(own), cr3 # NONE, NEW p \in Page
    PROVE  Remembered(p) \in [Page -> Frame \cup {NONE, JUNK}]
<1>1. Translate(p) \in Frame \cup {NONE, JUNK}
  <2>1. memory \in [Frame -> [Index -> Frame \cup {NONE, JUNK}]] /\ cr3 \in Frame
    BY Here DEF Sound, TypeOK
  <2>2. tlb \in [Page -> Frame \cup {NONE, JUNK}]
    BY DEF Sound, TypeOK
  <2>3. Walk(cr3, p) \in Frame \cup {NONE, JUNK}
    BY <2>1, PageNames DEF Walk
  <2> QED  BY <2>2, <2>3 DEF Translate
<1> QED  BY <1>1 DEF Remembered, Sound, TypeOK

LEMMA Locals ==
    ASSUME TypeOK, NEW t \in Thread
    PROVE  /\ local[t].space \in Space /\ local[t].pd \in Frame \cup {NONE}
           /\ local[t].page \in Page /\ local[t].frame \in Frame \cup {NONE}
           /\ local[t].back \in Labels
           /\ local[t].page[1] \in Index /\ local[t].page[2] \in Index
  BY PageNames DEF TypeOK

LEMMA HoldsKept ==
    ASSUME NEW own, Owned(own), NEW new, NEW s \in Space,
           InMap(s)' => InMap(s) /\ UNCHANGED local[s],
           \A f : Owns(own, f, "held", s, 0) => Owns(new, f, "held", s, 0)'
    PROVE  Holds(new, s)'
<1> SUFFICES ASSUME InMap(s)' PROVE Owns(new, local[s].frame, "held", s, 0)'
  BY DEF Holds
<1>1. PICK f : f = local[s].frame /\ f = local'[s].frame
  OBVIOUS
<1>2. Owns(own, f, "held", s, 0)
  BY <1>1 DEF Owned, Holds
<1>3. Owns(new, f, "held", s, 0)'
  BY <1>2
<1> QED  BY <1>1, <1>3 DEF Owns

(* A step of map that changes nothing of any space. *)
LEMMA QuietCall ==
    ASSUME NEW own, Sound(own), cr3 # NONE, NEW t \in Thread, running = t, InMap(t),
           UNCHANGED <<next, directory, cr3, running, local, seen, top, halted>>,
           NEW label \in {"newTable", "setEntry"}, pc' = [pc EXCEPT ![t] = label],
           NEW q \in Page \ HeapPage, tlb' = Remembered(q),
           OnlyAt(0), memory' \in [Frame -> [Index -> Frame \cup {NONE, JUNK}]],
           AtTable(t, memory[directory[Home(t)]][local[t].page[1]])'
    PROVE  Sound(own)' /\ UNCHANGED <<Mapping, seen, top>>
<1>1. pc'[t] = label /\ \A u \in Thread : u # t => pc'[u] = pc[u]
  BY DEF Sound, TypeOK
<1>2. next \in Nat /\ next >= 2 /\ \A s : Alien(own, 0, s)
  BY LowAlien DEF Sound, TypeOK, Free
<1>3. Hidden(0)
  BY DEF Hidden
<1>4. /\ Whole' /\ TlbCoherent' /\ TlbKnown' /\ Mapping' = Mapping
      /\ \A s \in Space : directory[s] # NONE => SameTables(directory[s])
  BY <1>2, <1>3, Quiet
<1>5. TypeOK'
  BY TlbTyped DEF Sound, TypeOK, Labels
<1>6. \A f, k, s, i : Owns(own, f, k, s, i) => Owns(own, f, k, s, i)'
  BY DEF Owns
<1>7. Owned(own)'
  <2>1. \A s \in Space : Dir(s)' = Dir(s)
    BY DEF Dir
  <2>2. \A s \in Space : OwnedBy(own, s)'
    BY <1>2, <1>6, <2>1, OwnedElsewhere DEF Sound
  <2>3. \A s \in Space : InMap(s)' => InMap(s)
    BY <1>1, Names DEF InMap
  <2>4. \A s \in Space : Holds(own, s)'
    BY <1>6, <2>3, HoldsKept DEF Sound
  <2> QED  BY <2>2, <2>4 DEF Sound, Owned
<1>8. Free' /\ Booted' /\ ~halted'
  <2>1. Free'
    <3>1. \A f \in Frame : f >= next => f # 0
      BY <1>2, Indices
    <3> QED  BY <1>2, <3>1 DEF Sound, Free, OnlyAt
  <2> QED  BY <2>1 DEF Sound, Booted
<1>9. Building' /\ UNCHANGED <<ShownDirectory, ShownTable>>
  <2>1. UNCHANGED <<directory, local[Creator]>>
    OBVIOUS
  <2>2. UNCHANGED pc[Creator] \/ (InMap(Creator) /\ InMap(Creator)')
    BY <1>1, Names DEF InMap
  <2> QED  BY <1>2, <2>1, <2>2, BuildingKept
<1>10. NewMapped'
  <2>1. Kernel \in Space /\ directory[Kernel] # NONE
    BY Names DEF Sound, Booted
  <2>2. /\ Walk(directory[Kernel], NewDirectoryPage)' = Walk(directory[Kernel], NewDirectoryPage)
        /\ Walk(directory[Kernel], NewTablePage)' = Walk(directory[Kernel], NewTablePage)
    BY <1>4, <2>1, SameWalks, PageNames
  <2> QED  BY <1>9, <2>2 DEF Sound, NewMapped
<1>11. Calling'
  <2>1. ASSUME NEW u \in Thread, u # t
        PROVE  /\ u \in Space => Growing(u)'
               /\ AtTable(u, memory[directory[Home(u)]][local[u].page[1]])'
    <3>1. UNCHANGED <<directory, seen, pc[u], local[u]>>
      BY <1>1, <2>1
    <3>2. InMap(u) => SameTable(directory[Home(u)], local[u].page[1])
      BY <1>4, EntryOf, Names DEF SameTables
    <3> QED  BY <3>1, <3>2, CallKept, Locals DEF Sound
  <2>2. t \in Space => Growing(t)'
    BY <1>1 DEF Sound, Calling, Growing, InMap
  <2> QED  BY <2>1, <2>2, Names DEF Calling
<1> QED  BY <1>4, <1>5, <1>7, <1>8, <1>9, <1>10, <1>11 DEF Sound

(* map finds the table, or finds that there is none. *)
LEMMA MapSound ==
    ASSUME NEW own, Sound(own), NEW t \in Thread, map(t)
    PROVE  Sound(own)' /\ UNCHANGED <<Mapping, seen, top>>
<1> DEFINE e == local[t].page[1]
           table == memory[directory[Home(t)]][e]
           label == IF table = NONE THEN "newTable" ELSE "setEntry"
<1>1. /\ cr3 # NONE /\ running = t /\ InMap(t)
      /\ UNCHANGED <<memory, next, directory, cr3, running, local, seen, top, halted>>
      /\ tlb' = Remembered(DirectoryPage)
  BY BootedRuns DEF map, Runs, InMap, paging
<1>2. Contents(DirectoryPage) = memory[cr3] /\ cr3 = directory[Home(t)]
  BY <1>1, Here, PageNames DEF Contents
<1>3. pc' = [pc EXCEPT ![t] = label] /\ label \in {"newTable", "setEntry"}
  BY <1>2 DEF map, Goto
<1>4. OnlyAt(0) /\ memory' \in [Frame -> [Index -> Frame \cup {NONE, JUNK}]]
  BY <1>1 DEF OnlyAt, Sound, TypeOK
<1>5. AtTable(t, table)'
  BY <1>1, <1>3, EntryOf DEF Sound, TypeOK, AtTable, Owns
<1>6. DirectoryPage \in Page \ HeapPage
  BY PageNames, OtherPages
<1> QED  BY <1>1, <1>3, <1>4, <1>5, <1>6, QuietCall

(* The clearing of a new table clears page 0, because the table is clear.  *)
LEMMA ClearTableSound ==
    ASSUME NEW own, Sound(own), NEW t \in Thread, ClearTable(t)
    PROVE  Sound(own)' /\ UNCHANGED <<Mapping, seen, top>>
<1> DEFINE e == local[t].page[1]
           table == memory[cr3][e]
<1>1. /\ cr3 # NONE /\ running = t /\ InMap(t) /\ pc[t] = "clearTable"
      /\ UNCHANGED <<next, directory, cr3, running, local, seen, top>>
      /\ tlb' = Remembered(TablePage(e))
      /\ pc' = [pc EXCEPT ![t] = "setEntry"]
      /\ \E p \in IF Contents(TablePage(e))[0] = NONE THEN {<<0, 0>>} ELSE Page : Store(p, Zero)
  BY BootedRuns DEF ClearTable, Runs, InMap, paging, Goto
<1>2. cr3 = directory[Home(t)] /\ cr3 \in Frame /\ Complete(cr3) /\ e \in Index
  BY <1>1, Here, EntryOf
<1>3. table \in Frame /\ memory[table][0] = NONE
  BY <1>1, <1>2 DEF Sound, Calling, AtTable
<1>4. Translate(TablePage(e)) = table
  BY <1>1, <1>2, Here, PageNames
<1>5. Store(<<0, 0>>, Zero)
  BY <1>1, <1>3, <1>4 DEF Contents
<1>6. Translate(<<0, 0>>) = 0 /\ 0 \in Frame
  <2>1. 0 \in Index /\ <<0, 0>> \in Page /\ 0 \in Frame
    BY Indices, PageNames
  <2>2. Walk(cr3, <<0, 0>>) = 0
    BY <1>2, <2>1, IdentityIs DEF Walk, Complete
  <2> QED  BY <1>1, <2>1, <2>2, Here
<1>7. memory' = [memory EXCEPT ![0] = Zero] /\ halted' = halted
  BY <1>5, <1>6 DEF Store
<1>8. OnlyAt(0) /\ memory' \in [Frame -> [Index -> Frame \cup {NONE, JUNK}]]
  BY <1>6, <1>7, ZeroIs DEF OnlyAt, Sound, TypeOK
<1>9. AtTable(t, memory[directory[Home(t)]][local[t].page[1]])'
  <2>1. memory'[cr3][e] = table
    <3>1. cr3 # 0
      BY <1>1, Here, Indices DEF Owns
    <3> QED  BY <1>2, <1>8, <3>1 DEF OnlyAt
  <2> QED  BY <1>1, <1>2, <1>3, <2>1 DEF Sound, TypeOK, AtTable
<1>10. TablePage(e) \in Page \ HeapPage
  BY <1>2, PageNames, OtherPages
<1> QED  BY <1>1, <1>7, <1>8, <1>9, <1>10, QuietCall

(* The TLB after a change of the tables: what changed was not remembered,  *)
(* or is forgotten.                                                        *)
LEMMA TlbKept ==
    ASSUME NEW own, Sound(own), cr3 # NONE, UNCHANGED <<cr3, running, seen, top>>,
           \A p \in Page : tlb'[p] \in {NONE, tlb[p], Walk(cr3, p)},
           \A p \in HeapPage : tlb'[p] \in {NONE, tlb[p]},
           \A p \in Page : \/ Walk(cr3, p)' = Walk(cr3, p)
                           \/ Walk(cr3, p) = NONE
                           \/ tlb'[p] = NONE
    PROVE  TlbCoherent' /\ TlbKnown'
<1>1. \A p \in Page : tlb[p] \in {NONE, Walk(cr3, p)}
  BY DEF Sound, TlbCoherent
<1>2. \A p \in Page : tlb'[p] \in {NONE, Walk(cr3, p)'}
  BY <1>1
<1>3. TlbCoherent'
  BY <1>2 DEF TlbCoherent
<1>4. TlbKnown'
  BY DEF Sound, TlbKnown
<1> QED  BY <1>3, <1>4

LEMMA RememberedIs ==
    ASSUME NEW own, Sound(own), cr3 # NONE, NEW q \in Page \ HeapPage
    PROVE  /\ \A p \in Page : Remembered(q)[p] \in {tlb[p], Walk(cr3, p)}
           /\ \A p \in HeapPage : Remembered(q)[p] = tlb[p]
           /\ \A p \in Page : p # q => Remembered(q)[p] = tlb[p]
  BY Here, HeapPageNames DEF Remembered, Sound, TypeOK

(* The space that is being made is not that of any thread. *)
LEMMA NotBuilt ==
    ASSUME NEW own, Sound(own), Making
    PROVE  /\ local[Creator].space \in Space
           /\ directory[local[Creator].space] = NONE
           /\ Dir(local[Creator].space) = local[Creator].pd
           /\ local[Creator].pd \in Frame
  BY Names DEF Sound, Building, Unfinished, Dir, Making

(* Two threads of one space do not map through the same table. *)
LEMMA OtherEntry ==
    ASSUME NEW own, Sound(own), cr3 # NONE, NEW t \in Thread, NEW u \in Thread,
           InMap(t), InMap(u), Home(t) = Home(u), t # u
    PROVE  local[t].page[1] # local[u].page[1]
<1>1. (t = Creator /\ u \in Space) \/ (u = Creator /\ t \in Space)
  BY Names
<1> QED  BY <1>1, EntryOf

(* A store into the tables of the space on the processor: into entry e of  *)
(* its directory or into the table there.                                  *)
Reaches(own, x, e) ==
    /\ OnlyAt(x)
    /\ \/ Owns(own, x, "directory", Home(running), 0) /\ x = cr3
       \/ Owns(own, x, "table", Home(running), e) /\ x = memory[cr3][e]
    /\ \A i \in Index \ {e} : memory'[cr3][i] = memory[cr3][i]

LEMMA ReachesKept ==
    ASSUME NEW own, Sound(own), cr3 # NONE, UNCHANGED <<cr3, running>>,
           \A s \in Space : directory[s] # NONE => directory'[s] = directory[s],
           NEW e \in {1, 2}, NEW x, Reaches(own, x, e)
    PROVE  /\ \A s \in Space : directory[s] # NONE => Complete(directory[s])'
           /\ directory' = directory => Whole'
           /\ \A s \in Space : s # Home(running) /\ directory[s] # NONE => SameTables(directory[s])
           /\ \A i \in Index \ {e, Entries - 1} : SameTable(cr3, i)
           /\ \A s \in Space : s # Home(running) => Alien(own, x, s)
           /\ Making => Alien(own, x, local[Creator].space)
<1> DEFINE h == Home(running)
<1>1. h \in Space /\ directory[h] = cr3 /\ Dir(h) = cr3 /\ cr3 \in Frame /\ Complete(cr3)
  BY Here
<1>2. \A s \in Space : s # h => Alien(own, x, s)
  BY OtherRole DEF Reaches
<1>3. Making => Alien(own, x, local[Creator].space)
  BY <1>1, <1>2, NotBuilt, Here
<1>4. \A s \in Space : s # h /\ directory[s] # NONE => SameTables(directory[s])
  BY <1>2, Untouched DEF Reaches, Dir, Sound
<1>5. e \in Index
  BY Indices
<1>6. OwnedBy(own, h)
  BY <1>1 DEF Sound, Owned
<1>7. ASSUME NEW i \in Index \ {e, Entries - 1} PROVE SameTable(cr3, i)
  <2>1. memory'[cr3][i] = memory[cr3][i]
    BY <1>7 DEF Reaches
  <2>2. ASSUME memory[cr3][i] \in Frame PROVE memory[cr3][i] # x
    <3>1. Owns(own, memory[cr3][i], "table", h, i)
      BY <1>1, <1>6, <2>2, Names DEF OwnedBy
    <3> QED  BY <1>7, <3>1, Distinct DEF Reaches
  <2> QED  BY <2>1, <2>2 DEF SameTable, Reaches, OnlyAt
<1>8. Complete(cr3)'
  <2>1. /\ SameTable(cr3, 0) /\ SameTable(cr3, Entries - 2)
        /\ memory'[cr3][Entries - 1] = memory[cr3][Entries - 1]
    BY <1>5, <1>7, Indices DEF Reaches
  <2> QED  BY <1>1, <2>1 DEF Complete, SameTable
<1>9. ASSUME NEW s \in Space, directory[s] # NONE PROVE Complete(directory[s])'
  <2>1. PICK d : d = directory[s] /\ d = directory'[s]
    BY <1>9
  <2>2. Complete(d) /\ (d = cr3 \/ SameTables(d))
    BY <1>1, <1>4, <1>9, <2>1 DEF Sound, Whole
  <2>3. Complete(d)'
    BY <1>8, <2>2, SameWalks DEF Complete
  <2> QED  BY <2>1, <2>3 DEF Complete
<1> QED  BY <1>2, <1>3, <1>4, <1>7, <1>9 DEF Whole

(* The calls of other threads then go on as they were.                     *)
LEMMA OthersCall ==
    ASSUME NEW own, Sound(own), cr3 # NONE, UNCHANGED <<cr3, running, seen, top>>,
           \A s \in Space : directory[s] # NONE => directory'[s] = directory[s],
           NEW t \in Thread, InMap(t), running = t,
           NEW x, Reaches(own, x, local[t].page[1]),
           NEW u \in Thread, u # t, UNCHANGED <<pc[u], local[u]>>
    PROVE  /\ u \in Space => Growing(u)'
           /\ AtTable(u, memory[directory[Home(u)]][local[u].page[1]])'
<1> DEFINE e == local[t].page[1]
<1>1. e \in {1, 2}
  BY EntryOf
<1>2. InMap(u) => SameTable(directory[Home(u)], local[u].page[1])
  <2> SUFFICES ASSUME InMap(u) PROVE SameTable(directory[Home(u)], local[u].page[1])
    OBVIOUS
  <2>1. local[u].page[1] \in {1, 2} /\ local[u].page[1] \in Index /\ directory[Home(u)] # NONE
    BY EntryOf
  <2>2. CASE Home(u) = Home(t)
    <3>1. local[u].page[1] \in Index \ {e, Entries - 1}
      BY <2>1, <2>2, OtherEntry, Indices
    <3>2. directory[Home(u)] = cr3
      BY <2>2, Here
    <3> QED  BY <1>1, <3>1, <3>2, ReachesKept
  <2>3. CASE Home(u) # Home(t)
    BY <1>1, <2>1, <2>3, ReachesKept, Names DEF SameTables
  <2> QED  BY <2>2, <2>3
<1>3. InMap(u) => directory'[Home(u)] = directory[Home(u)]
  BY EntryOf, Names
<1> QED  BY <1>2, <1>3, CallKept, Locals DEF Sound

LEMMA NewTableSound ==
    ASSUME NEW own, Sound(own), NEW t \in Thread, NewTable(t)
    PROVE  Owning' /\ UNCHANGED <<Mapping, seen, top>>
<1> DEFINE e == local[t].page[1]
           h == Home(t)
<1>0. PICK new : new = [own EXCEPT ![next] = <<"table", h, e>>]
  OBVIOUS
<1>1. /\ cr3 # NONE /\ running = t /\ InMap(t) /\ pc[t] = "newTable"
      /\ UNCHANGED <<directory, cr3, running, local, seen, top>>
      /\ next \in Frame /\ next' = next + 1
      /\ pc' = [pc EXCEPT ![t] = "clearTable"]
      /\ tlb' = Remembered(DirectoryPage)
  BY BootedRuns DEF NewTable, Runs, InMap, paging, Allocate, Goto
<1>2. /\ h \in Space /\ directory[h] = cr3 /\ Dir(h) = cr3 /\ cr3 \in Frame
      /\ Translate(DirectoryPage) = cr3 /\ Walk(cr3, DirectoryPage) = cr3
      /\ Contents(DirectoryPage) = memory[cr3]
  BY <1>1, Here, PageNames DEF Contents
<1>3. /\ memory' = [memory EXCEPT ![cr3] = [memory[cr3] EXCEPT ![e] = next]]
      /\ halted' = halted
  BY <1>2 DEF NewTable, Store
<1>4. e \in {1, 2} /\ e \in Index
  BY <1>1, EntryOf
<1>5. memory[cr3][e] = NONE
  BY <1>1, <1>2 DEF Sound, Calling, AtTable
<1>6. Owns(own, cr3, "directory", h, 0) /\ OwnedBy(own, h)
  BY <1>2, Names DEF Sound, TypeOK, Owned, OwnedBy
<1>7. /\ memory \in [Frame -> [Index -> Frame \cup {NONE, JUNK}]]
      /\ memory[cr3] \in [Index -> Frame \cup {NONE, JUNK}]
      /\ next \in Nat /\ next >= 2 /\ memory[next] = Zero /\ next # cr3
  <2>1. /\ memory \in [Frame -> [Index -> Frame \cup {NONE, JUNK}]]
        /\ next \in Nat /\ next >= 2 /\ \A f \in Frame : f >= next => memory[f] = Zero
    BY DEF Sound, TypeOK, Free
  <2>2. next # cr3
    BY <1>6, <2>1 DEF Owns
  <2> QED  BY <1>1, <1>2, <2>1, <2>2
<1>8. /\ memory'[cr3][e] = next /\ \A i \in Index \ {e} : memory'[cr3][i] = memory[cr3][i]
      /\ OnlyAt(cr3) /\ memory'[next] = Zero
  BY <1>1, <1>2, <1>3, <1>4, <1>7 DEF OnlyAt
<1>9. Reaches(own, cr3, e)
  BY <1>1, <1>6, <1>8 DEF Reaches
<1>10. /\ Whole'
       /\ \A s \in Space : s # h /\ directory[s] # NONE => SameTables(directory[s])
       /\ \A i \in Index \ {e, Entries - 1} : SameTable(cr3, i)
       /\ \A s \in Space : s # h => Alien(own, cr3, s)
       /\ Making => Alien(own, cr3, local[Creator].space)
  BY <1>1, <1>4, <1>9, ReachesKept
<1>11. \A p \in Page : \/ Walk(cr3, p)' = Walk(cr3, p)
                       \/ Walk(cr3, p) = NONE /\ p[1] = Entries - 1
  <2> SUFFICES ASSUME NEW p \in Page
               PROVE  \/ Walk(cr3, p)' = Walk(cr3, p)
                      \/ Walk(cr3, p) = NONE /\ p[1] = Entries - 1
    OBVIOUS
  <2>0. p[1] \in Index /\ p[2] \in Index /\ cr3' = cr3
    BY <1>1, PageNames
  <2>1. CASE p[1] = e
    <3>1. Walk(cr3, p) = NONE
      BY <1>5, <2>1, Names DEF Walk
    <3>2. Walk(cr3, p)' = NONE
      BY <1>1, <1>8, <2>0, <2>1, ZeroIs DEF Walk
    <3> QED  BY <3>1, <3>2
  <2>2. CASE p[1] = Entries - 1
    <3>1. Walk(cr3, p) = memory[cr3][p[2]] /\ Walk(cr3, p)' = memory'[cr3][p[2]]
      BY <1>1, <1>2, <1>4, <1>8, <2>0, <2>2, Here, Indices DEF Walk, Complete
    <3> QED  BY <1>5, <1>8, <2>0, <2>2, <3>1
  <2>3. CASE p[1] \notin {e, Entries - 1}
    BY <1>10, <2>0, <2>3, SameWalk
  <2> QED  BY <2>1, <2>2, <2>3
<1>12. \A s \in Space : directory[s] # NONE =>
           \A p \in Page : p[1] # Entries - 1 => Walk(directory[s], p)' = Walk(directory[s], p)
  <2> SUFFICES ASSUME NEW s \in Space, directory[s] # NONE, NEW p \in Page, p[1] # Entries - 1
               PROVE  Walk(directory[s], p)' = Walk(directory[s], p)
    OBVIOUS
  <2>1. CASE s = h
    BY <1>1, <1>2, <1>11, <2>1
  <2>2. CASE s # h
    BY <1>1, <1>10, <2>2, SameWalks
  <2> QED  BY <2>1, <2>2
<1>13. TlbCoherent' /\ TlbKnown'
  <2>1. DirectoryPage \in Page \ HeapPage
    BY PageNames, OtherPages
  <2> QED  BY <1>1, <1>11, <2>1, RememberedIs, TlbKept
<1>14. TypeOK' /\ ~halted' /\ Free' /\ Booted'
  <2>1. TypeOK'
    <3>1. memory' \in [Frame -> [Index -> Frame \cup {NONE, JUNK}]]
      BY <1>1, <1>2, <1>3, <1>4, <1>7
    <3>2. tlb' \in [Page -> Frame \cup {NONE, JUNK}]
      BY <1>1, TlbTyped, PageNames
    <3> QED  BY <1>1, <1>3, <1>7, <3>1, <3>2 DEF Sound, TypeOK, Labels
  <2>2. Free'
    BY <1>1, <1>6, <1>7, <1>8, Indices DEF Sound, Free, Owns, OnlyAt
  <2>3. Booted' /\ ~halted'
    BY <1>1, <1>3 DEF Sound, Booted
  <2> QED  BY <2>1, <2>2, <2>3
<1>15. Owned(new)'
  <2>1. new \in [Frame -> Role] /\ next' \in Nat
    BY <1>0, <1>1, <1>2, <1>4, <1>7 DEF Sound, Owned, Role
  <2>2. \A f, k, s, i : Owns(own, f, k, s, i) => Owns(new, f, k, s, i)'
    BY <1>0, <1>1, <1>7, Indices DEF Owns, Sound, Owned
  <2>3. \A s \in Space : Dir(s)' = Dir(s)
    BY <1>1 DEF Dir
  <2>4. \A s \in Space : s # h => OwnedBy(new, s)'
    BY <1>1, <1>8, <1>10, <2>2, <2>3, OwnedElsewhere DEF Sound
  <2>5. OwnedBy(new, h)'
    <3>1. PICK n : n = next /\ Owns(new, n, "table", h, e)'
      BY <1>0, <1>1, <1>7 DEF Owns, Sound, Owned
    <3>2. Owns(new, Dir(h), "directory", h, 0)'
      BY <1>1, <1>2, <1>6, <2>2, <2>3 DEF Owns
    <3>3. ASSUME NEW i \in Index
          PROVE  \/ memory'[cr3][i] = NONE
                 \/ i = Entries - 1 /\ memory'[cr3][i] = cr3
                 \/ Owns(new, memory[cr3][i], "table", h, i)'
      <4>1. CASE i = e
        BY <1>1, <1>8, <3>1, <4>1 DEF Owns
      <4>2. CASE i # e
        <5>1. PICK g : g = memory[cr3][i] /\ g = memory'[cr3][i]
          BY <1>8, <4>2
        <5>2. \/ g = NONE
              \/ i = Entries - 1 /\ g = cr3
              \/ Owns(new, g, "table", h, i)'
          BY <1>2, <1>6, <2>2, <5>1, Names DEF OwnedBy
        <5> QED  BY <1>1, <5>1, <5>2 DEF Owns
      <4> QED  BY <4>1, <4>2
    <3>4. ASSUME memory'[cr3][1] # NONE, NEW j \in Index
          PROVE  \/ memory'[memory'[cr3][1]][j] = NONE
                 \/ Owns(new, memory[memory[cr3][1]][j], "page", h, j)'
      <4>1. CASE e = 1
        BY <1>8, <4>1, ZeroIs
      <4>2. CASE e # 1
        <5>1. 1 \in Index /\ 1 # Entries - 1 /\ memory[cr3][1] = memory'[cr3][1]
          BY <1>8, <4>2, Indices
        <5>2. Owns(own, memory[cr3][1], "table", h, 1)
          BY <1>2, <1>6, <3>4, <5>1, Names DEF OwnedBy
        <5>3. memory'[memory[cr3][1]] = memory[memory[cr3][1]]
          BY <1>10, <4>2, <5>1, <5>2 DEF SameTable, Owns
        <5>4. PICK g : g = memory[memory[cr3][1]][j]
          OBVIOUS
        <5>5. g = NONE \/ Owns(new, g, "page", h, j)'
          BY <1>2, <1>6, <2>2, <3>4, <5>1, <5>4, Names DEF OwnedBy
        <5> QED  BY <1>1, <5>1, <5>3, <5>4, <5>5 DEF Owns
      <4> QED  BY <4>1, <4>2
    <3> QED  BY <1>1, <1>2, <2>3, <3>2, <3>3, <3>4 DEF OwnedBy
  <2>6. \A s \in Space : Holds(new, s)'
    BY <1>1, <2>2, HoldsKept DEF Sound, InMap, TypeOK
  <2> QED  BY <2>1, <2>4, <2>5, <2>6 DEF Owned
<1>16. Building' /\ UNCHANGED <<ShownDirectory, ShownTable>>
  <2>1. UNCHANGED <<directory, local[Creator]>>
    BY <1>1
  <2>2. UNCHANGED pc[Creator] \/ (InMap(Creator) /\ InMap(Creator)')
    BY <1>1 DEF InMap, Sound, TypeOK
  <2> QED  BY <1>8, <1>10, <2>1, <2>2, BuildingKept
<1>17. NewMapped'
  <2>1. directory[Kernel] # NONE /\ Kernel \in Space
    BY <1>1, Names DEF Sound, Booted
  <2>2. 2 # Entries - 1
    BY Indices
  <2>3. /\ Walk(directory[Kernel], NewDirectoryPage)' = Walk(directory[Kernel], NewDirectoryPage)
        /\ Walk(directory[Kernel], NewTablePage)' = Walk(directory[Kernel], NewTablePage)
    BY <1>12, <2>1, <2>2, PageNames, PageParts
  <2> QED  BY <1>1, <1>16, <2>3 DEF Sound, NewMapped
<1>18. Calling'
  <2>1. ASSUME NEW u \in Thread, u # t
        PROVE  /\ u \in Space => Growing(u)'
               /\ AtTable(u, memory[directory[Home(u)]][local[u].page[1]])'
    <3>1. UNCHANGED <<pc[u], local[u]>>
      BY <1>1, <2>1 DEF Sound, TypeOK
    <3> QED  BY <1>1, <1>9, <2>1, <3>1, OthersCall
  <2>2. t \in Space => Growing(t)'
    BY <1>1 DEF Sound, TypeOK, Calling, Growing, InMap
  <2>3. AtTable(t, memory[directory[Home(t)]][local[t].page[1]])'
    BY <1>1, <1>2, <1>8, ZeroIs, Indices DEF Sound, TypeOK, AtTable
  <2> QED  BY <2>1, <2>2, <2>3, Names DEF Calling
<1>19. Mapping' = Mapping
  <2>1. \A p \in HeapPage : p \in Page /\ p[1] # Entries - 1
    BY HeapPageNames, Indices
  <2> QED  BY <1>1, <1>12, <2>1 DEF Mapping
<1> QED
  BY <1>1, <1>10, <1>13, <1>14, <1>15, <1>16, <1>17, <1>18, <1>19 DEF Sound, Owning

(* One entry of the table that entry e of the directory refers to.         *)
TableStore(own, e, j, v) ==
    LET table == memory[cr3][e]
    IN  /\ Owns(own, table, "table", Home(running), e)
        /\ memory' = [memory EXCEPT ![table] = [memory[table] EXCEPT ![j] = v]]
        /\ UNCHANGED <<cr3, running>>
        /\ \A s \in Space : directory[s] # NONE => directory'[s] = directory[s]

LEMMA TableStoreKept ==
    ASSUME NEW own, Sound(own), cr3 # NONE,
           NEW e \in {1, 2}, NEW j \in Index, NEW v \in Frame \cup {NONE},
           TableStore(own, e, j, v)
    PROVE  /\ Reaches(own, memory[cr3][e], e)
           /\ memory' \in [Frame -> [Index -> Frame \cup {NONE, JUNK}]]
           /\ memory'[cr3] = memory[cr3]
           /\ next' = next => Free'
           /\ \A i \in Index : i # j => memory'[memory[cr3][e]][i] = memory[memory[cr3][e]][i]
           /\ memory'[memory[cr3][e]][j] = v
           /\ \A p \in Page : Walk(cr3, p)' = IF p = <<e, j>> THEN v ELSE Walk(cr3, p)
           /\ \A s \in Space : s # Home(running) /\ directory[s] # NONE =>
                 \A p \in Page : Walk(directory[s], p)' = Walk(directory[s], p)
<1> DEFINE table == memory[cr3][e]
<1>1. /\ e \in Index /\ e # Entries - 1 /\ table \in Frame /\ table # cr3 /\ cr3 \in Frame
      /\ Complete(cr3) /\ UNCHANGED <<cr3, running>>
      /\ \A s \in Space : directory[s] # NONE => directory'[s] = directory[s]
  <2>1. table # cr3
    BY Here, Distinct DEF TableStore
  <2> QED  BY <2>1, Indices, Here DEF TableStore, Owns
<1>2. memory \in [Frame -> [Index -> Frame \cup {NONE, JUNK}]] /\ memory[table] \in [Index -> Frame \cup {NONE, JUNK}]
  BY <1>1 DEF Sound, TypeOK
<1>3. memory' = [memory EXCEPT ![table] = [memory[table] EXCEPT ![j] = v]]
  BY DEF TableStore
<1>4. /\ memory' \in [Frame -> [Index -> Frame \cup {NONE, JUNK}]]
      /\ memory'[cr3] = memory[cr3] /\ OnlyAt(table)
      /\ \A i \in Index : i # j => memory'[table][i] = memory[table][i]
      /\ memory'[table][j] = v
  BY <1>1, <1>2, <1>3 DEF OnlyAt
<1>5. next' = next => Free'
  <2>1. next \in Nat /\ table < next
    BY DEF Sound, TypeOK, TableStore, Owns
  <2>2. \A f \in Frame : f >= next => f # table
    BY <2>1, Indices
  <2> QED  BY <1>4, <2>2 DEF Sound, Free, OnlyAt
<1>6. Reaches(own, table, e)
  BY <1>4 DEF Reaches, TableStore
<1>7. /\ \A i \in Index \ {e, Entries - 1} : SameTable(cr3, i)
      /\ \A s \in Space : s # Home(running) /\ directory[s] # NONE => SameTables(directory[s])
  BY <1>1, <1>6, ReachesKept
<1>8. ASSUME NEW p \in Page
      PROVE  Walk(cr3, p)' = IF p = <<e, j>> THEN v ELSE Walk(cr3, p)
  <2>0. p[1] \in Index /\ p[2] \in Index /\ p = <<p[1], p[2]>>
    BY PageNames
  <2>1. CASE p[1] = e
    <3>1. Walk(cr3, p) = memory[table][p[2]] /\ Walk(cr3, p)' = memory'[table][p[2]]
      BY <1>1, <1>4, <2>1 DEF Walk
    <3>2. p = <<e, j>> <=> p[2] = j
      BY <2>0, <2>1
    <3> QED  BY <1>4, <2>0, <3>1, <3>2
  <2>2. CASE p[1] # e
    <3>1. p # <<e, j>>
      BY <2>2
    <3>2. p[1] # Entries - 1 => Walk(cr3, p)' = Walk(cr3, p)
      BY <1>1, <1>7, <2>0, <2>2, SameWalk
    <3>3. p[1] = Entries - 1 => Walk(cr3, p)' = Walk(cr3, p)
      BY <1>1, <1>4 DEF Walk, Complete
    <3> QED  BY <3>1, <3>2, <3>3
  <2> QED  BY <2>1, <2>2
<1>9. \A s \in Space : s # Home(running) /\ directory[s] # NONE =>
          \A p \in Page : Walk(directory[s], p)' = Walk(directory[s], p)
  BY <1>1, <1>7, SameWalks
<1> QED  BY <1>4, <1>5, <1>6, <1>8, <1>9

LEMMA TableStoreOwned ==
    ASSUME NEW own, Sound(own), cr3 # NONE,
           NEW e \in {1, 2}, NEW j \in Index, NEW v \in Frame \cup {NONE},
           TableStore(own, e, j, v), NEW new,
           \A s \in Space : Dir(s)' = Dir(s),
           \A f, s, i : \A k \in {"directory", "table", "page"} :
               Owns(own, f, k, s, i) => Owns(new, f, k, s, i)',
           e = 1 => v = NONE \/ Owns(new, v, "page", Home(running), j)'
    PROVE  \A s \in Space : OwnedBy(new, s)'
<1> DEFINE h == Home(running)
           table == memory[cr3][e]
<1>1. /\ Dir(h) = cr3 /\ Dir(h)' = cr3 /\ cr3' = cr3 /\ h \in Space /\ h' = h
      /\ OwnedBy(own, h) /\ Owns(own, cr3, "directory", h, 0)
  BY Here DEF TableStore
<1>2. /\ memory'[cr3] = memory[cr3]
      /\ \A i \in Index : i # j => memory'[table][i] = memory[table][i]
      /\ memory'[table][j] = v
      /\ Reaches(own, table, e)
      /\ \A i \in Index \ {e, Entries - 1} : SameTable(cr3, i)
      /\ \A s \in Space : s # h => Alien(own, table, s)
  <2>1. /\ UNCHANGED <<cr3, running>>
        /\ \A s \in Space : directory[s] # NONE => directory'[s] = directory[s]
    BY DEF TableStore
  <2>2. /\ memory'[cr3] = memory[cr3]
        /\ \A i \in Index : i # j => memory'[table][i] = memory[table][i]
        /\ memory'[table][j] = v
        /\ Reaches(own, table, e)
    BY TableStoreKept
  <2>3. /\ \A i \in Index \ {e, Entries - 1} : SameTable(cr3, i)
        /\ \A s \in Space : s # h => Alien(own, table, s)
    BY <2>1, <2>2, ReachesKept
  <2> QED  BY <2>2, <2>3
<1>3. ASSUME NEW s \in Space, s # h PROVE OwnedBy(new, s)'
  <2>1. PICK x : x = table
    OBVIOUS
  <2> QED  BY <1>2, <1>3, <2>1, OwnedElsewhere DEF Reaches, Sound
<1>4. OwnedBy(new, h)'
  <2>1. Owns(new, Dir(h), "directory", h, 0)'
    BY <1>1 DEF Owns
  <2>2. ASSUME NEW i \in Index
        PROVE  \/ memory'[cr3][i] = NONE
               \/ i = Entries - 1 /\ memory'[cr3][i] = cr3
               \/ Owns(new, memory[cr3][i], "table", h, i)'
    <3>1. PICK g : g = memory[cr3][i] /\ g = memory'[cr3][i]
      BY <1>2
    <3>2. \/ g = NONE
          \/ i = Entries - 1 /\ g = cr3
          \/ Owns(new, g, "table", h, i)'
      BY <1>1, <3>1, Names DEF OwnedBy
    <3> QED  BY <1>1, <3>1, <3>2 DEF Owns
  <2>3. ASSUME memory'[cr3][1] # NONE, NEW i \in Index
        PROVE  \/ memory'[memory'[cr3][1]][i] = NONE
               \/ Owns(new, memory[memory[cr3][1]][i], "page", h, i)'
    <3>1. CASE e = 1 /\ i = j
      BY <1>1, <1>2, <3>1 DEF Owns
    <3>2. CASE e # 1 \/ i # j
      <4>1. memory'[memory[cr3][1]][i] = memory[memory[cr3][1]][i]
        <5>1. CASE e = 1
          BY <1>2, <3>2, <5>1
        <5>2. CASE e # 1
          <6>1. 1 \in Index \ {e, Entries - 1}
            BY <5>2, Indices
          <6>2. memory[cr3][1] \in Frame
            BY <1>1, <1>2, <2>3, <6>1, Names DEF OwnedBy, Owns
          <6> QED  BY <1>2, <6>1, <6>2 DEF SameTable
        <5> QED  BY <5>1, <5>2
      <4>2. PICK g : g = memory[memory[cr3][1]][i]
        OBVIOUS
      <4>3. g = NONE \/ Owns(new, g, "page", h, i)'
        BY <1>1, <1>2, <2>3, <4>2, Names DEF OwnedBy
      <4> QED  BY <1>1, <1>2, <4>1, <4>2, <4>3 DEF Owns
    <3> QED  BY <3>1, <3>2
  <2> QED  BY <1>1, <2>1, <2>2, <2>3 DEF OwnedBy
<1> QED
  <2>1. PICK r : r = h
    OBVIOUS
  <2> QED  BY <1>1, <1>3, <1>4, <2>1

(* What map is called with. *)
LEMMA Argument ==
    ASSUME NEW own, Sound(own), NEW t \in Thread, InMap(t)
    PROVE  /\ local[t].frame \in Frame
           /\ t \in Space => Owns(own, local[t].frame, "held", t, 0)
<1>1. t \in Space => Owns(own, local[t].frame, "held", t, 0)
  BY DEF Sound, Owned, Holds, InMap
<1>2. t = Creator => local[t].frame \in Frame
  <2> SUFFICES ASSUME t = Creator PROVE local[t].frame \in Frame
    OBVIOUS
  <2>1. Ordered(local[t]) /\ Unfinished(local[t].space, local[t].pd) /\ Stage = local[t].back
    BY DEF Sound, Building, InMap, Stage, Making
  <2> QED
    BY <2>1 DEF Ordered, Unfinished, LowLinked, LowFilled, LastLinked
<1> QED  BY <1>1, <1>2, Names DEF Owns

(* The last step of map: what it stores and what it leaves alone. *)
LEMMA SetEntryIs ==
    ASSUME NEW own, Sound(own), NEW t \in Thread, SetEntry(t)
    PROVE  LET e == local[t].page[1]  j == local[t].page[2]
           IN  /\ cr3 # NONE /\ running = t /\ InMap(t)
               /\ UNCHANGED <<next, directory, cr3, running, local, seen, top, halted>>
               /\ pc' = [pc EXCEPT ![t] = local[t].back]
               /\ tlb' = Remembered(TablePage(e)) /\ TablePage(e) \in Page \ HeapPage
               /\ e \in {1, 2} /\ j \in Index /\ local[t].page = <<e, j>>
               /\ TableStore(own, e, j, local[t].frame)
               /\ TypeOK' /\ Free' /\ Booted' /\ ~halted' /\ Whole'
               /\ \A u \in Thread : u # t =>
                     /\ UNCHANGED <<pc[u], local[u]>>
                     /\ u \in Space => Growing(u)'
                     /\ AtTable(u, memory[directory[Home(u)]][local[u].page[1]])'
<1> DEFINE e == local[t].page[1]
           j == local[t].page[2]
           v == local[t].frame
           table == memory[cr3][e]
<1>1. /\ cr3 # NONE /\ running = t /\ InMap(t) /\ pc[t] = "setEntry"
      /\ UNCHANGED <<next, directory, cr3, running, local, seen, top>>
      /\ pc' = [pc EXCEPT ![t] = local[t].back]
      /\ tlb' = Remembered(TablePage(e))
  BY BootedRuns DEF SetEntry, Runs, InMap, paging, Goto
<1>2. /\ e \in {1, 2} /\ e \in Index /\ j \in Index /\ local[t].page = <<e, j>>
      /\ v \in Frame
  BY <1>1, EntryOf, Argument, PageNames
<1>3. cr3 = directory[Home(t)] /\ Translate(TablePage(e)) = table
  BY <1>1, <1>2, Here, PageNames
<1>4. table \in Frame /\ Owns(own, table, "table", Home(running), e)
  BY <1>1, <1>2, <1>3, EntryOf, Names DEF Sound, Calling, AtTable
<1>5. /\ memory' = [memory EXCEPT ![table] = [memory[table] EXCEPT ![j] = v]]
      /\ halted' = halted
  BY <1>3, <1>4 DEF SetEntry, Store, Contents
<1>6. TableStore(own, e, j, v)
  BY <1>1, <1>4, <1>5 DEF TableStore
<1>7. TablePage(e) \in Page \ HeapPage
  BY <1>2, PageNames, OtherPages
<1>8. /\ Reaches(own, table, e) /\ Free'
      /\ memory' \in [Frame -> [Index -> Frame \cup {NONE, JUNK}]]
  BY <1>1, <1>2, <1>6, TableStoreKept
<1>9. Whole'
  BY <1>1, <1>2, <1>8, ReachesKept
<1>10. TypeOK' /\ Booted' /\ ~halted'
  <2>1. tlb' \in [Page -> Frame \cup {NONE, JUNK}]
    BY <1>1, <1>7, TlbTyped
  <2>2. local[t].back \in Labels
    BY Locals DEF Sound
  <2>3. TypeOK'
    BY <1>1, <1>5, <1>8, <2>1, <2>2 DEF Sound, TypeOK
  <2> QED  BY <1>1, <1>5, <2>3 DEF Sound, Booted
<1>11. ASSUME NEW u \in Thread, u # t
       PROVE  /\ UNCHANGED <<pc[u], local[u]>>
              /\ u \in Space => Growing(u)'
              /\ AtTable(u, memory[directory[Home(u)]][local[u].page[1]])'
  <2>1. UNCHANGED <<pc[u], local[u]>>
    BY <1>1, <1>11 DEF Sound, TypeOK
  <2> QED  BY <1>1, <1>8, <1>11, <2>1, OthersCall
<1> QED  BY <1>1, <1>2, <1>5, <1>6, <1>7, <1>8, <1>9, <1>10, <1>11

(* A step of the tables is a step of the promise, or none. *)
Promised == AS!Next \/ UNCHANGED <<Mapping, seen>>

(* What the walk of the tables of a finished space comes to. *)
LEMMA HeapOwned ==
    ASSUME NEW own, Owned(own), NEW s \in Space, directory[s] # NONE, NEW p \in HeapPage
    PROVE  \/ Walk(directory[s], p) = NONE
           \/ Owns(own, Walk(directory[s], p), "page", s, p[2])
<1> DEFINE table == memory[directory[s]][1]
<1>1. p[1] = 1 /\ p[2] \in Index /\ Dir(s) = directory[s] /\ OwnedBy(own, s)
  BY HeapPageNames DEF Dir, Owned
<1>2. CASE table = NONE
  BY <1>1, <1>2, Names DEF Walk
<1>3. CASE table # NONE
  <2>1. table \in Frame
    BY <1>1, <1>3, Indices DEF OwnedBy, Owns
  <2> QED  BY <1>1, <1>3, <2>1 DEF OwnedBy, Walk
<1> QED  BY <1>2, <1>3

(* The kernel's own pages are not in the table of the heap. *)
LEMMA NewMappedKept ==
    ASSUME NEW own, Sound(own), cr3 # NONE,
           UNCHANGED <<directory, cr3, ShownDirectory, ShownTable>>,
           \A p \in {NewDirectoryPage, NewTablePage} :
               Walk(directory[Kernel], p)' = Walk(directory[Kernel], p)
    PROVE  NewMapped'
  BY DEF Sound, NewMapped

(* Functions of two arguments that differ at one place. *)
LEMMA OneChange ==
    ASSUME NEW A, NEW B, NEW m, NEW n, NEW a \in A, NEW b \in B, NEW v,
           m = [s \in A |-> [p \in B |-> m[s][p]]],
           n = [s \in A |-> [p \in B |-> n[s][p]]],
           \A s \in A, p \in B : n[s][p] = IF s = a /\ p = b THEN v ELSE m[s][p]
    PROVE  n = [m EXCEPT ![a][b] = v]
<1> DEFINE k == [m EXCEPT ![a][b] = v]
<1>1. k = [s \in A |-> k[s]]
  OBVIOUS
<1>2. ASSUME NEW s \in A PROVE k[s] = n[s]
  <2>1. k[s] = [p \in B |-> k[s][p]] /\ n[s] = [p \in B |-> n[s][p]]
    OBVIOUS
  <2>2. \A p \in B : k[s][p] = n[s][p]
    OBVIOUS
  <2> HIDE DEF k
  <2> QED  BY <2>1, <2>2
<1>3. n = [s \in A |-> n[s]]
  OBVIOUS
<1> HIDE DEF k
<1>4. k = n
  BY <1>1, <1>2, <1>3
<1> QED  BY <1>4 DEF k

(* The page a thread of the space asked for is mapped to its frame. *)
LEMMA PageMapped ==
    ASSUME NEW own, Sound(own), NEW t \in Space, SetEntry(t)
    PROVE  /\ Owning' /\ AS!Map(t, local[t].page, local[t].frame)
           /\ local[t].frame \in Frame /\ UNCHANGED <<seen, top>>
<1> DEFINE e == local[t].page[1]
           j == local[t].page[2]
           v == local[t].frame
<1>0. PICK new : new = [own EXCEPT ![v] = <<"page", t, j>>]
  OBVIOUS
<1>1. /\ cr3 # NONE /\ running = t /\ InMap(t) /\ t \in Thread
      /\ UNCHANGED <<next, directory, cr3, running, local, seen, top, halted>>
      /\ pc' = [pc EXCEPT ![t] = local[t].back]
      /\ tlb' = Remembered(TablePage(e)) /\ TablePage(e) \in Page \ HeapPage
      /\ e \in {1, 2} /\ j \in Index /\ local[t].page = <<e, j>>
      /\ TableStore(own, e, j, v)
      /\ TypeOK' /\ Free' /\ Booted' /\ ~halted' /\ Whole'
      /\ \A u \in Thread : u # t =>
            /\ UNCHANGED <<pc[u], local[u]>>
            /\ u \in Space => Growing(u)'
            /\ AtTable(u, memory[directory[Home(u)]][local[u].page[1]])'
  BY SetEntryIs, Names
<1>2. /\ Home(t) = t /\ Home(running) = t /\ Creator # t /\ directory[t] = cr3
      /\ local[t].page \in HeapPage /\ e = 1 /\ local[t].back \in {"mapped", "stack", "push"}
      /\ seen[t][local[t].page] = NONE
  BY <1>1, EntryOf, Here, Names DEF Sound, Calling, Growing
<1>3. Owns(own, v, "held", t, 0) /\ v \in Frame
  BY <1>1, Argument
<1>4. /\ \A p \in Page : Walk(cr3, p)' = IF p = <<1, j>> THEN v ELSE Walk(cr3, p)
      /\ \A s \in Space : s # t /\ directory[s] # NONE =>
            \A p \in Page : Walk(directory[s], p)' = Walk(directory[s], p)
      /\ Reaches(own, memory[cr3][e], e)
  BY <1>1, <1>2, <1>3, TableStoreKept
<1>5. Owned(new)'
  <2>1. new \in [Frame -> Role]
    BY <1>0, <1>1, <1>3 DEF Sound, Owned, Role
  <2>2. \A f, k, s, i : f # v /\ Owns(own, f, k, s, i) => Owns(new, f, k, s, i)'
    BY <1>0, <1>1 DEF Owns, Sound, Owned
  <2>3. \A f, s, i : \A k \in {"directory", "table", "page"} :
            Owns(own, f, k, s, i) => Owns(new, f, k, s, i)'
    BY <1>3, <2>2, Distinct
  <2>4. Owns(new, v, "page", Home(running), j)'
    BY <1>0, <1>1, <1>2, <1>3 DEF Owns, Sound, Owned
  <2>5. \A s \in Space : Dir(s)' = Dir(s)
    BY <1>1 DEF Dir
  <2>6. \A s \in Space : OwnedBy(new, s)'
    BY <1>1, <1>3, <2>3, <2>4, <2>5, TableStoreOwned
  <2>7. ASSUME NEW s \in Space PROVE Holds(new, s)'
    <3>1. CASE s = t
      BY <1>1, <1>2, <3>1 DEF Holds, InMap, Sound, TypeOK
    <3>2. CASE s # t
      <4>1. UNCHANGED <<pc[s], local[s]>>
        BY <1>1, <3>2, Names
      <4>2. \A f : Owns(own, f, "held", s, 0) => Owns(new, f, "held", s, 0)'
        BY <1>3, <2>2, <3>2, Distinct
      <4> QED  BY <4>1, <4>2, HoldsKept DEF Sound, InMap
    <3> QED  BY <3>1, <3>2
  <2> QED  BY <2>1, <2>6, <2>7 DEF Owned
<1>6. Building' /\ UNCHANGED <<ShownDirectory, ShownTable>>
  <2>1. UNCHANGED <<directory, local[Creator], pc[Creator]>>
    BY <1>1, <1>2, Names
  <2>2. OnlyAt(memory[cr3][e])
    BY <1>4 DEF Reaches
  <2>3. Making => Alien(own, memory[cr3][e], local[Creator].space)
    BY <1>1, <1>4, ReachesKept
  <2> QED  BY <2>1, <2>2, <2>3, BuildingKept
<1>7. NewMapped'
  <2>1. /\ Kernel \in Space /\ directory[Kernel] # NONE /\ UNCHANGED <<directory, cr3>>
        /\ \A p \in {NewDirectoryPage, NewTablePage} : p \in Page /\ p # <<1, j>>
    BY <1>1, Names, PageNames DEF Sound, Booted, NewDirectoryPage, NewTablePage
  <2>2. \A p \in {NewDirectoryPage, NewTablePage} :
            Walk(directory[Kernel], p)' = Walk(directory[Kernel], p)
    BY <1>1, <1>2, <1>4, <2>1
  <2> QED  BY <1>1, <1>6, <2>1, <2>2, NewMappedKept
<1>8. Calling'
  <2>1. pc'[t] \in {"mapped", "stack", "push"} /\ directory'[t] # NONE
    BY <1>1, <1>2, Here DEF Sound, TypeOK
  <2>2. Growing(t)' /\ AtTable(t, memory[directory[Home(t)]][local[t].page[1]])'
    BY <2>1 DEF Growing, AtTable, InMap, Steps
  <2> QED  BY <1>1, <2>2, Names DEF Calling
<1>9. TlbCoherent' /\ TlbKnown'
  <2>1. tlb[<<1, j>>] = NONE
    BY <1>1, <1>2 DEF Sound, TlbKnown
  <2>2. /\ \A p \in Page : tlb'[p] \in {NONE, tlb[p], Walk(cr3, p)}
        /\ \A p \in HeapPage : tlb'[p] \in {NONE, tlb[p]}
        /\ tlb'[<<1, j>>] = NONE
    BY <1>1, <1>2, <2>1, RememberedIs
  <2> QED  BY <1>1, <1>4, <2>2, TlbKept
<1>10. AS!Map(t, local[t].page, v)
  <2>1. \A s \in Space, p \in HeapPage : Mapping[s][p] # v
    <3> SUFFICES ASSUME NEW s \in Space, NEW p \in HeapPage PROVE Mapping[s][p] # v
      OBVIOUS
    <3>1. CASE directory[s] = NONE
      BY <1>3, <3>1, Names DEF Mapping
    <3>2. CASE directory[s] # NONE
      BY <1>3, <3>2, HeapOwned, Distinct, Names DEF Mapping, Sound
    <3> QED  BY <3>1, <3>2
  <2>2. \A s \in Space, p \in HeapPage :
            Mapping'[s][p] = IF s = t /\ p = local[t].page THEN v ELSE Mapping[s][p]
    <3> SUFFICES ASSUME NEW s \in Space, NEW p \in HeapPage
                 PROVE  Mapping'[s][p] = IF s = t /\ p = local[t].page THEN v ELSE Mapping[s][p]
      OBVIOUS
    <3>1. p \in Page /\ directory' = directory
      BY <1>1, HeapPageNames
    <3>2. CASE s = t
      <4>1. Walk(directory[t], p)' = IF p = <<1, j>> THEN v ELSE Walk(directory[t], p)
        BY <1>1, <1>2, <1>4, <3>1
      <4>2. directory[t] # NONE
        BY <1>1, <1>2
      <4> QED  BY <1>1, <1>2, <3>1, <3>2, <4>1, <4>2 DEF Mapping
    <3>3. CASE s # t
      BY <1>4, <3>1, <3>3 DEF Mapping
    <3> QED  BY <3>2, <3>3
  <2>3. Mapping' = [Mapping EXCEPT ![t][local[t].page] = v]
    <3>1. PICK m, n, q, w : m = Mapping /\ n = Mapping' /\ q = local[t].page /\ w = v
      OBVIOUS
    <3>2. m = [s \in Space |-> [p \in HeapPage |-> m[s][p]]]
      BY <3>1 DEF Mapping
    <3>3. n = [s \in Space |-> [p \in HeapPage |-> n[s][p]]]
      BY <3>1 DEF Mapping
    <3>4. /\ q \in HeapPage
          /\ \A s \in Space, p \in HeapPage : n[s][p] = IF s = t /\ p = q THEN w ELSE m[s][p]
      BY <1>2, <2>2, <3>1
    <3>5. n = [m EXCEPT ![t][q] = w]
      BY <3>2, <3>3, <3>4, OneChange
    <3> QED  BY <3>1, <3>5
  <2> QED  BY <1>1, <1>2, <2>1, <2>3 DEF AS!Map
<1> QED  BY <1>1, <1>3, <1>5, <1>6, <1>7, <1>8, <1>9, <1>10 DEF Owning, Sound

(* No page of a heap changes its frame. *)
LEMMA MappingKept ==
    ASSUME UNCHANGED directory,
           \A s \in Space : directory[s] # NONE =>
               \A p \in HeapPage : Walk(directory[s], p)' = Walk(directory[s], p)
    PROVE  Mapping' = Mapping
  BY DEF Mapping

(* A store into the table of create_page_directory's pages does not change *)
(* what other pages show.                                                  *)
LEMMA SecondTable ==
    ASSUME NEW own, Sound(own), cr3 # NONE, Home(running) = Kernel,
           NEW j \in Index, NEW v \in Frame \cup {NONE}, TableStore(own, 2, j, v)
    PROVE  /\ directory[Kernel] = cr3
           /\ \A s \in Space : directory[s] # NONE =>
                  \A p \in HeapPage : Walk(directory[s], p)' = Walk(directory[s], p)
           /\ \A p \in Page : Walk(cr3, p)' = IF p = <<2, j>> THEN v ELSE Walk(cr3, p)
           /\ \A s \in Space : directory[s] # NONE => Complete(directory[s])'
           /\ OnlyAt(memory[cr3][2]) /\ Reaches(own, memory[cr3][2], 2)
           /\ Making => Alien(own, memory[cr3][2], local[Creator].space)
<1>1. /\ UNCHANGED <<cr3, running>>
      /\ \A s \in Space : directory[s] # NONE => directory'[s] = directory[s]
  BY DEF TableStore
<1>2. /\ \A p \in Page : Walk(cr3, p)' = IF p = <<2, j>> THEN v ELSE Walk(cr3, p)
      /\ Reaches(own, memory[cr3][2], 2)
      /\ \A s \in Space : s # Home(running) /\ directory[s] # NONE =>
            \A p \in Page : Walk(directory[s], p)' = Walk(directory[s], p)
  BY TableStoreKept
<1>3. /\ \A s \in Space : directory[s] # NONE => Complete(directory[s])'
      /\ Making => Alien(own, memory[cr3][2], local[Creator].space)
  BY <1>1, <1>2, ReachesKept
<1>4. directory[Kernel] = cr3
  BY Here
<1>5. ASSUME NEW s \in Space, directory[s] # NONE, NEW p \in HeapPage
      PROVE  Walk(directory[s], p)' = Walk(directory[s], p)
  <2>1. p \in Page /\ p # <<2, j>>
    BY HeapPageNames
  <2>2. CASE s = Kernel
    BY <1>1, <1>2, <1>4, <2>1, <2>2
  <2>3. CASE s # Kernel
    BY <1>2, <1>5, <2>1, <2>3
  <2> QED  BY <2>2, <2>3
<1> QED  BY <1>2, <1>3, <1>4, <1>5 DEF Reaches

(* The same of a page of create_page_directory. *)
LEMMA NewPageMapped ==
    ASSUME NEW own, Sound(own), SetEntry(Creator)
    PROVE  Sound(own)' /\ UNCHANGED <<Mapping, seen, top>>
<1> DEFINE t == Creator
           c == local[t]
           j == local[t].page[2]
           v == local[t].frame
<1>1. /\ cr3 # NONE /\ running = t /\ InMap(t) /\ t \in Thread
      /\ UNCHANGED <<next, directory, cr3, running, local, seen, top, halted>>
      /\ pc' = [pc EXCEPT ![t] = local[t].back]
      /\ tlb' = Remembered(TablePage(local[t].page[1]))
      /\ TablePage(local[t].page[1]) \in Page \ HeapPage
      /\ j \in Index /\ local[t].page = <<local[t].page[1], j>>
      /\ TableStore(own, local[t].page[1], j, v)
      /\ TypeOK' /\ Free' /\ Booted' /\ ~halted' /\ Whole'
      /\ \A u \in Thread : u # t =>
            /\ UNCHANGED <<pc[u], local[u]>>
            /\ u \in Space => Growing(u)'
            /\ AtTable(u, memory[directory[Home(u)]][local[u].page[1]])'
  BY SetEntryIs, Names
<1>2. /\ Home(running) = Kernel /\ local[t].page[1] = 2 /\ v \in Frame
      /\ c.page \in {NewDirectoryPage, NewTablePage} /\ c.page = <<2, j>>
  BY <1>1, EntryOf, Argument, Names
<1>3. TableStore(own, 2, j, v)
  BY <1>1, <1>2
<1>4. /\ directory[Kernel] = cr3
      /\ \A s \in Space : directory[s] # NONE =>
             \A p \in HeapPage : Walk(directory[s], p)' = Walk(directory[s], p)
      /\ \A p \in Page : Walk(cr3, p)' = IF p = <<2, j>> THEN v ELSE Walk(cr3, p)
      /\ OnlyAt(memory[cr3][2]) /\ Reaches(own, memory[cr3][2], 2)
      /\ Making => Alien(own, memory[cr3][2], local[Creator].space)
  BY <1>1, <1>2, <1>3, SecondTable
<1>5. /\ Ordered(c) /\ Unfinished(c.space, c.pd) /\ Stage = c.back /\ Making
      /\ pc[t] # "idle" /\ pc'[t] = c.back
      /\ c.back \in {"clearPd", "fillLow", "fillLast"}
  BY <1>1 DEF Sound, TypeOK, Building, InMap, Stage, Ordered, Making
<1>6. ~InMap(t)' /\ Stage' = Stage
  BY <1>1, <1>5 DEF InMap, Stage
<1>7. Unfinished(c.space, c.pd)' /\ memory'[c.pd] = memory[c.pd]
  BY <1>1, <1>4, <1>5, <1>6, UnfinishedKept
<1>8. Building'
  BY <1>1, <1>5, <1>6, <1>7 DEF Building, Making
<1>9. /\ Walk(cr3, NewDirectoryPage) = ShownDirectory
      /\ Walk(cr3, NewTablePage) = ShownTable
      /\ ShownTable = NONE
  BY <1>1, <1>4 DEF Sound, NewMapped, ShownTable, InMap, Making
<1>10. NewMapped'
  <2>1. NewDirectoryPage = <<2, 0>> /\ NewTablePage = <<2, 1>>
    BY DEF NewDirectoryPage, NewTablePage
  <2>2. CASE c.back = "clearPd"
    <3>1. j = 0 /\ v = c.pd
      BY <1>2, <1>5, <2>1, <2>2, PageParts DEF Ordered
    <3>2. ShownDirectory' = c.pd /\ ShownTable' = NONE
      BY <1>1, <1>5, <1>6, <2>2 DEF ShownDirectory, ShownTable, Making
    <3> QED  BY <1>1, <1>4, <1>9, <2>1, <3>1, <3>2, PageNames DEF NewMapped
  <2>3. CASE c.back = "fillLow"
    <3>1. j = 1 /\ v = memory[c.pd][0]
      BY <1>2, <1>5, <2>1, <2>3, PageParts DEF Ordered
    <3>2. ShownDirectory' = c.pd /\ ShownDirectory = c.pd /\ ShownTable' = v
      BY <1>1, <1>5, <1>6, <1>7, <2>3, <3>1 DEF ShownDirectory, ShownTable, Making, InMap
    <3> QED  BY <1>1, <1>4, <1>9, <2>1, <3>1, <3>2, PageNames DEF NewMapped
  <2>4. CASE c.back = "fillLast"
    <3>1. j = 1 /\ v = memory[c.pd][Entries - 2]
      BY <1>2, <1>5, <2>1, <2>4, PageParts DEF Ordered
    <3>2. ShownDirectory' = c.pd /\ ShownDirectory = c.pd /\ ShownTable' = v
      BY <1>1, <1>5, <1>6, <1>7, <2>4, <3>1 DEF ShownDirectory, ShownTable, Making, InMap
    <3> QED  BY <1>1, <1>4, <1>9, <2>1, <3>1, <3>2, PageNames DEF NewMapped
  <2> QED  BY <1>5, <2>2, <2>3, <2>4
<1>11. Calling'
  <2>1. AtTable(t, memory[directory[Home(t)]][local[t].page[1]])'
    BY <1>5 DEF AtTable
  <2> QED  BY <1>1, <2>1, Names DEF Calling
<1>12. TlbCoherent' /\ TlbKnown'
  <2>1. Walk(cr3, <<2, j>>) = NONE
    <3>1. c.page = NewDirectoryPage => c.back = "clearPd"
      BY <1>5, PageParts DEF Ordered
    <3>2. c.back = "clearPd" => ShownDirectory = NONE
      BY <1>1 DEF ShownDirectory, Making
    <3> QED  BY <1>2, <1>9, <3>1, <3>2
  <2> QED  BY <1>1, <1>4, <2>1, RememberedIs, TlbKept
<1>13. Owned(own)'
  <2>1. \A f, k, s, i : Owns(own, f, k, s, i) => Owns(own, f, k, s, i)'
    BY <1>1 DEF Owns
  <2>2. \A s \in Space : Dir(s)' = Dir(s)
    BY <1>1 DEF Dir
  <2>3. \A s \in Space : OwnedBy(own, s)'
    BY <1>1, <1>2, <1>3, <2>1, <2>2, TableStoreOwned
  <2>4. ASSUME NEW s \in Space PROVE Holds(own, s)'
    <3>1. UNCHANGED <<pc[s], local[s]>>
      BY <1>1, Names
    <3> QED  BY <2>1, <3>1, HoldsKept DEF Sound, InMap
  <2> QED  BY <2>3, <2>4 DEF Sound, Owned
<1>14. Mapping' = Mapping
  BY <1>1, <1>4, MappingKept
<1> QED  BY <1>1, <1>8, <1>10, <1>11, <1>12, <1>13, <1>14 DEF Sound

----------------------------------------------------------------------------
(* The heaps. *)

LEMMA HeapNumbers ==
    /\ HeapPages \in Nat /\ HeapPages >= 2 /\ HeapPages <= Entries
    /\ \A j \in 0 .. HeapPages - 1 : <<1, j>> \in HeapPage
    /\ NONE \notin 0 .. HeapPages - 1
<1>1. HeapPages \in Nat /\ HeapPages >= 2 /\ HeapPages <= Entries
  BY PagesAssumption, Indices
<1>2. NONE \notin 0 .. HeapPages - 1
  BY NamesAssumption
<1> QED  BY <1>1, <1>2 DEF HeapPage

(* A space that no step touched, or one whose thread goes on inside map. *)
LEMMA TidyKept ==
    ASSUME NEW s \in Space, Tidy(s), top[s] \in 0 .. HeapPages - 1 \cup {NONE},
           UNCHANGED <<seen[s], top[s], local[s]>>, local[s].page[2] \in Index,
           UNCHANGED pc[s] \/ (InMap(s) /\ InMap(s)'),
           \A p \in HeapPage : Mapping[s][p] # NONE => Mapping'[s][p] # NONE,
           Within(s) => Within(s)'
    PROVE  Tidy(s)'
<1>1. /\ InMap(s)' = InMap(s) /\ Early(s)' = Early(s) /\ Built(s)' = Built(s)
      /\ Lengthening(s)' = Lengthening(s) /\ Behind(s, local[s].end)' = Behind(s, local[s].end)
      /\ (pc'[s] \in {"unborn", "construct"}) = (pc[s] \in {"unborn", "construct"})
      /\ pc'[s] = "mapped" => pc[s] = "mapped"
  BY DEF InMap, Early, Built, Lengthening, Behind
<1>2. (top[s] = NONE <=> pc[s] \in {"unborn", "construct"})'
  BY <1>1 DEF Tidy
<1>3. Early(s)' => Within(s)'
  BY <1>1 DEF Tidy
<1>4. \A p \in HeapPage : seen'[s][p] # NONE => Built(s)' /\ p[2] <= top'[s]
  BY <1>1 DEF Tidy
<1>5. Built(s)' => \A j \in 0 .. top'[s] : Mapping'[s][<<1, j>>] # NONE
  <2> SUFFICES ASSUME Built(s), NEW j \in 0 .. top[s] PROVE Mapping'[s][<<1, j>>] # NONE
    BY <1>1
  <2>1. <<1, j>> \in HeapPage
    BY HeapNumbers DEF Built
  <2> QED  BY <2>1 DEF Tidy
<1>6. InMap(s)' /\ local'[s].back = "stack" => top'[s] = 0 /\ local'[s].page = <<1, 0>>
  BY <1>1 DEF Tidy
<1>7. ASSUME Lengthening(s)'
      PROVE  /\ local'[s].end \in top'[s] .. HeapPages - 1
             /\ top'[s] < local'[s].page[2] /\ local'[s].page[2] <= Behind(s, local[s].end)'
             /\ Behind(s, local[s].end)' < HeapPages
             /\ \A j \in top'[s] + 1 .. local'[s].page[2] - 1 : Mapping'[s][<<1, j>>] # NONE
             /\ pc'[s] = "mapped" => Mapping'[s][<<1, local[s].page[2]>>] # NONE
  <2>1. /\ local[s].end \in top[s] .. HeapPages - 1
        /\ top[s] < local[s].page[2] /\ local[s].page[2] <= Behind(s, local[s].end)
        /\ Behind(s, local[s].end) < HeapPages
        /\ \A j \in top[s] + 1 .. local[s].page[2] - 1 : Mapping[s][<<1, j>>] # NONE
        /\ pc[s] = "mapped" => Mapping[s][<<1, local[s].page[2]>>] # NONE
    BY <1>1, <1>7 DEF Tidy
  <2>2. top[s] \in 0 .. HeapPages - 1
    BY <1>1, <1>7 DEF Tidy, Lengthening, InMap
  <2>3. Behind(s, local[s].end) \in Nat
    BY <2>1, <2>2, HeapNumbers DEF Behind
  <2> QED
  <3>1. \A j \in 0 .. local[s].page[2] : <<1, j>> \in HeapPage
    <4> SUFFICES ASSUME NEW j \in 0 .. local[s].page[2] PROVE j \in 0 .. HeapPages - 1
      BY HeapNumbers
    <4> QED  BY <2>1, <2>2, <2>3, HeapNumbers DEF Index
  <3>2. local[s].page[2] \in Nat
    BY Indices DEF Index
  <3>3. \A j \in top[s] + 1 .. local[s].page[2] - 1 : j \in 0 .. local[s].page[2]
    BY <2>2, <3>2
  <3> QED  BY <1>1, <2>1, <3>1, <3>2, <3>3
<1> QED  BY <1>2, <1>3, <1>4, <1>5, <1>6, <1>7 DEF Tidy

(* The other threads, and the turns, in a step of one thread. *)
LEMMA HeapedKept ==
    ASSUME NEW own, Sound(own), Heaped, NEW t \in Thread, running = t, UNCHANGED running,
           pc[t] \notin {"unborn", "inside"},
           \A u \in Thread : u # t => UNCHANGED <<pc[u], local[u]>>,
           \A r \in Space : r # t => UNCHANGED <<seen[r], top[r]>>,
           \A r \in Space : directory[r] # NONE => directory'[r] = directory[r],
           \A r \in Space, p \in HeapPage : Mapping[r][p] # NONE => Mapping'[r][p] # NONE,
           t = Creator => /\ pc'[t] # "inside"
                          /\ pc'[t] = "enter" => /\ local'[t].space \in Space
                                                 /\ directory'[local'[t].space] # NONE
                                                 /\ pc[local'[t].space] = "unborn",
           t \in Space => Tidy(t)'
    PROVE  Heaped'
<1>1. ASSUME NEW r \in Space PROVE Tidy(r)'
  <2>1. CASE r = t
    BY <2>1
  <2>2. CASE r # t
    <3>1. r \in Thread /\ UNCHANGED <<pc[r], local[r], seen[r], top[r]>>
      BY <2>2, Names
    <3>2. Within(r) => Within(r)'
      BY Names DEF Within
    <3>3. Tidy(r) /\ top[r] \in 0 .. HeapPages - 1 \cup {NONE} /\ local[r].page[2] \in Index
      BY <3>1, Locals DEF Heaped, Sound, TypeOK
    <3> QED  BY <3>1, <3>2, <3>3, TidyKept
  <2> QED  BY <2>1, <2>2
<1>2. Turns'
  <2>1. CASE t = Creator
    <3>1. ASSUME pc'[Creator] = "enter"
          PROVE  directory'[local'[Creator].space] # NONE /\ pc'[local'[Creator].space] = "unborn"
      BY <2>1, <3>1, Names
    <3> QED  BY <2>1, <3>1 DEF Turns
  <2>2. CASE t # Creator
    <3>1. Creator \in Thread /\ UNCHANGED <<pc[Creator], local[Creator]>>
      BY <2>2, Names
    <3>2. local[Creator].space \in Space /\ local[Creator].space \in Thread
      BY <3>1, Locals, Names DEF Sound
    <3>3. ASSUME pc[Creator] = "enter"
          PROVE  directory'[local[Creator].space] # NONE /\ pc'[local[Creator].space] = "unborn"
      <4>1. /\ directory[local[Creator].space] # NONE
            /\ pc[local[Creator].space] = "unborn"
        BY <3>3 DEF Heaped, Turns
      <4> QED  BY <3>2, <4>1
    <3>4. pc[Creator] = "inside" => running' = local[Creator].space
      BY DEF Heaped, Turns
    <3> QED  BY <3>1, <3>3, <3>4 DEF Turns
  <2> QED  BY <2>1, <2>2
<1> QED  BY <1>1, <1>2 DEF Heaped

----------------------------------------------------------------------------
(* The steps of create_page_directory. *)

LEMMA CreatorAt ==
    ASSUME NEW own, Sound(own), NEW t \in Thread, NEW label, Runs(t, label),
           label \notin {"enter", "inside", "map", "newTable", "clearTable", "setEntry"} \cup Steps
    PROVE  LET c == local[Creator]
           IN  /\ t = Creator /\ Making /\ cr3 # NONE /\ running = Creator /\ Home(running) = Kernel
               /\ Kernel \in Space /\ directory[Kernel] = cr3
               /\ pc[Creator] = label /\ ~InMap(Creator) /\ Stage = label
               /\ Unfinished(c.space, c.pd) /\ c.space \in Space /\ c.space # Kernel
               /\ directory[c.space] = NONE /\ Dir(c.space) = c.pd /\ c.pd \in Frame
               /\ ShownDirectory = c.pd
               /\ Walk(cr3, NewDirectoryPage) = c.pd /\ Walk(cr3, NewTablePage) = ShownTable
               /\ \A s \in Space : Growing(s)
<1> DEFINE c == local[Creator]
<1>1. cr3 # NONE /\ running = t /\ pc[t] = label
  BY BootedRuns DEF Steps
<1>2. \A s \in Space : Growing(s)
  BY DEF Sound, Calling
<1>3. t = Creator /\ Making
  BY <1>1, <1>2, Names DEF Growing, InMap, Making, Steps
<1>4. Home(running) = Kernel /\ Kernel \in Space /\ directory[Kernel] = cr3
  BY <1>1, <1>3, Names, Here
<1>5. /\ ~InMap(Creator) /\ Stage = label /\ ShownDirectory = c.pd
      /\ Unfinished(c.space, c.pd)
  BY <1>1, <1>3 DEF Sound, Building, InMap, Stage, ShownDirectory, Making
<1>6. /\ c.space \in Space /\ directory[c.space] = NONE /\ Dir(c.space) = c.pd
      /\ c.pd \in Frame /\ c.space # Kernel
  BY <1>1, <1>3, <1>4, NotBuilt
<1>7. Walk(cr3, NewDirectoryPage) = c.pd /\ Walk(cr3, NewTablePage) = ShownTable
  BY <1>1, <1>4, <1>5 DEF Sound, NewMapped
<1> QED  BY <1>1, <1>2, <1>3, <1>4, <1>5, <1>6, <1>7

(* unmap stores NONE, and the TLB forgets the page. *)
LEMMA UnmapIs ==
    ASSUME NEW own, Sound(own), cr3 # NONE, Home(running) = Kernel,
           NEW j \in {0, 1}, NEW p, p = <<2, j>>, Walk(cr3, p) \in Frame, unmap(p),
           UNCHANGED <<cr3, running, seen, top>>,
           \A s \in Space : directory[s] # NONE => directory'[s] = directory[s]
    PROVE  /\ TableStore(own, 2, j, NONE) /\ UNCHANGED halted
           /\ TlbCoherent' /\ TlbKnown' /\ tlb' \in [Page -> Frame \cup {NONE, JUNK}]
           /\ memory' \in [Frame -> [Index -> Frame \cup {NONE, JUNK}]]
           /\ next' = next => Free'
<1> DEFINE table == memory[cr3][2]
<1>1. p[1] = 2 /\ 2 \in Index /\ j \in Index /\ p \in Page /\ 2 # Entries - 1
  BY Indices, PageNames
<1>2. table # NONE
  BY <1>1, Names DEF Walk
<1>3. Owns(own, table, "table", Home(running), 2) /\ table \in Frame
  <2>1. Dir(Home(running)) = cr3 /\ OwnedBy(own, Home(running))
    BY Here
  <2>2. \A i \in Index : \/ memory[cr3][i] = NONE
                         \/ i = Entries - 1
                         \/ Owns(own, memory[cr3][i], "table", Home(running), i)
    BY <2>1 DEF OwnedBy
  <2>3. Owns(own, table, "table", Home(running), 2)
    BY <1>1, <1>2, <2>2
  <2> QED  BY <2>3 DEF Owns
<1>4. TablePage(2) \in Page \ HeapPage /\ Translate(TablePage(2)) = table
  BY <1>1, PageNames, OtherPages, Here
<1>5. /\ memory' = [memory EXCEPT ![table] = [memory[table] EXCEPT ![j] = NONE]]
      /\ halted' = halted
      /\ tlb' = [Remembered(TablePage(2)) EXCEPT ![p] = NONE]
  BY <1>1, <1>3, <1>4 DEF unmap, Store, Contents
<1>6. TableStore(own, 2, j, NONE)
  BY <1>3, <1>5 DEF TableStore
<1>7. /\ \A q \in Page : Walk(cr3, q)' = IF q = <<2, j>> THEN NONE ELSE Walk(cr3, q)
      /\ memory' \in [Frame -> [Index -> Frame \cup {NONE, JUNK}]]
      /\ next' = next => Free'
  BY <1>1, <1>6, TableStoreKept
<1>8. Remembered(TablePage(2)) \in [Page -> Frame \cup {NONE, JUNK}]
  BY <1>4, TlbTyped
<1>9. /\ \A q \in Page : tlb'[q] \in {NONE, tlb[q], Walk(cr3, q)}
      /\ \A q \in HeapPage : tlb'[q] \in {NONE, tlb[q]}
      /\ tlb'[p] = NONE
  BY <1>1, <1>4, <1>5, <1>8, RememberedIs, HeapPageNames
<1>10. TlbCoherent' /\ TlbKnown'
  BY <1>7, <1>9, TlbKept
<1> QED  BY <1>5, <1>6, <1>7, <1>8, <1>10

(* The calls of the other threads meanwhile. *)
LEMMA SpacesCall ==
    ASSUME NEW own, Sound(own), cr3 # NONE, Home(running) = Kernel, UNCHANGED seen,
           NEW j \in Index, NEW v \in Frame \cup {NONE}, TableStore(own, 2, j, v),
           NEW u \in Space, UNCHANGED <<pc[u], local[u]>>
    PROVE  Growing(u)' /\ AtTable(u, memory[directory[Home(u)]][local[u].page[1]])'
<1>1. /\ UNCHANGED <<cr3, running>>
      /\ \A s \in Space : directory[s] # NONE => directory'[s] = directory[s]
  BY DEF TableStore
<1>2. Reaches(own, memory[cr3][2], 2)
  BY TableStoreKept
<1>3. u \in Thread /\ Home(u) = u
  BY Names
<1>4. InMap(u) => /\ SameTable(directory[Home(u)], local[u].page[1])
                  /\ directory'[Home(u)] = directory[Home(u)]
  <2> SUFFICES ASSUME InMap(u)
               PROVE  /\ SameTable(directory[Home(u)], local[u].page[1])
                      /\ directory'[Home(u)] = directory[Home(u)]
    OBVIOUS
  <2>1. local[u].page[1] = 1 /\ directory[Home(u)] # NONE /\ 1 \in Index \ {2, Entries - 1}
    BY <1>3, EntryOf, Indices
  <2>2. CASE u = Kernel
    BY <1>1, <1>2, <1>3, <2>1, <2>2, ReachesKept, Here
  <2>3. CASE u # Kernel
    BY <1>1, <1>2, <1>3, <2>1, <2>3, ReachesKept DEF SameTables
  <2> QED  BY <1>1, <1>3, <2>1, <2>2, <2>3
<1>5. local[u].page[1] \in Index /\ Calling
  BY <1>3, Locals DEF Sound
<1> QED  BY <1>1, <1>3, <1>4, <1>5, CallKept

LEMMA UnmapTableSound ==
    ASSUME NEW own, Sound(own), NEW t \in Thread, UnmapTable(t)
    PROVE  Sound(own)' /\ UNCHANGED <<Mapping, seen, top>>
<1> DEFINE c == local[Creator]
<1>1. PICK label \in {"unmapLow", "unmapLast"} :
          /\ Runs(t, label)
          /\ Goto(t, IF label = "unmapLow" THEN "newLast" ELSE "unmapPd")
          /\ unmap(NewTablePage) /\ UNCHANGED <<next, paging, local, seen, top>>
  BY DEF UnmapTable
<1>2. /\ t = Creator /\ Making /\ cr3 # NONE /\ running = Creator /\ Home(running) = Kernel
      /\ Kernel \in Space /\ directory[Kernel] = cr3
      /\ pc[Creator] = label /\ Stage = label /\ ShownDirectory = c.pd
      /\ Unfinished(c.space, c.pd) /\ c.pd \in Frame
      /\ Walk(cr3, NewDirectoryPage) = c.pd /\ Walk(cr3, NewTablePage) = ShownTable
  BY <1>1, CreatorAt DEF Steps
<1>3. UNCHANGED <<next, directory, cr3, running, local, seen, top>>
  BY <1>1 DEF paging
<1>4. ShownTable \in Frame
  BY <1>1, <1>2 DEF ShownTable, Unfinished, LowLinked, LowFilled, LastLinked, LastFilled, Closed, Making
<1>5. NewTablePage = <<2, 1>> /\ NewDirectoryPage = <<2, 0>> /\ 1 \in Index
  BY Indices DEF NewTablePage, NewDirectoryPage
<1>6. /\ TableStore(own, 2, 1, NONE) /\ UNCHANGED halted
      /\ TlbCoherent' /\ TlbKnown' /\ tlb' \in [Page -> Frame \cup {NONE, JUNK}]
      /\ memory' \in [Frame -> [Index -> Frame \cup {NONE, JUNK}]] /\ Free'
  BY <1>1, <1>2, <1>3, <1>4, <1>5, UnmapIs
<1>7. /\ \A s \in Space : directory[s] # NONE =>
             \A p \in HeapPage : Walk(directory[s], p)' = Walk(directory[s], p)
      /\ \A p \in Page : Walk(cr3, p)' = IF p = <<2, 1>> THEN NONE ELSE Walk(cr3, p)
      /\ \A s \in Space : directory[s] # NONE => Complete(directory[s])'
      /\ OnlyAt(memory[cr3][2])
      /\ Making => Alien(own, memory[cr3][2], local[Creator].space)
  BY <1>2, <1>5, <1>6, SecondTable
<1>8. /\ pc'[Creator] = IF label = "unmapLow" THEN "newLast" ELSE "unmapPd"
      /\ \A s \in Space : pc'[s] = pc[s]
      /\ pc' \in [Thread -> Labels]
  BY <1>1, <1>2, Names DEF Sound, TypeOK, Goto, Labels
<1>9. TypeOK' /\ Booted' /\ ~halted'
  <2>1. TypeOK'
    BY <1>3, <1>6, <1>8 DEF Sound, TypeOK
  <2>2. Booted' /\ ~halted'
    BY <1>2, <1>3, <1>6 DEF Sound, Booted
  <2> QED  BY <2>1, <2>2
<1>10. ~InMap(Creator)' /\ Stage' = pc'[Creator]
  BY <1>8 DEF InMap, Stage
<1>11. Unfinished(c.space, c.pd)' /\ memory'[c.pd] = memory[c.pd]
  <2>1. \A X \in {LowLinked, LowFilled, LastLinked, LastFilled, Closed} :
            Stage' \in X => Stage \in X
    BY <1>1, <1>2, <1>8, <1>10 DEF LowLinked, LowFilled, LastLinked, LastFilled, Closed
  <2>2. Making
    BY <1>1, <1>2
  <2> QED  BY <1>3, <1>7, <2>1, <2>2, UnfinishedKept
<1>12. Building'
  BY <1>3, <1>8, <1>10, <1>11 DEF Building, Making
<1>13. NewMapped'
  <2>1. ShownDirectory' = c.pd /\ ShownTable' = NONE
    BY <1>3, <1>8, <1>10 DEF ShownDirectory, ShownTable, Making
  <2> QED  BY <1>2, <1>3, <1>5, <1>7, <2>1, PageNames DEF NewMapped
<1>14. Calling'
  <2>1. \A u \in Space : Growing(u)' /\ AtTable(u, memory[directory[Home(u)]][local[u].page[1]])'
    BY <1>2, <1>3, <1>5, <1>6, <1>8, SpacesCall
  <2>2. AtTable(Creator, memory[directory[Home(Creator)]][local[Creator].page[1]])'
    BY <1>8 DEF AtTable
  <2> QED  BY <2>1, <2>2, Names DEF Calling
<1>15. Owned(own)'
  <2>1. \A f, k, s, i : Owns(own, f, k, s, i) => Owns(own, f, k, s, i)'
    BY <1>3 DEF Owns
  <2>2. \A s \in Space : Dir(s)' = Dir(s)
    BY <1>3 DEF Dir
  <2>3. \A s \in Space : OwnedBy(own, s)'
    BY <1>2, <1>5, <1>6, <2>1, <2>2, TableStoreOwned
  <2>4. \A s \in Space : Holds(own, s)'
    BY <1>3, <1>8, <2>1, HoldsKept DEF Sound, InMap
  <2> QED  BY <2>3, <2>4 DEF Sound, Owned
<1>16. Whole' /\ Mapping' = Mapping
  BY <1>3, <1>7, MappingKept DEF Whole
<1> QED
  BY <1>3, <1>6, <1>9, <1>12, <1>13, <1>14, <1>15, <1>16 DEF Sound

(* The new space is finished, and nothing is mapped in it yet. *)
LEMMA UnmapDirectorySound ==
    ASSUME NEW own, Sound(own), NEW t \in Thread, UnmapDirectory(t)
    PROVE  Sound(own)' /\ UNCHANGED <<Mapping, seen, top>> /\ (Heaped => Heaped')
<1>0. PICK c : c = local[Creator]
  OBVIOUS
<1>1. /\ Runs(t, "unmapPd") /\ Goto(t, "enter") /\ unmap(NewDirectoryPage)
      /\ directory' = [directory EXCEPT ![local[t].space] = local[t].pd]
      /\ local' = [local EXCEPT ![t] = [Idle EXCEPT !.space = local[t].space]]
      /\ UNCHANGED <<next, cr3, running, seen, top>>
  BY DEF UnmapDirectory
<1>2. /\ t = Creator /\ Making /\ cr3 # NONE /\ running = Creator /\ Home(running) = Kernel
      /\ Kernel \in Space /\ directory[Kernel] = cr3
      /\ pc[Creator] = "unmapPd" /\ Stage = "unmapPd"
      /\ Unfinished(c.space, c.pd) /\ c.space \in Space /\ c.space # Kernel
      /\ directory[c.space] = NONE /\ Dir(c.space) = c.pd /\ c.pd \in Frame
      /\ Walk(cr3, NewDirectoryPage) = c.pd /\ Walk(cr3, NewTablePage) = ShownTable
  BY <1>0, <1>1, CreatorAt DEF Steps
<1>3. NewTablePage = <<2, 1>> /\ NewDirectoryPage = <<2, 0>> /\ 0 \in Index /\ c.pd # NONE
  BY <1>2, Indices, Names DEF NewTablePage, NewDirectoryPage
<1>4. /\ directory' = [directory EXCEPT ![c.space] = c.pd]
      /\ directory'[c.space] = c.pd
      /\ \A s \in Space : s # c.space => directory'[s] = directory[s]
      /\ \A s \in Space : directory[s] # NONE => directory'[s] = directory[s]
  BY <1>0, <1>1, <1>2 DEF Sound, TypeOK
<1>5. /\ TableStore(own, 2, 0, NONE) /\ UNCHANGED halted
      /\ TlbCoherent' /\ TlbKnown' /\ tlb' \in [Page -> Frame \cup {NONE, JUNK}]
      /\ memory' \in [Frame -> [Index -> Frame \cup {NONE, JUNK}]] /\ Free'
  BY <1>1, <1>2, <1>3, <1>4, UnmapIs
<1>6. /\ \A s \in Space : directory[s] # NONE =>
             \A p \in HeapPage : Walk(directory[s], p)' = Walk(directory[s], p)
      /\ \A p \in Page : Walk(cr3, p)' = IF p = <<2, 0>> THEN NONE ELSE Walk(cr3, p)
      /\ \A s \in Space : directory[s] # NONE => Complete(directory[s])'
      /\ OnlyAt(memory[cr3][2])
      /\ Making => Alien(own, memory[cr3][2], c.space)
  BY <1>0, <1>2, <1>3, <1>5, SecondTable
<1>7. SameTables(c.pd)
  BY <1>2, <1>3, <1>6, Untouched DEF Sound
<1>8. /\ ~Making' /\ \A s \in Space : pc'[s] = pc[s]
      /\ pc'[Creator] = "enter" /\ pc' = [pc EXCEPT ![Creator] = "enter"]
      /\ local'[Creator].pd = NONE /\ local'[Creator].space = c.space
      /\ \A s \in Space : local'[s] = local[s]
      /\ pc' \in [Thread -> Labels]
  <2>1. "enter" \in Labels
    BY DEF Labels
  <2> QED  BY <1>0, <1>1, <1>2, <2>1, Names DEF Sound, TypeOK, Goto, Making, Idle
<1>9. TypeOK' /\ Booted' /\ ~halted'
  <2>1. [Idle EXCEPT !.space = c.space]
            \in [space : Space, pd : Frame \cup {NONE}, page : Page,
                 frame : Frame \cup {NONE}, back : Labels, end : Index]
    BY <1>2, PageNames, Indices DEF Idle, Labels
  <2>2. local' \in [Thread -> [space : Space, pd : Frame \cup {NONE}, page : Page,
                               frame : Frame \cup {NONE}, back : Labels, end : Index]]
    BY <1>0, <1>1, <1>2, <2>1 DEF Sound, TypeOK
  <2>3. directory' \in [Space -> Frame \cup {NONE}]
    BY <1>2, <1>4 DEF Sound, TypeOK
  <2>4. TypeOK'
    BY <1>1, <1>5, <1>8, <2>2, <2>3 DEF Sound, TypeOK
  <2>5. Booted' /\ ~halted'
    BY <1>1, <1>2, <1>4, <1>5 DEF Sound, Booted
  <2> QED  BY <2>4, <2>5
<1>10. Building'
  BY <1>8 DEF Building, InMap, Making
<1>11. NewMapped'
  <2>1. ShownDirectory' = NONE /\ ShownTable' = NONE
    BY <1>8 DEF ShownDirectory, ShownTable, Making
  <2>2. ShownTable = NONE
    BY <1>2 DEF ShownTable, Making
  <2>3. directory'[Kernel] = cr3
    BY <1>2, <1>4
  <2> QED  BY <1>1, <1>2, <1>3, <1>6, <2>1, <2>2, <2>3, PageNames DEF NewMapped
<1>12. Calling'
  <2>1. \A u \in Space : Growing(u)' /\ AtTable(u, memory[directory[Home(u)]][local[u].page[1]])'
    BY <1>1, <1>2, <1>3, <1>5, <1>8, SpacesCall
  <2>2. AtTable(Creator, memory[directory[Home(Creator)]][local[Creator].page[1]])'
    BY <1>8 DEF AtTable
  <2> QED  BY <2>1, <2>2, Names DEF Calling
<1>13. Owned(own)'
  <2>1. \A f, k, s, i : Owns(own, f, k, s, i) => Owns(own, f, k, s, i)'
    BY <1>1 DEF Owns
  <2>2. ASSUME NEW s \in Space PROVE Dir(s)' = Dir(s)
    <3>1. CASE s = c.space
      BY <1>2, <1>3, <1>4, <3>1 DEF Dir
    <3>2. CASE s # c.space
      <4>1. directory'[s] = directory[s]
        BY <1>4, <3>2
      <4> QED  BY <1>0, <1>8, <3>2, <4>1 DEF Dir
    <3> QED  BY <3>1, <3>2
  <2>3. \A s \in Space : OwnedBy(own, s)'
    BY <1>2, <1>3, <1>5, <2>1, <2>2, TableStoreOwned
  <2>4. \A s \in Space : Holds(own, s)'
    BY <1>8, <2>1, HoldsKept DEF Sound, InMap
  <2> QED  BY <2>3, <2>4 DEF Sound, Owned
<1>14. Whole'
  <2>1. Complete(c.pd)
    BY <1>2 DEF Unfinished, Complete, LowLinked, LowFilled, LastLinked, LastFilled, Closed
  <2>2. Complete(c.pd)'
    BY <1>7, <2>1, SameWalks
  <2>3. ASSUME NEW s \in Space, directory'[s] # NONE PROVE Complete(directory[s])'
    <3>1. CASE s = c.space
      BY <1>4, <2>2, <3>1 DEF Complete
    <3>2. CASE s # c.space
      BY <1>4, <1>6, <2>3, <3>2
    <3> QED  BY <3>1, <3>2
  <2> QED  BY <2>3 DEF Whole
<1>15. Mapping' = Mapping
  <2>1. ASSUME NEW p \in HeapPage PROVE Walk(c.pd, p)' = NONE
    <3>1. p[1] = 1 /\ 1 \in Index
      BY HeapPageNames, Indices
    <3>2. memory'[c.pd][1] = NONE
      BY <1>2, <1>7 DEF Unfinished, SameTables
    <3> QED  BY <3>1, <3>2, Names DEF Walk
  <2>2. ASSUME NEW s \in Space, NEW p \in HeapPage
        PROVE  (IF directory[s] = NONE THEN NONE ELSE Walk(directory[s], p))'
                   = IF directory[s] = NONE THEN NONE ELSE Walk(directory[s], p)
    <3>1. CASE s = c.space
      <4>1. Walk(directory[s], p)' = NONE
        BY <1>4, <2>1, <3>1 DEF Walk
      <4> QED  BY <1>2, <3>1, <4>1
    <3>2. CASE s # c.space
      BY <1>4, <1>6, <3>2
    <3> QED  BY <3>1, <3>2
  <2> QED  BY <2>2 DEF Mapping
<1>16. Heaped => Heaped'
  <2>1. pc[c.space] = "unborn"
    BY <1>2 DEF Sound, Calling, Growing
  <2>2. directory'[c.space] # NONE
    BY <1>3, <1>4
  <2> QED  BY <1>1, <1>2, <1>4, <1>8, <1>15, <2>1, <2>2, Names, HeapedKept DEF Sound, TypeOK
<1> QED
  BY <1>1, <1>5, <1>9, <1>10, <1>11, <1>12, <1>13, <1>14, <1>15, <1>16 DEF Sound

(* A store into the directory or a table of the space that is being made,  *)
(* as far as the others can tell.                                          *)
LEMMA BuildStep ==
    ASSUME NEW own, Sound(own), cr3 # NONE, running = Creator,
           NEW was \in Labels, pc[Creator] = was, Making,
           NEW s, s = local[Creator].space,
           NEW x, NEW k, NEW i, Owns(own, x, k, s, i), OnlyAt(x),
           memory' \in [Frame -> [Index -> Frame \cup {NONE, JUNK}]],
           UNCHANGED <<directory, cr3, running, seen, top, halted>>, next' \in {next, next + 1},
           NEW label \in Labels \ {"newTable", "clearTable", "setEntry"},
           pc' = [pc EXCEPT ![Creator] = label],
           local' \in [Thread -> [space : Space, pd : Frame \cup {NONE}, page : Page,
                                  frame : Frame \cup {NONE}, back : Labels, end : Index]],
           \A u \in Space : local'[u] = local[u],
           local'[Creator].space = s, local'[Creator].pd = local[Creator].pd,
           NEW q \in {NewDirectoryPage, NewTablePage}, tlb' = Remembered(q),
           ShownDirectory' = ShownDirectory, ShownTable' = ShownTable, Building',
           NEW new \in [Frame -> Role], \A f \in Frame : f < next => new[f] = own[f],
           OwnedBy(new, s)'
    PROVE  Sound(new)' /\ UNCHANGED <<Mapping, seen, top>>
<1>1. /\ s \in Space /\ directory[s] = NONE /\ Dir(s) = local[Creator].pd
      /\ \A r \in Space : r # s => Alien(own, x, r)
  BY NotBuilt, OtherRole
<1>2. q \in Page \ HeapPage
  BY PageNames, OtherPages
<1>3. Hidden(x)
  BY <1>2 DEF Hidden
<1>4. /\ Whole' /\ TlbCoherent' /\ TlbKnown' /\ Mapping' = Mapping
      /\ \A r \in Space : directory[r] # NONE => SameTables(directory[r])
  BY <1>1, <1>3, Quiet
<1>5. next \in Nat /\ next' \in Nat /\ next' >= next /\ x < next
  BY DEF Sound, TypeOK, Owns
<1>6. TypeOK' /\ ~halted' /\ Booted'
  <2>1. TypeOK'
    BY <1>2, <1>5, TlbTyped DEF Sound, TypeOK
  <2> QED  BY <2>1 DEF Sound, Booted
<1>7. Free'
  <2>1. \A f \in Frame : f >= next' => f # x /\ f >= next
    BY <1>5, Indices
  <2> QED  BY <1>5, <2>1 DEF Sound, Free, OnlyAt
<1>8. /\ pc'[Creator] = label
      /\ \A u \in Space : UNCHANGED <<pc[u], local[u]>>
  BY Names DEF Sound, TypeOK
<1>9. Owned(new)'
  <2>1. \A f, l, r, j : Owns(own, f, l, r, j) => Owns(new, f, l, r, j)'
    BY <1>5, Indices DEF Owns
  <2>2. \A r \in Space : Dir(r)' = Dir(r)
    BY DEF Dir
  <2>3. \A r \in Space : OwnedBy(new, r)'
    BY <1>1, <2>1, <2>2, OwnedElsewhere DEF Sound
  <2>4. \A r \in Space : Holds(new, r)'
    BY <1>8, <2>1, HoldsKept DEF Sound, InMap
  <2> QED  BY <2>3, <2>4 DEF Owned
<1>10. NewMapped'
  <2>1. Kernel \in Space /\ directory[Kernel] # NONE
    BY Names DEF Sound, Booted
  <2>2. SameTables(directory[Kernel])
    BY <1>4, <2>1
  <2>3. \A p \in {NewDirectoryPage, NewTablePage} :
            Walk(directory[Kernel], p)' = Walk(directory[Kernel], p)
    BY <2>2, SameWalks, PageNames
  <2> QED  BY <2>3, NewMappedKept
<1>11. Calling'
  <2>1. ASSUME NEW u \in Space
        PROVE  Growing(u)' /\ AtTable(u, memory[directory[Home(u)]][local[u].page[1]])'
    <3>1. InMap(u) => SameTable(directory[Home(u)], local[u].page[1])
      BY <1>4, EntryOf, Names DEF SameTables
    <3> QED  BY <1>8, <3>1, CallKept, Locals, Names DEF Sound
  <2>2. AtTable(Creator, memory[directory[Home(Creator)]][local[Creator].page[1]])'
    BY <1>8 DEF AtTable
  <2> QED  BY <2>1, <2>2, Names DEF Calling
<1> QED
  BY <1>4, <1>6, <1>7, <1>9, <1>10, <1>11 DEF Sound

(* What the space that is being made has. *)
LEMMA Made ==
    ASSUME NEW own, Sound(own), Making
    PROVE  LET c == local[Creator]
           IN  /\ Owns(own, c.pd, "directory", c.space, 0)
               /\ \A i \in Index : \/ memory[c.pd][i] = NONE
                                   \/ i = Entries - 1 /\ memory[c.pd][i] = c.pd
                                   \/ Owns(own, memory[c.pd][i], "table", c.space, i)
<1>1. /\ local[Creator].space \in Space /\ Dir(local[Creator].space) = local[Creator].pd
      /\ local[Creator].pd # NONE
  BY NotBuilt, Names
<1> QED  BY <1>1 DEF Sound, Owned, OwnedBy

LEMMA MadeKept ==
    ASSUME NEW new, NEW c, c.space \in Space, Dir(c.space)' = c.pd,
           Owns(new, c.pd, "directory", c.space, 0)', memory'[c.pd][1] = NONE,
           \A i \in Index : \/ memory'[c.pd][i] = NONE
                            \/ i = Entries - 1 /\ memory'[c.pd][i] = c.pd
                            \/ Owns(new, memory[c.pd][i], "table", c.space, i)'
    PROVE  OwnedBy(new, c.space)'
  BY DEF OwnedBy

LEMMA ClearDirectorySound ==
    ASSUME NEW own, Sound(own), NEW t \in Thread, ClearDirectory(t)
    PROVE  Sound(own)' /\ UNCHANGED <<Mapping, seen, top>>
<1>0. PICK c : c = local[Creator]
  OBVIOUS
<1>1. /\ Runs(t, "clearPd") /\ Goto(t, "newLow") /\ Store(NewDirectoryPage, Zero)
      /\ tlb' = Remembered(NewDirectoryPage)
      /\ UNCHANGED <<next, directory, cr3, running, local, seen, top>>
  BY DEF ClearDirectory, paging
<1>2. /\ t = Creator /\ Making /\ cr3 # NONE /\ running = Creator
      /\ pc[Creator] = "clearPd" /\ ~InMap(Creator) /\ Stage = "clearPd"
      /\ Unfinished(c.space, c.pd) /\ c.space \in Space
      /\ directory[c.space] = NONE /\ Dir(c.space) = c.pd /\ c.pd \in Frame
      /\ ShownDirectory = c.pd /\ Walk(cr3, NewDirectoryPage) = c.pd
  BY <1>0, <1>1, CreatorAt DEF Steps
<1>3. memory' = [memory EXCEPT ![c.pd] = Zero] /\ halted' = halted
  BY <1>1, <1>2, Here, PageNames DEF Store
<1>4. /\ OnlyAt(c.pd) /\ memory'[c.pd] = Zero
      /\ memory' \in [Frame -> [Index -> Frame \cup {NONE, JUNK}]]
  BY <1>2, <1>3, ZeroIs DEF Sound, TypeOK, OnlyAt
<1>5. /\ pc' = [pc EXCEPT ![Creator] = "newLow"] /\ pc'[Creator] = "newLow"
      /\ ~InMap(Creator)' /\ Stage' = "newLow"
  BY <1>1, <1>2, Names DEF Sound, TypeOK, Goto, InMap, Stage
<1>6. ShownDirectory' = ShownDirectory /\ ShownTable' = ShownTable
  BY <1>1, <1>2, <1>5 DEF ShownDirectory, ShownTable, Making
<1>7. Building'
  <2>1. Unfinished(c.space, c.pd)'
    BY <1>1, <1>2, <1>4, <1>5, ZeroIs, Indices
    DEF Unfinished, LowLinked, LowFilled, LastLinked, LastFilled, Closed
  <2> QED  BY <1>0, <1>1, <1>5, <2>1 DEF Building, Making
<1>8. OwnedBy(own, c.space)'
  <2>1. Owns(own, c.pd, "directory", c.space, 0)'
    BY <1>0, <1>1, <1>2, Made DEF Owns
  <2>2. Dir(c.space)' = c.pd
    BY <1>1, <1>2 DEF Dir
  <2> QED  BY <1>2, <1>4, <2>1, <2>2, ZeroIs, Indices, MadeKept
<1>9. Owns(own, c.pd, "directory", c.space, 0)
  BY <1>0, <1>2, Made
<1>10. own \in [Frame -> Role] /\ local' = local /\ next' = next
  BY <1>1 DEF Sound, Owned
<1> QED
  BY <1>0, <1>1, <1>2, <1>3, <1>4, <1>5, <1>6, <1>7, <1>8, <1>9, <1>10, BuildStep
  DEF Sound, TypeOK, Labels

LEMMA FillLowTableSound ==
    ASSUME NEW own, Sound(own), NEW t \in Thread, FillLowTable(t)
    PROVE  Sound(own)' /\ UNCHANGED <<Mapping, seen, top>>
<1>0. PICK c : c = local[Creator]
  OBVIOUS
<1>1. /\ Runs(t, "fillLow") /\ Goto(t, "unmapLow") /\ Store(NewTablePage, Identity)
      /\ tlb' = Remembered(NewTablePage)
      /\ UNCHANGED <<next, directory, cr3, running, local, seen, top>>
  BY DEF FillLowTable, paging
<1>2. /\ t = Creator /\ Making /\ cr3 # NONE /\ running = Creator
      /\ pc[Creator] = "fillLow" /\ ~InMap(Creator) /\ Stage = "fillLow"
      /\ Unfinished(c.space, c.pd) /\ c.space \in Space
      /\ directory[c.space] = NONE /\ Dir(c.space) = c.pd /\ c.pd \in Frame
      /\ ShownDirectory = c.pd /\ Walk(cr3, NewTablePage) = ShownTable
  BY <1>0, <1>1, CreatorAt DEF Steps
<1>3. PICK x : x = memory[c.pd][0]
  OBVIOUS
<1>4. /\ x \in Frame /\ Walk(cr3, NewTablePage) = x
      /\ Owns(own, x, "table", c.space, 0) /\ Owns(own, c.pd, "directory", c.space, 0)
  <2>1. x \in Frame /\ Walk(cr3, NewTablePage) = x
    BY <1>0, <1>2, <1>3
    DEF ShownTable, Unfinished, LowLinked, LowFilled, LastLinked, LastFilled, Closed, Making
  <2> QED  BY <1>0, <1>2, <1>3, <2>1, Made, Indices, Names
<1>5. x # c.pd
  BY <1>4, Distinct
<1>6. memory' = [memory EXCEPT ![x] = Identity] /\ halted' = halted
  BY <1>0, <1>1, <1>2, <1>4, Here, PageNames DEF Store
<1>7. /\ OnlyAt(x) /\ memory'[x] = Identity /\ memory'[c.pd] = memory[c.pd]
      /\ memory' \in [Frame -> [Index -> Frame \cup {NONE, JUNK}]]
  <2>1. Identity \in [Index -> Frame \cup {NONE, JUNK}]
    BY <1>2, IdentityIs
  <2> QED  BY <1>2, <1>4, <1>5, <1>6, <2>1 DEF Sound, TypeOK, OnlyAt
<1>8. /\ pc' = [pc EXCEPT ![Creator] = "unmapLow"] /\ pc'[Creator] = "unmapLow"
      /\ ~InMap(Creator)' /\ Stage' = "unmapLow"
  BY <1>1, <1>2, Names DEF Sound, TypeOK, Goto, InMap, Stage
<1>9. ShownDirectory' = ShownDirectory /\ ShownTable' = ShownTable
  BY <1>0, <1>1, <1>2, <1>7, <1>8 DEF ShownDirectory, ShownTable, Making
<1>10. Building'
  <2>1. Unfinished(c.space, c.pd)'
    BY <1>1, <1>2, <1>3, <1>4, <1>7, <1>8, Indices
    DEF Unfinished, LowLinked, LowFilled, LastLinked, LastFilled, Closed
  <2> QED  BY <1>0, <1>1, <1>8, <2>1 DEF Building, Making
<1>11. \A f, k, s, i : Owns(own, f, k, s, i) => Owns(own, f, k, s, i)'
  BY <1>1 DEF Owns
<1>12. OwnedBy(own, c.space)'
  <2>1. Dir(c.space)' = c.pd
    BY <1>1, <1>2 DEF Dir
  <2>2. ASSUME NEW i \in Index
        PROVE  \/ memory'[c.pd][i] = NONE
               \/ i = Entries - 1 /\ memory'[c.pd][i] = c.pd
               \/ Owns(own, memory[c.pd][i], "table", c.space, i)'
    <3>1. PICK g : g = memory[c.pd][i] /\ g = memory'[c.pd][i]
      BY <1>7
    <3>2. \/ g = NONE
          \/ i = Entries - 1 /\ g = c.pd
          \/ Owns(own, g, "table", c.space, i)'
      BY <1>0, <1>2, <1>11, <3>1, Made
    <3> QED  BY <3>1, <3>2 DEF Owns
  <2> QED  BY <1>2, <1>4, <1>7, <1>11, <2>1, <2>2, MadeKept DEF Unfinished
<1>13. own \in [Frame -> Role] /\ local' = local /\ next' = next
  BY <1>1 DEF Sound, Owned
<1> QED
  BY <1>0, <1>1, <1>2, <1>4, <1>6, <1>7, <1>8, <1>9, <1>10, <1>12, <1>13, BuildStep
  DEF Sound, TypeOK, Labels

LEMMA FillLastTableSound ==
    ASSUME NEW own, Sound(own), NEW t \in Thread, FillLastTable(t)
    PROVE  Sound(own)' /\ UNCHANGED <<Mapping, seen, top>>
<1>0. PICK c : c = local[Creator]
  OBVIOUS
<1>1. /\ Runs(t, "fillLast") /\ Goto(t, "loop") /\ Store(NewTablePage, [Zero EXCEPT ![Entries - 1] = local[t].pd])
      /\ tlb' = Remembered(NewTablePage)
      /\ UNCHANGED <<next, directory, cr3, running, local, seen, top>>
  BY DEF FillLastTable, paging
<1>2. /\ t = Creator /\ Making /\ cr3 # NONE /\ running = Creator
      /\ pc[Creator] = "fillLast" /\ ~InMap(Creator) /\ Stage = "fillLast"
      /\ Unfinished(c.space, c.pd) /\ c.space \in Space
      /\ directory[c.space] = NONE /\ Dir(c.space) = c.pd /\ c.pd \in Frame
      /\ ShownDirectory = c.pd /\ Walk(cr3, NewTablePage) = ShownTable
  BY <1>0, <1>1, CreatorAt DEF Steps
<1>3. PICK x : x = memory[c.pd][Entries - 2]
  OBVIOUS
<1>4. /\ x \in Frame /\ Walk(cr3, NewTablePage) = x
      /\ Owns(own, x, "table", c.space, Entries - 2) /\ Owns(own, c.pd, "directory", c.space, 0)
  <2>1. x \in Frame /\ Walk(cr3, NewTablePage) = x
    BY <1>0, <1>2, <1>3
    DEF ShownTable, Unfinished, LowLinked, LowFilled, LastLinked, LastFilled, Closed, Making
  <2> QED  BY <1>0, <1>2, <1>3, <2>1, Made, Indices, Names
<1>5. x # c.pd
  BY <1>4, Distinct
<1>6. memory' = [memory EXCEPT ![x] = [Zero EXCEPT ![Entries - 1] = c.pd]] /\ halted' = halted
  BY <1>0, <1>1, <1>2, <1>4, Here, PageNames DEF Store
<1>7. /\ OnlyAt(x) /\ memory'[x] = [Zero EXCEPT ![Entries - 1] = c.pd] /\ memory'[c.pd] = memory[c.pd]
      /\ memory' \in [Frame -> [Index -> Frame \cup {NONE, JUNK}]]
  <2>1. [Zero EXCEPT ![Entries - 1] = c.pd] \in [Index -> Frame \cup {NONE, JUNK}]
    BY <1>2, ZeroIs
  <2> QED  BY <1>2, <1>4, <1>5, <1>6, <2>1 DEF Sound, TypeOK, OnlyAt
<1>8. /\ pc' = [pc EXCEPT ![Creator] = "loop"] /\ pc'[Creator] = "loop"
      /\ ~InMap(Creator)' /\ Stage' = "loop"
  BY <1>1, <1>2, Names DEF Sound, TypeOK, Goto, InMap, Stage
<1>9. ShownDirectory' = ShownDirectory /\ ShownTable' = ShownTable
  BY <1>0, <1>1, <1>2, <1>7, <1>8 DEF ShownDirectory, ShownTable, Making
<1>10. Building'
  <2>1. Unfinished(c.space, c.pd)'
    <3>1. memory[c.pd][0] # x
      <4>1. memory[c.pd][0] \in Frame
        BY <1>2 DEF Unfinished, LowLinked, LowFilled, LastLinked, LastFilled, Closed
      <4>2. Owns(own, memory[c.pd][0], "table", c.space, 0)
        BY <1>0, <1>2, <4>1, Made, Indices, Names
      <4>3. 0 # Entries - 2
        BY Indices
      <4> QED  BY <1>4, <4>2, <4>3, Distinct
    <3>2. memory'[x][Entries - 1] = c.pd
      BY <1>7, ZeroIs, Indices
    <3> QED
      BY <1>1, <1>2, <1>3, <1>4, <1>7, <1>8, <3>1, <3>2, Indices
      DEF Unfinished, LowLinked, LowFilled, LastLinked, LastFilled, Closed, OnlyAt
  <2> QED  BY <1>0, <1>1, <1>8, <2>1 DEF Building, Making
<1>11. \A f, k, s, i : Owns(own, f, k, s, i) => Owns(own, f, k, s, i)'
  BY <1>1 DEF Owns
<1>12. OwnedBy(own, c.space)'
  <2>1. Dir(c.space)' = c.pd
    BY <1>1, <1>2 DEF Dir
  <2>2. ASSUME NEW i \in Index
        PROVE  \/ memory'[c.pd][i] = NONE
               \/ i = Entries - 1 /\ memory'[c.pd][i] = c.pd
               \/ Owns(own, memory[c.pd][i], "table", c.space, i)'
    <3>1. PICK g : g = memory[c.pd][i] /\ g = memory'[c.pd][i]
      BY <1>7
    <3>2. \/ g = NONE
          \/ i = Entries - 1 /\ g = c.pd
          \/ Owns(own, g, "table", c.space, i)'
      BY <1>0, <1>2, <1>11, <3>1, Made
    <3> QED  BY <3>1, <3>2 DEF Owns
  <2> QED  BY <1>2, <1>4, <1>7, <1>11, <2>1, <2>2, MadeKept DEF Unfinished
<1>13. own \in [Frame -> Role] /\ local' = local /\ next' = next
  BY <1>1 DEF Sound, Owned
<1>14. /\ "fillLast" \in Labels /\ "loop" \in Labels \ {"newTable", "clearTable", "setEntry"}
       /\ local' \in [Thread -> [space : Space, pd : Frame \cup {NONE}, page : Page,
                                 frame : Frame \cup {NONE}, back : Labels, end : Index]]
  BY <1>13 DEF Sound, TypeOK, Labels
<1>15. /\ \A u \in Space : local'[u] = local[u]
       /\ local'[Creator].space = c.space /\ local'[Creator].pd = local[Creator].pd
       /\ next' \in {next, next + 1} /\ \A f \in Frame : f < next => own[f] = own[f]
  BY <1>0, <1>13
<1> QED
  BY <1>0, <1>1, <1>2, <1>4, <1>6, <1>7, <1>8, <1>9, <1>10, <1>12, <1>13, <1>14, <1>15,
     BuildStep

LEMMA CloseLoopSound ==
    ASSUME NEW own, Sound(own), NEW t \in Thread, CloseLoop(t)
    PROVE  Sound(own)' /\ UNCHANGED <<Mapping, seen, top>>
<1>0. PICK c : c = local[Creator]
  OBVIOUS
<1>1. /\ Runs(t, "loop") /\ Goto(t, "unmapLast")
      /\ Store(NewDirectoryPage, [Contents(NewDirectoryPage) EXCEPT ![Entries - 1] = local[t].pd])
      /\ tlb' = Remembered(NewDirectoryPage)
      /\ UNCHANGED <<next, directory, cr3, running, local, seen, top>>
  BY DEF CloseLoop, paging
<1>2. /\ t = Creator /\ Making /\ cr3 # NONE /\ running = Creator
      /\ pc[Creator] = "loop" /\ ~InMap(Creator) /\ Stage = "loop"
      /\ Unfinished(c.space, c.pd) /\ c.space \in Space
      /\ directory[c.space] = NONE /\ Dir(c.space) = c.pd /\ c.pd \in Frame
      /\ ShownDirectory = c.pd /\ Walk(cr3, NewDirectoryPage) = c.pd
  BY <1>0, <1>1, CreatorAt DEF Steps
<1>3. Owns(own, c.pd, "directory", c.space, 0) /\ Translate(NewDirectoryPage) = c.pd
  BY <1>0, <1>2, Made, Here, PageNames
<1>4. /\ memory' = [memory EXCEPT ![c.pd] = [memory[c.pd] EXCEPT ![Entries - 1] = c.pd]]
      /\ halted' = halted
  BY <1>0, <1>1, <1>2, <1>3 DEF Store, Contents
<1>5. /\ OnlyAt(c.pd) /\ memory'[c.pd][Entries - 1] = c.pd
      /\ \A i \in Index : i # Entries - 1 => memory'[c.pd][i] = memory[c.pd][i]
      /\ memory' \in [Frame -> [Index -> Frame \cup {NONE, JUNK}]]
  BY <1>2, <1>4, Indices DEF Sound, TypeOK, OnlyAt
<1>6. /\ pc' = [pc EXCEPT ![Creator] = "unmapLast"] /\ pc'[Creator] = "unmapLast"
      /\ ~InMap(Creator)' /\ Stage' = "unmapLast"
  BY <1>1, <1>2, Names DEF Sound, TypeOK, Goto, InMap, Stage
<1>7. Entries - 2 \in Index /\ Entries - 2 # Entries - 1
  BY Indices
<1>8. ShownDirectory' = ShownDirectory /\ ShownTable' = ShownTable
  <2>1. memory'[c.pd][Entries - 2] = memory[c.pd][Entries - 2]
    BY <1>5, <1>7
  <2> QED  BY <1>0, <1>1, <1>2, <1>6, <2>1 DEF ShownDirectory, ShownTable, Making
<1>9. /\ 0 \in Index /\ 0 # Entries - 1 /\ 1 \in Index /\ 1 # Entries - 1
      /\ memory'[c.pd][0] = memory[c.pd][0] /\ memory'[c.pd][1] = memory[c.pd][1]
      /\ memory'[c.pd][Entries - 2] = memory[c.pd][Entries - 2]
  BY <1>5, Indices
<1>10. Building'
  <2>1. ASSUME NEW i \in {0, Entries - 2}
        PROVE  memory[c.pd][i] \in Frame => memory'[memory[c.pd][i]] = memory[memory[c.pd][i]]
    <3> SUFFICES ASSUME memory[c.pd][i] \in Frame
                 PROVE  memory'[memory[c.pd][i]] = memory[memory[c.pd][i]]
      OBVIOUS
    <3>1. i \in Index /\ i # Entries - 1
      BY <1>7, <1>9
    <3>2. Owns(own, memory[c.pd][i], "table", c.space, i)
      BY <1>0, <1>2, <3>1, Made, Names
    <3>3. memory[c.pd][i] # c.pd
      BY <1>3, <3>2, Distinct
    <3> QED  BY <1>5, <3>3 DEF OnlyAt
  <2>2. Unfinished(c.space, c.pd)'
    BY <1>1, <1>2, <1>5, <1>6, <1>9, <2>1
    DEF Unfinished, LowLinked, LowFilled, LastLinked, LastFilled, Closed
  <2> QED  BY <1>0, <1>1, <1>6, <2>2 DEF Building, Making
<1>11. \A f, k, s, i : Owns(own, f, k, s, i) => Owns(own, f, k, s, i)'
  BY <1>1 DEF Owns
<1>12. OwnedBy(own, c.space)'
  <2>1. Dir(c.space)' = c.pd
    BY <1>1, <1>2 DEF Dir
  <2>2. ASSUME NEW i \in Index
        PROVE  \/ memory'[c.pd][i] = NONE
               \/ i = Entries - 1 /\ memory'[c.pd][i] = c.pd
               \/ Owns(own, memory[c.pd][i], "table", c.space, i)'
    <3>1. CASE i = Entries - 1
      BY <1>5, <3>1
    <3>2. CASE i # Entries - 1
      <4>1. PICK g : g = memory[c.pd][i] /\ g = memory'[c.pd][i]
        BY <1>5, <3>2
      <4>2. g = NONE \/ Owns(own, g, "table", c.space, i)'
        BY <1>0, <1>2, <1>11, <3>2, <4>1, Made
      <4> QED  BY <4>1, <4>2 DEF Owns
    <3> QED  BY <3>1, <3>2
  <2>3. memory'[c.pd][1] = NONE
    BY <1>2, <1>9 DEF Unfinished
  <2> QED  BY <1>2, <1>3, <1>11, <2>1, <2>2, <2>3, MadeKept
<1>13. own \in [Frame -> Role] /\ local' = local /\ next' = next
  BY <1>1 DEF Sound, Owned
<1>14. /\ "loop" \in Labels /\ "unmapLast" \in Labels \ {"newTable", "clearTable", "setEntry"}
       /\ local' \in [Thread -> [space : Space, pd : Frame \cup {NONE}, page : Page,
                                 frame : Frame \cup {NONE}, back : Labels, end : Index]]
  BY <1>13 DEF Sound, TypeOK, Labels
<1>15. /\ \A u \in Space : local'[u] = local[u]
       /\ local'[Creator].space = c.space /\ local'[Creator].pd = local[Creator].pd
       /\ next' \in {next, next + 1} /\ \A f \in Frame : f < next => own[f] = own[f]
  BY <1>0, <1>13
<1> QED
  BY <1>0, <1>1, <1>2, <1>3, <1>4, <1>5, <1>6, <1>8, <1>10, <1>12, <1>13, <1>14, <1>15,
     BuildStep

(* A frame becomes a table of the new space. *)
LEMMA AddTableSound ==
    ASSUME NEW own, Sound(own), NEW t \in Thread, NEW label, NEW i, NEW back,
           AddTable(t, label, i, back),
           \/ label = "newLow" /\ i = 0 /\ back = "fillLow"
           \/ label = "newLast" /\ i = Entries - 2 /\ back = "fillLast"
    PROVE  Owning' /\ UNCHANGED <<Mapping, seen, top>>
<1>0. PICK c, n, new : /\ c = local[Creator] /\ n = next
                       /\ new = [own EXCEPT ![n] = <<"table", c.space, i>>]
  OBVIOUS
<1>1. /\ Runs(t, label) /\ n \in Frame /\ next' = n + 1
      /\ Store(NewDirectoryPage, [Contents(NewDirectoryPage) EXCEPT ![i] = n])
      /\ tlb' = Remembered(NewDirectoryPage)
      /\ local' = [local EXCEPT ![t].page = NewTablePage, ![t].frame = n, ![t].back = back]
      /\ Goto(t, "map")
      /\ UNCHANGED <<directory, cr3, running, seen, top>>
  BY <1>0 DEF AddTable, Calls, Allocate, paging
<1>2. /\ t = Creator /\ Making /\ cr3 # NONE /\ running = Creator
      /\ pc[Creator] = label /\ ~InMap(Creator) /\ Stage = label
      /\ Unfinished(c.space, c.pd) /\ c.space \in Space
      /\ directory[c.space] = NONE /\ Dir(c.space) = c.pd /\ c.pd \in Frame
      /\ ShownDirectory = c.pd /\ Walk(cr3, NewDirectoryPage) = c.pd
  BY <1>0, <1>1, CreatorAt DEF Steps
<1>3. Owns(own, c.pd, "directory", c.space, 0) /\ Translate(NewDirectoryPage) = c.pd
  BY <1>0, <1>2, Made, Here, PageNames
<1>4. /\ memory' = [memory EXCEPT ![c.pd] = [memory[c.pd] EXCEPT ![i] = n]]
      /\ halted' = halted
  BY <1>0, <1>1, <1>2, <1>3 DEF Store, Contents
<1>5. i \in Index /\ i # Entries - 1 /\ i # 1 /\ 1 \in Index /\ 0 \in Index
  BY Indices
<1>6. /\ OnlyAt(c.pd) /\ memory'[c.pd][i] = n
      /\ \A j \in Index : j # i => memory'[c.pd][j] = memory[c.pd][j]
      /\ memory' \in [Frame -> [Index -> Frame \cup {NONE, JUNK}]]
  BY <1>1, <1>2, <1>4, <1>5 DEF Sound, TypeOK, OnlyAt
<1>7. /\ n \in Nat /\ 2 <= n /\ c.pd < n
  BY <1>0, <1>3 DEF Sound, TypeOK, Free, Owns
<1>8. /\ pc' = [pc EXCEPT ![Creator] = "map"] /\ pc'[Creator] = "map"
      /\ InMap(Creator)'
  BY <1>1, <1>2, Names DEF Sound, TypeOK, Goto, InMap
<1>9. /\ local' \in [Thread -> [space : Space, pd : Frame \cup {NONE}, page : Page,
                                frame : Frame \cup {NONE}, back : Labels, end : Index]]
      /\ \A u \in Space : local'[u] = local[u]
      /\ local'[Creator].space = c.space /\ local'[Creator].pd = c.pd
      /\ local'[Creator].page = NewTablePage /\ local'[Creator].frame = n
      /\ local'[Creator].back = back
  <2>1. back \in Labels
    BY DEF Labels
  <2>2. local'[Creator] = [c EXCEPT !.page = NewTablePage, !.frame = n, !.back = back]
    BY <1>0, <1>1, <1>2, Names DEF Sound, TypeOK
  <2>3. c \in [space : Space, pd : Frame \cup {NONE}, page : Page,
               frame : Frame \cup {NONE}, back : Labels, end : Index]
    BY <1>0, Names DEF Sound, TypeOK
  <2>4. /\ local'[Creator] \in [space : Space, pd : Frame \cup {NONE}, page : Page,
                                frame : Frame \cup {NONE}, back : Labels, end : Index]
        /\ local'[Creator].space = c.space /\ local'[Creator].pd = c.pd
        /\ local'[Creator].page = NewTablePage /\ local'[Creator].frame = n
        /\ local'[Creator].back = back
    <3>1. NewTablePage \in Page /\ n \in Frame \cup {NONE}
      BY <1>1, PageNames
    <3> QED  BY <2>1, <2>2, <2>3, <3>1
  <2>5. \A u \in Thread : u # Creator => local'[u] = local[u]
    BY <1>1, <1>2 DEF Sound, TypeOK
  <2>6. DOMAIN local' = Thread /\ local' = [u \in Thread |-> local'[u]]
    BY <1>1 DEF Sound, TypeOK
  <2>7. \A u \in Thread : local'[u] \in [space : Space, pd : Frame \cup {NONE}, page : Page,
                                         frame : Frame \cup {NONE}, back : Labels, end : Index]
    BY <2>4, <2>5 DEF Sound, TypeOK
  <2> QED  BY <2>4, <2>5, <2>6, <2>7, Names
<1>10. Stage' = back
  BY <1>8, <1>9 DEF Stage
<1>11. ShownDirectory' = ShownDirectory /\ ShownTable' = ShownTable
  <2>1. ShownTable = NONE /\ ShownTable' = NONE
    BY <1>2, <1>8 DEF ShownTable, Making
  <2>2. ShownDirectory' = c.pd
    BY <1>8, <1>9 DEF ShownDirectory, Making
  <2> QED  BY <1>2, <2>1, <2>2
<1>12. Building'
  <2>1. memory'[c.pd][1] = NONE
    BY <1>2, <1>5, <1>6 DEF Unfinished
  <2>2. CASE label = "newLow"
    <3>1. Unfinished(c.space, c.pd)'
      BY <1>1, <1>2, <1>6, <1>10, <2>1, <2>2
      DEF Unfinished, LowLinked, LowFilled, LastLinked, LastFilled, Closed
    <3>2. Ordered(local[Creator])'
      BY <1>6, <1>9, <2>2 DEF Ordered
    <3> QED  BY <1>8, <1>9, <3>1, <3>2 DEF Building, Making
  <2>3. CASE label = "newLast"
    <3>1. memory[c.pd][0] \in Frame /\ memory[memory[c.pd][0]] = Identity
      BY <1>2, <2>3 DEF Unfinished, LowLinked, LowFilled, LastLinked, LastFilled, Closed
    <3>2. memory[c.pd][0] # c.pd
      <4>1. Owns(own, memory[c.pd][0], "table", c.space, 0)
        BY <1>0, <1>2, <1>5, <2>3, <3>1, Made, Indices, Names
      <4> QED  BY <1>3, <4>1, Distinct
    <3>3. memory'[c.pd][0] = memory[c.pd][0]
      BY <1>5, <1>6, <2>3, Indices
    <3>4. memory'[memory'[c.pd][0]] = Identity
      BY <1>6, <3>1, <3>2, <3>3 DEF OnlyAt
    <3>5. Unfinished(c.space, c.pd)'
      BY <1>1, <1>2, <1>6, <1>10, <2>1, <2>3, <3>1, <3>3, <3>4
      DEF Unfinished, LowLinked, LowFilled, LastLinked, LastFilled, Closed
    <3>6. Ordered(local[Creator])'
      BY <1>6, <1>9, <2>3 DEF Ordered
    <3> QED  BY <1>8, <1>9, <3>5, <3>6 DEF Building, Making
  <2> QED  BY <2>2, <2>3
<1>13. /\ new \in [Frame -> Role] /\ \A f \in Frame : f < n => new[f] = own[f]
       /\ new[n] = <<"table", c.space, i>>
  <2>1. <<"table", c.space, i>> \in Role
    BY <1>2, <1>5 DEF Role
  <2> QED  BY <1>0, <1>1, <1>7, <2>1, Indices DEF Sound, Owned
<1>14. OwnedBy(new, c.space)'
  <2>1. \A f, k, s, j : Owns(own, f, k, s, j) => Owns(new, f, k, s, j)'
    BY <1>0, <1>1, <1>7, <1>13, Indices DEF Owns
  <2>2. Dir(c.space)' = c.pd
    BY <1>1, <1>2, <1>9 DEF Dir
  <2>3. ASSUME NEW j \in Index
        PROVE  \/ memory'[c.pd][j] = NONE
               \/ j = Entries - 1 /\ memory'[c.pd][j] = c.pd
               \/ Owns(new, memory[c.pd][j], "table", c.space, j)'
    <3>1. CASE j = i
      BY <1>1, <1>6, <1>7, <1>13, <3>1 DEF Owns
    <3>2. CASE j # i
      <4>1. PICK g : g = memory[c.pd][j] /\ g = memory'[c.pd][j]
        BY <1>6, <3>2
      <4>2. \/ g = NONE
            \/ j = Entries - 1 /\ g = c.pd
            \/ Owns(new, g, "table", c.space, j)'
        BY <1>0, <1>2, <2>1, <4>1, Made
      <4> QED  BY <4>1, <4>2 DEF Owns
    <3> QED  BY <3>1, <3>2
  <2>4. memory'[c.pd][1] = NONE
    BY <1>2, <1>5, <1>6 DEF Unfinished
  <2> QED  BY <1>2, <1>3, <2>1, <2>2, <2>3, <2>4, MadeKept
<1>15. /\ label \in Labels /\ label # "idle"
       /\ "map" \in Labels \ {"newTable", "clearTable", "setEntry"}
  BY DEF Labels
<1> QED
  <2>1. /\ c.space = local[Creator].space /\ c.pd = local[Creator].pd
        /\ next' \in {next, next + 1} /\ tlb' = Remembered(NewDirectoryPage)
        /\ \A f \in Frame : f < next => new[f] = own[f]
        /\ new \in [Frame -> Role] /\ UNCHANGED <<directory, cr3, running, seen, top, halted>>
    BY <1>0, <1>1, <1>4, <1>13
  <2>2. Sound(new)' /\ UNCHANGED <<Mapping, seen, top>>
    BY <1>2, <1>3, <1>6, <1>8, <1>9, <1>11, <1>12, <1>14, <1>15, <2>1, BuildStep
  <2> QED  BY <2>2 DEF Owning

----------------------------------------------------------------------------
(* The steps that take a frame, change what is remembered or what runs.    *)

(* The variables of a call. *)
Call == [space : Space, pd : Frame \cup {NONE}, page : Page,
         frame : Frame \cup {NONE}, back : Labels, end : Index]

(* A thread takes the next frame and calls map. *)
Takes(t, n, l) ==
    /\ ~InMap(t) /\ n \in Frame /\ n = next /\ next' = n + 1
    /\ l \in Call /\ local' = [local EXCEPT ![t] = l] /\ pc' = [pc EXCEPT ![t] = "map"]
    /\ UNCHANGED <<memory, directory, cr3, running>>
    /\ tlb' \in [Page -> Frame \cup {NONE, JUNK}]
    /\ seen' \in [Space -> [HeapPage -> Frame \cup {NONE, JUNK}]]
    /\ \A s \in Space : s # t => seen'[s] = seen[s]
    /\ top' \in [Space -> 0 .. HeapPages - 1 \cup {NONE}] /\ halted' = FALSE

LEMMA TakeFrame ==
    ASSUME NEW own, Sound(own), cr3 # NONE, NEW t \in Thread, NEW n, NEW l, Takes(t, n, l),
           NEW new \in [Frame -> Role], \A f \in Frame : f < next => new[f] = own[f]
    PROVE  /\ TypeOK' /\ ~halted' /\ Free' /\ Booted' /\ Whole'
           /\ UNCHANGED Mapping
           /\ 2 <= n /\ n < next' /\ memory'[n] = Zero
           /\ \A s \in Space : Dir(s)' = Dir(s) => OwnedBy(new, s)'
           /\ \A s \in Space : s # t => Holds(new, s)'
           /\ pc'[t] = "map" /\ local'[t] = l
           /\ \A u \in Thread : u # t =>
                 /\ UNCHANGED <<pc[u], local[u]>>
                 /\ u \in Space => Growing(u)'
           /\ \A u \in Thread : AtTable(u, memory[directory[Home(u)]][local[u].page[1]])'
<1>0. /\ ~InMap(t) /\ n \in Frame /\ n = next /\ next' = n + 1
      /\ l \in Call /\ local' = [local EXCEPT ![t] = l] /\ pc' = [pc EXCEPT ![t] = "map"]
      /\ UNCHANGED <<memory, directory, cr3, running>>
      /\ tlb' \in [Page -> Frame \cup {NONE, JUNK}]
      /\ seen' \in [Space -> [HeapPage -> Frame \cup {NONE, JUNK}]]
      /\ \A s \in Space : s # t => seen'[s] = seen[s]
      /\ top' \in [Space -> 0 .. HeapPages - 1 \cup {NONE}] /\ halted' = FALSE
  BY DEF Takes
<1>1. n \in Nat /\ 2 <= n /\ next' \in Nat /\ n < next' /\ memory[n] = Zero
  BY <1>0 DEF Sound, TypeOK, Free
<1>2. TypeOK' /\ ~halted' /\ Booted'
  <2>1. "map" \in Labels
    BY DEF Labels
  <2>2. pc' \in [Thread -> Labels] /\ local' \in [Thread -> Call]
    BY <1>0, <2>1 DEF Sound, TypeOK, Call
  <2>3. TypeOK'
    BY <1>0, <1>1, <2>2 DEF Sound, TypeOK, Call
  <2> QED  BY <1>0, <2>3 DEF Sound, Booted
<1>3. Free'
  BY <1>0, <1>1, Indices DEF Sound, Free
<1>4. Whole' /\ UNCHANGED Mapping
  BY <1>0 DEF Sound, Whole, Complete, Mapping, Walk
<1>6. \A f, k, s, i : Owns(own, f, k, s, i) => Owns(new, f, k, s, i)'
  BY <1>0, <1>1, Indices DEF Owns
<1>7. ASSUME NEW s \in Space, Dir(s)' = Dir(s) PROVE OwnedBy(new, s)'
  <2>1. Alien(own, 0, s) /\ OnlyAt(0)
    BY <1>0, <1>1, LowAlien DEF OnlyAt
  <2> QED  BY <1>0, <1>6, <1>7, <2>1, OwnedElsewhere DEF Sound
<1>8. /\ pc'[t] = "map" /\ local'[t] = l
      /\ \A u \in Thread : u # t => UNCHANGED <<pc[u], local[u]>>
  BY <1>0 DEF Sound, TypeOK
<1>9. \A s \in Space : s # t => Holds(new, s)'
  <2> SUFFICES ASSUME NEW s \in Space, s # t PROVE Holds(new, s)'
    OBVIOUS
  <2>1. UNCHANGED <<pc[s], local[s]>>
    BY <1>8, Names
  <2> QED  BY <1>6, <2>1, HoldsKept DEF Sound, InMap
<1>10. ASSUME NEW u \in Thread, u # t
       PROVE  /\ u \in Space => Growing(u)'
              /\ AtTable(u, memory[directory[Home(u)]][local[u].page[1]])'
  BY <1>0, <1>8, <1>10, CallKept, Locals DEF Sound, SameTable
<1>11. AtTable(t, memory[directory[Home(t)]][local[t].page[1]])'
  BY <1>0, <1>8 DEF AtTable
<1> QED
  BY <1>0, <1>1, <1>2, <1>3, <1>4, <1>7, <1>8, <1>9, <1>10, <1>11

LEMMA CreateSound ==
    ASSUME NEW own, Sound(own), NEW s \in Process, create_page_directory(Creator, s)
    PROVE  Owning' /\ UNCHANGED <<Mapping, seen, top>>
<1>0. PICK n, l, role, new :
          /\ n = next /\ role = <<"directory", s, 0>> /\ new = [own EXCEPT ![n] = role]
          /\ l = [space |-> s, pd |-> n, page |-> NewDirectoryPage, frame |-> n,
                  back |-> "clearPd", end |-> 0]
  OBVIOUS
<1>1. /\ pc[Creator] = "idle" /\ cr3 # NONE /\ directory[s] = NONE
      /\ n \in Frame /\ next' = n + 1
      /\ local' = [local EXCEPT ![Creator] = l]
      /\ pc' = [pc EXCEPT ![Creator] = "map"]
      /\ UNCHANGED <<memory, directory, cr3, running, tlb, seen, top, halted>>
  BY <1>0 DEF create_page_directory, Runs, Allocate, Goto, paging
<1>2. s \in Space /\ Creator \in Thread /\ Creator \notin Space /\ 0 \in Index /\ 1 \in Index
  BY Names, Indices
<1>3. l \in Call
  <2>1. "clearPd" \in Labels /\ NewDirectoryPage \in Page
    BY PageNames DEF Labels
  <2> QED  BY <1>0, <1>1, <1>2, <2>1 DEF Call
<1>4. role \in Role
  BY <1>0, <1>2 DEF Role
<1>5. /\ TypeOK' /\ ~halted' /\ Free' /\ Booted' /\ Whole' /\ TlbCoherent' /\ TlbKnown'
      /\ UNCHANGED <<Mapping, seen, top>>
      /\ new[n] = role
      /\ 2 <= n /\ n < next' /\ memory'[n] = Zero
      /\ \A r \in Space : Dir(r)' = Dir(r) => OwnedBy(new, r)'
      /\ \A r \in Space : r # Creator => Holds(new, r)'
      /\ pc'[Creator] = "map" /\ local'[Creator] = l
      /\ \A u \in Thread : u # Creator =>
            /\ UNCHANGED <<pc[u], local[u]>>
            /\ u \in Space => Growing(u)'
      /\ \A u \in Thread : AtTable(u, memory[directory[Home(u)]][local[u].page[1]])'
  <2>1. Takes(Creator, n, l)
    <3>1. ~InMap(Creator)
      BY <1>1 DEF InMap
    <3> QED  BY <1>0, <1>1, <1>3, <3>1 DEF Takes, Sound, TypeOK
  <2>2. /\ new \in [Frame -> Role] /\ new[n] = role
        /\ \A f \in Frame : f < next => new[f] = own[f]
    BY <1>0, <1>1, <1>4, Indices DEF Sound, Owned
  <2>3. TlbCoherent' /\ TlbKnown'
    BY <1>1 DEF Sound, TlbCoherent, TlbKnown, Walk
  <2> QED  BY <1>1, <1>2, <2>1, <2>2, <2>3, TakeFrame
<1>6. /\ local'[Creator].space = s /\ local'[Creator].pd = n
      /\ local'[Creator].page = NewDirectoryPage /\ local'[Creator].frame = n
      /\ local'[Creator].back = "clearPd"
  BY <1>0, <1>5
<1>7. InMap(Creator)' /\ Stage' = "clearPd" /\ Making'
  BY <1>5, <1>6 DEF InMap, Stage, Making
<1>8. Building'
  <2>1. Unfinished(s, n)'
    BY <1>1, <1>2, <1>5, <1>7, ZeroIs
    DEF Unfinished, LowLinked, LowFilled, LastLinked, LastFilled, Closed
  <2>2. Ordered(local[Creator])'
    BY <1>6 DEF Ordered
  <2> QED  BY <1>6, <1>7, <2>1, <2>2 DEF Building, Making
<1>9. NewMapped'
  <2>1. ShownDirectory = NONE /\ ShownTable = NONE
    BY <1>1 DEF ShownDirectory, ShownTable, Making
  <2>2. ShownDirectory' = NONE /\ ShownTable' = NONE
    BY <1>5, <1>6, <1>7 DEF ShownDirectory, ShownTable, Making
  <2> QED  BY <1>1, <2>1, <2>2 DEF Sound, NewMapped, Walk
<1>10. Owned(new)'
  <2>1. ASSUME NEW r \in Space, r # s PROVE Dir(r)' = Dir(r)
    <3>1. local[Creator].pd = NONE
      BY <1>1 DEF Sound, Building, Making
    <3> QED  BY <1>1, <1>6, <2>1, <3>1 DEF Dir
  <2>2. Dir(s)' = n
    BY <1>1, <1>6 DEF Dir
  <2>3. OwnedBy(new, s)'
    <3>1. Owns(new, n, "directory", s, 0)'
      BY <1>0, <1>1, <1>5 DEF Owns
    <3> QED  BY <1>2, <1>5, <2>2, <3>1, ZeroIs DEF OwnedBy
  <2>4. new \in [Frame -> Role]
    BY <1>0, <1>4 DEF Sound, Owned
  <2> QED  BY <1>2, <1>5, <2>1, <2>3, <2>4 DEF Owned
<1>11. Calling'
  BY <1>2, <1>5, Names DEF Calling
<1> QED  BY <1>5, <1>8, <1>9, <1>10, <1>11 DEF Sound, Owning

(* A thread of a space takes a frame for a page that nobody used. *)
LEMMA TakePage ==
    ASSUME NEW own, Sound(own), NEW s \in Space, NEW n, n = next, NEW p \in HeapPage,
           NEW back \in {"mapped", "stack", "push"}, NEW l \in Call,
           l.page = p, l.frame = n, l.back = back,
           running = s, pc[s] # "unborn", Takes(s, n, l), seen'[s][p] = NONE,
           TlbCoherent', TlbKnown'
    PROVE  Owning' /\ UNCHANGED Mapping
<1>0. PICK role, new : role = <<"held", s, 0>> /\ new = [own EXCEPT ![n] = role]
  OBVIOUS
<1>1. /\ n \in Frame /\ next' = n + 1 /\ UNCHANGED <<memory, directory, cr3, running>>
  BY DEF Takes
<1>2. /\ s \in Thread /\ Creator # s /\ cr3 # NONE /\ 0 \in Index
      /\ directory[s] # NONE
  <2>1. s \in Thread /\ Creator # s
    BY Names
  <2>2. cr3 # NONE
    BY <2>1 DEF Sound, Booted
  <2>3. directory[s] # NONE
    BY DEF Sound, Calling, Growing
  <2> QED  BY <2>1, <2>2, <2>3, Indices
<1>3. role \in Role
  BY <1>0, <1>2 DEF Role
<1>4. /\ new \in [Frame -> Role] /\ new[n] = role
      /\ \A f \in Frame : f < next => new[f] = own[f]
  BY <1>0, <1>1, <1>3, Indices DEF Sound, Owned
<1>5. /\ TypeOK' /\ ~halted' /\ Free' /\ Booted' /\ Whole' /\ UNCHANGED Mapping
      /\ 2 <= n /\ n < next' /\ memory'[n] = Zero
      /\ \A r \in Space : Dir(r)' = Dir(r) => OwnedBy(new, r)'
      /\ \A r \in Space : r # s => Holds(new, r)'
      /\ pc'[s] = "map" /\ local'[s] = l
      /\ \A u \in Thread : u # s =>
            /\ UNCHANGED <<pc[u], local[u]>>
            /\ u \in Space => Growing(u)'
      /\ \A u \in Thread : AtTable(u, memory[directory[Home(u)]][local[u].page[1]])'
  BY <1>2, <1>4, TakeFrame
<1>6. UNCHANGED <<pc[Creator], local[Creator]>>
  BY <1>2, <1>5, Names
<1>7. Building' /\ NewMapped'
  BY <1>1, <1>6
  DEF Sound, Building, InMap, Stage, Unfinished, Ordered, NewMapped, ShownDirectory,
      ShownTable, Walk, Making
<1>8. Owned(new)'
  <2>1. \A r \in Space : Dir(r)' = Dir(r)
    BY <1>1, <1>6 DEF Dir
  <2>2. Holds(new, s)'
    BY <1>0, <1>1, <1>4, <1>5 DEF Holds, Owns
  <2> QED  BY <1>4, <1>5, <2>1, <2>2 DEF Owned
<1>9. Calling'
  <2>1. Growing(s)'
    BY <1>1, <1>2, <1>5 DEF Growing, InMap
  <2> QED  BY <1>5, <2>1, Names DEF Calling
<1> QED  BY <1>5, <1>7, <1>8, <1>9 DEF Sound, Owning

(* A page that is mapped is written. *)
LEMMA Touched ==
    ASSUME NEW own, Sound(own), NEW s \in Space, running = s, NEW p \in HeapPage,
           Mapping[s][p] # NONE, Touch(s, {p}), UNCHANGED <<memory, directory, cr3, running>>
    PROVE  /\ TlbCoherent' /\ TlbKnown' /\ halted' = FALSE
           /\ tlb' \in [Page -> Frame \cup {NONE, JUNK}]
           /\ seen' \in [Space -> [HeapPage -> Frame \cup {NONE, JUNK}]]
           /\ seen'[s][p] = Mapping[s][p]
           /\ \A q \in HeapPage : q # p => seen'[s][q] = seen[s][q]
           /\ \A r \in Space : r # s => seen'[r] = seen[r]
           /\ AS!Use(s, p)
<1>1. /\ Home(s) = s /\ cr3 # NONE /\ p \in Page /\ HeapPage \subseteq Page
      /\ directory[s] = cr3 /\ cr3 \in Frame /\ Translate(p) = Walk(cr3, p)
  <2>1. s \in Thread /\ Home(s) = s /\ Creator # s
    BY Names
  <2>2. cr3 # NONE
    BY <2>1 DEF Sound, Booted
  <2> QED  BY <2>1, <2>2, Here, HeapPageNames
<1>2. Walk(cr3, p) \in Frame \cup {NONE, JUNK}
  BY <1>1, PageNames DEF Sound, TypeOK, Walk
<1>3. /\ Mapping[s][p] = Walk(cr3, p) /\ Mapping' = Mapping
      /\ \A q \in Page : Walk(cr3, q)' = Walk(cr3, q)
  BY <1>1 DEF Mapping, Walk
<1>4. /\ tlb \in [Page -> Frame \cup {NONE, JUNK}]
      /\ seen \in [Space -> [HeapPage -> Frame \cup {NONE, JUNK}]]
  BY DEF Sound, TypeOK
<1>5. /\ tlb' = [q \in Page |-> IF q = p THEN Walk(cr3, p) ELSE tlb[q]]
      /\ seen' = [seen EXCEPT ![s] =
             [q \in HeapPage |-> IF q = p THEN Walk(cr3, p) ELSE seen[s][q]]]
      /\ halted' = FALSE
  BY <1>1, <1>3 DEF Touch
<1>6. tlb' \in [Page -> Frame \cup {NONE, JUNK}]
  BY <1>2, <1>4, <1>5
<1>7. /\ seen' \in [Space -> [HeapPage -> Frame \cup {NONE, JUNK}]]
      /\ seen'[s][p] = Walk(cr3, p)
      /\ \A q \in HeapPage : q # p => seen'[s][q] = seen[s][q]
      /\ \A r \in Space : r # s => seen'[r] = seen[r]
  BY <1>2, <1>4, <1>5
<1>8. TlbCoherent'
  BY <1>1, <1>3, <1>5 DEF Sound, TlbCoherent
<1>9. TlbKnown'
  BY <1>1, <1>3, <1>5, <1>7 DEF Sound, TlbKnown
<1>10. AS!Use(s, p)
  <2>1. seen' = [seen EXCEPT ![s][p] = Walk(cr3, p)]
    BY <1>4, <1>5
  <2> QED  BY <1>3, <2>1 DEF AS!Use
<1> QED  BY <1>3, <1>5, <1>6, <1>7, <1>8, <1>9, <1>10

(* A thread goes on inside its space, and no table changes. *)
LEMMA GoesOn ==
    ASSUME NEW own, Sound(own), NEW s \in Space, pc[s] # "unborn", ~InMap(s),
           UNCHANGED <<memory, next, directory, cr3, running>>, halted' = FALSE,
           NEW label \in Steps \ {"unborn"}, pc' = [pc EXCEPT ![s] = label],
           \A u \in Thread : u # s => local'[u] = local[u],
           tlb' \in [Page -> Frame \cup {NONE, JUNK}],
           seen' \in [Space -> [HeapPage -> Frame \cup {NONE, JUNK}]],
           \A r \in Space : r # s => seen'[r] = seen[r],
           local' \in [Thread -> Call], top' \in [Space -> 0 .. HeapPages - 1 \cup {NONE}],
           TlbCoherent', TlbKnown'
    PROVE  Sound(own)' /\ UNCHANGED Mapping
<1>1. s \in Thread /\ Creator # s /\ Creator \in Thread /\ Space \subseteq Thread
  BY Names
<1>2. /\ pc'[s] = label /\ \A u \in Thread : u # s => UNCHANGED <<pc[u], local[u]>>
  BY <1>1 DEF Sound, TypeOK
<1>3. TypeOK' /\ ~halted' /\ Free' /\ Booted'
  <2>1. label \in Labels
    BY DEF Steps, Labels
  <2>2. pc' \in [Thread -> Labels]
    BY <2>1 DEF Sound, TypeOK
  <2>3. TypeOK'
    BY <2>2 DEF Sound, TypeOK, Call
  <2>4. cr3 # NONE
    BY <1>1 DEF Sound, Booted
  <2> QED  BY <2>3, <2>4 DEF Sound, Free, Booted
<1>4. Owned(own)'
  <2>1. \A r \in Space : Dir(r)' = Dir(r)
    BY <1>1, <1>2 DEF Dir
  <2>2. ~InMap(s)'
    BY <1>2 DEF InMap, Steps
  <2>3. ASSUME NEW r \in Space PROVE Holds(own, r)'
    <3>1. CASE r = s
      BY <2>2, <3>1 DEF Holds
    <3>2. CASE r # s
      BY <1>1, <1>2, <3>2 DEF Sound, Owned, Holds, Owns, InMap
    <3> QED  BY <3>1, <3>2
  <2> QED  BY <2>1, <2>3, SameOwned DEF Sound, TypeOK
<1>5. Whole' /\ Building' /\ NewMapped' /\ Mapping' = Mapping
  BY <1>1, <1>2
  DEF Sound, Whole, Complete, Building, InMap, Stage, Unfinished, Ordered, NewMapped,
      ShownDirectory, ShownTable, Walk, Mapping, Making
<1>6. Calling'
  <2>1. ASSUME NEW u \in Space PROVE Growing(u)'
    <3>1. CASE u = s
      BY <1>2, <3>1 DEF Sound, Calling, Growing, InMap, Steps
    <3>2. CASE u # s
      BY <1>1, <1>2, <3>2 DEF Sound, Calling, Growing, InMap
    <3> QED  BY <3>1, <3>2
  <2>2. ASSUME NEW u \in Thread
        PROVE  AtTable(u, memory[directory[Home(u)]][local[u].page[1]])'
    <3>1. CASE u = s
      BY <1>2, <3>1 DEF AtTable, Steps
    <3>2. CASE u # s
      BY <1>2, <3>2 DEF Sound, Calling, AtTable
    <3> QED  BY <3>1, <3>2
  <2> QED  BY <2>1, <2>2 DEF Calling
<1> QED  BY <1>3, <1>4, <1>5, <1>6 DEF Sound

----------------------------------------------------------------------------
(* The steps of the heaps. *)

(* The steps of map before the entry is set, and those of                  *)
(* create_page_directory.                                                  *)
LEMMA HeapedInMap ==
    ASSUME NEW own, Sound(own), Heaped, NEW t \in Thread, running = t,
           InMap(t), NEW label \in {"newTable", "clearTable", "setEntry"},
           pc' = [pc EXCEPT ![t] = label],
           UNCHANGED <<running, local, directory, Mapping, seen, top>>
    PROVE  Heaped'
<1>1. pc'[t] = label /\ \A u \in Thread : u # t => pc'[u] = pc[u]
  BY DEF Sound, TypeOK
<1>2. InMap(t)'
  BY <1>1 DEF InMap
<1>3. t \in Space => Tidy(t)'
  <2> SUFFICES ASSUME t \in Space PROVE Tidy(t)'
    OBVIOUS
  <2>1. Within(t) => Within(t)'
    BY <1>1, Names DEF Within
  <2>2. Tidy(t) /\ top[t] \in 0 .. HeapPages - 1 \cup {NONE} /\ local[t].page[2] \in Index
    BY Locals DEF Heaped, Sound, TypeOK
  <2> QED  BY <1>2, <2>1, <2>2, TidyKept
<1>4. pc[t] \notin {"unborn", "inside"} /\ pc'[t] \notin {"enter", "inside"}
  BY <1>1 DEF InMap
<1> QED  BY <1>1, <1>3, <1>4, HeapedKept

LEMMA HeapedMaking ==
    ASSUME NEW own, Sound(own), Heaped, running = Creator, UNCHANGED running,
           pc[Creator] \notin {"unborn", "inside"},
           NEW label \in Labels \ {"enter", "inside"}, pc' = [pc EXCEPT ![Creator] = label],
           \A u \in Space : local'[u] = local[u],
           UNCHANGED <<directory, Mapping, seen, top>>
    PROVE  Heaped'
<1>1. pc'[Creator] = label /\ \A u \in Thread : u # Creator => pc'[u] = pc[u]
  BY Names DEF Sound, TypeOK
<1> QED  BY <1>1, Names, HeapedKept

(* A chunk is made: the header is written, and a frame taken for the page  *)
(* behind its own, which nobody has used.                                  *)
LEMMA ChunkSound ==
    ASSUME Inv, NEW s \in Space, NEW label, NEW end, NEW back, Runs(s, label),
           \/ label = "idle" /\ back = "mapped"
           \/ label = "stack" /\ back = "push",
           end \in top[s] .. HeapPages - 1, Chunk(s, end, {<<1, top[s]>>}, back)
    PROVE  Inv' /\ Promised
<1>0. PICK own, n, p, q, l :
          /\ Sound(own) /\ n = next /\ p = <<1, top[s]>> /\ q = <<1, top[s] + 1>>
          /\ l = [local[s] EXCEPT !.page = q, !.frame = n, !.back = back, !.end = end]
  BY DEF Inv, Owning
<1>1. /\ running = s /\ pc[s] = label /\ n \in Frame /\ next' = n + 1
      /\ Behind(s, end) < HeapPages /\ Touch(s, {p})
      /\ pc' = [pc EXCEPT ![s] = "map"]
      /\ UNCHANGED <<memory, directory, cr3, running, top>>
  BY <1>0 DEF Chunk, Runs, Allocate, Goto, paging
<1>2. /\ s \in Thread /\ Creator # s /\ ~InMap(s) /\ pc[s] # "unborn"
      /\ Tidy(s) /\ top[s] \in 0 .. HeapPages - 1 /\ Built(s)
  <2>1. s \in Thread /\ Creator # s /\ ~InMap(s) /\ pc[s] # "unborn"
    BY <1>1, Names DEF InMap
  <2>2. Tidy(s) /\ top[s] \in 0 .. HeapPages - 1 \cup {NONE}
    BY <1>0 DEF Inv, Heaped, Sound, TypeOK
  <2>3. top[s] # NONE
    BY <1>1, <2>2 DEF Tidy
  <2> QED  BY <2>1, <2>2, <2>3 DEF Built
<1>3. /\ p \in HeapPage /\ q \in HeapPage /\ p # q /\ q \in Page /\ end \in Index
      /\ q[2] = top[s] + 1 /\ top[s] + 1 <= Behind(s, end)
  <2>1. top[s] + 1 \in 0 .. HeapPages - 1 /\ top[s] + 1 <= Behind(s, end)
    BY <1>1, <1>2, HeapNumbers DEF Behind
  <2>2. end \in Index
    BY <1>2, HeapNumbers, Indices DEF Index
  <2> QED  BY <1>0, <1>2, <2>1, <2>2, HeapNumbers, HeapPageNames
<1>4. Mapping[s][p] # NONE /\ seen[s][q] = NONE
  BY <1>0, <1>2, <1>3 DEF Tidy
<1>5. /\ TlbCoherent' /\ TlbKnown' /\ halted' = FALSE
      /\ tlb' \in [Page -> Frame \cup {NONE, JUNK}]
      /\ seen' \in [Space -> [HeapPage -> Frame \cup {NONE, JUNK}]]
      /\ \A r \in HeapPage : r # p => seen'[s][r] = seen[s][r]
      /\ \A r \in Space : r # s => seen'[r] = seen[r]
      /\ AS!Use(s, p)
  BY <1>0, <1>1, <1>3, <1>4, Touched
<1>6. /\ local' = [local EXCEPT ![s] = l] /\ l \in Call
      /\ l.page = q /\ l.frame = n /\ l.back = back /\ l.end = end
  <2>1. local \in [Thread -> Call]
    BY <1>0 DEF Sound, TypeOK, Call
  <2>2. back \in Labels
    BY DEF Labels
  <2>3. local' = [local EXCEPT ![s] = [local[s] EXCEPT !.page = q, !.frame = n,
                                                      !.back = back, !.end = end]]
    BY <1>0, <1>2, <2>1 DEF Chunk
  <2> QED  BY <1>0, <1>1, <1>2, <1>3, <2>1, <2>2, <2>3 DEF Call
<1>7. Takes(s, n, l)
  BY <1>0, <1>1, <1>2, <1>5, <1>6 DEF Takes, Sound, TypeOK
<1>8. Owning' /\ UNCHANGED Mapping
  BY <1>0, <1>1, <1>2, <1>3, <1>4, <1>5, <1>6, <1>7, TakePage
<1>9. /\ pc'[s] = "map" /\ local'[s] = l
      /\ \A u \in Thread : u # s => UNCHANGED <<pc[u], local[u]>>
  BY <1>0, <1>1, <1>2, <1>6 DEF Sound, TypeOK
<1>10. Tidy(s)'
  <2>1. InMap(s)' /\ Built(s)' /\ top'[s] = top[s] /\ Behind(s, local[s].end)' = Behind(s, end)
    BY <1>1, <1>2, <1>6, <1>9 DEF InMap, Built, Behind
  <2>2. Early(s)' => Within(s)'
    <3>1. CASE label = "idle"
      BY <1>6, <1>9, <3>1 DEF Early
    <3>2. CASE label = "stack"
      <4>1. Within(s)
        BY <1>1, <1>2, <3>2 DEF Tidy, Early
      <4> QED  BY <1>2, <1>9, <4>1, Names DEF Within
    <3> QED  BY <3>1, <3>2
  <2>3. \A r \in HeapPage : seen'[s][r] # NONE => r[2] <= top'[s]
    <3>1. p[2] <= top[s]
      BY <1>0, <1>2
    <3> QED  BY <1>2, <1>5, <2>1, <3>1 DEF Tidy
  <2>4. \A j \in 0 .. top'[s] : Mapping'[s][<<1, j>>] # NONE
    BY <1>2, <1>8, <2>1 DEF Tidy
  <2>5. Lengthening(s)' =>
          /\ local'[s].end \in top'[s] .. HeapPages - 1
          /\ top'[s] < local'[s].page[2] /\ local'[s].page[2] <= Behind(s, local[s].end)'
          /\ Behind(s, local[s].end)' < HeapPages
          /\ \A j \in top'[s] + 1 .. local'[s].page[2] - 1 : Mapping'[s][<<1, j>>] # NONE
          /\ pc'[s] = "mapped" => Mapping'[s][<<1, local[s].page[2]>>] # NONE
    BY <1>1, <1>2, <1>3, <1>6, <1>9, <2>1
  <2> QED  BY <1>2, <1>6, <1>9, <2>1, <2>2, <2>3, <2>4, <2>5, HeapNumbers DEF Tidy
<1>11. Heaped'
  BY <1>0, <1>1, <1>2, <1>5, <1>8, <1>9, <1>10, HeapedKept DEF Inv
<1>12. Promised
  BY <1>3, <1>5 DEF Promised, AS!Next
<1> QED  BY <1>8, <1>11, <1>12 DEF Inv

(* The loop of kmalloc. *)
LEMMA NextPageSound ==
    ASSUME Inv, NEW s \in Space, NextPage(s)
    PROVE  Inv' /\ Promised
<1>0. PICK own, page, end : Sound(own) /\ page = local[s].page[2] /\ end = local[s].end
  BY DEF Inv, Owning
<1>1. /\ running = s /\ pc[s] = "mapped"
      /\ UNCHANGED <<memory, directory, cr3, running, tlb, seen, halted>>
  BY DEF NextPage, Runs, paging
<1>2. /\ s \in Thread /\ Creator # s /\ ~InMap(s) /\ pc[s] # "unborn"
      /\ Tidy(s) /\ top[s] \in 0 .. HeapPages - 1 /\ Built(s) /\ ~Early(s)
  <2>1. s \in Thread /\ Creator # s /\ ~InMap(s) /\ pc[s] # "unborn"
    BY <1>1, Names DEF InMap
  <2>2. Tidy(s) /\ top[s] \in 0 .. HeapPages - 1 \cup {NONE}
    BY <1>0 DEF Inv, Heaped, Sound, TypeOK
  <2>3. top[s] # NONE
    BY <1>1, <2>2 DEF Tidy
  <2> QED  BY <1>1, <2>1, <2>2, <2>3 DEF Built, Early
<1>3. /\ end \in top[s] .. HeapPages - 1 /\ page \in Index
      /\ top[s] < page /\ page <= Behind(s, end) /\ Behind(s, end) < HeapPages
      /\ Behind(s, end) \in Nat
      /\ \A j \in top[s] + 1 .. page : Mapping[s][<<1, j>>] # NONE
  <2>1. page \in Index
    BY <1>0, <1>2, Locals DEF Sound
  <2>2. Lengthening(s)
    BY <1>1 DEF Lengthening
  <2>3. /\ end \in top[s] .. HeapPages - 1
        /\ top[s] < page /\ page <= Behind(s, end) /\ Behind(s, end) < HeapPages
        /\ \A j \in top[s] + 1 .. page - 1 : Mapping[s][<<1, j>>] # NONE
        /\ Mapping[s][<<1, page>>] # NONE
    BY <1>0, <1>1, <1>2, <2>2 DEF Tidy
  <2>4. Behind(s, end) \in Nat
    BY <1>2, <2>3, HeapNumbers DEF Behind
  <2>5. \A j \in top[s] + 1 .. page : j = page \/ j \in top[s] + 1 .. page - 1
    BY <1>2, <2>1 DEF Index
  <2> QED  BY <2>1, <2>3, <2>4, <2>5
<1>4. /\ TlbCoherent' /\ TlbKnown' /\ halted' = FALSE
      /\ tlb' \in [Page -> Frame \cup {NONE, JUNK}]
      /\ seen' \in [Space -> [HeapPage -> Frame \cup {NONE, JUNK}]]
  BY <1>0, <1>1 DEF Sound, TypeOK, TlbCoherent, TlbKnown, Walk
<1>5. CASE /\ page < Behind(s, end) /\ Allocate
           /\ Calls(s, <<1, page + 1>>, next, "mapped") /\ UNCHANGED top
  <2>0. PICK n, q, l :
            /\ n = next /\ q = <<1, page + 1>>
            /\ l = [local[s] EXCEPT !.page = q, !.frame = n, !.back = "mapped"]
    OBVIOUS
  <2>1. /\ n \in Frame /\ next' = n + 1 /\ pc' = [pc EXCEPT ![s] = "map"] /\ top' = top
    BY <1>5, <2>0 DEF Allocate, Calls, Goto
  <2>2. q \in HeapPage /\ q \in Page /\ q[2] = page + 1
    <3>1. page + 1 \in 0 .. HeapPages - 1
      BY <1>3, <1>5, HeapNumbers DEF Index
    <3> QED  BY <2>0, <3>1, HeapNumbers, HeapPageNames
  <2>3. seen[s][q] = NONE
    <3>1. ~(q[2] <= top[s])
      BY <1>2, <1>3, <2>2 DEF Index
    <3> QED  BY <1>2, <2>2, <3>1 DEF Tidy
  <2>4. /\ local' = [local EXCEPT ![s] = l] /\ l \in Call
        /\ l.page = q /\ l.frame = n /\ l.back = "mapped" /\ l.end = end
    <3>1. local \in [Thread -> Call]
      BY <1>0 DEF Sound, TypeOK, Call
    <3>2. local' = [local EXCEPT ![s] = [local[s] EXCEPT !.page = q, !.frame = n,
                                                        !.back = "mapped"]]
      BY <1>2, <1>5, <2>0, <3>1 DEF Calls
    <3>3. "mapped" \in Labels
      BY DEF Labels
    <3> QED  BY <1>0, <1>2, <2>0, <2>1, <2>2, <3>1, <3>2, <3>3 DEF Call
  <2>5. Takes(s, n, l)
    BY <1>0, <1>1, <1>2, <1>4, <2>0, <2>1, <2>4 DEF Takes, Sound, TypeOK
  <2>6. Owning' /\ UNCHANGED Mapping
    BY <1>0, <1>1, <1>2, <1>4, <2>0, <2>2, <2>3, <2>4, <2>5, TakePage
  <2>7. /\ pc'[s] = "map" /\ local'[s] = l
        /\ \A u \in Thread : u # s => UNCHANGED <<pc[u], local[u]>>
    BY <1>0, <1>2, <2>1, <2>4 DEF Sound, TypeOK
  <2>8. Tidy(s)'
    <3>1. /\ InMap(s)' /\ Built(s)' /\ top'[s] = top[s] /\ ~Early(s)'
          /\ Behind(s, local[s].end)' = Behind(s, end)
      BY <1>2, <2>1, <2>4, <2>7 DEF InMap, Built, Behind, Early
    <3>2. /\ local'[s].end \in top'[s] .. HeapPages - 1
          /\ top'[s] < local'[s].page[2] /\ local'[s].page[2] <= Behind(s, local[s].end)'
          /\ Behind(s, local[s].end)' < HeapPages
          /\ \A j \in top'[s] + 1 .. local'[s].page[2] - 1 : Mapping'[s][<<1, j>>] # NONE
      BY <1>2, <1>3, <1>5, <2>2, <2>4, <2>6, <2>7, <3>1 DEF Index
    <3>3. \A j \in 0 .. top'[s] : Mapping'[s][<<1, j>>] # NONE
      BY <1>2, <2>6, <3>1 DEF Tidy
    <3>4. \A p \in HeapPage : seen'[s][p] # NONE => p[2] <= top'[s]
      BY <1>1, <1>2, <3>1 DEF Tidy
    <3> QED  BY <1>2, <2>4, <2>7, <3>1, <3>2, <3>3, <3>4, HeapNumbers DEF Tidy
  <2>9. Heaped'
    BY <1>0, <1>1, <1>2, <2>1, <2>6, <2>7, <2>8, HeapedKept DEF Inv
  <2> QED  BY <1>1, <2>6, <2>9 DEF Inv, Promised
<1>6. CASE /\ page = Behind(s, end) /\ Goto(s, "idle")
           /\ top' = [top EXCEPT ![s] = end] /\ UNCHANGED <<next, local>>
  <2>1. /\ top' \in [Space -> 0 .. HeapPages - 1 \cup {NONE}] /\ top'[s] = end
        /\ \A r \in Space : r # s => top'[r] = top[r]
    BY <1>0, <1>2, <1>3, <1>6, HeapNumbers DEF Sound, TypeOK
  <2>2. /\ pc' = [pc EXCEPT ![s] = "idle"] /\ pc'[s] = "idle"
        /\ \A u \in Thread : u # s => pc'[u] = pc[u]
    BY <1>0, <1>2, <1>6 DEF Goto, Sound, TypeOK
  <2>3. Sound(own)' /\ UNCHANGED Mapping
    <3>1. "idle" \in Steps \ {"unborn"} /\ local' \in [Thread -> Call]
      BY <1>0, <1>6 DEF Steps, Sound, TypeOK, Call
    <3> QED  BY <1>0, <1>1, <1>2, <1>4, <1>6, <2>1, <2>2, <3>1, GoesOn
  <2>4. Tidy(s)'
    <3>1. Built(s)' /\ ~Early(s)' /\ ~Lengthening(s)' /\ ~InMap(s)'
      BY <1>2, <1>3, <2>1, <2>2, HeapNumbers DEF Built, Early, Lengthening, InMap
    <3>2. \A j \in 0 .. end : Mapping[s][<<1, j>>] # NONE
      <4>1. end <= page
        BY <1>2, <1>3, <1>6 DEF Behind
      <4>2. \A j \in 0 .. end : j \in 0 .. top[s] \/ j \in top[s] + 1 .. page
        BY <1>2, <1>3, <4>1 DEF Index
      <4> QED  BY <1>2, <1>3, <4>2 DEF Tidy
    <3>3. \A p \in HeapPage : seen'[s][p] # NONE => p[2] <= end
      BY <1>1, <1>2, <1>3, HeapPageNames DEF Tidy, Index
    <3> QED  BY <1>2, <1>3, <2>1, <2>2, <2>3, <3>1, <3>2, <3>3, HeapNumbers DEF Tidy
  <2>5. Heaped'
    BY <1>0, <1>1, <1>2, <1>6, <2>1, <2>2, <2>3, <2>4, HeapedKept DEF Inv
  <2> QED  BY <1>1, <2>3, <2>5 DEF Inv, Owning, Promised
<1> QED  BY <1>0, <1>5, <1>6 DEF NextPage

(* The heap is written, by its program or by createThread. *)
LEMMA UseSound ==
    ASSUME Inv, NEW s \in Space, Use(s) \/ Push(s)
    PROVE  Inv' /\ Promised
<1>0. PICK own : Sound(own)
  BY DEF Inv, Owning
<1>1. PICK j, label, after :
          /\ j \in 0 .. top[s] /\ Runs(s, label) /\ pc' = [pc EXCEPT ![s] = after] /\ Touch(s, {<<1, j>>})
          /\ UNCHANGED <<memory, next, directory, cr3, running, local, top>>
          /\ \/ label = "idle" /\ after = "idle"
             \/ label = "push" /\ after = "leave"
  <2>1. CASE Use(s)
    <3>1. PICK j \in 0 .. top[s] : Touch(s, {<<1, j>>})
      BY <2>1 DEF Use
    <3>2. Runs(s, "idle") /\ UNCHANGED <<memory, next, directory, cr3, running, pc, local, top>>
      BY <2>1 DEF Use, paging
    <3>3. pc' = [pc EXCEPT ![s] = "idle"]
      BY <1>0, <3>2 DEF Runs, Sound, TypeOK
    <3> QED  BY <3>1, <3>2, <3>3
  <2>2. CASE Push(s)
    <3>1. /\ Runs(s, "push") /\ pc' = [pc EXCEPT ![s] = "leave"] /\ Touch(s, {<<1, top[s]>>})
          /\ UNCHANGED <<memory, next, directory, cr3, running, local, top>>
      BY <2>2 DEF Push, paging, Goto
    <3>2. Tidy(s) /\ top[s] \in 0 .. HeapPages - 1 \cup {NONE} /\ pc[s] = "push"
      BY <1>0, <3>1 DEF Inv, Heaped, Sound, TypeOK, Runs
    <3>3. top[s] \in 0 .. top[s]
      BY <3>2, HeapNumbers DEF Tidy
    <3> QED  BY <3>1, <3>3
  <2> QED  BY <2>1, <2>2
<1>2. /\ s \in Thread /\ Creator # s /\ ~InMap(s) /\ pc[s] = label /\ running = s
      /\ pc[s] # "unborn"
      /\ Tidy(s) /\ top[s] \in 0 .. HeapPages - 1 /\ Built(s)
  <2>1. s \in Thread /\ Creator # s /\ ~InMap(s) /\ pc[s] = label /\ running = s
    BY <1>1, Names DEF InMap, Runs
  <2>2. Tidy(s) /\ top[s] \in 0 .. HeapPages - 1 \cup {NONE}
    BY <1>0 DEF Inv, Heaped, Sound, TypeOK
  <2>3. top[s] # NONE
    BY <1>1, <2>1, <2>2 DEF Tidy
  <2> QED  BY <1>1, <2>1, <2>2, <2>3 DEF Built
<1>3. PICK p \in HeapPage : p = <<1, j>> /\ p[2] <= top[s] /\ Mapping[s][p] # NONE
  <2>1. j \in 0 .. HeapPages - 1 /\ j <= top[s]
    BY <1>1, <1>2, HeapNumbers
  <2>2. Mapping[s][<<1, j>>] # NONE
    BY <1>1, <1>2 DEF Tidy
  <2> QED  BY <2>1, <2>2, HeapNumbers
<1>4. /\ TlbCoherent' /\ TlbKnown' /\ halted' = FALSE
      /\ tlb' \in [Page -> Frame \cup {NONE, JUNK}]
      /\ seen' \in [Space -> [HeapPage -> Frame \cup {NONE, JUNK}]]
      /\ \A q \in HeapPage : q # p => seen'[s][q] = seen[s][q]
      /\ \A r \in Space : r # s => seen'[r] = seen[r]
      /\ AS!Use(s, p)
  BY <1>0, <1>1, <1>2, <1>3, Touched
<1>5. /\ pc'[s] = after /\ \A u \in Thread : u # s => pc'[u] = pc[u]
      /\ after \in Steps \ {"unborn"} /\ local' \in [Thread -> Call]
      /\ top' \in [Space -> 0 .. HeapPages - 1 \cup {NONE}]
  BY <1>0, <1>1, <1>2 DEF Sound, TypeOK, Steps, Call
<1>6. Sound(own)' /\ UNCHANGED Mapping
  BY <1>0, <1>1, <1>2, <1>4, <1>5, GoesOn
<1>7. Tidy(s)'
  <2>1. /\ Built(s)' /\ ~Lengthening(s)' /\ ~InMap(s)' /\ top'[s] = top[s]
        /\ pc'[s] \notin {"unborn", "construct"}
    BY <1>1, <1>2, <1>5 DEF Built, Lengthening, InMap
  <2>2. Early(s)' => Within(s)'
    <3>1. Early(s)' => Early(s)
      BY <1>1, <1>2, <1>5, <2>1 DEF Early
    <3>2. Within(s) => Within(s)'
      BY <1>1, <1>2, <1>5, Names DEF Within
    <3> QED  BY <1>2, <3>1, <3>2 DEF Tidy
  <2>3. \A q \in HeapPage : seen'[s][q] # NONE => q[2] <= top'[s]
    BY <1>2, <1>3, <1>4, <2>1 DEF Tidy
  <2>4. \A i \in 0 .. top'[s] : Mapping'[s][<<1, i>>] # NONE
    BY <1>2, <1>6, <2>1 DEF Tidy
  <2> QED  BY <1>2, <2>1, <2>2, <2>3, <2>4, HeapNumbers DEF Tidy
<1>8. Heaped'
  BY <1>0, <1>1, <1>2, <1>4, <1>5, <1>6, <1>7, HeapedKept DEF Inv
<1>9. Promised
  BY <1>4 DEF Promised, AS!Next
<1> QED  BY <1>6, <1>8, <1>9 DEF Inv, Owning

(* The constructor maps the first page of a heap that was never used. *)
LEMMA HeapSound ==
    ASSUME Inv, NEW s \in Space, Heap(s)
    PROVE  Inv' /\ Promised
<1>0. PICK own, n, q, l :
          /\ Sound(own) /\ n = next /\ q = <<1, 0>>
          /\ l = [local[s] EXCEPT !.page = q, !.frame = n, !.back = "stack"]
  BY DEF Inv, Owning
<1>1. /\ running = s /\ pc[s] = "construct" /\ n \in Frame /\ next' = n + 1
      /\ pc' = [pc EXCEPT ![s] = "map"] /\ top' = [top EXCEPT ![s] = 0]
      /\ UNCHANGED <<memory, directory, cr3, running, tlb, seen, halted>>
  BY <1>0 DEF Heap, Runs, Allocate, Goto, Calls, paging
<1>2. /\ s \in Thread /\ Creator # s /\ ~InMap(s) /\ pc[s] # "unborn"
      /\ Tidy(s) /\ top[s] = NONE /\ Within(s)
  <2>1. s \in Thread /\ Creator # s /\ ~InMap(s) /\ pc[s] # "unborn"
    BY <1>1, Names DEF InMap
  <2>2. Tidy(s)
    BY DEF Inv, Heaped
  <2> QED  BY <1>1, <2>1, <2>2 DEF Tidy, Early
<1>3. q \in HeapPage /\ q \in Page /\ \A p \in HeapPage : seen[s][p] = NONE
  BY <1>0, <1>2, HeapNumbers, HeapPageNames DEF Tidy, Built
<1>4. /\ TlbCoherent' /\ TlbKnown' /\ halted' = FALSE
      /\ tlb' \in [Page -> Frame \cup {NONE, JUNK}]
      /\ seen' \in [Space -> [HeapPage -> Frame \cup {NONE, JUNK}]]
  BY <1>0, <1>1 DEF Sound, TypeOK, TlbCoherent, TlbKnown, Walk
<1>5. /\ local' = [local EXCEPT ![s] = l] /\ l \in Call
      /\ l.page = q /\ l.frame = n /\ l.back = "stack"
  <2>1. local \in [Thread -> Call]
    BY <1>0 DEF Sound, TypeOK, Call
  <2>2. "stack" \in Labels
    BY DEF Labels
  <2>3. local' = [local EXCEPT ![s] = [local[s] EXCEPT !.page = q, !.frame = n, !.back = "stack"]]
    BY <1>0, <1>2, <2>1 DEF Heap, Calls
  <2> QED  BY <1>0, <1>1, <1>2, <1>3, <2>1, <2>2, <2>3 DEF Call
<1>6. /\ top' \in [Space -> 0 .. HeapPages - 1 \cup {NONE}] /\ top'[s] = 0
      /\ \A r \in Space : r # s => top'[r] = top[r]
  BY <1>0, <1>1, HeapNumbers DEF Sound, TypeOK
<1>7. Takes(s, n, l)
  BY <1>0, <1>1, <1>2, <1>4, <1>5, <1>6 DEF Takes
<1>8. Owning' /\ UNCHANGED Mapping
  BY <1>0, <1>1, <1>2, <1>3, <1>4, <1>5, <1>7, TakePage
<1>9. /\ pc'[s] = "map" /\ local'[s] = l
      /\ \A u \in Thread : u # s => UNCHANGED <<pc[u], local[u]>>
  BY <1>0, <1>1, <1>2, <1>5 DEF Sound, TypeOK
<1>10. Tidy(s)'
  <2>1. InMap(s)' /\ ~Built(s)' /\ ~Lengthening(s)' /\ Within(s)'
    BY <1>2, <1>5, <1>9, Names DEF InMap, Built, Lengthening, Within
  <2>2. /\ top'[s] = 0 /\ 0 # NONE /\ pc'[s] = "map" /\ local'[s].page = <<1, 0>>
        /\ \A p \in HeapPage : seen'[s][p] = NONE
    <3>1. 0 # NONE
      BY NamesAssumption
    <3>2. local'[s].page = <<1, 0>>
      BY <1>0, <1>5, <1>9
    <3>3. \A p \in HeapPage : seen'[s][p] = NONE
      BY <1>1, <1>3
    <3> QED  BY <1>6, <1>9, <3>1, <3>2, <3>3
  <2> QED  BY <2>1, <2>2 DEF Tidy
<1>11. Heaped'
  BY <1>0, <1>1, <1>2, <1>6, <1>8, <1>9, <1>10, HeapedKept DEF Inv
<1> QED  BY <1>1, <1>8, <1>11 DEF Inv, Promised

(* Another thread or another space: the tables there are as they were.     *)
LEMMA Reload ==
    ASSUME NEW own, Sound(own), cr3 # NONE,
           UNCHANGED <<memory, next, directory, seen, top, halted>>,
           running' \in Thread, directory[Home(running)'] # NONE,
           cr3' = directory[Home(running)'],
           \/ tlb' = NoTlb
           \/ tlb' = tlb /\ cr3' = cr3 /\ Home(running)' = Home(running),
           pc' \in [Thread -> Labels], local' \in [Thread -> Call],
           \A s \in Space :
               /\ local'[s] = local[s]
               /\ pc'[s] # pc[s] => {pc[s], pc'[s]} \subseteq Steps /\ directory[s] # NONE,
           \/ UNCHANGED <<pc[Creator], local[Creator]>>
           \/ ~Making /\ ~Making' /\ local'[Creator].pd = NONE
    PROVE  Sound(own)' /\ UNCHANGED Mapping
<1>1. Home(running)' \in Space /\ cr3' # NONE /\ Creator \in Thread /\ Space \subseteq Thread
  BY Names
<1>2. \A s \in Space : InMap(s)' = InMap(s) /\ (InMap(s) => pc'[s] = pc[s])
  <2> SUFFICES ASSUME NEW s \in Space PROVE InMap(s)' = InMap(s) /\ (InMap(s) => pc'[s] = pc[s])
    OBVIOUS
  <2>1. CASE pc'[s] = pc[s]
    BY <2>1 DEF InMap
  <2>2. CASE {pc[s], pc'[s]} \subseteq Steps
    BY <2>2 DEF InMap, Steps
  <2> QED  BY <2>1, <2>2
<1>3. TypeOK' /\ ~halted' /\ Free' /\ Booted'
  <2>1. tlb' \in [Page -> Frame \cup {NONE, JUNK}]
    BY DEF NoTlb, Sound, TypeOK
  <2>2. cr3' \in Frame \cup {NONE}
    BY <1>1 DEF Sound, TypeOK
  <2>3. TypeOK'
    BY <1>1, <2>1, <2>2 DEF Sound, TypeOK, Call
  <2>4. Home(running') = Home(running)'
    BY DEF Home
  <2> QED  BY <1>1, <2>3, <2>4 DEF Sound, Free, Booted
<1>4. ~Making => local[Creator].pd = NONE
  BY DEF Sound, Building, Making
<1>5. Owned(own)'
  <2>1. \A r \in Space : Dir(r)' = Dir(r)
    BY <1>4 DEF Dir
  <2>2. \A r \in Space : Holds(own, r)'
    BY <1>2 DEF Sound, Owned, Holds, Owns
  <2> QED  BY <2>1, <2>2, SameOwned DEF Sound, TypeOK
<1>6. Whole' /\ Mapping' = Mapping
  BY DEF Sound, Whole, Complete, Walk, Mapping
<1>7. Building' /\ NewMapped'
  <2>1. CASE UNCHANGED <<pc[Creator], local[Creator]>>
    BY <1>1, <2>1
    DEF Sound, Building, InMap, Stage, Unfinished, Ordered, NewMapped, ShownDirectory,
        ShownTable, Walk, Making
  <2>2. CASE ~Making /\ ~Making' /\ local'[Creator].pd = NONE
    <3>1. ~InMap(Creator)' /\ ~InMap(Creator)
      BY <2>2 DEF InMap, Making
    <3>2. ShownDirectory = NONE /\ ShownTable = NONE /\ ShownDirectory' = NONE /\ ShownTable' = NONE
      BY <2>2 DEF ShownDirectory, ShownTable, Making
    <3> QED  BY <2>2, <3>1, <3>2 DEF Sound, Building, NewMapped, Walk, Making
  <2> QED  BY <2>1, <2>2
<1>8. Calling'
  <2>1. ASSUME NEW u \in Space PROVE Growing(u)'
    <3>1. Growing(u)
      BY DEF Sound, Calling
    <3>2. CASE pc'[u] = pc[u]
      BY <3>1, <3>2 DEF Growing, InMap
    <3>3. CASE pc'[u] # pc[u]
      <4>1. pc'[u] \in Steps /\ directory'[u] # NONE /\ ~InMap(u)'
        BY <3>3 DEF Steps, InMap
      <4> QED  BY <4>1 DEF Growing
    <3> QED  BY <3>2, <3>3
  <2>2. ASSUME NEW u \in Thread
        PROVE  AtTable(u, memory[directory[Home(u)]][local[u].page[1]])'
    <3>1. AtTable(u, memory[directory[Home(u)]][local[u].page[1]])
      BY DEF Sound, Calling
    <3>2. CASE UNCHANGED <<pc[u], local[u]>>
      BY <3>1, <3>2 DEF AtTable
    <3>3. CASE pc'[u] \notin {"newTable", "clearTable", "setEntry"}
      BY <3>3 DEF AtTable
    <3>4. u \in Space => \/ UNCHANGED <<pc[u], local[u]>>
                         \/ pc'[u] \notin {"newTable", "clearTable", "setEntry"}
      BY DEF Steps
    <3>5. u = Creator => \/ UNCHANGED <<pc[u], local[u]>>
                         \/ pc'[u] \notin {"newTable", "clearTable", "setEntry"}
      BY DEF Making
    <3> QED  BY <3>2, <3>3, <3>4, <3>5, Names
  <2> QED  BY <2>1, <2>2 DEF Calling
<1>9. TlbCoherent' /\ TlbKnown'
  <2>1. CASE tlb' = NoTlb
    BY <2>1, HeapPageNames DEF TlbCoherent, TlbKnown, NoTlb
  <2>2. CASE tlb' = tlb /\ cr3' = cr3 /\ Home(running)' = Home(running)
    BY <2>2 DEF Sound, TlbCoherent, TlbKnown, Walk
  <2> QED  BY <2>1, <2>2
<1> QED  BY <1>3, <1>5, <1>6, <1>7, <1>8, <1>9 DEF Sound

(* Nothing of the heaps is changed by another thread running. *)
LEMMA TidyStays ==
    ASSUME NEW own, Sound(own), Heaped, NEW s \in Space,
           UNCHANGED <<pc[s], local[s], seen[s], top[s], Mapping>>, Within(s) => Within(s)'
    PROVE  Tidy(s)'
<1>1. Tidy(s) /\ top[s] \in 0 .. HeapPages - 1 \cup {NONE} /\ local[s].page[2] \in Index
  BY Names, Locals DEF Heaped, Sound, TypeOK
<1> QED  BY <1>1, TidyKept

LEMMA SwitchSound ==
    ASSUME Undisturbed, Inv, NEW t \in Thread, Switch(t)
    PROVE  Inv' /\ Promised
<1>0. PICK own : Sound(own)
  BY DEF Inv, Owning
<1>1. /\ pc[Creator] # "inside" /\ pc[t] \notin {"unborn", "inside"} /\ t # running
      /\ running' = t /\ cr3' = directory[Home(t)] /\ tlb' = NoTlb
      /\ UNCHANGED <<memory, next, directory, pc, local, top, seen, halted>>
  BY DEF Switch, Ready, Saved, Within
<1>2. cr3 # NONE
  BY <1>0, <1>1, Names DEF Sound, Booted
<1>3. directory[Home(t)] # NONE
  <2>1. CASE t = Creator
    BY <1>0, <1>2, <2>1, Names DEF Sound, Booted
  <2>2. CASE t \in Space
    BY <1>0, <1>1, <2>2, Names DEF Sound, Calling, Growing
  <2> QED  BY <2>1, <2>2, Names
<1>4. Sound(own)' /\ UNCHANGED Mapping
  <2>1. Home(running)' = Home(t)
    BY <1>1 DEF Home
  <2>2. pc' \in [Thread -> Labels] /\ local' \in [Thread -> Call]
    BY <1>0, <1>1 DEF Sound, TypeOK, Call
  <2> QED  BY <1>0, <1>1, <1>2, <1>3, <2>1, <2>2, Reload
<1>5. Heaped'
  <2>1. \A s \in Space : Tidy(s)'
    BY <1>0, <1>1, <1>4, TidyStays DEF Inv, Within
  <2>2. Turns'
    BY <1>1 DEF Inv, Heaped, Turns
  <2> QED  BY <2>1, <2>2 DEF Heaped
<1> QED  BY <1>1, <1>4, <1>5 DEF Inv, Owning, Promised

(* createProcess goes into the new space. *)
LEMMA EnterSound ==
    ASSUME Inv, Enter(Creator)
    PROVE  Inv' /\ Promised
<1>0. PICK own, s : Sound(own) /\ s = local[Creator].space
  BY DEF Inv, Owning
<1>1. /\ running = Creator /\ pc[Creator] = "enter"
      /\ cr3' = directory[s] /\ tlb' = NoTlb /\ running' = s
      /\ pc' = [pc EXCEPT ![Creator] = "inside", ![s] = "construct"]
      /\ UNCHANGED <<memory, next, directory, local, top, seen, halted>>
  BY <1>0 DEF Enter, Runs
<1>2. /\ s \in Space /\ s \in Thread /\ Creator \in Thread /\ s # Creator /\ Home(s) = s
      /\ directory[s] # NONE /\ pc[s] = "unborn" /\ cr3 # NONE
  <2>1. s \in Space /\ s \in Thread /\ Creator \in Thread /\ s # Creator /\ Home(s) = s
    BY <1>0, Names, Locals DEF Sound
  <2>2. directory[s] # NONE /\ pc[s] = "unborn"
    BY <1>0, <1>1 DEF Inv, Heaped, Turns
  <2> QED  BY <1>0, <1>1, <2>1, <2>2 DEF Sound, Booted
<1>3. /\ pc'[Creator] = "inside" /\ pc'[s] = "construct"
      /\ \A u \in Thread : u \notin {s, Creator} => pc'[u] = pc[u]
      /\ pc' \in [Thread -> Labels] /\ local' \in [Thread -> Call]
  <2>1. {"inside", "construct"} \subseteq Labels
    BY DEF Labels
  <2> QED  BY <1>0, <1>1, <1>2, <2>1 DEF Sound, TypeOK, Call
<1>4. Sound(own)' /\ UNCHANGED Mapping
  <2>1. Home(running)' = s
    BY <1>1, <1>2 DEF Home
  <2>2. ASSUME NEW r \in Space
        PROVE  /\ local'[r] = local[r]
               /\ pc'[r] # pc[r] => {pc[r], pc'[r]} \subseteq Steps /\ directory[r] # NONE
    BY <1>1, <1>2, <1>3, Names DEF Steps
  <2>3. ~Making /\ ~Making' /\ local'[Creator].pd = NONE
    BY <1>0, <1>1, <1>3 DEF Making, Sound, Building
  <2> QED  BY <1>0, <1>1, <1>2, <1>3, <2>1, <2>2, <2>3, Reload
<1>5. Tidy(s)'
  <2>1. Tidy(s) /\ top[s] = NONE /\ \A p \in HeapPage : seen[s][p] = NONE
    BY <1>2 DEF Inv, Heaped, Tidy, Built
  <2>2. ~InMap(s)' /\ ~Built(s)' /\ ~Lengthening(s)' /\ Within(s)'
    BY <1>0, <1>1, <1>3, <2>1 DEF InMap, Built, Lengthening, Within
  <2> QED  BY <1>1, <1>3, <2>1, <2>2 DEF Tidy
<1>6. Heaped'
  <2>1. ASSUME NEW r \in Space PROVE Tidy(r)'
    <3>1. CASE r = s
      BY <1>5, <3>1
    <3>2. CASE r # s
      <4>1. UNCHANGED <<pc[r], local[r], seen[r], top[r], Mapping>> /\ ~Within(r)
        BY <1>1, <1>3, <1>4, <3>2, Names DEF Within
      <4> QED  BY <1>0, <4>1, TidyStays DEF Inv
    <3> QED  BY <3>1, <3>2
  <2>2. Turns'
    BY <1>0, <1>1, <1>3 DEF Turns
  <2> QED  BY <2>1, <2>2 DEF Heaped
<1> QED  BY <1>1, <1>4, <1>6 DEF Inv, Owning, Promised

(* And comes back. *)
LEMMA LeaveSound ==
    ASSUME Inv, NEW s \in Space, Leave(s)
    PROVE  Inv' /\ Promised
<1>0. PICK own : Sound(own)
  BY DEF Inv, Owning
<1>1. /\ running = s /\ pc[s] = "leave"
      /\ cr3' = directory[Kernel] /\ running' = Creator
      /\ tlb' = IF s = Kernel THEN tlb ELSE NoTlb
      /\ pc' = [pc EXCEPT ![s] = "idle", ![Creator] = "idle"]
      /\ local' = [local EXCEPT ![Creator] = Idle]
      /\ UNCHANGED <<memory, next, directory, top, seen, halted>>
  BY DEF Leave, Runs
<1>2. /\ s \in Thread /\ Creator \in Thread /\ s # Creator /\ Home(s) = s /\ Kernel \in Space
      /\ cr3 # NONE /\ directory[Kernel] # NONE /\ cr3 = directory[s] /\ Within(s) /\ Tidy(s)
      /\ directory[s] # NONE
  <2>1. /\ s \in Thread /\ Creator \in Thread /\ s # Creator /\ Home(s) = s /\ Kernel \in Space
    BY Names
  <2>2. cr3 # NONE /\ directory[Kernel] # NONE /\ cr3 = directory[s]
    BY <1>0, <1>1, <2>1 DEF Sound, Booted
  <2>3. Tidy(s) /\ Early(s)
    BY <1>1 DEF Inv, Heaped, Early
  <2> QED  BY <2>1, <2>2, <2>3 DEF Tidy
<1>3. /\ pc'[Creator] = "idle" /\ pc'[s] = "idle"
      /\ \A u \in Thread : u \notin {s, Creator} => pc'[u] = pc[u]
      /\ local'[Creator] = Idle /\ \A u \in Space : local'[u] = local[u]
      /\ pc' \in [Thread -> Labels] /\ local' \in [Thread -> Call]
  <2>1. "idle" \in Labels /\ Idle \in Call
    BY Names, PageNames, Indices DEF Labels, Idle, Call
  <2> QED  BY <1>0, <1>1, <1>2, <2>1, Names DEF Sound, TypeOK, Call
<1>4. Sound(own)' /\ UNCHANGED Mapping
  <2>1. Home(running)' = Kernel /\ Home(running) = s
    BY <1>1, <1>2, Names DEF Home
  <2>2. ASSUME NEW r \in Space
        PROVE  /\ local'[r] = local[r]
               /\ pc'[r] # pc[r] => {pc[r], pc'[r]} \subseteq Steps /\ directory[r] # NONE
    BY <1>1, <1>2, <1>3, Names DEF Steps
  <2>3. ~Making /\ ~Making' /\ local'[Creator].pd = NONE
    BY <1>2, <1>3 DEF Making, Within, Idle
  <2>4. \/ tlb' = NoTlb
        \/ tlb' = tlb /\ cr3' = cr3 /\ Home(running)' = Home(running)
    BY <1>1, <1>2, <2>1
  <2> QED  BY <1>0, <1>1, <1>2, <1>3, <2>1, <2>2, <2>3, <2>4, Reload
<1>5. Tidy(s)'
  <2>1. /\ ~InMap(s)' /\ ~Lengthening(s)' /\ ~Early(s)' /\ top[s] # NONE /\ Built(s)' /\ Built(s)
    BY <1>1, <1>2, <1>3 DEF InMap, Built, Lengthening, Early, Tidy
  <2> QED  BY <1>1, <1>2, <1>3, <1>4, <2>1 DEF Tidy
<1>6. Heaped'
  <2>1. ASSUME NEW r \in Space PROVE Tidy(r)'
    <3>1. CASE r = s
      BY <1>5, <3>1
    <3>2. CASE r # s
      <4>1. UNCHANGED <<pc[r], local[r], seen[r], top[r], Mapping>> /\ ~Within(r)
        BY <1>1, <1>2, <1>3, <1>4, <3>2, Names DEF Within
      <4> QED  BY <1>0, <4>1, TidyStays DEF Inv
    <3> QED  BY <3>1, <3>2
  <2>2. Turns'
    BY <1>3 DEF Turns
  <2> QED  BY <2>1, <2>2 DEF Heaped
<1> QED  BY <1>1, <1>4, <1>6 DEF Inv, Owning, Promised

(* init_vmm makes the first three frames the kernel's.                     *)
LEMMA BootSound ==
    ASSUME Inv, init_vmm
    PROVE  Inv' /\ Promised
<1>0. PICK own, new :
          /\ Sound(own)
          /\ new = [f \in Frame |-> IF f = 2 THEN <<"directory", Kernel, 0>>
                                    ELSE IF f = 3 THEN <<"table", Kernel, 0>>
                                    ELSE <<"table", Kernel, Entries - 2>>]
  BY DEF Inv, Owning
<1>1. /\ cr3 = NONE /\ next = 2 /\ pc[Creator] = "idle" /\ \A s \in Space : pc[s] = "unborn"
      /\ \A s \in Space : directory[s] = NONE
      /\ local[Creator] = Idle /\ tlb = NoTlb /\ running = Creator
  BY <1>0 DEF init_vmm, Sound, Booted
<1>2. /\ 0 \in Index /\ 1 \in Index /\ 2 \in Index /\ Entries - 2 \in Index /\ Entries - 1 \in Index
      /\ Entries - 2 \notin {0, 1, 2} /\ Entries - 1 \notin {0, 1, 2, Entries - 2}
      /\ {2, 3, 4} \subseteq Frame
  BY Indices DEF Frame
<1>3. /\ memory' = [memory EXCEPT
             ![2] = [Zero EXCEPT ![0] = 3, ![Entries - 2] = 4, ![Entries - 1] = 2],
             ![3] = Identity,
             ![4] = [Zero EXCEPT ![Entries - 1] = 2]]
      /\ next' = 5 /\ directory' = [directory EXCEPT ![Kernel] = 2] /\ cr3' = 2
      /\ running' = Kernel
      /\ pc' = [pc EXCEPT ![Creator] = "inside", ![Kernel] = "construct"]
      /\ UNCHANGED <<tlb, local, seen, top, halted>>
  BY <1>1 DEF init_vmm
<1>4. /\ memory'[2] = [Zero EXCEPT ![0] = 3, ![Entries - 2] = 4, ![Entries - 1] = 2]
      /\ memory'[3] = Identity /\ memory'[4] = [Zero EXCEPT ![Entries - 1] = 2]
      /\ \A f \in Frame : f \notin {2, 3, 4} => memory'[f] = memory[f]
  <2>1. PICK a, b, c : /\ a = [Zero EXCEPT ![0] = 3, ![Entries - 2] = 4, ![Entries - 1] = 2]
                       /\ b = Identity /\ c = [Zero EXCEPT ![Entries - 1] = 2]
    OBVIOUS
  <2>2. memory' = [memory EXCEPT ![2] = a, ![3] = b, ![4] = c]
    BY <1>3, <2>1
  <2>3. /\ memory'[2] = a /\ memory'[3] = b /\ memory'[4] = c
        /\ \A f \in Frame : f \notin {2, 3, 4} => memory'[f] = memory[f]
    BY <1>0, <1>2, <2>2 DEF Sound, TypeOK
  <2> QED  BY <2>1, <2>3
<1>5. /\ memory'[2][0] = 3 /\ memory'[2][Entries - 2] = 4 /\ memory'[2][Entries - 1] = 2
      /\ memory'[2][1] = NONE /\ memory'[2][2] = NONE /\ memory'[4][Entries - 1] = 2
      /\ \A i \in Index \ {0, Entries - 2, Entries - 1} : memory'[2][i] = NONE
  BY <1>2, <1>4, ZeroIs
<1>6. /\ directory'[Kernel] = 2 /\ \A s \in Space : s # Kernel => directory'[s] = NONE
      /\ Kernel \in Space /\ Home(Creator) = Kernel /\ 2 # NONE
  BY <1>0, <1>1, <1>2, <1>3, Names DEF Sound, TypeOK
<1>7. TypeOK' /\ ~halted' /\ Booted' /\ \A t \in Space :
          pc'[t] = IF t = Kernel THEN "construct" ELSE "unborn"
  <2>1. memory' \in [Frame -> [Index -> Frame \cup {NONE, JUNK}]]
    BY <1>0, <1>2, <1>3, ZeroIs, IdentityIs DEF Sound, TypeOK
  <2>2. directory' \in [Space -> Frame \cup {NONE}]
    BY <1>0, <1>2, <1>3 DEF Sound, TypeOK
  <2>3. pc' \in [Thread -> Labels] /\ \A t \in Space :
            pc'[t] = IF t = Kernel THEN "construct" ELSE "unborn"
    <3>1. {"inside", "construct"} \subseteq Labels
      BY DEF Labels
    <3> QED  BY <1>0, <1>1, <1>3, <3>1, Names DEF Sound, TypeOK
  <2>4. TypeOK'
    BY <1>0, <1>2, <1>3, <1>6, <2>1, <2>2, <2>3, Names DEF Sound, TypeOK
  <2>5. Home(running)' = Kernel
    BY <1>3, <1>6, Names DEF Home
  <2> QED  BY <1>0, <1>3, <1>6, <2>3, <2>4, <2>5 DEF Sound, Booted
<1>8. Free'
  <2>1. \A f \in Frame : f >= 5 => f \notin {2, 3, 4} /\ f >= 2
    BY Indices
  <2>2. next' = 5 /\ \A f \in Frame : f >= 2 => memory[f] = Zero
    BY <1>0, <1>1, <1>3 DEF Sound, Free
  <2> QED  BY <1>4, <2>1, <2>2 DEF Free
<1>9. Complete(2)'
  BY <1>2, <1>4, <1>5 DEF Complete
<1>10. Whole'
  BY <1>6, <1>9 DEF Whole, Complete
<1>11. Owned(new)'
  <2>1. new \in [Frame -> Role]
    BY <1>0, <1>2, <1>6 DEF Role
  <2>2. /\ Owns(new, 2, "directory", Kernel, 0)' /\ Owns(new, 3, "table", Kernel, 0)'
        /\ Owns(new, 4, "table", Kernel, Entries - 2)'
    BY <1>0, <1>2, <1>3 DEF Owns
  <2>3. Dir(Kernel)' = 2
    BY <1>6 DEF Dir
  <2>4. \A s \in Space : s # Kernel => Dir(s)' = NONE
    BY <1>1, <1>3, <1>6 DEF Dir, Idle
  <2>5. OwnedBy(new, Kernel)'
    BY <1>2, <1>5, <2>2, <2>3 DEF OwnedBy, Owns
  <2>6. \A s \in Space : s # Kernel => OwnedBy(new, s)'
    BY <2>4 DEF OwnedBy
  <2>7. \A s \in Space : Holds(new, s)'
    BY <1>7 DEF Holds, InMap
  <2> QED  BY <2>1, <2>5, <2>6, <2>7 DEF Owned
<1>12. /\ ~Making' /\ pc'[Creator] = "inside" /\ local'[Creator] = Idle
  BY <1>0, <1>1, <1>3, <1>6, Names DEF Sound, TypeOK, Making
<1>13. Building'
  BY <1>12 DEF Building, InMap, Idle, Making
<1>14. NewMapped'
  <2>1. Walk(2, NewDirectoryPage)' = NONE /\ Walk(2, NewTablePage)' = NONE
    BY <1>5, PageParts, Names DEF Walk
  <2>2. ShownDirectory' = NONE /\ ShownTable' = NONE
    BY <1>12 DEF ShownDirectory, ShownTable, Making
  <2> QED  BY <1>6, <2>1, <2>2 DEF NewMapped, Walk
<1>15. Calling'
  <2>1. \A t \in Space : Growing(t)'
    BY <1>6, <1>7 DEF Growing, InMap, Steps
  <2>2. \A t \in Thread : pc'[t] \in {"inside", "construct", "unborn"}
    BY <1>7, <1>12, Names
  <2> QED  BY <2>1, <2>2 DEF Calling, AtTable
<1>16. TlbCoherent' /\ TlbKnown'
  BY <1>1, <1>3, HeapPageNames DEF TlbCoherent, TlbKnown, NoTlb
<1>17. Mapping' = Mapping
  <2>1. ASSUME NEW p \in HeapPage PROVE Walk(directory[Kernel], p)' = NONE
    <3>1. p[1] = 1
      BY HeapPageNames
    <3> QED  BY <1>5, <1>6, <3>1, Names DEF Walk
  <2>2. ASSUME NEW s \in Space, NEW p \in HeapPage
        PROVE  (IF directory[s] = NONE THEN NONE ELSE Walk(directory[s], p))' = NONE
    BY <1>6, <2>1 DEF Walk
  <2> QED  BY <1>1, <2>2 DEF Mapping
<1>18. Heaped'
  <2>1. ASSUME NEW s \in Space PROVE Tidy(s)'
    <3>1. top[s] = NONE /\ \A p \in HeapPage : seen[s][p] = NONE
      BY <1>1 DEF Inv, Heaped, Tidy, Built
    <3>2. ~InMap(s)' /\ ~Built(s)' /\ ~Lengthening(s)' /\ pc'[s] \in {"unborn", "construct"}
      <4>1. pc'[s] \in {"unborn", "construct"} /\ top'[s] = NONE
        BY <1>3, <1>7, <3>1
      <4> QED  BY <4>1 DEF InMap, Built, Lengthening
    <3>3. Early(s)' => Within(s)'
      BY <1>7, <1>12, <3>2 DEF Early, Within, Idle
    <3> QED  BY <1>3, <3>1, <3>2, <3>3 DEF Tidy
  <2>2. Turns'
    BY <1>3, <1>12 DEF Turns, Idle
  <2> QED  BY <2>1, <2>2 DEF Heaped
<1> QED
  BY <1>3, <1>7, <1>8, <1>10, <1>11, <1>13, <1>14, <1>15, <1>16, <1>17, <1>18
  DEF Sound, Owning, Inv, Promised

----------------------------------------------------------------------------
(* The theorems.  The frames from 2 on are those that pmm_alloc_page hands *)
(* out; the first two hold what was there before, and the bitmap.          *)

LEMMA InitSound ==
    ASSUME Dirty \subseteq {0, 1}, Init
    PROVE  Inv
<1>0. PICK own : own = [f \in Frame |-> <<"held", Kernel, 0>>]
  OBVIOUS
<1>1. TypeOK
  <2>1. [i \in Index |-> JUNK] \in [Index -> Frame \cup {NONE, JUNK}]
    OBVIOUS
  <2>2. memory \in [Frame -> [Index -> Frame \cup {NONE, JUNK}]]
    BY <2>1, ZeroIs DEF Init
  <2>3. Idle \in [space : Space, pd : Frame \cup {NONE}, page : Page,
                  frame : Frame \cup {NONE}, back : Labels, end : Index]
    BY Names, PageNames, Indices DEF Idle, Labels
  <2>4. {"idle", "unborn"} \subseteq Labels
    BY DEF Labels
  <2> QED  BY <2>2, <2>3, <2>4, Names DEF Init, TypeOK, NoTlb
<1>2. Free /\ ~halted
  <2>1. \A f \in Frame : f >= 2 => f \notin Dirty
    BY Indices
  <2> QED  BY <2>1 DEF Init, Free
<1>3. Booted
  BY Names DEF Init, Booted
<1>4. Owned(own)
  <2>1. own \in [Frame -> Role]
    BY <1>0, Names, Indices DEF Role
  <2>2. \A s \in Space : Dir(s) = NONE
    BY Names DEF Init, Dir, Idle
  <2>3. \A s \in Space : Holds(own, s)
    BY Names DEF Init, Holds, InMap
  <2> QED  BY <2>1, <2>2, <2>3 DEF Owned, OwnedBy
<1>5. pc[Creator] = "idle" /\ \A s \in Space : pc[s] = "unborn"
  BY Names DEF Init
<1>6. Whole /\ Building /\ NewMapped /\ Calling
  <2>1. Whole /\ Building /\ NewMapped
    BY <1>5, Names DEF Init, Whole, Building, NewMapped, InMap, Making, Idle
  <2>2. Calling
    BY <1>5, Names DEF Calling, Growing, AtTable, InMap, Steps
  <2> QED  BY <2>1, <2>2
<1>7. TlbCoherent /\ TlbKnown
  BY HeapPageNames DEF Init, TlbCoherent, TlbKnown, NoTlb
<1>8. Heaped
  <2>1. ASSUME NEW s \in Space PROVE Tidy(s)
    <3>1. /\ top[s] = NONE /\ pc[s] = "unborn" /\ \A p \in HeapPage : seen[s][p] = NONE
      BY <1>5 DEF Init
    <3> QED  BY <3>1 DEF Tidy, Early, Built, Lengthening, InMap
  <2> QED  BY <1>5, <2>1 DEF Heaped, Turns
<1> QED  BY <1>1, <1>2, <1>3, <1>4, <1>6, <1>7, <1>8 DEF Sound, Owning, Inv

(* Where the thread is after a step of map or of create_page_directory     *)
(* that leaves the heaps alone.                                            *)
LEMMA InMapHeaped ==
    ASSUME Inv, NEW t \in Thread, map(t) \/ NewTable(t) \/ ClearTable(t),
           UNCHANGED <<Mapping, seen, top>>
    PROVE  Heaped'
<1>0. PICK own : Sound(own)
  BY DEF Inv, Owning
<1>1. /\ running = t /\ InMap(t) /\ UNCHANGED <<running, local, directory>>
      /\ \E label \in {"newTable", "clearTable", "setEntry"} : pc' = [pc EXCEPT ![t] = label]
  <2>1. CASE map(t)
    BY <2>1 DEF map, Runs, Goto, InMap, paging
  <2>2. CASE NewTable(t)
    BY <2>2 DEF NewTable, Runs, Goto, InMap, paging
  <2>3. CASE ClearTable(t)
    BY <2>3 DEF ClearTable, Runs, Goto, InMap, paging
  <2> QED  BY <2>1, <2>2, <2>3
<1> QED  BY <1>0, <1>1, HeapedInMap DEF Inv

Makes(t) ==
    \/ ClearDirectory(t) \/ NewLowTable(t) \/ FillLowTable(t) \/ NewLastTable(t)
    \/ FillLastTable(t) \/ CloseLoop(t) \/ UnmapTable(t)

LEMMA MakingHeaped ==
    ASSUME Inv, NEW t \in Thread, Makes(t), UNCHANGED <<Mapping, seen, top>>
    PROVE  Heaped'
<1>0. PICK own : Sound(own)
  BY DEF Inv, Owning
<1>1. PICK label, after :
          /\ Runs(t, label) /\ pc' = [pc EXCEPT ![t] = after]
          /\ label \in {"clearPd", "newLow", "fillLow", "newLast", "fillLast", "loop",
                       "unmapLow", "unmapLast"}
          /\ after \in Labels \ {"enter", "inside"}
          /\ UNCHANGED <<running, directory>>
          /\ local' = local \/ \E l : local' = [local EXCEPT ![t] = l]
  <2>0. {"map", "newLow", "unmapLow", "loop", "unmapLast", "newLast", "unmapPd"}
            \subseteq Labels \ {"enter", "inside"}
    BY DEF Labels
  <2>1. CASE ClearDirectory(t)
    BY <2>0, <2>1 DEF ClearDirectory, Goto, paging
  <2>2. CASE NewLowTable(t)
    <3>1. Runs(t, "newLow") /\ pc' = [pc EXCEPT ![t] = "map"] /\ UNCHANGED <<running, directory>>
      BY <2>2 DEF NewLowTable, AddTable, Calls, Goto, paging
    <3>2. \E l : local' = [local EXCEPT ![t] = l]
      BY <2>2 DEF NewLowTable, AddTable, Calls
    <3> QED  BY <2>0, <3>1, <3>2
  <2>3. CASE FillLowTable(t)
    BY <2>0, <2>3 DEF FillLowTable, Goto, paging
  <2>4. CASE NewLastTable(t)
    <3>1. Runs(t, "newLast") /\ pc' = [pc EXCEPT ![t] = "map"] /\ UNCHANGED <<running, directory>>
      BY <2>4 DEF NewLastTable, AddTable, Calls, Goto, paging
    <3>2. \E l : local' = [local EXCEPT ![t] = l]
      BY <2>4 DEF NewLastTable, AddTable, Calls
    <3> QED  BY <2>0, <3>1, <3>2
  <2>5. CASE FillLastTable(t)
    BY <2>0, <2>5 DEF FillLastTable, Goto, paging
  <2>6. CASE CloseLoop(t)
    BY <2>0, <2>6 DEF CloseLoop, Goto, paging
  <2>7. CASE UnmapTable(t)
    BY <2>0, <2>7 DEF UnmapTable, Goto, paging
  <2> QED  BY <2>1, <2>2, <2>3, <2>4, <2>5, <2>6, <2>7 DEF Makes
<1>2. t = Creator /\ running = Creator /\ pc[Creator] = label
  BY <1>0, <1>1, CreatorAt DEF Steps
<1>3. \A u \in Space : local'[u] = local[u]
  BY <1>0, <1>1, <1>2, Names DEF Sound, TypeOK
<1> QED  BY <1>0, <1>1, <1>2, <1>3, HeapedMaking DEF Inv

LEMMA CreateHeaped ==
    ASSUME Inv, NEW s \in Process, create_page_directory(Creator, s),
           UNCHANGED <<Mapping, seen, top>>
    PROVE  Heaped'
<1>0. PICK own : Sound(own)
  BY DEF Inv, Owning
<1>1. /\ running = Creator /\ pc[Creator] = "idle" /\ pc' = [pc EXCEPT ![Creator] = "map"]
      /\ UNCHANGED <<running, directory>>
      /\ \A u \in Space : local'[u] = local[u]
  BY <1>0, Names DEF create_page_directory, Runs, Goto, paging, Sound, TypeOK
<1>2. "map" \in Labels \ {"enter", "inside"}
  BY DEF Labels
<1> QED  BY <1>0, <1>1, <1>2, HeapedMaking DEF Inv

(* map returns. *)
LEMMA SetEntrySound ==
    ASSUME Inv, NEW t \in Thread, SetEntry(t)
    PROVE  Inv' /\ Promised
<1>0. PICK own : Sound(own)
  BY DEF Inv, Owning
<1>1. /\ running = t /\ InMap(t) /\ UNCHANGED <<running, local, directory, seen, top>>
      /\ pc' = [pc EXCEPT ![t] = local[t].back] /\ pc'[t] = local[t].back
      /\ \A u \in Thread : u # t => UNCHANGED <<pc[u], local[u]>>
  BY <1>0 DEF SetEntry, Runs, Goto, InMap, paging, Sound, TypeOK
<1>2. CASE t = Creator
  <2>1. Sound(own)' /\ UNCHANGED <<Mapping, seen, top>>
    BY <1>0, <1>2, NewPageMapped
  <2>2. local[t].back \in Labels \ {"enter", "inside"}
    <3>1. local[t].back \in {"clearPd", "fillLow", "fillLast"}
      BY <1>0, <1>1, <1>2 DEF Sound, Building, Ordered, Making
    <3> QED  BY <3>1 DEF Labels
  <2>3. pc[Creator] \notin {"unborn", "inside"}
    BY <1>1, <1>2 DEF InMap
  <2>4. Heaped'
    BY <1>0, <1>1, <1>2, <2>1, <2>2, <2>3, HeapedMaking DEF Inv
  <2> QED  BY <2>1, <2>4 DEF Inv, Owning, Promised
<1>3. CASE t \in Space
  <2>1. PICK p, f, b : p = local[t].page /\ f = local[t].frame /\ b = local[t].back
    OBVIOUS
  <2>2. Owning' /\ AS!Map(t, p, f) /\ f \in Frame
    BY <1>0, <1>3, <2>1, PageMapped
  <2>3. p \in HeapPage /\ b \in {"mapped", "stack", "push"}
    BY <1>0, <1>1, <1>3, <2>1 DEF Sound, Calling, Growing
  <2>4. /\ Mapping'[t][p] # NONE
        /\ \A r \in Space, q \in HeapPage : Mapping[r][q] # NONE => Mapping'[r][q] # NONE
    <3>1. Mapping' = [Mapping EXCEPT ![t][p] = f]
      BY <2>2 DEF AS!Map
    <3>2. Mapping = [r \in Space |-> [q \in HeapPage |-> Mapping[r][q]]]
      BY DEF Mapping
    <3>3. \A r \in Space, q \in HeapPage :
              Mapping'[r][q] = IF r = t /\ q = p THEN f ELSE Mapping[r][q]
      BY <3>1, <3>2
    <3> QED  BY <1>3, <2>2, <2>3, <3>3, Names
  <2>5. /\ Tidy(t) /\ top[t] \in 0 .. HeapPages - 1 \cup {NONE} /\ top[t] # NONE
        /\ p = <<1, p[2]>>
    <3>1. Tidy(t) /\ top[t] \in 0 .. HeapPages - 1 \cup {NONE}
      BY <1>0, <1>3 DEF Inv, Heaped, Sound, TypeOK
    <3>2. pc[t] \notin {"unborn", "construct"}
      BY <1>1 DEF InMap
    <3> QED  BY <2>3, <3>1, <3>2, HeapPageNames DEF Tidy
  <2>6. /\ ~InMap(t)' /\ Built(t)' /\ pc'[t] \notin {"unborn", "construct"}
        /\ Lengthening(t)' => b = "mapped" /\ Lengthening(t)
        /\ Behind(t, local[t].end)' = Behind(t, local[t].end)
    BY <1>1, <2>1, <2>3, <2>5 DEF InMap, Built, Lengthening, Behind
  <2>7. Early(t)' => Within(t)'
    <3>1. Early(t)' => Early(t)
      BY <1>1, <2>1, <2>3, <2>6 DEF Early
    <3>2. Within(t) => Within(t)'
      BY <1>1, <1>3, Names DEF Within
    <3> QED  BY <2>5, <3>1, <3>2 DEF Tidy
  <2>8. /\ \A q \in HeapPage : seen'[t][q] # NONE => q[2] <= top'[t]
        /\ \A j \in 0 .. top'[t] : Mapping'[t][<<1, j>>] # NONE
    <3>1. CASE b = "stack"
      <4>1. ~Built(t) /\ top[t] = 0 /\ p = <<1, 0>>
        BY <1>1, <2>1, <2>5, <3>1 DEF Built, Tidy
      <4> QED  BY <1>1, <2>4, <2>5, <4>1 DEF Tidy
    <3>2. CASE b # "stack"
      <4>1. Built(t)
        BY <2>1, <2>5, <3>2 DEF Built
      <4>2. \A j \in 0 .. top[t] : <<1, j>> \in HeapPage
        <5> SUFFICES ASSUME NEW j \in 0 .. top[t] PROVE j \in 0 .. HeapPages - 1
          BY HeapNumbers
        <5>1. top[t] \in 0 .. HeapPages - 1
          BY <2>5
        <5> QED  BY <5>1, HeapNumbers
      <4> QED  BY <1>1, <1>3, <2>4, <2>5, <4>1, <4>2 DEF Tidy
    <3> QED  BY <3>1, <3>2
  <2>9. ASSUME Lengthening(t)'
        PROVE  /\ local'[t].end \in top'[t] .. HeapPages - 1
               /\ top'[t] < local'[t].page[2]
               /\ local'[t].page[2] <= Behind(t, local[t].end)'
               /\ Behind(t, local[t].end)' < HeapPages
               /\ \A j \in top'[t] + 1 .. local'[t].page[2] - 1 :
                     Mapping'[t][<<1, j>>] # NONE
               /\ Mapping'[t][<<1, local'[t].page[2]>>] # NONE
    <3>1. /\ local[t].end \in top[t] .. HeapPages - 1
          /\ top[t] < local[t].page[2] /\ local[t].page[2] <= Behind(t, local[t].end)
          /\ Behind(t, local[t].end) < HeapPages
          /\ \A j \in top[t] + 1 .. local[t].page[2] - 1 : Mapping[t][<<1, j>>] # NONE
      BY <2>5, <2>6, <2>9 DEF Tidy
    <3>2. \A j \in top[t] + 1 .. local[t].page[2] - 1 : <<1, j>> \in HeapPage
      <4> SUFFICES ASSUME NEW j \in top[t] + 1 .. local[t].page[2] - 1
                   PROVE  j \in 0 .. HeapPages - 1
        BY HeapNumbers
      <4>1. p[2] \in 0 .. HeapPages - 1
        BY <2>3, HeapNumbers DEF HeapPage
      <4>2. top[t] \in 0 .. HeapPages - 1
        BY <2>5
      <4> QED  BY <2>1, <4>1, <4>2, HeapNumbers
    <3> QED  BY <1>1, <1>3, <2>1, <2>4, <2>5, <2>6, <3>1, <3>2
  <2>10. Tidy(t)'
    BY <1>1, <2>5, <2>6, <2>7, <2>8, <2>9 DEF Tidy
  <2>11. pc[t] \notin {"unborn", "inside"} /\ t # Creator
    BY <1>1, <1>3, Names DEF InMap
  <2>12. Heaped'
    BY <1>0, <1>1, <2>4, <2>10, <2>11, HeapedKept DEF Inv
  <2> QED  BY <1>3, <2>2, <2>3, <2>12 DEF Inv, Promised, AS!Next
<1> QED  BY <1>2, <1>3, Names

LEMMA NextSound ==
    ASSUME Aligned, Undisturbed, Inv, [Next]_vars
    PROVE  Inv' /\ Promised
<1>0. PICK own : Sound(own)
  BY DEF Inv, Owning
<1>1. Creator \in Thread /\ Space \subseteq Thread
  BY Names
<1>2. CASE UNCHANGED vars
  <2>1. UNCHANGED <<memory, next, directory, cr3, running, tlb, pc, local, top, seen, halted>>
    BY <1>2 DEF vars, paging
  <2>2. (TypeOK /\ ~halted /\ Free /\ Booted)'
    BY <1>0, <2>1 DEF Sound, TypeOK, Free, Booted
  <2>3. (Whole /\ Building /\ NewMapped)' /\ Mapping' = Mapping
    BY <1>0, <2>1
    DEF Sound, Whole, Complete, Building, InMap, Stage, Unfinished, Ordered, NewMapped,
        ShownDirectory, ShownTable, Walk, Mapping, Making
  <2>4. (Calling /\ TlbCoherent /\ TlbKnown)'
    BY <1>0, <2>1 DEF Sound, Calling, Growing, InMap, AtTable, TlbCoherent, TlbKnown, Walk
  <2>5. Owned(own)'
    <3>1. \A r \in Space : Dir(r)' = Dir(r)
      BY <2>1 DEF Dir
    <3>2. \A r \in Space : Holds(own, r)'
      BY <1>0, <2>1 DEF Sound, Owned, Holds, Owns, InMap
    <3> QED  BY <1>0, <2>1, <3>1, <3>2, SameOwned DEF Sound, TypeOK
  <2>6. Heaped'
    <3>1. \A s \in Space : Tidy(s)'
      BY <1>0, <1>1, <2>1, <2>3, TidyStays DEF Inv, Within
    <3> QED  BY <2>1, <3>1 DEF Inv, Heaped, Turns
  <2> QED  BY <2>1, <2>2, <2>3, <2>4, <2>5, <2>6 DEF Sound, Inv, Owning, Promised
<1>3. CASE init_vmm
  BY <1>3, BootSound
<1>4. ASSUME NEW t \in Thread, Switch(t)  PROVE Inv' /\ Promised
  BY <1>4, SwitchSound
<1>5. ASSUME NEW t \in Thread, map(t) \/ NewTable(t) \/ ClearTable(t)  PROVE Inv' /\ Promised
  <2>1. Owning' /\ UNCHANGED <<Mapping, seen, top>>
    BY <1>0, <1>5, MapSound, NewTableSound, ClearTableSound DEF Owning
  <2> QED  BY <1>5, <2>1, InMapHeaped DEF Inv, Promised
<1>6. ASSUME NEW t \in Thread, SetEntry(t)  PROVE Inv' /\ Promised
  BY <1>6, SetEntrySound
<1>7. ASSUME NEW s \in Process, create_page_directory(Creator, s)  PROVE Inv' /\ Promised
  <2>1. Owning' /\ UNCHANGED <<Mapping, seen, top>>
    BY <1>0, <1>7, CreateSound
  <2> QED  BY <1>7, <2>1, CreateHeaped DEF Inv, Promised
<1>8. ASSUME NEW t \in Thread, Makes(t)  PROVE Inv' /\ Promised
  <2>1. CASE ClearDirectory(t) \/ FillLowTable(t) \/ FillLastTable(t) \/ CloseLoop(t)
    BY <1>0, <1>8, <2>1, ClearDirectorySound, FillLowTableSound, FillLastTableSound,
       CloseLoopSound, MakingHeaped DEF Inv, Owning, Promised
  <2>2. CASE UnmapTable(t)
    BY <1>0, <1>8, <2>2, UnmapTableSound, MakingHeaped DEF Inv, Owning, Promised
  <2>3. CASE NewLowTable(t) \/ NewLastTable(t)
    <3>1. Owning' /\ UNCHANGED <<Mapping, seen, top>>
      BY <1>0, <2>3, AddTableSound DEF NewLowTable, NewLastTable
    <3> QED  BY <1>8, <3>1, MakingHeaped DEF Inv, Promised
  <2> QED  BY <1>8, <2>1, <2>2, <2>3 DEF Makes
<1>9. ASSUME NEW t \in Thread, UnmapDirectory(t)  PROVE Inv' /\ Promised
  BY <1>0, <1>9, UnmapDirectorySound DEF Inv, Owning, Promised
<1>10. CASE Enter(Creator)
  BY <1>10, EnterSound
<1>11. ASSUME NEW s \in Space, Heap(s) \/ NextPage(s) \/ Use(s) \/ Push(s) \/ Leave(s)
       PROVE  Inv' /\ Promised
  BY <1>11, HeapSound, NextPageSound, UseSound, LeaveSound
<1>12. ASSUME NEW s \in Space, NewStack(s)  PROVE Inv' /\ Promised
  <2>1. /\ Runs(s, "stack") /\ Chunk(s, top[s], {<<1, top[s]>>}, "push")
        /\ Tidy(s) /\ top[s] \in 0 .. HeapPages - 1 \cup {NONE}
    BY <1>0, <1>12 DEF NewStack, Inv, Heaped, Sound, TypeOK
  <2>2. top[s] \in top[s] .. HeapPages - 1
    BY <2>1, HeapNumbers DEF Tidy, Runs
  <2> QED  BY <2>1, <2>2, ChunkSound
<1>13. ASSUME NEW s \in Space, kmalloc(s)  PROVE Inv' /\ Promised
  <2>1. Runs(s, "idle")
    BY <1>13 DEF kmalloc
  <2>2. PICK end \in top[s] .. HeapPages - 1 : Chunk(s, end, {<<1, top[s]>>}, "mapped")
    BY <1>13 DEF kmalloc
  <2> QED  BY <2>1, <2>2, ChunkSound
<1> QED
  BY <1>2, <1>3, <1>4, <1>5, <1>6, <1>7, <1>8, <1>9, <1>10, <1>11, <1>12, <1>13
  DEF Next, Makes

(* The inductive invariant holds whatever the switches between threads.    *)
THEOREM Invariance ==
    ASSUME Aligned, Undisturbed, Dirty \subseteq {0, 1}
    PROVE  Spec => []Inv
<1>1. Init => Inv
  BY InitSound
<1>2. Inv /\ [Next]_vars => Inv'
  BY NextSound
<1> QED  BY <1>1, <1>2, PTL DEF Spec

(* Every address space that create_page_directory returns has the kernel   *)
(* mapped and its own tables in their place.                               *)
THEOREM WholeSpaces ==
    ASSUME Aligned, Undisturbed, Dirty \subseteq {0, 1}
    PROVE  Spec => []SpacesWhole
<1>1. Inv => SpacesWhole
  <2> SUFFICES ASSUME NEW own, Sound(own), NEW s \in Space, directory[s] # NONE
               PROVE  /\ \A j \in Index : Walk(directory[s], <<0, j>>) = j
                      /\ Walk(directory[s], DirectoryPage) = directory[s]
                      /\ \A i \in Index : Walk(directory[s], TablePage(i)) = memory[directory[s]][i]
    BY DEF Inv, Owning, SpacesWhole
  <2>1. directory[s] \in Frame /\ Complete(directory[s])
    BY DEF Sound, TypeOK, Whole
  <2>2. \A j \in Index : Walk(directory[s], <<0, j>>) = j
    BY <2>1, IdentityIs DEF Complete, Walk
  <2>3. Walk(directory[s], DirectoryPage) = directory[s]
    BY <2>1 DEF Complete, Walk, DirectoryPage
  <2>4. \A i \in Index : Walk(directory[s], TablePage(i)) = memory[directory[s]][i]
    BY <2>1 DEF Complete, Walk, TablePage
  <2> QED  BY <2>2, <2>3, <2>4
<1> QED  BY <1>1, Invariance, PTL

(* No translation outlives the entry it was read from.                     *)
THEOREM Coherence ==
    ASSUME Aligned, Undisturbed, Dirty \subseteq {0, 1}
    PROVE  Spec => []TlbCoherent
<1>1. Inv => TlbCoherent
  BY DEF Inv, Owning, Sound
<1> QED  BY <1>1, Invariance, PTL

(* No frame is in the tables or the heaps of two spaces, nor in both of    *)
(* one.                                                                    *)
THEOREM Apart ==
    ASSUME Aligned, Undisturbed, Dirty \subseteq {0, 1}
    PROVE  Spec => []FramesApart
<1>1. Inv => FramesApart
  <2> SUFFICES ASSUME NEW own, Sound(own) PROVE FramesApart
    BY DEF Inv, Owning
  <2>1. ASSUME NEW s \in Space, NEW f \in Tables(s)
        PROVE  Owns(own, f, "directory", s, 0) \/ \E i \in Index : Owns(own, f, "table", s, i)
    <3>1. directory[s] # NONE /\ Dir(s) = directory[s]
      BY <2>1 DEF Tables, Dir
    <3> QED  BY <2>1, <3>1 DEF Tables, Sound, Owned, OwnedBy
  <2>2. ASSUME NEW s \in Space, NEW f \in Heaps(s)
        PROVE  \E i \in Index : Owns(own, f, "page", s, i)
    <3>1. PICK p \in HeapPage : directory[s] # NONE /\ f = Walk(directory[s], p) /\ f # NONE
      BY <2>2 DEF Heaps
    <3> QED  BY <3>1, HeapOwned, HeapPageNames DEF Sound
  <2>3. \A s, r \in Space : Heaps(s) \cap Tables(r) = {}
    BY <2>1, <2>2, Distinct
  <2>4. \A s, r \in Space : s # r => Tables(s) \cap Tables(r) = {}
    BY <2>1, Distinct
  <2>5. \A s, r \in Space : s # r => Heaps(s) \cap Heaps(r) = {}
    BY <2>2, Distinct
  <2> QED  BY <2>3, <2>4, <2>5 DEF FramesApart
<1> QED  BY <1>1, Invariance, PTL

(* The two pages of create_page_directory are free again when it returns.  *)
THEOREM Unmapped ==
    ASSUME Aligned, Undisturbed, Dirty \subseteq {0, 1}
    PROVE  Spec => []NothingLeftMapped
<1>1. Inv => NothingLeftMapped
  <2> SUFFICES ASSUME NEW own, Sound(own), cr3 # NONE, local[Creator].pd = NONE
               PROVE  /\ Walk(directory[Kernel], NewDirectoryPage) = NONE
                      /\ Walk(directory[Kernel], NewTablePage) = NONE
    BY DEF Inv, Owning, NothingLeftMapped
  <2>1. ~Making
    BY NotBuilt, Names
  <2> QED  BY <2>1 DEF Sound, NewMapped, ShownDirectory, ShownTable, Making
<1> QED  BY <1>1, Invariance, PTL

(* Every store of map, unmap and create_page_directory, every header and   *)
(* every use of a heap finds its page mapped.                              *)
THEOREM NoFault ==
    ASSUME Aligned, Undisturbed, Dirty \subseteq {0, 1}
    PROVE  Spec => []NeverFaults
<1>1. Inv => NeverFaults
  BY DEF Inv, Owning, Sound, NeverFaults
<1> QED  BY <1>1, Invariance, PTL

(* Directories, tables, TLB and switches implement address spaces that     *)
(* keep what is left in them.                                              *)
THEOREM Refinement ==
    ASSUME Aligned, Undisturbed, Dirty \subseteq {0, 1}
    PROVE  Spec => ImplementsSpaces
<1>1. Init => AS!Init
  BY DEF Init, AS!Init, Mapping
<1>2. Inv /\ [Next]_vars => [AS!Next]_(AS!vars)
  BY NextSound DEF Promised, AS!vars
<1> QED  BY <1>1, <1>2, Invariance, PTL DEF Spec, ImplementsSpaces, AS!Spec

----------------------------------------------------------------------------
(* What follows for the spaces of the code. *)

(* The frames behind all pages, now and when they were last used. *)
LEMMA SpacesTyping == ImplementsSpaces => []AS!TypeOK
<1>1. AS!Init => AS!TypeOK
  BY DEF AS!Init, AS!TypeOK
<1>2. AS!TypeOK /\ [AS!Next]_(AS!vars) => AS!TypeOK'
  <2> SUFFICES ASSUME AS!TypeOK, [AS!Next]_(AS!vars) PROVE AS!TypeOK'
    OBVIOUS
  <2>1. ASSUME NEW s \in Space, NEW p \in HeapPage, AS!Use(s, p) PROVE AS!TypeOK'
    BY <2>1 DEF AS!TypeOK, AS!Use
  <2>2. ASSUME NEW s \in Space, NEW p \in HeapPage, NEW f \in Frame, AS!Map(s, p, f) PROVE AS!TypeOK'
    BY <2>2 DEF AS!TypeOK, AS!Map
  <2>3. CASE UNCHANGED AS!vars
    BY <2>3 DEF AS!TypeOK, AS!vars
  <2> QED
    BY <2>1, <2>2, <2>3 DEF AS!Next
<1> QED
  BY <1>1, <1>2, PTL DEF ImplementsSpaces, AS!Spec

(* A frame belongs to one page of one space: what map puts behind a page   *)
(* is behind no other.                                                     *)
THEOREM Ownership ==
    ASSUME Aligned, Undisturbed, Dirty \subseteq {0, 1}
    PROVE  Spec => []AS!OneOwner
<1> DEFINE I == AS!TypeOK /\ AS!OneOwner
<1>1. AS!Init => I
  BY DEF AS!Init, AS!TypeOK, AS!OneOwner
<1>2. I /\ [AS!Next]_(AS!vars) /\ AS!TypeOK' => I'
  <2> SUFFICES ASSUME I, [AS!Next]_(AS!vars), AS!TypeOK' PROVE AS!OneOwner'
    OBVIOUS
  <2>1. ASSUME NEW s \in Space, NEW p \in HeapPage, AS!Use(s, p) PROVE AS!OneOwner'
    BY <2>1 DEF AS!OneOwner, AS!Use
  <2>2. ASSUME NEW s \in Space, NEW p \in HeapPage, NEW f \in Frame, AS!Map(s, p, f) PROVE AS!OneOwner'
    <3>1. \A r \in Space, q \in HeapPage :
             Mapping'[r][q] = IF r = s /\ q = p THEN f ELSE Mapping[r][q]
      BY <2>2 DEF AS!TypeOK, AS!Map
    <3>2. \A r \in Space, q \in HeapPage : Mapping[r][q] # f
      BY <2>2 DEF AS!Map
    <3> QED
      BY <3>1, <3>2 DEF AS!OneOwner
  <2>3. CASE UNCHANGED AS!vars
    BY <2>3 DEF AS!OneOwner, AS!vars
  <2> QED
    BY <2>1, <2>2, <2>3 DEF AS!Next
<1> QED
  BY <1>1, <1>2, SpacesTyping, Refinement, PTL DEF ImplementsSpaces, AS!Spec

(* Once used, a page keeps its frame: nothing that was left there is lost. *)
THEOREM Persistence ==
    ASSUME Aligned, Undisturbed, Dirty \subseteq {0, 1}
    PROVE  Spec => []AS!KeepsData
<1> DEFINE I == AS!TypeOK /\ AS!KeepsData
<1>1. AS!Init => I
  BY DEF AS!Init, AS!TypeOK, AS!KeepsData
<1>2. I /\ [AS!Next]_(AS!vars) /\ AS!TypeOK' => I'
  <2> SUFFICES ASSUME I, [AS!Next]_(AS!vars), AS!TypeOK' PROVE AS!KeepsData'
    OBVIOUS
  <2>1. ASSUME NEW s \in Space, NEW p \in HeapPage, AS!Use(s, p) PROVE AS!KeepsData'
    BY <2>1 DEF AS!TypeOK, AS!KeepsData, AS!Use
  <2>2. ASSUME NEW s \in Space, NEW p \in HeapPage, NEW f \in Frame, AS!Map(s, p, f) PROVE AS!KeepsData'
    BY <2>2 DEF AS!TypeOK, AS!KeepsData, AS!Map
  <2>3. CASE UNCHANGED AS!vars
    BY <2>3 DEF AS!KeepsData, AS!vars
  <2> QED
    BY <2>1, <2>2, <2>3 DEF AS!Next
<1> QED
  BY <1>1, <1>2, SpacesTyping, Refinement, PTL DEF ImplementsSpaces, AS!Spec
=============================================================================
