---------------------------- MODULE ProcessHeap ----------------------------
(***************************************************************************)
(* mem/heap.c: the heap of a process.  Its chunks, each with a header in   *)
(* front of it, lie one behind the other from HEAP_START to                *)
(* current_mem_addr and are linked into one list per size; a block that is *)
(* freed stays in its list.  Addresses count from HEAP_START.  One call is *)
(* one step: two threads of one process in the heap at a time are not      *)
(* modelled.  A page that is mapped again has a fresh frame at once, which *)
(* is zero (what the TLB keeps of the old one is in VirtualMemory).        *)
(***************************************************************************)
EXTENDS Naturals, Sequences, SequencesExt

CONSTANTS
    Header,      \* sizeof(header_t)
    PageSize,
    size_array,  \* the standard sizes, without the -1 behind them
    Lengths,     \* what callers ask for
    Word,        \* how many values a uint32_t has
    MaxAddr      \* bound: where the heap must end

ASSUME HeapAssumption ==
    /\ Header \in Nat \ {0} /\ PageSize \in Nat \ {0}
    /\ size_array \in Seq(Nat)
    /\ Lengths \subseteq Nat
    /\ Word \in Nat /\ MaxAddr \in Nat /\ MaxAddr < Word \div 2

VARIABLES
    list_array,        \* the chunks of each size, in the order of their list
    current_mem_addr,  \* where the next chunk begins
    taken,             \* how many physical pages map() put at each page
    live,              \* the blocks the program holds: address, length asked for,
                       \* and whether another one was held there when it was given
    recycled,          \* whether a large block was looked for among freed ones
    torn,              \* whether a header has lost bytes to a fresh frame
    halted             \* a page fault: the kernel panics

vars == <<list_array, current_mem_addr, taken, live, recycled, torn, halted>>

Large == Len(size_array) + 1

Pages == 0 .. MaxAddr \div PageSize + 1

Chunk == [addr : Nat, length : 0 .. Word \div 2 - 1, allocated : BOOLEAN]

TypeOK ==
    /\ list_array \in [1 .. Large -> Seq(Chunk)]
    /\ current_mem_addr \in 0 .. MaxAddr
    /\ taken \in [Pages -> Nat]
    /\ live \subseteq [addr : Nat, length : Lengths, again : BOOLEAN]
    /\ recycled \in BOOLEAN /\ torn \in BOOLEAN /\ halted \in BOOLEAN

(* Heap::Heap *)
Init ==
    /\ list_array = [k \in 1 .. Large |-> <<>>]
    /\ current_mem_addr = 0
    /\ taken = [p \in Pages |-> IF p = 0 THEN 1 ELSE 0]
    /\ live = {}
    /\ recycled = FALSE /\ torn = FALSE /\ halted = FALSE

----------------------------------------------------------------------------
(* What a program may rely on. *)

Chunks == UNION {{list_array[k][i] : i \in 1 .. Len(list_array[k])} : k \in 1 .. Large}

(* The bytes from a to just before b, and those from c to just before d. *)
Disjoint(a, b, c, d) == b <= c \/ d <= a

(* No block is given to two, or shares a byte with another one, or with a  *)
(* header the heap still reads: each is the program's to write to.         *)
BlocksApart ==
    \A b \in live :
        /\ ~b.again
        /\ \A c \in live \ {b} :
               Disjoint(b.addr, b.addr + b.length, c.addr, c.addr + c.length)
        /\ \A c \in Chunks :
               Disjoint(b.addr, b.addr + b.length, c.addr, c.addr + Header)

(* Once a program's writes fall on a header, or on another block, what the *)
(* heap does is up to what was written there: the model ends.              *)
Usable == ~halted /\ BlocksApart

----------------------------------------------------------------------------

Mapped(addr) == addr \div PageSize \in Pages /\ taken[addr \div PageSize] > 0

HeaderMapped(addr) == Mapped(addr) /\ Mapped(addr + Header - 1)

(* The first of the sizes that is greater than length; none is for Large. *)
InClass(length, k) ==
    /\ \A j \in 1 .. k - 1 : size_array[j] <= length
    /\ k # Large => length < size_array[k]

AllAllocated(s) == \A i \in 1 .. Len(s) : s[i].allocated

(* A mutant: no room is left for the header. *)
NoHeader(size) == size

Occupied(size) == size + Header

(* A mutant: mapping begins with the page in use. *)
ThisPage == current_mem_addr \div PageSize

NextPage == current_mem_addr \div PageSize + 1

(* A mutant: the last, partial page is forgotten. *)
WholePages(size) ==
    LET left == PageSize - (current_mem_addr % PageSize)
    IN  IF size < left THEN 0 ELSE (size - left) \div PageSize

(* At least one page, whether or not the chunk leaves the one in use. *)
NewPages(size) ==
    LET left == PageSize - (current_mem_addr % PageSize)
    IN  IF size < left THEN 1 ELSE (size - left) \div PageSize + 1

(* How many values n bytes have, n being less than the four of a word. *)
Values(n) == CASE n = 0 -> 1 [] n = 1 -> 256 [] n = 2 -> 65536 [] OTHER -> 16777216

(* What is left of the header of chunk c when only its first n bytes are:  *)
(* next was NULL and stays so; the mark and the length are one word in the *)
(* second half, lowest byte first, with the mark as its lowest bit.        *)
CutHeader(c, n) ==
    LET bytes == IF n <= Header \div 2 THEN 0 ELSE n - Header \div 2
        word == (2 * c.length + 1) % Values(bytes)
    IN  [c EXCEPT !.allocated = (word % 2 = 1), !.length = word \div 2]

(* The header of chunk c once the next page is mapped: its bytes there are *)
(* gone.                                                                   *)
Written(c) ==
    LET here == PageSize - (c.addr % PageSize)
    IN  IF here < Header THEN CutHeader(c, here) ELSE c

(* The block at addr is given to the program. *)
Give(addr, length) ==
    live' = live \cup {[addr |-> addr, length |-> length, again |-> \E b \in live : b.addr = addr]}

(* A new chunk of class k at current_mem_addr, linked behind chunks.  Its  *)
(* header is written before the pages are mapped: it faults on a next page *)
(* that is not mapped, and loses what it wrote on one that is.             *)
Extend(length, k, chunks) ==
    LET size == IF k = Large THEN length ELSE size_array[k]
        more == Occupied(size)
        new == NextPage .. NextPage + NewPages(more) - 1
        chunk == [addr |-> current_mem_addr, length |-> size, allocated |-> TRUE]
    IN  /\ current_mem_addr + more <= MaxAddr
        /\ IF HeaderMapped(current_mem_addr)
           THEN /\ list_array' = [list_array EXCEPT ![k] = Append(chunks, Written(chunk))]
                /\ current_mem_addr' = current_mem_addr + more
                /\ taken' = [p \in Pages |-> IF p \in new THEN taken[p] + 1 ELSE taken[p]]
                /\ Give(current_mem_addr + Header, length)
                /\ torn' = (torn \/ Written(chunk) # chunk)
                /\ UNCHANGED halted
           ELSE halted' = TRUE /\ UNCHANGED <<list_array, current_mem_addr, taken, live, torn>>

(* kmalloc with no free chunk in the list. *)
New(length) ==
    /\ Usable
    /\ \E k \in 1 .. Large :
          InClass(length, k) /\ AllAllocated(list_array[k]) /\ Extend(length, k, list_array[k])
    /\ UNCHANGED recycled

(* kmalloc of a standard size: the first free chunk of the list. *)
Reuse(length) ==
    /\ Usable
    /\ \E k \in 1 .. Len(size_array) : InClass(length, k) /\
       \E i \in 1 .. Len(list_array[k]) :
          /\ ~list_array[k][i].allocated
          /\ \A j \in 1 .. i - 1 : list_array[k][j].allocated
          /\ list_array' = [list_array EXCEPT ![k][i].allocated = TRUE]
          /\ Give(list_array[k][i].addr + Header, length)
    /\ UNCHANGED <<current_mem_addr, taken, recycled, torn, halted>>

----------------------------------------------------------------------------
(* kmalloc of a large size: find_nonstandart_node and split_chunk. *)

(* A free chunk is merged into the one before it in the list if that is    *)
(* free; a length is a field of 31 bits.                                   *)
Merge(s, c) ==
    IF s # <<>> /\ ~Last(s).allocated /\ ~c.allocated
    THEN [s EXCEPT ![Len(s)].length = (@ + c.length) % (Word \div 2)]
    ELSE Append(s, c)

Merged(s) == FoldLeft(Merge, <<>>, s)

(* The walk can stop at the n-th node of s. *)
Fits(s, n, length) ==
    ~s[n].allocated /\ Last(Merged(SubSeq(s, 1, n))).length >= length

(* What split_chunk cuts off: placed by the old length, which does not     *)
(* count the header; the subtraction is of uint32_t.                       *)
CutOff(chunk, len) ==
    [addr |-> chunk.addr + chunk.length, allocated |-> FALSE,
     length |-> ((chunk.length + Word - len) % Word) % (Word \div 2)]

(* A freed chunk is found, after n nodes.  It is split if more than a      *)
(* header is left; what was linked behind it is then lost.                 *)
Split(length) ==
    /\ Usable /\ InClass(length, Large)
    /\ LET s == list_array[Large]
       IN  \E n \in 1 .. Len(s) :
             /\ Fits(s, n, length)
             /\ \A m \in 1 .. n - 1 : ~Fits(s, m, length)
             /\ LET found == Last(Merged(SubSeq(s, 1, n)))
                    before == Front(Merged(SubSeq(s, 1, n)))
                    len == length + Header
                IN  /\ list_array' = [list_array EXCEPT ![Large] =
                          before \o
                          IF (found.length + Word - len) % Word > Header
                          THEN <<[found EXCEPT !.allocated = TRUE, !.length = len],
                                 CutOff(found, len)>>
                          ELSE <<[found EXCEPT !.allocated = TRUE]>>
                               \o SubSeq(s, n + 1, Len(s))]
                    /\ Give(found.addr + Header, length)
    /\ recycled' = TRUE
    /\ UNCHANGED <<current_mem_addr, taken, torn, halted>>

(* No freed chunk is large enough, merged or not: a new one. *)
MergeOnly(length) ==
    /\ Usable /\ InClass(length, Large)
    /\ LET s == list_array[Large]
       IN  /\ ~AllAllocated(s)
           /\ \A n \in 1 .. Len(s) : ~Fits(s, n, length)
           /\ Extend(length, Large, Merged(s))
    /\ recycled' = TRUE

----------------------------------------------------------------------------

(* A mutant: the chunk stays allocated. *)
KeepAllocated(b) ==
    /\ Usable /\ b \in live
    /\ live' = live \ {b}
    /\ UNCHANGED <<list_array, current_mem_addr, taken, recycled, torn, halted>>

kfree(b) ==
    /\ Usable /\ b \in live
    /\ live' = live \ {b}
    /\ list_array' = [k \in 1 .. Large |->
           [i \in 1 .. Len(list_array[k]) |->
               IF list_array[k][i].addr + Header = b.addr
               THEN [list_array[k][i] EXCEPT !.allocated = FALSE] ELSE list_array[k][i]]]
    /\ UNCHANGED <<current_mem_addr, taken, recycled, torn, halted>>

Next ==
    \/ \E length \in Lengths : New(length) \/ Reuse(length) \/ Split(length) \/ MergeOnly(length)
    \/ \E b \in live : kfree(b)

Spec == Init /\ [][Next]_vars

----------------------------------------------------------------------------

(* What ends the promises of the heap: a header that is gone, or a large   *)
(* block looked for among freed ones.                                      *)
Damaged == recycled \/ torn

(* No two blocks overlap, and none lies on a header: only                  *)
(* find_nonstandart_node, split_chunk and a header that crosses a page end *)
(* break that.                                                             *)
ApartUntilDamaged == Damaged \/ BlocksApart

(* Until then nothing leaks either: every byte below current_mem_addr is   *)
(* in a chunk that a list still reaches, and a chunk is marked allocated   *)
(* exactly while the program holds its block.                              *)
NothingLost ==
    Damaged \/
    /\ \A a \in 0 .. current_mem_addr - 1 :
          \E c \in Chunks : c.addr <= a /\ a < c.addr + Header + c.length
    /\ \A c \in Chunks : c.allocated <=> \E b \in live : b.addr = c.addr + Header

(* The pages of a block are mapped when kmalloc returns it: the page count *)
(* of NewPages is enough wherever in a page the chunk begins.              *)
BlocksMapped ==
    recycled \/ \A b \in live : \A a \in b.addr .. b.addr + b.length - 1 : Mapped(a)

(* The bytes from a to just before b, and page p. *)
OffPage(a, b, p) == Disjoint(a, b, p * PageSize, (p + 1) * PageSize)

(* Every chunk maps the next page, which is mapped already as a rule, and  *)
(* what was stored there is lost to the fresh frame: no byte of a block    *)
(* that is held, nor of a header; the new chunk's own header, just written,*)
(* included, if it begins at a multiple of its size.                       *)
DataStays ==
    [][\A p \in Pages : taken[p] > 0 /\ taken'[p] # taken[p] =>
          \/ recycled'
          \/ /\ \A b \in live : OffPage(b.addr, b.addr + b.length, p)
             /\ \A c \in Chunks : OffPage(c.addr, c.addr + Header, p)
             /\ \A c \in Chunks' :
                    c.addr % Header = 0 => OffPage(c.addr, c.addr + Header, p)]_vars

(* The header is written before its pages are mapped.  As long as lengths  *)
(* are multiples of the header's size this neither faults nor loses it:    *)
(* only a large block of another length before it can do that.             *)
AlignedNeverFaults ==
    halted \/ torn => recycled \/ \E c \in Chunks : c.length % Header # 0
=============================================================================
