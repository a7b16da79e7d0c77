----------------------------- MODULE KernelHeap -----------------------------
(***************************************************************************)
(* MemoryManagement.cpp: kernel_malloc and kernel_free on the megabyte of  *)
(* kernel memory, a chain of blocks each behind its header.  kernel_malloc *)
(* has a step for each change of what calls share, for createThread calls  *)
(* it with interrupts on (a header's two fields are stored together);      *)
(* kernel_free is one store.  Addresses count from start_address.          *)
(***************************************************************************)
EXTENDS Integers, FiniteSets

CONSTANTS
    Header,     \* sizeof(struct memory_block)
    Size,       \* last_valid_address - start_address
    Length,     \* the lengths that are asked for
    Caller,     \* the threads that call kernel_malloc
    Exclusive   \* whether a call waits for the one under way

ASSUME HeapAssumption ==
    /\ Header \in Nat /\ Header >= 2
    /\ Size \in Nat /\ Size >= Header
    /\ Length \subseteq Nat \ {0}
    /\ Exclusive \in BOOLEAN

VARIABLES
    block,             \* the headers in the arena: is_available and size
    current_address,
    held,              \* the blocks callers have: whose, from where, how long
    freed,             \* the blocks they had
    pc, call,          \* where each call is, and its locals
    astray,            \* curr points to something that is no header
    overrun            \* a header was written across last_valid_address

memory == <<block, current_address>>
outside == <<astray, overrun>>
users == <<held, freed>>
vars == <<memory, users, pc, call, outside>>

Address == 0 .. Size
MemoryBlock == [is_available : BOOLEAN, size : 0 .. Size]
NoCall == [bytes |-> 0, curr |-> 0, curr_size |-> 0, ret |-> 0]

TypeOK ==
    /\ DOMAIN block \subseteq 0 .. Size - Header
    /\ \A a \in DOMAIN block : block[a] \in MemoryBlock
    /\ current_address \in Address
    /\ held \cup freed \subseteq [owner : Caller, from : Address, length : Length]
    /\ pc \in [Caller -> {"idle", "test", "mark", "skip", "ret", "advance", "split", "lost"}]
    /\ \A c \in Caller :
          /\ call[c].bytes \in Length \cup {0}
          /\ call[c].curr \in Nat
          /\ call[c].curr_size \in 0 .. Size /\ call[c].ret \in Address
    /\ astray \in BOOLEAN /\ overrun \in BOOLEAN

(* init_kernel_malloc, which the first call begins with. *)
Init ==
    /\ block = [a \in {0} |-> [is_available |-> TRUE, size |-> Size]]
    /\ current_address = 0
    /\ held = {} /\ freed = {}
    /\ pc = [c \in Caller |-> "idle"]
    /\ call = [c \in Caller |-> NoCall]
    /\ astray = FALSE /\ overrun = FALSE

At(c, label) == ~astray /\ pc[c] = label

Goto(c, label) == pc' = [pc EXCEPT ![c] = label]

(* A store into the header at a. *)
Written(a, b) == [x \in DOMAIN block \cup {a} |-> IF x = a THEN b ELSE block[x]]

----------------------------------------------------------------------------
(* kernel_malloc. *)

kernel_malloc(c) ==
    /\ At(c, "idle") /\ Goto(c, "test")
    /\ Exclusive => \A d \in Caller : pc[d] = "idle"
    /\ \E n \in Length :
          call' = [call EXCEPT ![c] =
                      [bytes |-> n, curr |-> current_address, curr_size |-> 0, ret |-> 0]]
    /\ UNCHANGED <<memory, users, outside>>

(* A mutant: room for the block, not for its header. *)
FitsBare(c) ==
    LET curr == call[c].curr
    IN  block[curr].is_available /\ block[curr].size >= call[c].bytes

Fits(c) ==
    LET curr == call[c].curr
    IN  block[curr].is_available /\ block[curr].size >= call[c].bytes + Header

(* The header at curr is free and large enough. *)
Found(c) ==
    /\ At(c, "test") /\ call[c].curr \in DOMAIN block /\ Fits(c)
    /\ Goto(c, "mark")
    /\ call' = [call EXCEPT ![c].curr_size = block[call[c].curr].size]
    /\ UNCHANGED <<memory, users, outside>>

(* curr += curr->size: a pointer to headers moves by that many headers.    *)
(* Only the end of the arena, met exactly, leads back to its start; the    *)
(* walk ends with NULL when it comes to current_address.                   *)
Behind(curr) ==
    LET next == curr + Header * block[curr].size
    IN  IF next = Size THEN 0 ELSE next

Onward(c) ==
    /\ At(c, "test") /\ call[c].curr \in DOMAIN block /\ ~Fits(c)
    /\ LET next == Behind(call[c].curr)
       IN  IF next = current_address
           THEN Goto(c, "idle") /\ call' = [call EXCEPT ![c] = NoCall]
           ELSE call' = [call EXCEPT ![c].curr = next] /\ UNCHANGED pc
    /\ UNCHANGED <<memory, users, outside>>

(* No header of the arena is at curr.  What is there decides: a size of    *)
(* zero keeps the walk in place for ever, any other sends it on, and what  *)
(* looks like a large free block gives the caller memory that is not the   *)
(* heap's.  The model ends here.                                           *)
GoAstray(c) ==
    /\ At(c, "test") /\ call[c].curr \notin DOMAIN block
    /\ Goto(c, "lost")
    /\ astray' = TRUE
    /\ UNCHANGED <<memory, users, call, overrun>>

(* A mutant: the old size stays in the header. *)
MarkOnly(c) ==
    /\ At(c, "mark") /\ Goto(c, "skip")
    /\ block' = [block EXCEPT ![call[c].curr].is_available = FALSE]
    /\ UNCHANGED <<current_address, users, call, outside>>

Mark(c) ==
    /\ At(c, "mark") /\ Goto(c, "skip")
    /\ block' = Written(call[c].curr, [is_available |-> FALSE, size |-> call[c].bytes + Header])
    /\ UNCHANGED <<current_address, users, call, outside>>

SkipHeader(c) ==
    /\ At(c, "skip") /\ Goto(c, "ret")
    /\ current_address' = current_address + Header
    /\ UNCHANGED <<block, users, call, outside>>

SetRet(c) ==
    /\ At(c, "ret") /\ Goto(c, "advance")
    /\ call' = [call EXCEPT ![c].ret = current_address]
    /\ UNCHANGED <<memory, users, outside>>

Advance(c) ==
    /\ At(c, "advance") /\ Goto(c, "split")
    /\ current_address' = current_address + call[c].bytes
    /\ UNCHANGED <<block, users, call, outside>>

(* A mutant: the rest is counted without its header. *)
WriteBareRest(rest) ==
    IF current_address + Header <= Size
    THEN /\ block' = Written(current_address, [is_available |-> TRUE, size |-> rest - Header])
         /\ UNCHANGED overrun
    ELSE overrun' = TRUE /\ UNCHANGED block

(* The header of what is left.  A rest shorter than a header gets one too, *)
(* across the end of the arena, where no walk finds it whole again.        *)
WriteRest(rest) ==
    IF current_address + Header <= Size
    THEN /\ block' = Written(current_address, [is_available |-> TRUE, size |-> rest])
         /\ UNCHANGED overrun
    ELSE overrun' = TRUE /\ UNCHANGED block

Split(c) ==
    LET used == call[c].bytes + Header
    IN  /\ At(c, "split") /\ Goto(c, "idle")
        /\ IF call[c].curr_size # used THEN WriteRest(call[c].curr_size - used)
                                       ELSE UNCHANGED <<block, overrun>>
        /\ held' = held \cup {[owner |-> c, from |-> call[c].ret, length |-> call[c].bytes]}
        /\ call' = [call EXCEPT ![c] = NoCall]
        /\ UNCHANGED <<current_address, freed, astray>>

----------------------------------------------------------------------------

(* A mutant: the last block is taken back at once. *)
FreeLast(b) ==
    /\ ~astray /\ b \in held
    /\ IF b.from + b.length = current_address
       THEN /\ block' = Written(b.from - Header,
                                [is_available |-> TRUE, size |-> Size - b.from + Header])
            /\ current_address' = b.from - Header
       ELSE /\ block' = [block EXCEPT ![b.from - Header].is_available = TRUE]
            /\ UNCHANGED current_address
    /\ held' = held \ {b} /\ freed' = freed \cup {b}
    /\ UNCHANGED <<pc, call, outside>>

(* kernel_free, from any thread or from the timer's handler, in the middle *)
(* of whatever call is under way: one store into the header before ptr.    *)
kernel_free(b) ==
    /\ ~astray /\ b \in held
    /\ block' = [block EXCEPT ![b.from - Header].is_available = TRUE]
    /\ held' = held \ {b} /\ freed' = freed \cup {b}
    /\ UNCHANGED <<current_address, pc, call, outside>>

Malloc(c) ==
    \/ kernel_malloc(c) \/ Found(c) \/ Onward(c) \/ GoAstray(c)
    \/ Mark(c) \/ SkipHeader(c) \/ SetRet(c) \/ Advance(c) \/ Split(c)

Next == (\E c \in Caller : Malloc(c)) \/ \E b \in held : kernel_free(b)

Spec == Init /\ [][Next]_vars

----------------------------------------------------------------------------
(* What the kernel's heap keeps as long as calls exclude each other. *)

(* A block stays its caller's: it is in the arena, as long as it was asked *)
(* for, and shares no byte with another, whatever is freed meanwhile.      *)
A == INSTANCE Allocator WITH asked <- [c \in Caller |-> call[c].bytes]

ImplementsAllocator == A!Spec

(* kernel_free stores into the header of the block it is given: each block *)
(* that is held has its header before it, marked used and with its length, *)
(* and no header lies in a block that is held.                             *)
HeadersIntact ==
    \A b \in held :
        /\ b.from - Header \in DOMAIN block
        /\ block[b.from - Header] = [is_available |-> FALSE, size |-> b.length + Header]
        /\ \A a \in DOMAIN block : a + Header <= b.from \/ b.from + b.length <= a

(* handleTimerEvent frees the thread_t it goes on with, and clearMessages  *)
(* the node it walks on from.  What they read there is still theirs: no    *)
(* other block and no header is ever put into a block that was freed.      *)
FreedBytesStay ==
    \A f \in freed :
        /\ \A b \in held : b.from + b.length <= f.from \/ f.from + f.length <= b.from
        /\ \A a \in DOMAIN block : a + Header <= f.from \/ f.from + f.length <= a

(* What was freed is never found again, but nothing else is lost either:   *)
(* only when all the blocks ever given, with their headers, leave too      *)
(* little for a call does its walk leave the arena, and only a rest        *)
(* shorter than a header is written across its end.                        *)
Unspent ==
    {x \in 0 .. Size - 1 : \A b \in held \cup freed :
                              x \notin b.from - Header .. b.from + b.length - 1}

EndsWhenSpent ==
    /\ \A c \in Caller : pc[c] = "lost" => Cardinality(Unspent) < call[c].bytes + Header
    /\ overrun => Cardinality(Unspent) < Header
=============================================================================
