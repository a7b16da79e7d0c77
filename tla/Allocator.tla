----------------------------- MODULE Allocator -----------------------------
(***************************************************************************)
(* What a heap promises its callers: a block is inside the arena, as long  *)
(* as it was asked for, apart from every block that is held, and stays     *)
(* with its caller until it is given back.  Which place a block gets, and  *)
(* when there is none, is left open; the kernel's heap is in KernelHeap.   *)
(***************************************************************************)
EXTENDS Naturals

CONSTANTS
    Size,      \* the bytes of the arena
    Length,    \* the lengths that are asked for
    Caller

VARIABLES
    asked,     \* the length each caller waits for, 0 for none
    held       \* the blocks that are held: their callers, places, lengths

vars == <<asked, held>>

Bytes(b) == b.from .. b.from + b.length - 1

Init == asked = [c \in Caller |-> 0] /\ held = {}

Ask(c) ==
    /\ asked[c] = 0
    /\ \E n \in Length : asked' = [asked EXCEPT ![c] = n]
    /\ UNCHANGED held

Give(c) ==
    /\ asked[c] # 0
    /\ \E from \in 0 .. Size - asked[c] :
          LET b == [owner |-> c, from |-> from, length |-> asked[c]]
          IN  /\ \A h \in held : Bytes(b) \cap Bytes(h) = {}
              /\ held' = held \cup {b}
    /\ asked' = [asked EXCEPT ![c] = 0]

Free(b) == b \in held /\ held' = held \ {b} /\ UNCHANGED asked

Next == (\E c \in Caller : Ask(c) \/ Give(c)) \/ \E b \in held : Free(b)

Spec == Init /\ [][Next]_vars
=============================================================================
