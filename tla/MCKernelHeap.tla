---------------------------- MODULE MCKernelHeap ----------------------------
(* KernelHeap for TLC, with what the repository says of it and the code    *)
(* does not do; the README says which instance shows it.                   *)
EXTENDS KernelHeap

(* The blocks form a list that is searched for one that is large enough,   *)
(* and neighbours that are free become one: a call fails only when no free *)
(* block is large enough.                                                  *)
FoundWhenFree ==
    \A c \in Caller : pc[c] = "lost" =>
        \A a \in DOMAIN block : block[a].is_available => block[a].size < call[c].bytes + Header
=============================================================================
