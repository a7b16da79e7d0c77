--------------------------- MODULE AddressSpaces ---------------------------
(***************************************************************************)
(* What virtual memory promises: each address space has pages of its own.  *)
(* A page of one space can be given a frame until it is used; from then on *)
(* what is found there is what was left there.  How directories, tables    *)
(* and the TLB do this is in VirtualMemory.                                *)
(***************************************************************************)
CONSTANTS
    Space,
    Page,    \* the pages of a space that can be mapped
    Frame,
    None

VARIABLES
    space,   \* the frame behind each page of each space
    seen     \* the frame the last use of a page went to

vars == <<space, seen>>

Init ==
    /\ space = [s \in Space |-> [p \in Page |-> None]]
    /\ seen = [s \in Space |-> [p \in Page |-> None]]

Map(s, p, f) ==
    /\ seen[s][p] = None
    /\ \A r \in Space, q \in Page : space[r][q] # f
    /\ space' = [space EXCEPT ![s][p] = f]
    /\ UNCHANGED seen

Use(s, p) ==
    /\ space[s][p] # None
    /\ seen' = [seen EXCEPT ![s][p] = space[s][p]]
    /\ UNCHANGED space

Next ==
    \E s \in Space, p \in Page : Use(s, p) \/ \E f \in Frame : Map(s, p, f)

Spec == Init /\ [][Next]_vars

----------------------------------------------------------------------------

TypeOK ==
    /\ space \in [Space -> [Page -> Frame \cup {None}]]
    /\ seen \in [Space -> [Page -> Frame \cup {None}]]

(* No frame is behind two pages, of one space or of two. *)
OneOwner ==
    \A s, r \in Space, p, q \in Page :
        space[s][p] = space[r][q] /\ space[s][p] # None => s = r /\ p = q

(* A page keeps the frame it was first used with. *)
KeepsData ==
    \A s \in Space, p \in Page : seen[s][p] # None => seen[s][p] = space[s][p]
=============================================================================
