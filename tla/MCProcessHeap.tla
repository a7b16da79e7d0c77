--------------------------- MODULE MCProcessHeap ---------------------------
(* ProcessHeap for TLC: two standard sizes, and pages that hold one or two *)
(* chunks.                                                                 *)
EXTENDS ProcessHeap

TwoSizes == <<16, 32>>
=============================================================================
