----------------------------- MODULE RoundRobin -----------------------------
(***************************************************************************)
(* What the scheduler promises: one thread runs, the others wait in a      *)
(* queue; a thread that is created joins the queue at its end, and every   *)
(* tick of the timer takes the thread at the front and puts the one that   *)
(* ran at the back.  The linked list, its cursor and the interrupts that   *)
(* move it are in TaskManager.                                             *)
(***************************************************************************)
EXTENDS Naturals, Sequences

CONSTANTS Thread, Main

VARIABLES ready, running

vars == <<ready, running>>

Waiting == {ready[i] : i \in 1 .. Len(ready)}

Init == ready = <<>> /\ running = Main

(* A new thread joins at the end of the queue. *)
Admit(t) ==
    /\ t \notin Waiting \cup {running}
    /\ ready' = Append(ready, t)
    /\ UNCHANGED running

(* The timer: the thread that ran goes to the back, the first one runs. *)
Rotate ==
    /\ ready # <<>>
    /\ ready' = Append(Tail(ready), running)
    /\ running' = Head(ready)

Next == Rotate \/ \E t \in Thread : Admit(t)

Spec == Init /\ [][Next]_vars /\ WF_vars(Rotate)

----------------------------------------------------------------------------

TypeOK == ready \in Seq(Thread) /\ running \in Thread

(* No thread stands twice in line, and the one that runs does not wait:    *)
(* the node of a thread is linked at one place of the ready queue at most. *)
OncePerThread ==
    /\ \A i, j \in 1 .. Len(ready) : ready[i] = ready[j] => i = j
    /\ running \notin Waiting

(* A thread that waits is never overtaken: as long as it waits, it only    *)
(* moves towards the front.                                                *)
NoOvertaking ==
    [][\A i \in 1 .. Len(ready) :
          \/ i = 1 /\ running' = ready[i]
          \/ \E j \in 1 .. i : j \in 1 .. Len(ready') /\ ready'[j] = ready[i]]_vars
=============================================================================
