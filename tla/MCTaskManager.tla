--------------------------- MODULE MCTaskManager ---------------------------
(* TaskManager for TLC, with what the repository says of the scheduler and *)
(* the code does not do; the README says which instance shows it.          *)
EXTENDS TaskManager

(* createProcess restores the heap of the thread that called it, and a     *)
(* process's memory is independent of the others': a thread allocates from *)
(* the heap of its own address space.                                      *)
AllocatesAtHome == \A t \in Thread : Runs(t, "launch") => currentHeap = cr3

(* What switch_thread pushes on the next thread's stack lands in that      *)
(* thread's memory, not in that of the process it leaves.                  *)
StackWritesStayHome ==
    [][{current, current'} \cap {Main, NULL} = {} /\ current' # current
           => Home(current', cr3)]_vars

(* Every thread has an id of its own, which is how a message finds it:     *)
(* not so when two threads create others.                                  *)
UniqueIds ==
    \A t, u \in Thread :
        t # u /\ {pc[t], pc[u]} \cap {"unused", "embryo"} = {} => thread[t].id # thread[u].id
=============================================================================
