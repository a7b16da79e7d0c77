---------------------------- MODULE TaskManager ----------------------------
(***************************************************************************)
(* TaskManager.cpp, switch_thread of thread_asm.s, and the processor state *)
(* they work on.  Thread code runs with interrupts enabled, so the timer   *)
(* may arrive between any two of its steps; the timer handler itself runs  *)
(* with interrupts off and is one step, except where it enables them.      *)
(*                                                                         *)
(* A thread object stands for the thread_t, the thread_list_t that links   *)
(* it and, when the thread was made by createProcess, for the page         *)
(* directory and the Heap created with it; Main names the kernel's own.    *)
(***************************************************************************)
EXTENDS Naturals, FiniteSets

CONSTANTS
    Thread,     \* every thread there will ever be
    Main,       \* the thread init makes of kmain
    NULL,
    Processes,  \* the threads that createProcess makes
    Spawners,   \* the threads whose code calls createThread
    Returning   \* the threads whose launch() returns

ASSUME ThreadAssumption ==
    /\ Main \in Thread
    /\ NULL \notin Thread
    /\ IsFiniteSet(Thread)
    /\ Processes \subseteq Thread \ {Main}
    /\ Spawners \subseteq Thread
    /\ Returning \subseteq Thread \ {Main}

VARIABLES
    thread,       \* the fields of each thread_t and thread_list_t
    tid,          \* TaskManager::tid
    current,      \* current_thread
    readyQueue,   \* ready_queue, the first node
    currentHeap,  \* Heap::currentHeap
    cr3,          \* the page directory the processor uses
    heapAt,       \* whose heap begins at HEAP_START in each address space
    frame,        \* the address space a thread's saved registers were pushed in
    pc,           \* where each thread's code is
    local,        \* the locals of the call a thread is in
    nullPage,     \* what a NULL current_thread finds at address 0
    freed,        \* the Heap objects given to kernel_free
    halted        \* a page fault: the kernel panics

queue == <<thread, current, readyQueue>>
memory == <<cr3, currentHeap, heapAt, frame>>
ending == <<nullPage, freed, halted>>
vars == <<queue, memory, ending, tid, pc, local>>

Pointer == Thread \cup {NULL}

Labels == {"unused", "embryo", "fresh", "popf", "launch", "switchPd", "initHeap",
           "useHeap", "readTid", "writeTid", "stack", "test", "setHead", "walk",
           "link", "restoreHeap", "restorePd", "exited", "release", "pop",
           "switch", "gone"}

Idle == [child |-> NULL, iterator |-> NULL, tid |-> 0, new |-> NULL]

TypeOK ==
    /\ thread \in [Thread -> [id : Nat, pageDirectory : Pointer, heap : Pointer,
                              stack : Pointer, next : Pointer, remove : BOOLEAN]]
    /\ tid \in Nat
    /\ current \in Pointer /\ readyQueue \in Pointer
    /\ currentHeap \in Thread /\ cr3 \in Thread
    /\ heapAt \in [Thread -> Pointer]
    /\ frame \in [Thread -> Pointer]
    /\ pc \in [Thread -> Labels]
    /\ local \in [Thread -> [child : Pointer, iterator : Pointer, tid : Nat, new : Pointer]]
    /\ nullPage \in {"zero", "used", "garbage"}
    /\ freed \subseteq Thread
    /\ halted \in BOOLEAN

----------------------------------------------------------------------------
(* The ready queue: what every set has that holds the first node and,     *)
(* with a node, the next one.                                              *)

FollowsLinks(S) ==
    /\ readyQueue \in S \cup {NULL}
    /\ \A t \in S : thread[t].next \in S \cup {NULL}

Queue == {t \in Thread : \A S \in SUBSET Thread : FollowsLinks(S) => t \in S}

LastQueued == CHOOSE t \in Queue : thread[t].next = NULL

(* The stack of kmain lies in the kernel image, which is mapped in every   *)
(* address space; the others are on a heap, mapped in one.                 *)
Home(t, space) == t = Main \/ space = thread[t].pageDirectory

----------------------------------------------------------------------------

(* thread_t and thread_list_t before a thread is made. *)
NoThread ==
    [id |-> 0, pageDirectory |-> NULL, heap |-> NULL, stack |-> NULL, next |-> NULL,
     remove |-> FALSE]

(* TaskManager::init made the first thread and kmain enabled interrupts.   *)
(* Page 0 keeps what the machine left there, or the zeros of map().        *)
Init ==
    /\ thread = [t \in Thread |->
           IF t = Main THEN [NoThread EXCEPT !.pageDirectory = Main, !.heap = Main] ELSE NoThread]
    /\ tid = 1
    /\ current = Main /\ readyQueue = NULL
    /\ currentHeap = Main /\ cr3 = Main
    /\ heapAt = [t \in Thread |-> IF t = Main THEN Main ELSE NULL]
    /\ frame = [t \in Thread |-> NULL]
    /\ pc = [t \in Thread |-> IF t = Main THEN "launch" ELSE "unused"]
    /\ local = [t \in Thread |-> Idle]
    /\ nullPage \in {"zero", "garbage"}
    /\ freed = {}
    /\ halted = FALSE

Runs(t, label) == ~halted /\ current = t /\ pc[t] = label

Goto(t, label) == pc' = [pc EXCEPT ![t] = label]

----------------------------------------------------------------------------
(* createProcess, whose caller "has to be [on the] kernel page directory". *)

CreateProcess(c) ==
    /\ Runs(Main, "launch") /\ c \in Processes /\ pc[c] = "unused"
    /\ pc' = [pc EXCEPT ![Main] = "switchPd", ![c] = "embryo"]
    /\ local' = [local EXCEPT ![Main].child = c]
    /\ thread' = [thread EXCEPT ![c].pageDirectory = c, ![c].heap = c]
    /\ UNCHANGED <<current, readyQueue, tid, memory, ending>>

SwitchPageDirectory(t) ==
    /\ Runs(t, "switchPd") /\ Goto(t, "initHeap")
    /\ cr3' = local[t].child
    /\ UNCHANGED <<queue, tid, currentHeap, heapAt, frame, local, ending>>

(* Heap::Heap maps a new page at HEAP_START of the space in use. *)
ConstructHeap(t) ==
    /\ Runs(t, "initHeap") /\ Goto(t, "useHeap")
    /\ heapAt' = [heapAt EXCEPT ![cr3] = local[t].child]
    /\ UNCHANGED <<queue, tid, currentHeap, cr3, frame, local, ending>>

UseHeap(t) ==
    /\ Runs(t, "useHeap") /\ Goto(t, "readTid")
    /\ currentHeap' = local[t].child
    /\ UNCHANGED <<queue, tid, cr3, heapAt, frame, local, ending>>

RestoreHeap(t) ==
    /\ Runs(t, "restoreHeap") /\ Goto(t, "restorePd")
    /\ currentHeap' = thread[t].heap
    /\ UNCHANGED <<queue, tid, cr3, heapAt, frame, local, ending>>

(* A mutant: the caller stays in the address space of the new process. *)
StayInChild(t) ==
    /\ Runs(t, "restorePd") /\ Goto(t, "launch")
    /\ local' = [local EXCEPT ![t] = Idle]
    /\ UNCHANGED <<queue, tid, memory, ending>>

RestorePageDirectory(t) ==
    /\ Runs(t, "restorePd") /\ Goto(t, "launch")
    /\ cr3' = thread[t].pageDirectory
    /\ local' = [local EXCEPT ![t] = Idle]
    /\ UNCHANGED <<queue, tid, currentHeap, heapAt, frame, ending>>

----------------------------------------------------------------------------
(* createThread and addThread. *)

CreateThread(t, c) ==
    /\ Runs(t, "launch") /\ t \in Spawners
    /\ pc[c] = "unused" /\ c \notin Processes
    /\ pc' = [pc EXCEPT ![t] = "readTid", ![c] = "embryo"]
    /\ local' = [local EXCEPT ![t].child = c]
    /\ thread' = [thread EXCEPT ![c].pageDirectory = thread[t].pageDirectory,
                                ![c].heap = thread[t].heap]
    /\ UNCHANGED <<current, readyQueue, tid, memory, ending>>

(* tid++ is a load and a store. *)
ReadTid(t) ==
    /\ Runs(t, "readTid") /\ Goto(t, "writeTid")
    /\ local' = [local EXCEPT ![t].tid = tid]
    /\ UNCHANGED <<queue, tid, memory, ending>>

(* A mutant: the id is taken, the counter stays. *)
KeepTid(t) ==
    /\ Runs(t, "writeTid") /\ Goto(t, "stack")
    /\ thread' = [thread EXCEPT ![local[t].child].id = local[t].tid]
    /\ UNCHANGED <<current, readyQueue, tid, memory, local, ending>>

WriteTid(t) ==
    /\ Runs(t, "writeTid") /\ Goto(t, "stack")
    /\ tid' = local[t].tid + 1
    /\ thread' = [thread EXCEPT ![local[t].child].id = local[t].tid]
    /\ UNCHANGED <<current, readyQueue, memory, local, ending>>

(* The stack is a block of the heap in use, and its first frame is written *)
(* through the address space in use.                                       *)
AllocateStack(t) ==
    LET c == local[t].child
    IN  /\ Runs(t, "stack")
        /\ pc' = [pc EXCEPT ![t] = "test", ![c] = "fresh"]
        /\ thread' = [thread EXCEPT ![c].stack = cr3]
        /\ frame' = [frame EXCEPT ![c] = cr3]
        /\ UNCHANGED <<current, readyQueue, tid, currentHeap, cr3, heapAt, local, ending>>

AddThread(t) ==
    /\ Runs(t, "test")
    /\ Goto(t, IF readyQueue = NULL THEN "setHead" ELSE "walk")
    /\ local' = [local EXCEPT ![t].iterator = readyQueue]
    /\ UNCHANGED <<queue, tid, memory, ending>>

(* Back in createThread, and in createProcess when that is the caller. *)
Added(t) ==
    IF local[t].child \in Processes
    THEN Goto(t, "restoreHeap") /\ local' = [local EXCEPT ![t].iterator = NULL]
    ELSE Goto(t, "launch") /\ local' = [local EXCEPT ![t] = Idle]

SetHead(t) ==
    /\ Runs(t, "setHead") /\ Added(t)
    /\ readyQueue' = local[t].child
    /\ UNCHANGED <<thread, current, tid, memory, ending>>

(* A mutant: the walk stops at the first node. *)
WalkNowhere(t) ==
    /\ Runs(t, "walk") /\ Goto(t, "link")
    /\ UNCHANGED <<queue, tid, memory, local, ending>>

Walk(t) ==
    LET next == thread[local[t].iterator].next
    IN  /\ Runs(t, "walk")
        /\ \/ next # NULL /\ local' = [local EXCEPT ![t].iterator = next] /\ UNCHANGED pc
           \/ next = NULL /\ Goto(t, "link") /\ UNCHANGED local
        /\ UNCHANGED <<queue, tid, memory, ending>>

Link(t) ==
    /\ Runs(t, "link") /\ Added(t)
    /\ thread' = [thread EXCEPT ![local[t].iterator].next = local[t].child]
    /\ UNCHANGED <<current, readyQueue, tid, memory, ending>>

----------------------------------------------------------------------------
(* The timer interrupt and switch_thread. *)

(* switch_thread loads the stack of the next thread and pushes its flags,  *)
(* then loads its page directory: the push faults if the space it leaves   *)
(* has no heap yet.  A fresh thread's flags enable interrupts before the   *)
(* page directory is in use; a thread that ran was saved with interrupts   *)
(* off, and goes on at once if its frame is where it looks.                *)
LoadContext(new, leave) ==
    /\ current' = new
    /\ IF new # Main /\ heapAt[cr3] = NULL
       THEN halted' = TRUE /\ pc' = leave /\ UNCHANGED cr3
       ELSE IF pc[new] = "fresh"
       THEN pc' = [leave EXCEPT ![new] = "popf"] /\ UNCHANGED <<cr3, halted>>
       ELSE /\ pc' = leave
            /\ cr3' = thread[new].pageDirectory
            /\ halted' = ~Home(new, frame[new])

(* Mutants of Requeued: the old node keeps its link; it goes behind the    *)
(* first node instead of the last; the heap is stored into the next thread.*)
RequeuedLinked ==
    [thread EXCEPT ![LastQueued].next = current, ![current].heap = currentHeap]

RequeuedSecond ==
    [thread EXCEPT ![readyQueue].next = current,
                   ![current].next = thread[readyQueue].next,
                   ![current].heap = currentHeap]

RequeuedWrongHeap ==
    [thread EXCEPT ![LastQueued].next = current, ![current].next = NULL,
                   ![readyQueue].heap = currentHeap]

(* The thread that ran goes behind the last one and keeps the heap in use. *)
Requeued ==
    [thread EXCEPT ![LastQueued].next = current, ![current].next = NULL,
                   ![current].heap = currentHeap]

(* The interrupted thread's registers are pushed on its stack, in the      *)
(* address space in use; irq_common_stub pops them when it goes on.        *)
Saved == [frame EXCEPT ![current] = cr3]

TimerRotate ==
    /\ ~halted /\ current # NULL /\ readyQueue # NULL
    /\ ~thread[current].remove
    /\ thread' = Requeued
    /\ readyQueue' = thread'[readyQueue].next
    /\ currentHeap' = thread'[readyQueue].heap
    /\ frame' = Saved
    /\ LoadContext(readyQueue, pc)
    /\ UNCHANGED <<tid, heapAt, local, nullPage, freed>>

(* mov cr3 and ret: the thread takes its first frame from its own space. *)
ThreadStart(t) ==
    /\ Runs(t, "popf") /\ Goto(t, "launch")
    /\ cr3' = thread[t].pageDirectory
    /\ halted' = ~Home(t, thread[t].stack)
    /\ UNCHANGED <<queue, tid, currentHeap, heapAt, frame, local, nullPage, freed>>

----------------------------------------------------------------------------
(* The end of a thread. *)

(* A mutant: the thread that ends is not marked for removal. *)
ExitUnmarked(t) ==
    /\ Runs(t, "launch") /\ t \in Returning
    /\ Goto(t, "exited")
    /\ UNCHANGED <<queue, tid, memory, local, ending>>

ThreadExit(t) ==
    /\ Runs(t, "launch") /\ t \in Returning
    /\ Goto(t, "exited")
    /\ thread' = [thread EXCEPT ![t].remove = TRUE]
    /\ UNCHANGED <<current, readyQueue, tid, memory, local, ending>>

(* clearMessages ends with sti: from here on the handler can be            *)
(* interrupted, by a timer that finds the same thread to remove.           *)
TimerRemove ==
    /\ ~halted /\ current # NULL /\ readyQueue # NULL
    /\ thread[current].remove
    /\ Goto(current, "release")
    /\ UNCHANGED <<queue, tid, memory, local, ending>>

(* removeThread: the first node, or the one after its predecessor. *)
RemoveThread(t) ==
    IF readyQueue = t
    THEN readyQueue' = thread[t].next /\ UNCHANGED thread
    ELSE /\ thread' = [u \in Thread |->
                IF u \in Queue /\ thread[u].next = t
                THEN [thread[u] EXCEPT !.next = thread[t].next] ELSE thread[u]]
         /\ UNCHANGED readyQueue

(* An interrupt among these lines does them again from the start: it       *)
(* changes nothing until current_thread is NULL.                           *)
Release(t) ==
    /\ Runs(t, "release") /\ Goto(t, "pop")
    /\ freed' = freed \cup {thread[t].heap}
    /\ RemoveThread(t)
    /\ current' = NULL
    /\ UNCHANGED <<tid, memory, local, nullPage, halted>>

Pop(t) ==
    /\ ~halted /\ pc[t] = "pop" /\ Goto(t, "switch")
    /\ local' = [local EXCEPT ![t].new = readyQueue]
    /\ readyQueue' = thread[readyQueue].next
    /\ UNCHANGED <<thread, current, tid, memory, ending>>

(* The last lines of the handler with current_thread NULL: they store the  *)
(* old heap and registers through the pointer found at address 0.  Zeros   *)
(* make page 0 the thread_t; after that it points to a dead stack, which   *)
(* may be mapped; any other content is a fault.                            *)
LeaveFor(t, new) ==
    /\ currentHeap' = thread[new].heap
    /\ local' = [local EXCEPT ![t] = Idle]
    /\ nullPage' = "used"
    /\ \/ /\ nullPage \in {"zero", "used"}
          /\ LoadContext(new, [pc EXCEPT ![t] = "gone"])
       \/ /\ nullPage \in {"used", "garbage"}
          /\ halted' = TRUE /\ Goto(t, "gone") /\ UNCHANGED <<current, cr3>>
    /\ UNCHANGED <<thread, tid, heapAt, frame, freed>>

SwitchAway(t) ==
    /\ ~halted /\ pc[t] = "switch"
    /\ LeaveFor(t, local[t].new)
    /\ UNCHANGED readyQueue

(* A timer while current_thread is NULL and NULL->remove reads as false,   *)
(* as it does on a zero page 0: nothing is appended, and the first thread  *)
(* is switched to.  The interrupted handler never goes on.                 *)
TimerNested(t) ==
    /\ ~halted /\ pc[t] \in {"pop", "switch"} /\ readyQueue # NULL
    /\ readyQueue' = thread[readyQueue].next
    /\ LeaveFor(t, readyQueue)

(* Once page 0 has the registers of a thread that ended, NULL->remove is a *)
(* byte of its ebx.  When that is not zero the handler ends the thread it  *)
(* finds there: it gives a Heap object to kernel_free, if it finds one,    *)
(* takes no thread out of the queue, and goes on as it does for a thread,  *)
(* unless one of these addresses faults.  What kernel_free overwrites at   *)
(* an address that is none of its blocks is not followed.                  *)
TimerNestedRemove(t) ==
    /\ ~halted /\ pc[t] \in {"pop", "switch"} /\ readyQueue # NULL
    /\ nullPage = "used"
    /\ Goto(t, "pop")
    /\ \E found \in {{}} \cup {{h} : h \in Thread} : freed' = freed \cup found
    /\ halted' \in BOOLEAN
    /\ UNCHANGED <<queue, memory, tid, local, nullPage>>

----------------------------------------------------------------------------

ThreadStep(t) ==
    \/ \E c \in Thread : CreateThread(t, c)
    \/ t = Main /\ \E c \in Thread : CreateProcess(c)
    \/ SwitchPageDirectory(t) \/ ConstructHeap(t) \/ UseHeap(t)
    \/ ReadTid(t) \/ WriteTid(t) \/ AllocateStack(t)
    \/ AddThread(t) \/ SetHead(t) \/ Walk(t) \/ Link(t)
    \/ RestoreHeap(t) \/ RestorePageDirectory(t)
    \/ ThreadStart(t) \/ ThreadExit(t)
    \/ Release(t) \/ Pop(t) \/ SwitchAway(t)

Timer ==
    \/ TimerRotate \/ TimerRemove
    \/ \E t \in Thread : TimerNested(t) \/ TimerNestedRemove(t)

Next == Timer \/ \E t \in Thread : ThreadStep(t)

(* The timer keeps ticking, and its period leaves a thread that gets the   *)
(* processor again and again the time to take its next step.               *)
Fairness == WF_vars(Timer) /\ \A t \in Thread : SF_vars(ThreadStep(t))

Spec == Init /\ [][Next]_vars /\ Fairness
----------------------------------------------------------------------------
(* What the scheduler keeps. *)

Building == {"readTid", "writeTid", "stack", "test", "setHead", "walk", "link"}

Alive == {t \in Thread : pc[t] \notin {"unused", "embryo", "release", "pop", "switch", "gone"}}

(* The ready queue ends, and the running thread is not in it: the handler  *)
(* that appends current_thread would otherwise close the list into a ring. *)
QueueSound ==
    /\ Queue # {} => \E t \in Queue : thread[t].next = NULL
    /\ current \notin Queue

(* No thread is ever lost: it runs, it is queued, addThread has it in      *)
(* hand, or the handler has popped it.  addThread walks and links with     *)
(* interrupts on while the timer relinks the same list.                    *)
NoThreadLost ==
    ~halted => \A t \in Alive :
        \/ t = current \/ t \in Queue
        \/ \E u \in Thread : pc[u] \in Building /\ local[u].child = t
        \/ \E u \in Thread : pc[u] = "switch" /\ local[u].new = t

(* When addThread stores into iterator->next, iterator is the last node    *)
(* again, although the list has been rotated since it was found: the node  *)
(* it stopped at ran just before the thread that stopped there.            *)
CursorAtEnd ==
    \A t \in Thread : Runs(t, "link") => local[t].iterator = LastQueued

(* A thread executes its own code in its own address space only, although  *)
(* the kernel changes cr3 in createProcess and in switch_thread with       *)
(* interrupts enabled.                                                     *)
RunsAtHome == \A t \in Thread : Runs(t, "launch") => cr3 = thread[t].pageDirectory

(* The handler stores Heap::currentHeap into the thread it leaves: for     *)
(* every thread but the one that runs createProcess this is the heap it    *)
(* was created with.                                                       *)
HeapsStay ==
    [][\A t \in Thread \ {Main} : pc[t] # "unused" => thread'[t].heap = thread[t].heap]_vars

(* A thread that has ended is out of the queue for good, so removeThread   *)
(* finds nothing to remove and no tick resumes a freed thread_t.           *)
DeadNeverQueued ==
    \A t \in Thread : pc[t] \in {"exited", "release", "pop", "switch", "gone"} => t \notin Queue

(* A thread that is created gets to run. *)
EveryThreadRuns == \A t \in Thread : pc[t] = "embryo" ~> pc[t] = "launch"

----------------------------------------------------------------------------
(* The detailed scheduler implements RoundRobin while no thread ends. *)

(* The node n links after the first one. *)
Hop[n \in Nat] == IF n = 0 THEN readyQueue ELSE thread[Hop[n - 1]].next

ReadyList == [i \in 1 .. Cardinality(Queue) |-> Hop[i - 1]]

RR == INSTANCE RoundRobin WITH ready <- ReadyList, running <- current

(* Every step of the linked list is a step of the round-robin queue: the   *)
(* thread is admitted by the one store that links it, each tick rotates    *)
(* the queue by one, and the ticks do not stop.                            *)
RefinesRoundRobin == RR!Spec
=============================================================================
