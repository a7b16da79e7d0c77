------------------------- MODULE TaskManagerProofs -------------------------
(* The ready queue and the address spaces of TaskManager, for any number   *)
(* of threads and processes, whichever of them create threads or return.   *)
EXTENDS Kernel, FiniteSetTheorems, SequenceTheorems, WellFoundedInduction, TLAPS

(* createProcess before and inside its call of createThread. *)
Creating == {"switchPd", "initHeap", "useHeap"} \cup Building

Made == {"test", "setHead", "walk", "link"}

Dead == {"pop", "switch", "gone"}

(* Two nodes never link to the same one, and none links back to the first. *)
Chain ==
    /\ \A u, v \in Queue :
          thread[u].next = thread[v].next /\ thread[u].next # NULL => u = v
    /\ \A u \in Queue : thread[u].next # readyQueue

(* What is popped or runs is not queued; what is queued can run. *)
Apart ==
    /\ current \notin Queue
    /\ current # NULL => pc[current] \notin {"unused", "embryo"} \cup Dead
    /\ \A t \in Queue : pc[t] \notin {"unused", "embryo", "exited", "release"} \cup Dead
    /\ \A t \in Thread : pc[t] = "switch" =>
          /\ local[t].new \in Thread \ Queue
          /\ pc[local[t].new] \notin {"unused", "embryo", "exited", "release"} \cup Dead

(* No pointer leads to c. *)
Unseen(c) ==
    /\ c # current /\ c \notin Queue /\ thread[c].next = NULL
    /\ \A u \in Thread :
          /\ thread[u].next # c
          /\ pc[u] \in {"walk", "link"} => local[u].iterator # c
          /\ pc[u] = "switch" => local[u].new # c

(* Nothing knows a thread under construction but the call that makes it. *)
Private ==
    /\ \A t \in Thread : pc[t] \in {"unused", "embryo"} => Unseen(t)
    /\ \A t \in Thread : pc[t] \in Creating =>
          /\ local[t].child \in Thread /\ Unseen(local[t].child)
          /\ pc[local[t].child] = IF pc[t] \in Made THEN "fresh" ELSE "embryo"
          /\ \A u \in Thread \ {t} : pc[u] \in Creating => local[u].child # local[t].child
    /\ \A t \in Thread : pc[t] \in {"walk", "link"} => local[t].iterator \in Thread

(* Where a thread that ends can be. *)
Ending ==
    /\ \A t \in Thread : pc[t] \in {"exited", "release"} => t = current /\ thread[t].remove
    /\ \A t \in Thread : pc[t] \in {"release", "pop"} => readyQueue # NULL
    /\ \A t, u \in Thread :
          pc[t] \in {"pop", "switch"} =>
              current = NULL /\ (pc[u] \in {"pop", "switch"} => t = u)

(* Every thread that exists has an address space and a heap. *)
Owned == \A t \in Thread : pc[t] # "unused" => {thread[t].pageDirectory, thread[t].heap} \subseteq Thread

(* The inductive invariant. *)
Inv == TypeOK /\ Chain /\ Apart /\ Private /\ Ending /\ Owned

----------------------------------------------------------------------------
(* The queue. *)

(* The queue is closed under links, and it is the least such set. *)
LEMMA QueueClosed == ASSUME TypeOK PROVE FollowsLinks(Queue) /\ Queue \in SUBSET Thread
<1>1. Queue \in SUBSET Thread
  BY DEF Queue
<1>2. readyQueue \in Queue \cup {NULL}
  BY DEF Queue, FollowsLinks, TypeOK, Pointer
<1>3. ASSUME NEW t \in Queue PROVE thread[t].next \in Queue \cup {NULL}
  <2>1. t \in Thread /\ thread[t].next \in Thread \cup {NULL}
    BY <1>3 DEF Queue, TypeOK, Pointer
  <2>2. ASSUME NEW S \in SUBSET Thread, FollowsLinks(S), thread[t].next # NULL
        PROVE  thread[t].next \in S
    <3>1. t \in S
      BY <1>3, <2>2 DEF Queue
    <3> QED  BY <2>2, <3>1 DEF FollowsLinks
  <2> QED  BY <2>1, <2>2 DEF Queue
<1> QED  BY <1>1, <1>2, <1>3 DEF FollowsLinks

LEMMA QueueLeast ==
    ASSUME NEW S \in SUBSET Thread, FollowsLinks(S)' PROVE Queue' \subseteq S
BY DEF Queue

LEMMA QueueSame ==
    ASSUME readyQueue' = readyQueue, \A u \in Thread : thread'[u].next = thread[u].next
    PROVE  Queue' = Queue
<1>1. \A S \in SUBSET Thread : FollowsLinks(S)' <=> FollowsLinks(S)
  BY DEF FollowsLinks
<1> QED  BY <1>1 DEF Queue

(* The queue ends: were every node to link to another, a finite set would  *)
(* be mapped one to one into itself without its first element.             *)
LEMMA QueueEnds ==
    ASSUME TypeOK, Chain, Queue # {} PROVE \E t \in Queue : thread[t].next = NULL
<1> SUFFICES ASSUME \A t \in Queue : thread[t].next # NULL PROVE FALSE
  OBVIOUS
<1> DEFINE f == [t \in Queue |-> thread[t].next]
           T == Queue \ {readyQueue}
<1>1. FollowsLinks(Queue) /\ Queue \in SUBSET Thread
  BY QueueClosed
<1>2. IsFiniteSet(Queue)
  BY <1>1, FS_Subset, ThreadAssumption
<1>3. readyQueue \in Queue
  <2>1. readyQueue # NULL
    <3> SUFFICES ASSUME readyQueue = NULL PROVE FALSE
      OBVIOUS
    <3>1. FollowsLinks({})
      BY DEF FollowsLinks
    <3> QED  BY <3>1 DEF Queue
  <2> QED  BY <1>1, <2>1 DEF FollowsLinks
<1>4. IsFiniteSet(T) /\ Cardinality(T) = Cardinality(Queue) - 1
  BY <1>2, <1>3, FS_RemoveElement
<1>5. Cardinality(T) < Cardinality(Queue)
  BY <1>2, <1>4, FS_CardinalityType
<1>6. f \in [Queue -> T]
  BY <1>1 DEF FollowsLinks, Chain
<1>7. \E x, y \in Queue : x # y /\ f[x] = f[y]
  <2> HIDE DEF f, T
  <2> QED  BY <1>2, <1>4, <1>5, <1>6, FS_PigeonHole
<1> QED  BY <1>7 DEF Chain

LEMMA LastIsLast ==
    ASSUME TypeOK, Chain, readyQueue # NULL
    PROVE  /\ LastQueued \in Queue /\ thread[LastQueued].next = NULL
           /\ readyQueue \in Queue
<1>1. readyQueue \in Queue
  BY QueueClosed DEF FollowsLinks
<1> QED  BY <1>1, QueueEnds DEF LastQueued

----------------------------------------------------------------------------
(* Types: what may be dereferenced is never NULL. *)

ThreadRec == [id : Nat, pageDirectory : Pointer, heap : Pointer,
              stack : Pointer, next : Pointer, remove : BOOLEAN]

LocalRec == [child : Pointer, iterator : Pointer, tid : Nat, new : Pointer]

LEMMA FieldTypes ==
    ASSUME NEW f \in [Thread -> ThreadRec], NEW c, NEW p \in Pointer, NEW n \in Nat
    PROVE  /\ [f EXCEPT ![c].id = n] \in [Thread -> ThreadRec]
           /\ [f EXCEPT ![c].pageDirectory = p] \in [Thread -> ThreadRec]
           /\ [f EXCEPT ![c].heap = p] \in [Thread -> ThreadRec]
           /\ [f EXCEPT ![c].stack = p] \in [Thread -> ThreadRec]
           /\ [f EXCEPT ![c].next = p] \in [Thread -> ThreadRec]
           /\ [f EXCEPT ![c].remove = TRUE] \in [Thread -> ThreadRec]
BY DEF ThreadRec

LEMMA LocalTypes ==
    ASSUME NEW f \in [Thread -> LocalRec], NEW c, NEW p \in Pointer, NEW n \in Nat
    PROVE  /\ [f EXCEPT ![c].child = p] \in [Thread -> LocalRec]
           /\ [f EXCEPT ![c].iterator = p] \in [Thread -> LocalRec]
           /\ [f EXCEPT ![c].tid = n] \in [Thread -> LocalRec]
           /\ [f EXCEPT ![c].new = p] \in [Thread -> LocalRec]
           /\ [f EXCEPT ![c] = Idle] \in [Thread -> LocalRec]
BY DEF LocalRec, Idle, Pointer

(* The types, with the records folded. *)
Typed ==
    /\ thread \in [Thread -> ThreadRec] /\ local \in [Thread -> LocalRec]
    /\ tid \in Nat /\ current \in Pointer /\ readyQueue \in Pointer
    /\ currentHeap \in Thread /\ cr3 \in Thread
    /\ heapAt \in [Thread -> Pointer] /\ frame \in [Thread -> Pointer]
    /\ pc \in [Thread -> Labels]
    /\ nullPage \in {"zero", "used", "garbage"} /\ freed \subseteq Thread /\ halted \in BOOLEAN

LEMMA TypedIs == (TypeOK <=> Typed) /\ (TypeOK' <=> Typed')
BY DEF TypeOK, Typed, ThreadRec, LocalRec

LEMMA CallTypes ==
    ASSUME Inv, NEW t \in Thread,
           \/ SwitchPageDirectory(t) \/ ConstructHeap(t) \/ UseHeap(t)
           \/ ReadTid(t) \/ WriteTid(t) \/ AllocateStack(t)
           \/ AddThread(t) \/ SetHead(t) \/ Walk(t) \/ Link(t)
           \/ RestoreHeap(t) \/ RestorePageDirectory(t) \/ ThreadStart(t) \/ ThreadExit(t)
    PROVE  TypeOK'
<1> SUFFICES Typed'
  BY TypedIs
<1>0. Typed /\ NULL \in Pointer /\ local[t].child \in Pointer /\ local[t].tid \in Nat
  BY TypedIs DEF Inv, Typed, LocalRec, Pointer
<1> USE DEF queue, memory, ending, Runs, Goto
<1>1. CASE SwitchPageDirectory(t) \/ ConstructHeap(t) \/ UseHeap(t)
  <2>1. local[t].child \in Thread
    BY <1>1 DEF SwitchPageDirectory, ConstructHeap, UseHeap, Inv, Private, Creating
  <2> QED  BY <1>0, <1>1, <2>1 DEF SwitchPageDirectory, ConstructHeap, UseHeap, Typed, Labels, Pointer
<1>2. CASE ReadTid(t)
  <2>1. local' = [local EXCEPT ![t].tid = tid]
    BY <1>2 DEF ReadTid
  <2>2. local' \in [Thread -> LocalRec]
    BY <1>0, <2>1, LocalTypes DEF Typed
  <2> QED  BY <1>0, <1>2, <2>2 DEF ReadTid, Typed, Labels
<1>8. CASE WriteTid(t)
  <2>1. thread' = [thread EXCEPT ![local[t].child].id = local[t].tid]
    BY <1>8 DEF WriteTid
  <2>2. thread' \in [Thread -> ThreadRec]
    BY <1>0, <2>1, FieldTypes DEF Typed
  <2> QED  BY <1>0, <1>8, <2>2 DEF WriteTid, Typed, Labels
<1>3. CASE AllocateStack(t)
  <2>1. thread' \in [Thread -> ThreadRec]
    BY <1>0, <1>3, FieldTypes DEF AllocateStack, Typed, Pointer
  <2> QED  BY <1>0, <1>3, <2>1 DEF AllocateStack, Typed, Labels, Pointer
<1>9. ASSUME Added(t) PROVE local' \in [Thread -> LocalRec] /\ pc' \in [Thread -> Labels]
  <2>1. pc' \in [Thread -> Labels]
    BY <1>0, <1>9 DEF Added, Typed, Labels
  <2>2. \/ local' = [local EXCEPT ![t].iterator = NULL]
        \/ local' = [local EXCEPT ![t] = Idle]
    BY <1>9 DEF Added
  <2>3. [local EXCEPT ![t].iterator = NULL] \in [Thread -> LocalRec]
    BY <1>0, LocalTypes DEF Typed
  <2>4. [local EXCEPT ![t] = Idle] \in [Thread -> LocalRec]
    BY <1>0, LocalTypes DEF Typed
  <2> QED  BY <2>1, <2>2, <2>3, <2>4
<1>4. CASE AddThread(t)
  <2>1. local' = [local EXCEPT ![t].iterator = readyQueue]
    BY <1>4 DEF AddThread
  <2>2. local' \in [Thread -> LocalRec]
    BY <1>0, <2>1, LocalTypes DEF Typed
  <2> QED  BY <1>0, <1>4, <2>2 DEF AddThread, Typed, Labels
<1>10. CASE SetHead(t)
  BY <1>0, <1>9, <1>10 DEF SetHead, Typed
<1>5. CASE Walk(t)
  <2>1. thread[local[t].iterator].next \in Pointer
    BY <1>0, <1>5 DEF Walk, Inv, Private, Typed, ThreadRec
  <2>2. [local EXCEPT ![t].iterator = thread[local[t].iterator].next] \in [Thread -> LocalRec]
    BY <1>0, <2>1, LocalTypes DEF Typed
  <2> QED  BY <1>0, <1>5, <2>2 DEF Walk, Typed, Labels
<1>11. CASE Link(t)
  <2>1. thread' = [thread EXCEPT ![local[t].iterator].next = local[t].child]
    BY <1>11 DEF Link
  <2>2. thread' \in [Thread -> ThreadRec]
    BY <1>0, <2>1, FieldTypes DEF Typed
  <2> QED  BY <1>0, <1>9, <1>11, <2>2 DEF Link, Typed
<1>6. CASE RestoreHeap(t) \/ RestorePageDirectory(t) \/ ThreadStart(t)
  <2>1. thread[t].pageDirectory \in Thread /\ thread[t].heap \in Thread
    BY <1>6 DEF RestoreHeap, RestorePageDirectory, ThreadStart, Inv, Owned
  <2>2. [local EXCEPT ![t] = Idle] \in [Thread -> LocalRec]
    BY <1>0, LocalTypes DEF Typed
  <2> QED  BY <1>0, <1>6, <2>1, <2>2
           DEF RestoreHeap, RestorePageDirectory, ThreadStart, Typed, Labels, Home
<1>7. CASE ThreadExit(t)
  <2>1. thread' \in [Thread -> ThreadRec]
    BY <1>0, <1>7, FieldTypes DEF ThreadExit, Typed
  <2> QED  BY <1>0, <1>7, <2>1 DEF ThreadExit, Typed, Labels
<1> QED  BY <1>1, <1>2, <1>3, <1>4, <1>5, <1>6, <1>7, <1>8, <1>10, <1>11

LEMMA CreateTypes ==
    ASSUME Inv, NEW t \in Thread, NEW c \in Thread, CreateThread(t, c) \/ CreateProcess(c)
    PROVE  TypeOK'
<1> SUFFICES Typed'
  BY TypedIs
<1>1. Typed /\ c \in Pointer /\ thread[t].pageDirectory \in Pointer /\ thread[t].heap \in Pointer
  BY TypedIs DEF Inv, Typed, ThreadRec, Pointer
<1>2. \A u \in Thread : [local EXCEPT ![u].child = c] \in [Thread -> LocalRec]
  BY <1>1, LocalTypes DEF Typed
<1>3. \A p, q \in Pointer :
         [thread EXCEPT ![c].pageDirectory = p, ![c].heap = q] \in [Thread -> ThreadRec]
  BY <1>1 DEF Typed, ThreadRec
<1>4. CASE CreateThread(t, c)
  <2>1. local' = [local EXCEPT ![t].child = c]
    BY <1>4 DEF CreateThread
  <2>2. thread' = [thread EXCEPT ![c].pageDirectory = thread[t].pageDirectory,
                                 ![c].heap = thread[t].heap]
    BY <1>4 DEF CreateThread
  <2>3. local' \in [Thread -> LocalRec]
    BY <1>2, <2>1
  <2>4. thread' \in [Thread -> ThreadRec]
    BY <1>1, <1>3, <2>2, Zenon
  <2> QED  BY <1>1, <1>4, <2>3, <2>4 DEF CreateThread, Typed, Labels, memory, ending
<1>5. CASE CreateProcess(c)
  <2>1. local' = [local EXCEPT ![Main].child = c]
    BY <1>5 DEF CreateProcess
  <2>2. thread' = [thread EXCEPT ![c].pageDirectory = c, ![c].heap = c]
    BY <1>5 DEF CreateProcess
  <2>3. local' \in [Thread -> LocalRec]
    BY <1>2, <2>1, ThreadAssumption
  <2>4. thread' \in [Thread -> ThreadRec]
    BY <1>1, <1>3, <2>2, Zenon
  <2> QED  BY <1>1, <1>5, <2>3, <2>4 DEF CreateProcess, Typed, Labels, memory, ending
<1> QED  BY <1>4, <1>5

(* What switch_thread loads is typed when the next thread is. *)
LEMMA LoadTypes ==
    ASSUME Inv, NEW new \in Thread, NEW leave \in [Thread -> Labels], LoadContext(new, leave),
           thread[new].pageDirectory \in Thread
    PROVE  /\ current' = new /\ cr3' \in Thread /\ halted' \in BOOLEAN
           /\ pc' \in [Thread -> Labels]
BY DEF Inv, TypeOK, LoadContext, Labels

LEMMA RotateTypes == ASSUME Inv, TimerRotate PROVE TypeOK'
<1>1. /\ readyQueue \in Thread /\ readyQueue \in Queue /\ current \in Thread
      /\ thread' = Requeued
  BY LastIsLast DEF Saved, Inv, TypeOK, Pointer, TimerRotate
<1>2. thread[readyQueue].pageDirectory \in Thread
  BY <1>1 DEF Inv, Owned, Apart
<1>3. /\ thread' \in [Thread -> [id : Nat, pageDirectory : Pointer, heap : Pointer,
                                stack : Pointer, next : Pointer, remove : BOOLEAN]]
      /\ \A u \in Thread : thread'[u].heap \in {thread[u].heap, currentHeap}
  <2>1. Typed /\ NULL \in Pointer /\ current \in Pointer /\ currentHeap \in Pointer
    BY TypedIs DEF Inv, Typed, Pointer
  <2>2. thread' \in [Thread -> ThreadRec]
    <3> DEFINE linked == [thread EXCEPT ![LastQueued].next = current]
               last == [linked EXCEPT ![current].next = NULL]
    <3>1. linked \in [Thread -> ThreadRec]
      BY <2>1, FieldTypes DEF Typed
    <3>2. last \in [Thread -> ThreadRec]
      BY <2>1, <3>1, FieldTypes
    <3>3. thread' = [last EXCEPT ![current].heap = currentHeap]
      BY <1>1 DEF Requeued
    <3> HIDE DEF linked, last
    <3> QED  BY <2>1, <3>2, <3>3, FieldTypes
  <2>3. \A u \in Thread : thread'[u].heap \in {thread[u].heap, currentHeap}
    BY <1>1, <2>1 DEF Requeued, Typed, ThreadRec
  <2> QED  BY <2>2, <2>3 DEF ThreadRec
<1>4. thread'[readyQueue].heap \in Thread
  BY <1>1, <1>3 DEF Inv, Owned, Apart, TypeOK
<1>5. current' = readyQueue /\ cr3' \in Thread /\ halted' \in BOOLEAN /\ pc' \in [Thread -> Labels]
  BY <1>1, <1>2, LoadTypes DEF Saved, TimerRotate, Inv, TypeOK
<1>6. /\ frame' \in [Thread -> Pointer] /\ readyQueue' \in Pointer /\ currentHeap' \in Thread
      /\ UNCHANGED <<tid, heapAt, local, nullPage, freed>>
  BY <1>1, <1>3, <1>4 DEF Saved, TimerRotate, Inv, TypeOK, Pointer
<1> QED  BY <1>1, <1>3, <1>5, <1>6 DEF Inv, TypeOK, Pointer

LEMMA LeaveTypes ==
    ASSUME Inv, NEW t \in Thread, NEW new \in Thread, LeaveFor(t, new),
           thread[new].pageDirectory \in Thread, thread[new].heap \in Thread,
           readyQueue' \in Pointer
    PROVE  TypeOK'
<1>1. /\ currentHeap' \in Thread /\ nullPage' = "used"
      /\ UNCHANGED <<thread, tid, heapAt, frame, freed>>
      /\ local' \in [Thread -> [child : Pointer, iterator : Pointer, tid : Nat, new : Pointer]]
  BY DEF LeaveFor, Inv, TypeOK, Idle, Pointer
<1>2. [pc EXCEPT ![t] = "gone"] \in [Thread -> Labels]
  BY DEF Inv, TypeOK, Labels
<1>3. CASE LoadContext(new, [pc EXCEPT ![t] = "gone"])
  <2>1. current' = new /\ cr3' \in Thread /\ halted' \in BOOLEAN /\ pc' \in [Thread -> Labels]
    BY <1>2, <1>3, LoadTypes
  <2> QED  BY <1>1, <2>1 DEF Inv, TypeOK, Pointer
<1>4. CASE halted' = TRUE /\ Goto(t, "gone") /\ UNCHANGED <<current, cr3>>
  BY <1>1, <1>2, <1>4 DEF Inv, TypeOK, Goto
<1> QED  BY <1>3, <1>4 DEF LeaveFor

(* The end of a thread: removeThread is called with a queue that holds     *)
(* other threads only, and has nothing to take out of it.                  *)
LEMMA RemovesNothing ==
    ASSUME Inv, NEW t \in Thread, Release(t)
    PROVE  thread' = thread /\ readyQueue' = readyQueue /\ readyQueue # NULL
<1>1. /\ current = t /\ t \notin Queue /\ readyQueue # NULL /\ FollowsLinks(Queue)
      /\ Queue \in SUBSET Thread
  BY QueueClosed DEF Inv, Apart, Ending, Release, Runs
<1>2. readyQueue # t /\ \A u \in Queue : thread[u].next # t
  <2>1. t # NULL
    BY ThreadAssumption
  <2> QED  BY <1>1, <2>1 DEF FollowsLinks
<1>3. readyQueue' = readyQueue
  BY <1>2 DEF Release, RemoveThread
<1>4. thread' = [u \in Thread |-> thread[u]]
  BY <1>2 DEF Release, RemoveThread
<1> QED  BY <1>1, <1>3, <1>4 DEF Inv, TypeOK

LEMMA EndTypes ==
    ASSUME Inv, NEW t \in Thread,
           \/ TimerRemove \/ Release(t) \/ Pop(t) \/ SwitchAway(t)
           \/ TimerNested(t) \/ TimerNestedRemove(t)
    PROVE  TypeOK'
<1>1. CASE TimerRemove
  BY <1>1 DEF Inv, TypeOK, TimerRemove, Goto, Labels, queue, memory, ending
<1>2. CASE Release(t)
  BY <1>2, RemovesNothing DEF Inv, TypeOK, Release, Goto, Labels, Runs, memory, Pointer, Owned
<1>3. CASE Pop(t)
  <2>1. readyQueue \in Thread
    BY <1>3 DEF Inv, TypeOK, Ending, Pop, Pointer
  <2> QED  BY <1>3, <2>1 DEF Inv, TypeOK, Pop, Goto, Labels, memory, ending, Pointer
<1>4. CASE SwitchAway(t)
  <2>1. local[t].new \in Thread /\ pc[local[t].new] # "unused"
    BY <1>4 DEF Inv, Apart, SwitchAway
  <2>2. thread[local[t].new].pageDirectory \in Thread /\ thread[local[t].new].heap \in Thread
    BY <2>1 DEF Inv, Owned
  <2> QED  BY <1>4, <2>1, <2>2, LeaveTypes DEF SwitchAway, Inv, TypeOK
<1>5. CASE TimerNested(t)
  <2>1. readyQueue \in Thread /\ readyQueue \in Queue
    BY <1>5, LastIsLast DEF Inv, TypeOK, TimerNested, Pointer
  <2>2. thread[readyQueue].pageDirectory \in Thread /\ thread[readyQueue].heap \in Thread
    BY <2>1 DEF Inv, Owned, Apart
  <2>3. readyQueue' \in Pointer
    BY <1>5, <2>1 DEF TimerNested, Inv, TypeOK
  <2> QED  BY <1>5, <2>1, <2>2, <2>3, LeaveTypes DEF TimerNested
<1>6. CASE TimerNestedRemove(t)
  BY <1>6 DEF TimerNestedRemove, Inv, TypeOK, Goto, Labels, queue, memory
<1> QED  BY <1>1, <1>2, <1>3, <1>4, <1>5, <1>6

----------------------------------------------------------------------------
(* The queue and the calls that create threads. *)

Rest == Chain /\ Apart /\ Private /\ Ending /\ Owned

(* A step of the running thread that links nothing. *)
LEMMA QuietStep ==
    ASSUME Inv, NEW t \in Thread,
           current = t /\ current' = t /\ readyQueue' = readyQueue,
           \A u \in Thread :
              /\ thread'[u].next = thread[u].next
              /\ thread'[u].pageDirectory = thread[u].pageDirectory
              /\ thread'[u].heap = thread[u].heap
              /\ u # t => pc'[u] = pc[u] /\ local'[u] = local[u] /\ (thread[u].remove => thread'[u].remove),
           pc'[t] \notin {"unused", "embryo", "release"} \cup Dead,
           pc[t] \notin {"unused", "embryo"},
           pc'[t] = "exited" => thread'[t].remove,
           pc'[t] \in Creating =>
              pc[t] \in Creating /\ local'[t].child = local[t].child /\ (pc'[t] \in Made <=> pc[t] \in Made),
           pc'[t] \in {"walk", "link"} =>
              local'[t].iterator \in Thread /\ \A c \in Thread : Unseen(c) => local'[t].iterator # c
    PROVE  Rest'
<1>1. Queue' = Queue /\ Queue \in SUBSET Thread /\ t # NULL
  BY QueueSame, QueueClosed, ThreadAssumption DEF Inv
<1>2. Chain'
  BY <1>1 DEF Inv, Chain
<1>3. Apart'
  BY <1>1 DEF Inv, Apart, Ending, Dead
<1>4. Private'
  <2>1. \A c \in Thread : Unseen(c) => Unseen(c)'
    BY <1>1 DEF Unseen, Dead
  <2>2. \A c \in Thread : pc'[c] \in {"unused", "embryo"} => Unseen(c)'
    BY <2>1 DEF Inv, Private
  <2>3. ASSUME NEW u \in Thread, pc'[u] \in Creating
        PROVE  /\ local'[u].child \in Thread /\ Unseen(local[u].child)'
               /\ pc'[local'[u].child] = IF pc'[u] \in Made THEN "fresh" ELSE "embryo"
               /\ \A v \in Thread \ {u} : pc'[v] \in Creating => local'[v].child # local'[u].child
    <3>1. pc[u] \in Creating /\ local'[u].child = local[u].child /\ (pc'[u] \in Made <=> pc[u] \in Made)
      BY <2>3
    <3>2. PICK c \in Thread : c = local[u].child /\ Unseen(c) /\ c # t
      BY <3>1 DEF Inv, Private, Unseen
    <3>3. Unseen(c)' /\ local'[u].child = c
      BY <2>1, <3>1, <3>2
    <3>4. Unseen(local[u].child)'
      BY <3>3 DEF Unseen
    <3> QED  BY <3>1, <3>2, <3>3, <3>4 DEF Inv, Private
  <2> QED  BY <2>2, <2>3 DEF Inv, Private
<1>5. Ending'
  BY <1>1 DEF Inv, Ending, Dead
<1>6. Owned'
  BY DEF Inv, Owned
<1> QED  BY <1>2, <1>3, <1>4, <1>5, <1>6 DEF Rest

LEMMA CallRest ==
    ASSUME Inv, NEW t \in Thread,
           \/ SwitchPageDirectory(t) \/ ConstructHeap(t) \/ UseHeap(t)
           \/ ReadTid(t) \/ WriteTid(t) \/ AddThread(t) \/ Walk(t)
           \/ RestoreHeap(t) \/ RestorePageDirectory(t) \/ ThreadStart(t) \/ ThreadExit(t)
    PROVE  Rest'
<1>0. Typed
  BY TypedIs DEF Inv
<1> USE DEF Runs, Goto, queue, ending, Creating, Building, Made, Dead
<1>1. CASE SwitchPageDirectory(t) \/ ConstructHeap(t) \/ UseHeap(t) \/ ReadTid(t)
  BY <1>0, <1>1, QuietStep
     DEF SwitchPageDirectory, ConstructHeap, UseHeap, ReadTid, Typed, LocalRec
<1>6. CASE AddThread(t)
  <2>1. readyQueue # NULL => readyQueue \in Thread /\ \A c \in Thread : Unseen(c) => readyQueue # c
    BY QueueClosed DEF Inv, FollowsLinks, Unseen
  <2> QED  BY <1>0, <1>6, <2>1, QuietStep DEF AddThread, Typed, LocalRec
<1>2. CASE WriteTid(t)
  BY <1>0, <1>2, QuietStep DEF WriteTid, Typed, ThreadRec
<1>3. CASE Walk(t)
  <2>1. local[t].iterator \in Thread
    BY <1>3 DEF Walk, Inv, Private
  <2>2. thread[local[t].iterator].next \in Pointer
    BY <1>0, <2>1 DEF Typed, ThreadRec
  <2>3. /\ local'[t].iterator \in Thread /\ local'[t].child = local[t].child
        /\ \A c \in Thread : Unseen(c) => local'[t].iterator # c
    BY <1>0, <1>3, <2>1, <2>2 DEF Walk, Typed, LocalRec, Pointer, Unseen
  <2> QED  BY <1>0, <1>3, <2>3, QuietStep DEF Walk, Typed
<1>4. CASE RestoreHeap(t) \/ RestorePageDirectory(t) \/ ThreadStart(t)
  BY <1>0, <1>4, QuietStep DEF RestoreHeap, RestorePageDirectory, ThreadStart, Typed
<1>5. CASE ThreadExit(t)
  <2>1. thread' = [thread EXCEPT ![t].remove = TRUE]
    BY <1>5 DEF ThreadExit
  <2>2. thread'[t].remove
    BY <1>0, <2>1 DEF Typed, ThreadRec
  <2>3. \A u \in Thread :
           /\ thread'[u].next = thread[u].next
           /\ thread'[u].pageDirectory = thread[u].pageDirectory
           /\ thread'[u].heap = thread[u].heap
           /\ u # t => thread'[u] = thread[u]
    BY <1>0, <2>1 DEF Typed, ThreadRec
  <2>4. /\ current = t /\ current' = t /\ readyQueue' = readyQueue /\ local' = local
        /\ pc[t] = "launch" /\ pc'[t] = "exited"
        /\ \A u \in Thread \ {t} : pc'[u] = pc[u]
    BY <1>0, <1>5 DEF ThreadExit, Typed
  <2> QED  BY <2>2, <2>3, <2>4, QuietStep
<1> QED  BY <1>1, <1>2, <1>3, <1>4, <1>5, <1>6

LEMMA StackRest == ASSUME Inv, NEW t \in Thread, AllocateStack(t) PROVE Rest'
<1> DEFINE c == local[t].child
<1>0. Typed
  BY TypedIs DEF Inv
<1>1. /\ current = t /\ pc[t] = "stack" /\ c \in Thread \ Queue /\ pc[c] = "embryo" /\ c # t
  BY DEF AllocateStack, Runs, Inv, Private, Unseen, Creating, Building, Made
<1>2. /\ current' = current /\ readyQueue' = readyQueue /\ local' = local
      /\ \A u \in Thread : /\ thread'[u].next = thread[u].next
                           /\ thread'[u].pageDirectory = thread[u].pageDirectory
                           /\ thread'[u].heap = thread[u].heap
                           /\ thread'[u].remove = thread[u].remove
  BY <1>0 DEF AllocateStack, Typed, ThreadRec
<1>3. \A u \in Thread : pc'[u] = IF u = t THEN "test" ELSE IF u = c THEN "fresh" ELSE pc[u]
  BY <1>0, <1>1 DEF AllocateStack, Typed
<1>4. Queue' = Queue /\ Queue \in SUBSET Thread /\ t # NULL
  BY <1>2, QueueSame, QueueClosed, ThreadAssumption DEF Inv
<1> HIDE DEF c
<1>5. Chain'
  BY <1>2, <1>4 DEF Inv, Chain
<1>6. Apart'
  BY <1>1, <1>2, <1>3, <1>4 DEF Inv, Apart, Dead
<1>7. Private'
  <2>1. \A d \in Thread : Unseen(d) => Unseen(d)'
    BY <1>2, <1>3, <1>4 DEF Unseen
  <2> QED  BY <1>1, <1>2, <1>3, <1>4, <2>1 DEF Inv, Private, Creating, Building, Made, c
<1>8. Ending'
  BY <1>1, <1>2, <1>3, <1>4 DEF Inv, Ending
<1>9. Owned'
  BY <1>1, <1>2, <1>3 DEF Inv, Owned
<1> QED  BY <1>5, <1>6, <1>7, <1>8, <1>9 DEF Rest

LEMMA CreateRest ==
    ASSUME Inv, NEW t \in Thread, NEW c \in Thread,
           CreateThread(t, c) \/ (t = Main /\ CreateProcess(c))
    PROVE  Rest'
<1>0. Typed
  BY TypedIs DEF Inv
<1>1. current = t /\ pc[t] = "launch" /\ pc[c] = "unused" /\ c # t /\ t # NULL
  BY ThreadAssumption DEF CreateThread, CreateProcess, Runs
<1>2. /\ current' = current /\ readyQueue' = readyQueue
      /\ \A u \in Thread : /\ thread'[u].next = thread[u].next
                           /\ thread'[u].remove = thread[u].remove
                           /\ u # c => thread'[u].pageDirectory = thread[u].pageDirectory
                           /\ u # c => thread'[u].heap = thread[u].heap
  BY <1>0 DEF CreateThread, CreateProcess, Typed, ThreadRec
<1>3. {thread'[c].pageDirectory, thread'[c].heap} \subseteq Thread
  BY <1>0, <1>1 DEF CreateThread, CreateProcess, Inv, Owned, Typed, ThreadRec
<1>4. PICK l \in {"readTid", "switchPd"} :
          \A u \in Thread : pc'[u] = IF u = t THEN l ELSE IF u = c THEN "embryo" ELSE pc[u]
  BY <1>0, <1>1 DEF CreateThread, CreateProcess, Typed
<1>5. /\ \A u \in Thread \ {t} : local'[u] = local[u]
      /\ local'[t].child = c /\ local'[t].new = local[t].new
  BY <1>0, <1>1 DEF CreateThread, CreateProcess, Typed, LocalRec
<1>6. Queue' = Queue /\ Queue \in SUBSET Thread
  BY <1>2, QueueSame, QueueClosed DEF Inv
<1>7. Chain'
  BY <1>2, <1>6 DEF Inv, Chain
<1>8. Apart'
  BY <1>1, <1>2, <1>4, <1>5, <1>6 DEF Inv, Apart, Dead
<1>9. \A u \in Thread : pc[u] \in Creating => local[u].child # c
  BY <1>1 DEF Inv, Private, Creating
<1>10. \A d \in Thread : Unseen(d) => Unseen(d)'
  BY <1>2, <1>4, <1>5, <1>6 DEF Unseen
<1>11. Private'
  BY <1>1, <1>2, <1>4, <1>5, <1>6, <1>9, <1>10 DEF Inv, Private, Creating, Building, Made
<1>12. Ending'
  BY <1>1, <1>2, <1>4, <1>5 DEF Inv, Ending
<1>13. Owned'
  BY <1>1, <1>2, <1>3, <1>4 DEF Inv, Owned
<1> QED  BY <1>7, <1>8, <1>11, <1>12, <1>13 DEF Rest

(* The two stores that put a new thread into the queue. *)
LEMMA AddedEffect ==
    ASSUME Typed, NEW t \in Thread, Added(t)
    PROVE  /\ pc'[t] \in {"restoreHeap", "launch"}
           /\ \A u \in Thread \ {t} : pc'[u] = pc[u] /\ local'[u] = local[u]
BY DEF Added, Typed, Goto

LEMMA SetHeadRest == ASSUME Inv, NEW t \in Thread, SetHead(t) PROVE Rest'
<1> USE DEF Creating, Building, Made
<1>0. Typed
  BY TypedIs DEF Inv
<1>1. PICK c \in Thread : c = local[t].child /\ Unseen(c) /\ pc[c] = "fresh"
  BY DEF SetHead, Runs, Inv, Private
<1>2. /\ current = t /\ pc[t] = "setHead" /\ t # NULL /\ c # NULL
      /\ readyQueue' = c /\ current' = current /\ thread' = thread
  BY <1>1, ThreadAssumption DEF SetHead, Runs
<1>3. /\ pc'[t] \in {"restoreHeap", "launch"} /\ c # t
      /\ \A u \in Thread \ {t} : pc'[u] = pc[u] /\ local'[u] = local[u]
  BY <1>0, <1>1, <1>2, AddedEffect DEF SetHead, Unseen
<1>4. Queue' \subseteq {c}
  <2>1. FollowsLinks({c})'
    BY <1>1, <1>2 DEF FollowsLinks, Unseen
  <2> QED  BY <2>1, QueueLeast
<1>5. Chain'
  BY <1>1, <1>2, <1>4 DEF Chain, Unseen
<1>6. Apart'
  BY <1>1, <1>2, <1>3, <1>4 DEF Inv, Apart, Unseen, Dead
<1>7. \A d \in Thread : Unseen(d) /\ d # c => Unseen(d)'
  BY <1>2, <1>3, <1>4 DEF Unseen
<1>8. Private'
  <2>1. \A u \in Thread : pc'[u] \in {"unused", "embryo"} => Unseen(u)'
    BY <1>1, <1>3, <1>7 DEF Inv, Private
  <2>2. ASSUME NEW u \in Thread, pc'[u] \in Creating
        PROVE  /\ local'[u].child \in Thread /\ Unseen(local[u].child)'
               /\ pc'[local'[u].child] = IF pc'[u] \in Made THEN "fresh" ELSE "embryo"
               /\ \A v \in Thread \ {u} : pc'[v] \in Creating => local'[v].child # local'[u].child
    <3>1. u # t /\ pc[u] \in Creating /\ local'[u].child = local[u].child /\ pc'[u] = pc[u]
      BY <1>3, <2>2
    <3>2. PICK d \in Thread : d = local[u].child /\ Unseen(d) /\ d # t /\ d # c
      BY <1>1, <1>2, <3>1 DEF Inv, Private, Unseen
    <3>3. Unseen(local[u].child)'
      BY <1>7, <3>1, <3>2 DEF Unseen
    <3> QED  BY <1>3, <3>1, <3>2, <3>3 DEF Inv, Private
  <2> QED  BY <1>3, <2>1, <2>2 DEF Inv, Private
<1>9. Ending'
  BY <1>1, <1>2, <1>3 DEF Inv, Ending
<1>10. Owned'
  BY <1>2, <1>3 DEF Inv, Owned
<1> QED  BY <1>5, <1>6, <1>8, <1>9, <1>10 DEF Rest

LEMMA LinkRest == ASSUME Inv, NEW t \in Thread, Link(t) PROVE Rest'
<1> USE DEF Creating, Building, Made
<1>0. Typed
  BY TypedIs DEF Inv
<1>1. PICK c \in Thread, i \in Thread :
          /\ c = local[t].child /\ Unseen(c) /\ pc[c] = "fresh"
          /\ i = local[t].iterator /\ i # c
  BY DEF Link, Runs, Inv, Private, Unseen
<1>2. /\ current = t /\ pc[t] = "link" /\ t # NULL /\ c # NULL
      /\ readyQueue' = readyQueue /\ current' = current
  BY <1>1, ThreadAssumption DEF Link, Runs
<1>3. \A u \in Thread :
         /\ thread'[u].next = IF u = i THEN c ELSE thread[u].next
         /\ thread'[u].pageDirectory = thread[u].pageDirectory
         /\ thread'[u].heap = thread[u].heap
  BY <1>0, <1>1 DEF Link, Typed, ThreadRec
<1>4. \A u \in Thread : thread[u].remove => thread'[u].remove
  <2>1. thread' = [thread EXCEPT ![i].next = c]
    BY <1>1 DEF Link
  <2> QED  BY <1>0, <2>1 DEF Typed, ThreadRec
<1>5. /\ pc'[t] \in {"restoreHeap", "launch"} /\ c # t
      /\ \A u \in Thread \ {t} : pc'[u] = pc[u] /\ local'[u] = local[u]
  BY <1>0, <1>1, <1>2, AddedEffect DEF Link, Unseen
<1>6. Queue' \subseteq Queue \cup {c} /\ Queue \in SUBSET Thread
  <2>1. FollowsLinks(Queue) /\ Queue \in SUBSET Thread
    BY QueueClosed DEF Inv
  <2> DEFINE S == Queue \cup {c}
  <2>2. S \in SUBSET Thread
    BY <2>1
  <2>3. /\ readyQueue' \in S \cup {NULL}
        /\ \A u \in S : thread'[u].next \in S \cup {NULL}
    BY <1>1, <1>2, <1>3, <2>1 DEF FollowsLinks, Unseen
  <2>4. Queue' \subseteq S
    <3> HIDE DEF S
    <3> QED  BY <2>2, <2>3, QueueLeast DEF FollowsLinks
  <2> QED  BY <2>1, <2>4
<1>7. readyQueue # c
  BY <1>1, <1>2, QueueClosed DEF Inv, Unseen, FollowsLinks
<1>8. Chain'
  <2>1. readyQueue = NULL => Queue' = {}
    <3>1. readyQueue = NULL => FollowsLinks({})'
      BY <1>2 DEF FollowsLinks
    <3> QED  BY <3>1, QueueLeast
  <2>2. \A u, v \in Queue \cup {c} :
           thread'[u].next = thread'[v].next /\ thread'[u].next # NULL => u = v
    BY <1>1, <1>2, <1>3, <1>6 DEF Inv, Chain, Unseen
  <2>3. \A u \in Queue \cup {c} : readyQueue # NULL => thread'[u].next # readyQueue
    BY <1>1, <1>2, <1>3, <1>6, <1>7 DEF Inv, Chain, Unseen
  <2> QED  BY <1>2, <1>6, <2>1, <2>2, <2>3 DEF Chain
<1>9. Apart'
  BY <1>1, <1>2, <1>5, <1>6 DEF Inv, Apart, Unseen, Dead
<1>10. \A d \in Thread : Unseen(d) /\ d # c /\ d # i => Unseen(d)'
  BY <1>2, <1>3, <1>5, <1>6 DEF Unseen
<1>11. i \notin {u \in Thread : pc[u] \in {"unused", "embryo"}}
       /\ \A u \in Thread : pc[u] \in Creating => local[u].child # i
  BY <1>1, <1>2 DEF Inv, Private, Unseen
<1>12. Private'
  <2>1. \A u \in Thread : pc'[u] \in {"unused", "embryo"} => Unseen(u)'
    BY <1>1, <1>5, <1>10, <1>11 DEF Inv, Private
  <2>2. ASSUME NEW u \in Thread, pc'[u] \in Creating
        PROVE  /\ local'[u].child \in Thread /\ Unseen(local[u].child)'
               /\ pc'[local'[u].child] = IF pc'[u] \in Made THEN "fresh" ELSE "embryo"
               /\ \A v \in Thread \ {u} : pc'[v] \in Creating => local'[v].child # local'[u].child
    <3>1. u # t /\ pc[u] \in Creating /\ local'[u].child = local[u].child /\ pc'[u] = pc[u]
      BY <1>5, <2>2
    <3>2. PICK d \in Thread : d = local[u].child /\ Unseen(d) /\ d # t /\ d # c /\ d # i
      BY <1>1, <1>2, <1>11, <3>1 DEF Inv, Private, Unseen
    <3>3. Unseen(local[u].child)'
      BY <1>10, <3>1, <3>2 DEF Unseen
    <3> QED  BY <1>5, <3>1, <3>2, <3>3 DEF Inv, Private
  <2> QED  BY <1>5, <2>1, <2>2 DEF Inv, Private
<1>13. Ending'
  BY <1>1, <1>2, <1>4, <1>5 DEF Inv, Ending
<1>14. Owned'
  BY <1>2, <1>3, <1>5 DEF Inv, Owned
<1> QED  BY <1>8, <1>9, <1>12, <1>13, <1>14 DEF Rest

----------------------------------------------------------------------------
(* The timer. *)

(* What switch_thread does to the program counters. *)
LEMMA LoadEffect ==
    ASSUME NEW new \in Thread, NEW leave \in [Thread -> Labels], LoadContext(new, leave)
    PROVE  /\ current' = new
           /\ \A u \in Thread : u # new => pc'[u] = leave[u]
           /\ pc'[new] = leave[new] \/ (pc[new] = "fresh" /\ pc'[new] = "popf")
BY DEF LoadContext

(* A thread leaves the head of the queue and nothing else enters it.       *)
LEMMA PopEffect ==
    ASSUME Inv, readyQueue # NULL, thread' = thread, readyQueue' = thread[readyQueue].next
    PROVE  /\ readyQueue \in Queue /\ Queue' \subseteq Queue \ {readyQueue}
           /\ Queue \in SUBSET Thread /\ Chain'
<1>1. readyQueue \in Queue /\ FollowsLinks(Queue) /\ Queue \in SUBSET Thread
  BY QueueClosed DEF Inv, FollowsLinks
<1> DEFINE S == Queue \ {readyQueue}
<1>2. S \in SUBSET Thread
  BY <1>1
<1>3. /\ readyQueue' \in S \cup {NULL}
      /\ \A u \in S : thread'[u].next \in S \cup {NULL}
  BY <1>1 DEF FollowsLinks, Inv, Chain
<1>4. Queue' \subseteq S
  <2> HIDE DEF S
  <2> QED  BY <1>2, <1>3, QueueLeast DEF FollowsLinks
<1>5. readyQueue' = NULL => Queue' = {}
  <2>1. readyQueue' = NULL => FollowsLinks({})'
    BY DEF FollowsLinks
  <2> QED  BY <2>1, QueueLeast
<1>6. Chain'
  BY <1>1, <1>4, <1>5 DEF Inv, Chain
<1> QED  BY <1>1, <1>4, <1>6

(* A tick takes R from the head of the queue and puts C, which ran, behind *)
(* its last node L.                                                        *)
Rotates(R, L, C) ==
    /\ R = readyQueue /\ L = LastQueued /\ C = current
    /\ R \in Queue /\ L \in Queue /\ thread[L].next = NULL /\ C \notin Queue
    /\ R # NULL /\ C # NULL /\ ~thread[C].remove
    /\ \A u \in Thread :
          /\ thread'[u].next = IF u = C THEN NULL ELSE IF u = L THEN C ELSE thread[u].next
          /\ thread'[u].pageDirectory = thread[u].pageDirectory
          /\ thread'[u].heap = IF u = C THEN currentHeap ELSE thread[u].heap
          /\ thread'[u].remove = thread[u].remove
          /\ pc'[u] = pc[u] \/ (u = R /\ pc[u] = "fresh" /\ pc'[u] = "popf")
    /\ current' = R /\ readyQueue' = thread'[R].next /\ local' = local
    /\ currentHeap' = thread'[R].heap
    /\ Queue' \subseteq (Queue \cup {C}) \ {R}

LEMMA RotateEffect ==
    ASSUME Inv, TimerRotate
    PROVE  \E R \in Thread, L \in Thread, C \in Thread : Rotates(R, L, C)
<1>0. Typed
  BY TypedIs DEF Inv
<1>1. PICK R \in Thread, L \in Thread, C \in Thread :
          /\ R = readyQueue /\ L = LastQueued /\ C = current
          /\ R \in Queue /\ L \in Queue /\ thread[L].next = NULL /\ C \notin Queue
          /\ R # NULL /\ C # NULL /\ ~thread[C].remove
  BY <1>0, LastIsLast, ThreadAssumption, QueueClosed DEF Inv, Apart, TimerRotate, Typed, Pointer
<1>2. FollowsLinks(Queue) /\ Queue \in SUBSET Thread
  BY QueueClosed DEF Inv
<1>3. /\ \A u \in Thread :
            /\ thread'[u].next = IF u = C THEN NULL ELSE IF u = L THEN C ELSE thread[u].next
            /\ thread'[u].pageDirectory = thread[u].pageDirectory
            /\ thread'[u].heap = IF u = C THEN currentHeap ELSE thread[u].heap
      /\ readyQueue' = thread'[R].next /\ currentHeap' = thread'[R].heap
      /\ local' = local
  BY <1>0, <1>1 DEF TimerRotate, Requeued, Typed, ThreadRec
<1>4. \A u \in Thread : thread'[u].remove = thread[u].remove
  <2>1. thread' = [thread EXCEPT ![L].next = C, ![C].next = NULL, ![C].heap = currentHeap]
    BY <1>1 DEF TimerRotate, Requeued
  <2> QED  BY <1>0, <2>1 DEF Typed, ThreadRec
<1>5. /\ current' = R
      /\ \A u \in Thread : pc'[u] = pc[u] \/ (u = R /\ pc[u] = "fresh" /\ pc'[u] = "popf")
  BY <1>0, <1>1, LoadEffect DEF Saved, TimerRotate, Typed
<1>6. Queue' \subseteq (Queue \cup {C}) \ {R}
  <2> DEFINE S == (Queue \cup {C}) \ {R}
  <2>1. S \in SUBSET Thread
    BY <1>1, <1>2
  <2>2. /\ readyQueue' \in S \cup {NULL}
        /\ \A u \in S : thread'[u].next \in S \cup {NULL}
    BY <1>1, <1>2, <1>3 DEF FollowsLinks, Inv, Chain
  <2> HIDE DEF S
  <2>3. Queue' \subseteq S
    BY <2>1, <2>2, QueueLeast DEF FollowsLinks
  <2> QED  BY <2>3 DEF S
<1> QED  BY <1>1, <1>3, <1>4, <1>5, <1>6 DEF Rotates

LEMMA RotateRest == ASSUME Inv, TimerRotate PROVE Rest'
<1>0. Typed
  BY TypedIs DEF Inv
<1>1. PICK R \in Thread, L \in Thread, C \in Thread : Rotates(R, L, C)
  BY RotateEffect
<1> USE <1>1 DEF Rotates
<1>2. FollowsLinks(Queue) /\ Queue \in SUBSET Thread
  BY QueueClosed DEF Inv
<1>3. /\ \A u \in Thread :
            /\ thread'[u].next = IF u = C THEN NULL ELSE IF u = L THEN C ELSE thread[u].next
            /\ thread'[u].pageDirectory = thread[u].pageDirectory
            /\ thread'[u].heap \in {thread[u].heap, currentHeap}
      /\ readyQueue' = thread'[R].next
      /\ local' = local
  OBVIOUS
<1>4. \A u \in Thread : thread[u].remove => thread'[u].remove
  OBVIOUS
<1>5. /\ current' = R
      /\ \A u \in Thread : pc'[u] = pc[u] \/ (u = R /\ pc[u] = "fresh" /\ pc'[u] = "popf")
  OBVIOUS
<1>6. Queue' \subseteq (Queue \cup {C}) \ {R}
  OBVIOUS
<1>7. readyQueue' \in Thread
  <2>1. thread[R].next = NULL => FollowsLinks({R})
    BY <1>1 DEF FollowsLinks
  <2>2. thread[R].next = NULL => R = L
    BY <1>1, <2>1 DEF Queue
  <2> QED  BY <1>1, <1>2, <1>3, <2>2 DEF FollowsLinks
<1>8. Chain'
  <2>1. \A u \in Queue \cup {C} :
           thread'[u].next = IF u = C THEN NULL ELSE IF u = L THEN C ELSE thread[u].next
    BY <1>1, <1>2, <1>3
  <2>2. \A u \in Queue : thread[u].next # C
    BY <1>1, <1>2 DEF FollowsLinks
  <2>3. \A u, v \in Queue \cup {C} :
           thread'[u].next = thread'[v].next /\ thread'[u].next # NULL => u = v
    BY <1>1, <2>1, <2>2 DEF Inv, Chain
  <2>4. readyQueue' = thread'[R].next /\ readyQueue' # NULL
    BY <1>3, <1>7, ThreadAssumption
  <2> QED  BY <1>1, <1>6, <2>3, <2>4 DEF Chain
<1>9. pc[C] \notin {"unused", "embryo", "exited", "release"} \cup Dead
  BY <1>1 DEF Inv, Apart, Ending
<1>10. Apart'
  BY <1>1, <1>2, <1>3, <1>5, <1>6, <1>9 DEF Inv, Apart, Ending, Dead
<1>11. \A d \in Thread : Unseen(d) => Unseen(d)'
  BY <1>1, <1>3, <1>5, <1>6 DEF Unseen
<1>12. Private'
  <2>1. \A u \in Thread : pc'[u] \in {"unused", "embryo"} => Unseen(u)'
    BY <1>5, <1>11 DEF Inv, Private
  <2>2. ASSUME NEW u \in Thread, pc'[u] \in Creating
        PROVE  /\ local'[u].child \in Thread /\ Unseen(local[u].child)'
               /\ pc'[local'[u].child] = IF pc'[u] \in Made THEN "fresh" ELSE "embryo"
               /\ \A v \in Thread \ {u} : pc'[v] \in Creating => local'[v].child # local'[u].child
    <3>1. pc[u] \in Creating /\ pc'[u] = pc[u]
      BY <1>5, <2>2 DEF Creating, Building
    <3>2. PICK d \in Thread : d = local[u].child /\ Unseen(d) /\ d # R
      BY <1>1, <3>1 DEF Inv, Private, Unseen
    <3>3. Unseen(local[u].child)'
      BY <1>3, <1>11, <3>2 DEF Unseen
    <3>4. \A v \in Thread : pc'[v] \in Creating => pc[v] \in Creating
      BY <1>5 DEF Creating, Building
    <3> QED  BY <1>3, <1>5, <3>1, <3>2, <3>3, <3>4 DEF Inv, Private
  <2> QED  BY <1>3, <1>5, <2>1, <2>2 DEF Inv, Private
<1>13. Ending'
  <2>1. \A u \in Thread : pc[u] \notin {"exited", "release", "pop", "switch"}
    BY <1>1, <1>9 DEF Inv, Ending
  <2> QED  BY <1>5, <2>1 DEF Ending
<1>14. Owned'
  BY <1>0, <1>1, <1>3, <1>5 DEF Inv, Owned, Typed
<1> QED  BY <1>8, <1>10, <1>12, <1>13, <1>14 DEF Rest

LEMMA RemoveRest == ASSUME Inv, TimerRemove PROVE Rest'
<1>0. Typed
  BY TypedIs DEF Inv
<1>1. PICK C \in Thread : C = current /\ C # NULL /\ thread[C].remove
  BY <1>0, ThreadAssumption DEF TimerRemove, Typed, Pointer
<1>2. /\ readyQueue # NULL /\ UNCHANGED <<thread, current, readyQueue, local>>
      /\ \A u \in Thread : pc'[u] = IF u = C THEN "release" ELSE pc[u]
  BY <1>0, <1>1 DEF TimerRemove, Goto, queue, Typed
<1>3. Queue' = Queue /\ Queue \in SUBSET Thread
  BY <1>2, QueueSame, QueueClosed DEF Inv
<1>4. Chain'
  BY <1>2, <1>3 DEF Inv, Chain
<1>5. Apart'
  BY <1>1, <1>2, <1>3 DEF Inv, Apart, Ending, Dead
<1>6. \A c \in Thread : Unseen(c) => Unseen(c)'
  BY <1>2, <1>3 DEF Unseen
<1>7. Private'
  BY <1>1, <1>2, <1>6 DEF Inv, Private, Unseen, Creating, Building, Made
<1>8. Ending'
  BY <1>1, <1>2 DEF Inv, Ending
<1>9. Owned'
  BY <1>1, <1>2 DEF Inv, Owned, Apart
<1> QED  BY <1>4, <1>5, <1>7, <1>8, <1>9 DEF Rest

LEMMA ReleaseRest == ASSUME Inv, NEW t \in Thread, Release(t) PROVE Rest'
<1>0. Typed
  BY TypedIs DEF Inv
<1>1. /\ current = t /\ pc[t] = "release" /\ current' = NULL /\ local' = local
      /\ thread' = thread /\ readyQueue' = readyQueue /\ readyQueue # NULL
      /\ \A u \in Thread : pc'[u] = IF u = t THEN "pop" ELSE pc[u]
  BY <1>0, RemovesNothing DEF Release, Runs, Goto, memory, Typed
<1>2. Queue' = Queue /\ Queue \in SUBSET Thread /\ NULL \notin Thread
  BY <1>1, QueueSame, QueueClosed, ThreadAssumption DEF Inv
<1>3. Chain'
  BY <1>1, <1>2 DEF Inv, Chain
<1>4. Apart'
  BY <1>1, <1>2 DEF Inv, Apart, Ending, Dead
<1>5. \A c \in Thread : Unseen(c) => Unseen(c)'
  BY <1>1, <1>2 DEF Unseen
<1>6. Private'
  BY <1>1, <1>5 DEF Inv, Private, Unseen, Creating, Building, Made
<1>7. Ending'
  BY <1>1, <1>2 DEF Inv, Ending
<1>8. Owned'
  BY <1>1 DEF Inv, Owned
<1> QED  BY <1>3, <1>4, <1>6, <1>7, <1>8 DEF Rest

(* A timer that ends the thread it finds on page 0 begins the interrupted  *)
(* lines again, and leaves the queue alone.                                *)
LEMMA NestedRemoveEffect ==
    ASSUME Inv, NEW t \in Thread, TimerNestedRemove(t)
    PROVE  /\ pc[t] \in {"pop", "switch"} /\ current = NULL /\ current' = NULL
           /\ thread' = thread /\ readyQueue' = readyQueue /\ readyQueue # NULL
           /\ currentHeap' = currentHeap /\ cr3' = cr3 /\ tid' = tid /\ local' = local
           /\ \A u \in Thread : pc'[u] = IF u = t THEN "pop" ELSE pc[u]
<1>1. Typed
  BY TypedIs DEF Inv
<1> QED  BY <1>1 DEF TimerNestedRemove, Inv, Ending, Goto, queue, memory, Typed

LEMMA NestedRemoveRest == ASSUME Inv, NEW t \in Thread, TimerNestedRemove(t) PROVE Rest'
<1>1. /\ pc[t] \in {"pop", "switch"} /\ current = NULL /\ current' = NULL
      /\ thread' = thread /\ readyQueue' = readyQueue /\ readyQueue # NULL /\ local' = local
      /\ \A u \in Thread : pc'[u] = IF u = t THEN "pop" ELSE pc[u]
  BY NestedRemoveEffect
<1>2. Queue' = Queue /\ Queue \in SUBSET Thread /\ NULL \notin Thread
  BY <1>1, QueueSame, QueueClosed, ThreadAssumption DEF Inv
<1>3. Chain'
  BY <1>1, <1>2 DEF Inv, Chain
<1>4. Apart'
  BY <1>1, <1>2 DEF Inv, Apart, Dead
<1>5. \A c \in Thread : Unseen(c) => Unseen(c)'
  BY <1>1, <1>2 DEF Unseen
<1>6. Private'
  BY <1>1, <1>5 DEF Inv, Private, Unseen, Creating, Building, Made
<1>7. Ending'
  BY <1>1, <1>2 DEF Inv, Ending
<1>8. Owned'
  BY <1>1 DEF Inv, Owned
<1> QED  BY <1>3, <1>4, <1>6, <1>7, <1>8 DEF Rest

LEMMA PopRest == ASSUME Inv, NEW t \in Thread, Pop(t) PROVE Rest'
<1>0. Typed
  BY TypedIs DEF Inv
<1>1. /\ pc[t] = "pop" /\ readyQueue # NULL /\ current = NULL
      /\ \A u \in Thread : pc[u] \in {"pop", "switch"} => u = t
  BY DEF Pop, Inv, Ending
<1>2. /\ current' = current /\ thread' = thread /\ readyQueue' = thread[readyQueue].next
      /\ local'[t].new = readyQueue /\ local'[t].child = local[t].child
      /\ \A u \in Thread \ {t} : local'[u] = local[u]
      /\ \A u \in Thread : pc'[u] = IF u = t THEN "switch" ELSE pc[u]
  BY <1>0 DEF Pop, Goto, Typed, LocalRec
<1>3. /\ readyQueue \in Queue /\ Queue' \subseteq Queue \ {readyQueue}
      /\ Queue \in SUBSET Thread /\ Chain' /\ NULL \notin Thread
  BY <1>1, <1>2, PopEffect, ThreadAssumption
<1>4. Apart'
  BY <1>1, <1>2, <1>3 DEF Inv, Apart, Dead
<1>5. \A c \in Thread : Unseen(c) => Unseen(c)'
  BY <1>1, <1>2, <1>3 DEF Unseen
<1>6. Private'
  <2>1. \A u \in Thread : pc'[u] \in {"unused", "embryo"} => Unseen(u)'
    BY <1>2, <1>5 DEF Inv, Private
  <2>2. ASSUME NEW u \in Thread, pc'[u] \in Creating
        PROVE  /\ local'[u].child \in Thread /\ Unseen(local[u].child)'
               /\ pc'[local'[u].child] = IF pc'[u] \in Made THEN "fresh" ELSE "embryo"
               /\ \A v \in Thread \ {u} : pc'[v] \in Creating => local'[v].child # local'[u].child
    <3>1. pc[u] \in Creating /\ pc'[u] = pc[u] /\ local'[u] = local[u]
      BY <1>2, <2>2 DEF Creating, Building
    <3>2. PICK d \in Thread : d = local[u].child /\ Unseen(d) /\ pc[d] \in {"fresh", "embryo"}
      BY <3>1 DEF Inv, Private
    <3>3. Unseen(local[u].child)'
      BY <1>2, <1>5, <3>1, <3>2 DEF Unseen
    <3>4. \A v \in Thread : pc'[v] \in Creating => pc[v] \in Creating /\ local'[v] = local[v]
      BY <1>2 DEF Creating, Building
    <3> QED  BY <1>1, <1>2, <3>1, <3>2, <3>3, <3>4 DEF Inv, Private
  <2> QED  BY <1>2, <2>1, <2>2 DEF Inv, Private
<1>7. Ending'
  BY <1>1, <1>2, <1>3 DEF Inv, Ending
<1>8. Owned'
  BY <1>1, <1>2 DEF Inv, Owned
<1> QED  BY <1>3, <1>4, <1>6, <1>7, <1>8 DEF Rest

(* The last lines of the handler, in the run that goes on with new. *)
LEMMA LeaveRest ==
    ASSUME Inv, NEW t \in Thread, pc[t] \in {"pop", "switch"}, NEW new \in Thread,
           LeaveFor(t, new), Chain', Queue' \subseteq Queue, new \notin Queue',
           pc[new] \notin {"unused", "embryo", "exited", "release"} \cup Dead,
           \A c \in Thread : Unseen(c) => c # new
    PROVE  Rest'
<1>0. Typed
  BY TypedIs DEF Inv
<1>1. /\ current = NULL /\ NULL \notin Thread /\ new # t /\ Queue \in SUBSET Thread
      /\ \A u \in Thread : pc[u] \in {"pop", "switch"} => u = t
      /\ \A u \in Thread : pc[u] \notin {"exited", "release"}
  BY QueueClosed, ThreadAssumption DEF Inv, Ending, Dead
<1>2. thread' = thread /\ \A u \in Thread \ {t} : local'[u] = local[u]
  BY <1>0 DEF LeaveFor, Typed
<1>3. /\ current' \in {NULL, new} /\ pc'[t] = "gone"
      /\ \A u \in Thread \ {t} : pc'[u] = pc[u] \/ (u = new /\ pc[u] = "fresh" /\ pc'[u] = "popf")
  <2> DEFINE leave == [pc EXCEPT ![t] = "gone"]
  <2>1. leave \in [Thread -> Labels] /\ leave[t] = "gone" /\ \A u \in Thread \ {t} : leave[u] = pc[u]
    BY <1>0 DEF Typed, Labels
  <2>2. CASE LoadContext(new, leave)
    <3> HIDE DEF leave
    <3> QED  BY <1>1, <2>1, <2>2, LoadEffect
  <2>3. CASE Goto(t, "gone") /\ UNCHANGED <<current, cr3>>
    BY <1>0, <1>1, <2>1, <2>3 DEF Goto, Typed
  <2> QED  BY <2>2, <2>3 DEF LeaveFor
<1>4. Apart'
  BY <1>1, <1>2, <1>3 DEF Inv, Apart, Dead
<1>5. \A c \in Thread : Unseen(c) => Unseen(c)'
  BY <1>1, <1>2, <1>3 DEF Unseen
<1>6. Private'
  <2>1. \A u \in Thread : pc'[u] \in {"unused", "embryo"} => Unseen(u)'
    BY <1>3, <1>5 DEF Inv, Private
  <2>2. ASSUME NEW u \in Thread, pc'[u] \in Creating
        PROVE  /\ local'[u].child \in Thread /\ Unseen(local[u].child)'
               /\ pc'[local'[u].child] = IF pc'[u] \in Made THEN "fresh" ELSE "embryo"
               /\ \A v \in Thread \ {u} : pc'[v] \in Creating => local'[v].child # local'[u].child
    <3>1. pc[u] \in Creating /\ pc'[u] = pc[u] /\ local'[u] = local[u]
      BY <1>2, <1>3, <2>2 DEF Creating, Building
    <3>2. PICK d \in Thread :
              d = local[u].child /\ Unseen(d) /\ pc[d] \in {"fresh", "embryo"} /\ d # new
      BY <3>1 DEF Inv, Private
    <3>3. Unseen(local[u].child)'
      BY <1>5, <3>1, <3>2 DEF Unseen
    <3>4. \A v \in Thread : pc'[v] \in Creating => pc[v] \in Creating /\ local'[v] = local[v]
      BY <1>2, <1>3 DEF Creating, Building
    <3> QED  BY <1>1, <1>3, <3>1, <3>2, <3>3, <3>4 DEF Inv, Private
  <2>3. \A u \in Thread : pc'[u] \in {"walk", "link"} => local'[u].iterator \in Thread
    BY <1>2, <1>3 DEF Inv, Private
  <2>4. \A u \in Thread : pc'[u] \in Creating => Unseen(local[u].child)'
    BY <2>2
  <2> QED  BY <2>1, <2>2, <2>3, <2>4 DEF Private
<1>7. Ending'
  BY <1>1, <1>2, <1>3 DEF Inv, Ending
<1>8. Owned'
  BY <1>1, <1>2, <1>3 DEF Inv, Owned
<1> QED  BY <1>4, <1>6, <1>7, <1>8 DEF Rest

LEMMA SwitchRest ==
    ASSUME Inv, NEW t \in Thread, SwitchAway(t) \/ TimerNested(t) PROVE Rest'
<1>1. CASE SwitchAway(t)
  <2>1. PICK new \in Thread :
            /\ new = local[t].new /\ new \notin Queue
            /\ pc[new] \notin {"unused", "embryo", "exited", "release"} \cup Dead
            /\ \A c \in Thread : Unseen(c) => c # new
    BY <1>1 DEF SwitchAway, Inv, Apart, Unseen
  <2>2. thread' = thread /\ readyQueue' = readyQueue
    BY <1>1 DEF SwitchAway, LeaveFor
  <2>3. Queue' = Queue /\ Chain'
    BY <2>2, QueueSame DEF Inv, Chain
  <2> QED  BY <1>1, <2>1, <2>3, LeaveRest DEF SwitchAway
<1>2. CASE TimerNested(t)
  <2>1. thread' = thread /\ readyQueue' = thread[readyQueue].next /\ readyQueue # NULL
    BY <1>2 DEF TimerNested, LeaveFor
  <2>2. /\ readyQueue \in Queue /\ Queue' \subseteq Queue \ {readyQueue}
        /\ Queue \in SUBSET Thread /\ Chain'
    BY <2>1, PopEffect
  <2>3. PICK new \in Thread : new = readyQueue /\ new \in Queue
    BY <2>2
  <2>4. /\ pc[new] \notin {"unused", "embryo", "exited", "release"} \cup Dead
        /\ \A c \in Thread : Unseen(c) => c # new
    BY <2>3 DEF Inv, Apart, Unseen
  <2> QED  BY <1>2, <2>2, <2>3, <2>4, LeaveRest DEF TimerNested
<1> QED  BY <1>1, <1>2

----------------------------------------------------------------------------
(* The invariant. *)

LEMMA InitInv == Init => Inv
<1> SUFFICES ASSUME Init PROVE Inv
  OBVIOUS
<1>1. Queue = {}
  <2>1. FollowsLinks({})
    BY DEF Init, NoThread, FollowsLinks
  <2> QED  BY <2>1 DEF Queue
<1>2. /\ \A t \in Thread : thread[t].next = NULL /\ pc[t] \in {"unused", "launch"}
      /\ pc[Main] = "launch" /\ \A t \in Thread \ {Main} : pc[t] = "unused"
      /\ thread[Main].pageDirectory = Main /\ thread[Main].heap = Main
      /\ current = Main /\ Main \in Thread /\ NULL \notin Thread
  BY ThreadAssumption DEF Init, NoThread
<1>3. TypeOK
  BY ThreadAssumption DEF Init, NoThread, TypeOK, Pointer, Labels, Idle
<1>4. Chain /\ Apart /\ Ending /\ Owned
  BY <1>1, <1>2 DEF Chain, Apart, Ending, Owned, Dead
<1>5. Private
  BY <1>1, <1>2 DEF Private, Unseen, Creating, Building
<1> QED  BY <1>3, <1>4, <1>5 DEF Inv

(* A fault changes nothing the invariant speaks of. *)
LEMMA SameInv ==
    ASSUME Inv, halted' \in BOOLEAN,
           UNCHANGED <<thread, tid, current, readyQueue, currentHeap, cr3, heapAt, frame, pc,
                       local, nullPage, freed>>
    PROVE  Inv'
<1>1. Queue' = Queue
  BY QueueSame
<1>2. \A c \in Thread : Unseen(c) <=> Unseen(c)'
  BY <1>1 DEF Unseen
<1>3. TypeOK'
  BY DEF Inv, TypeOK
<1>4. Chain' /\ Apart' /\ Ending' /\ Owned'
  BY <1>1 DEF Inv, Chain, Apart, Ending, Owned
<1>5. Private'
  BY <1>1, <1>2 DEF Inv, Private
<1> QED  BY <1>3, <1>4, <1>5 DEF Inv

LEMMA NextInv == Inv /\ [Next]_vars => Inv'
<1> SUFFICES ASSUME Inv, [Next]_vars PROVE Inv'
  OBVIOUS
<1>1. ASSUME NEW t \in Thread, ThreadStep(t) PROVE Inv'
  <2>1. CASE \E c \in Thread : CreateThread(t, c) \/ (t = Main /\ CreateProcess(c))
    BY <2>1, CreateTypes, CreateRest DEF Inv, Rest
  <2>2. CASE AllocateStack(t) \/ SetHead(t) \/ Link(t)
    BY <2>2, CallTypes, StackRest, SetHeadRest, LinkRest DEF Inv, Rest
  <2>3. CASE Release(t) \/ Pop(t) \/ SwitchAway(t)
    BY <2>3, EndTypes, ReleaseRest, PopRest, SwitchRest DEF Inv, Rest
  <2>4. CASE \/ SwitchPageDirectory(t) \/ ConstructHeap(t) \/ UseHeap(t)
             \/ ReadTid(t) \/ WriteTid(t) \/ AddThread(t) \/ Walk(t)
             \/ RestoreHeap(t) \/ RestorePageDirectory(t) \/ ThreadStart(t) \/ ThreadExit(t)
    BY <2>4, CallTypes, CallRest DEF Inv, Rest
  <2> QED  BY <1>1, <2>1, <2>2, <2>3, <2>4 DEF ThreadStep
<1>2. CASE TimerRotate
  BY <1>2, RotateTypes, RotateRest DEF Inv, Rest
<1>3. CASE TimerRemove
  BY <1>3, EndTypes, RemoveRest, ThreadAssumption DEF Inv, Rest
<1>4. ASSUME NEW t \in Thread, TimerNested(t) \/ TimerNestedRemove(t) PROVE Inv'
  BY <1>4, EndTypes, SwitchRest, NestedRemoveRest DEF Inv, Rest
<1>5. CASE UNCHANGED vars
  BY <1>5, SameInv DEF vars, queue, memory, ending, Inv, TypeOK
<1> QED  BY <1>1, <1>2, <1>3, <1>4, <1>5 DEF Next, Timer

LEMMA Invariance == Spec => []Inv
BY InitInv, NextInv, PTL DEF Spec

(* The types: whatever the interleaving of createThread, createProcess and *)
(* the timer, currentHeap and cr3 are always those of a thread that exists.*)
THEOREM Typing == Spec => []TypeOK
<1>1. Inv => TypeOK
  BY DEF Inv
<1> QED  BY <1>1, Invariance, PTL

(* [TaskManager.cpp addThread, handleTimerEvent] The ready queue always    *)
(* has an end and never holds current_thread, for any number of threads    *)
(* that create others and return, whatever node addThread stores into.     *)
THEOREM SoundQueue == Spec => []QueueSound
<1>1. Inv => QueueSound
  BY QueueEnds DEF Inv, QueueSound, Apart
<1> QED  BY <1>1, Invariance, PTL

(* [TaskManager.cpp thread_exit, handleTimerEvent] A thread that has       *)
(* returned is in the queue at no time, so removeThread has nothing to     *)
(* remove and no tick resumes a thread whose memory was freed.             *)
THEOREM DeadStayOut == Spec => []DeadNeverQueued
<1>1. Inv => DeadNeverQueued
  BY DEF Inv, Apart, Dead, DeadNeverQueued
<1> QED  BY <1>1, Invariance, PTL

----------------------------------------------------------------------------
(* The address space of the running thread. *)

(* The space is the thread's own in its code and in its calls of           *)
(* createThread; only createProcess leaves it, and goes back at its end.   *)
AtHome ==
    /\ \A t \in Thread :
          /\ ~halted /\ current = t
          /\ pc[t] = "launch" \/ (pc[t] \in Building /\ local[t].child \notin Processes)
          => cr3 = thread[t].pageDirectory
    /\ \A t \in Thread :
          pc[t] \in {"switchPd", "initHeap", "useHeap"} => local[t].child \in Processes

(* The switch to another thread loads that thread's page directory, or     *)
(* stops at its first frame, which is not its code yet.                    *)
LEMMA LoadAtHome ==
    ASSUME Inv, AtHome, NEW t \in Thread, NEW new \in Thread,
           NEW leave \in [Thread -> Labels], LoadContext(new, leave),
           leave[t] = pc[t] \/ leave[t] = "gone", \A u \in Thread \ {t} : leave[u] = pc[u],
           \A u \in Thread : thread'[u].pageDirectory = thread[u].pageDirectory,
           \A u \in Thread : pc'[u] \in Creating => local'[u] = local[u]
    PROVE  AtHome'
<1>1. /\ current' = new
      /\ ~halted' => pc'[new] = "popf" \/ cr3' = thread[new].pageDirectory
  BY DEF LoadContext
<1>2. \A u \in Thread : pc'[u] = pc[u] \/ pc'[u] \in {"gone", "popf"}
  BY LoadEffect
<1> QED  BY <1>1, <1>2 DEF AtHome, Building, Creating

LEMMA CallAtHome == ASSUME Inv, AtHome, NEW t \in Thread, ThreadStep(t), ~SwitchAway(t) PROVE AtHome'
<1>0. Typed /\ NULL \notin Thread
  BY TypedIs, ThreadAssumption DEF Inv
<1> USE DEF Runs, Goto, queue, memory, ending, Building
<1>1. ASSUME NEW c \in Thread, CreateThread(t, c) PROVE AtHome'
  <2>1. c # t /\ c \notin Processes /\ current = t /\ pc[t] = "launch" /\ pc[c] = "unused"
        /\ UNCHANGED <<current, halted, cr3>>
    BY <1>1 DEF CreateThread
  <2>2. /\ local'[t].child = c /\ \A u \in Thread \ {t} : local'[u] = local[u]
        /\ thread'[t].pageDirectory = thread[t].pageDirectory
        /\ \A u \in Thread : pc'[u] = IF u = t THEN "readTid" ELSE IF u = c THEN "embryo" ELSE pc[u]
    BY <1>0, <1>1, <2>1 DEF CreateThread, Typed, LocalRec, ThreadRec
  <2> QED  BY <2>1, <2>2 DEF AtHome
<1>2. ASSUME NEW c \in Thread, t = Main, CreateProcess(c) PROVE AtHome'
  <2>1. c # t /\ c \in Processes /\ current = t /\ pc[t] = "launch" /\ pc[c] = "unused"
        /\ UNCHANGED <<current, halted, cr3>>
    BY <1>2 DEF CreateProcess
  <2>2. /\ local'[t].child = c /\ \A u \in Thread \ {t} : local'[u] = local[u]
        /\ \A u \in Thread : pc'[u] = IF u = t THEN "switchPd" ELSE IF u = c THEN "embryo" ELSE pc[u]
    BY <1>0, <1>2, <2>1 DEF CreateProcess, Typed, LocalRec
  <2> QED  BY <2>1, <2>2 DEF AtHome
<1>3. CASE SwitchPageDirectory(t) \/ ConstructHeap(t) \/ UseHeap(t)
  BY <1>0, <1>3 DEF AtHome, SwitchPageDirectory, ConstructHeap, UseHeap, Typed
<1>4. CASE ReadTid(t) \/ WriteTid(t) \/ AddThread(t) \/ Walk(t)
  <2>1. /\ current = t /\ pc[t] \in Building /\ pc'[t] \in Building
        /\ local'[t].child = local[t].child
        /\ \A u \in Thread \ {t} : pc'[u] = pc[u] /\ local'[u] = local[u]
        /\ thread'[t].pageDirectory = thread[t].pageDirectory
        /\ UNCHANGED <<current, halted, cr3>>
    BY <1>0, <1>4 DEF ReadTid, WriteTid, AddThread, Walk, Typed, LocalRec, ThreadRec
  <2> QED  BY <2>1 DEF AtHome
<1>5. CASE AllocateStack(t)
  <2>1. PICK c \in Thread : c = local[t].child /\ pc[c] = "embryo" /\ c # t
    BY <1>5 DEF AllocateStack, Inv, Private, Creating, Made
  <2>2. /\ current = t /\ pc[t] = "stack" /\ UNCHANGED <<current, halted, cr3, local>>
        /\ thread'[t].pageDirectory = thread[t].pageDirectory
        /\ \A u \in Thread : pc'[u] = IF u = t THEN "test" ELSE IF u = c THEN "fresh" ELSE pc[u]
    BY <1>0, <1>5, <2>1 DEF AllocateStack, Typed, ThreadRec
  <2> QED  BY <2>1, <2>2 DEF AtHome
<1>6. CASE SetHead(t) \/ Link(t)
  <2>1. /\ current = t /\ pc[t] \in Building /\ UNCHANGED <<current, halted, cr3>>
        /\ thread'[t].pageDirectory = thread[t].pageDirectory
        /\ Added(t)
    BY <1>0, <1>6 DEF SetHead, Link, Typed, ThreadRec
  <2>2. /\ pc'[t] = "launch" => local[t].child \notin Processes
        /\ pc'[t] \in {"restoreHeap", "launch"}
        /\ \A u \in Thread \ {t} : pc'[u] = pc[u] /\ local'[u] = local[u]
    BY <1>0, <2>1, AddedEffect DEF Added, Typed
  <2> QED  BY <2>1, <2>2 DEF AtHome
<1>7. CASE RestoreHeap(t) \/ RestorePageDirectory(t) \/ ThreadStart(t)
  BY <1>0, <1>7 DEF AtHome, RestoreHeap, RestorePageDirectory, ThreadStart, Typed
<1>8. CASE ThreadExit(t)
  <2>1. /\ current = t /\ UNCHANGED <<current, halted, cr3, local>>
        /\ \A u \in Thread : pc'[u] = IF u = t THEN "exited" ELSE pc[u]
    BY <1>0, <1>8 DEF ThreadExit, Typed
  <2> QED  BY <2>1 DEF AtHome
<1>9. CASE Release(t)
  <2>1. current' = NULL /\ \A u \in Thread : pc'[u] = IF u = t THEN "pop" ELSE pc[u]
    BY <1>0, <1>9 DEF Release, Typed
  <2> QED  BY <1>0, <1>9, <2>1 DEF AtHome, Release
<1>10. CASE Pop(t)
  <2>1. /\ current = NULL /\ current' = current
        /\ \A u \in Thread : pc'[u] = IF u = t THEN "switch" ELSE pc[u]
        /\ \A u \in Thread \ {t} : local'[u] = local[u]
    BY <1>0, <1>10 DEF Pop, Inv, Ending, Typed
  <2> QED  BY <1>0, <2>1 DEF AtHome
<1> QED  BY <1>1, <1>2, <1>3, <1>4, <1>5, <1>6, <1>7, <1>8, <1>9, <1>10 DEF ThreadStep

LEMMA TimerAtHome ==
    ASSUME Inv, AtHome, Timer \/ \E t \in Thread : SwitchAway(t) PROVE AtHome'
<1>0. Typed /\ NULL \notin Thread
  BY TypedIs, ThreadAssumption DEF Inv
<1>1. CASE TimerRotate
  <2>1. readyQueue \in Thread /\ current \in Thread
    BY <1>0, <1>1 DEF TimerRotate, Typed, Pointer
  <2>2. /\ LoadContext(readyQueue, pc) /\ local' = local /\ pc \in [Thread -> Labels]
        /\ \A u \in Thread : thread'[u].pageDirectory = thread[u].pageDirectory
    BY <1>0, <1>1 DEF TimerRotate, Requeued, Typed, ThreadRec
  <2> QED  BY <2>1, <2>2, LoadAtHome
<1>2. CASE TimerRemove
  <2>1. /\ current \in Thread /\ UNCHANGED <<thread, current, cr3, halted, local>>
        /\ \A u \in Thread : pc'[u] = IF u = current THEN "release" ELSE pc[u]
    BY <1>0, <1>2 DEF TimerRemove, Goto, queue, memory, ending, Typed, Pointer
  <2> QED  BY <2>1 DEF AtHome, Building
<1>3. ASSUME NEW t \in Thread, NEW new \in Thread, LeaveFor(t, new), current = NULL PROVE AtHome'
  <2> DEFINE leave == [pc EXCEPT ![t] = "gone"]
  <2>1. /\ thread' = thread /\ \A u \in Thread \ {t} : local'[u] = local[u]
        /\ leave \in [Thread -> Labels] /\ leave[t] = "gone"
        /\ \A u \in Thread \ {t} : leave[u] = pc[u]
    BY <1>0, <1>3 DEF LeaveFor, Typed, Labels
  <2>2. CASE LoadContext(new, leave)
    <3> HIDE DEF leave
    <3>1. pc'[t] \notin Creating
      BY <2>1, <2>2, LoadEffect DEF Creating, Building
    <3> QED  BY <2>1, <2>2, <3>1, LoadAtHome
  <2>3. CASE halted' = TRUE /\ Goto(t, "gone") /\ UNCHANGED <<current, cr3>>
    BY <1>0, <1>3, <2>1, <2>3 DEF Goto, AtHome, Building, Typed
  <2> QED  BY <1>3, <2>2, <2>3 DEF LeaveFor
<1>4. ASSUME NEW t \in Thread, SwitchAway(t) \/ TimerNested(t) PROVE AtHome'
  <2>1. current = NULL
    BY <1>4 DEF SwitchAway, TimerNested, Inv, Ending
  <2>2. CASE SwitchAway(t)
    <3>1. local[t].new \in Thread
      BY <2>2 DEF SwitchAway, Inv, Apart
    <3> QED  BY <1>3, <2>1, <2>2, <3>1 DEF SwitchAway
  <2>3. CASE TimerNested(t)
    <3>1. readyQueue \in Thread
      BY <1>0, <2>3 DEF TimerNested, Typed, Pointer
    <3> QED  BY <1>3, <2>1, <2>3, <3>1 DEF TimerNested
  <2> QED  BY <1>4, <2>2, <2>3
<1>5. ASSUME NEW t \in Thread, TimerNestedRemove(t) PROVE AtHome'
  BY <1>0, <1>5, NestedRemoveEffect DEF AtHome, Building
<1> QED  BY <1>1, <1>2, <1>4, <1>5 DEF Timer

(* [TaskManager.cpp createProcess, thread_asm.s switch_thread] A thread    *)
(* executes its own code in its own address space, although createProcess  *)
(* changes cr3 with interrupts enabled and switch_thread enables them      *)
(* before it has loaded cr3.                                               *)
THEOREM ThreadsRunAtHome == Spec => []RunsAtHome
<1>1. Init => AtHome
  BY DEF Init, NoThread, AtHome, Building
<1>2. Inv /\ AtHome /\ [Next]_vars => AtHome'
  <2> SUFFICES ASSUME Inv, AtHome, [Next]_vars PROVE AtHome'
    OBVIOUS
  <2>1. CASE UNCHANGED vars
    BY <2>1 DEF AtHome, vars, queue, memory, ending
  <2> QED  BY <2>1, CallAtHome, TimerAtHome DEF Next
<1>3. AtHome => RunsAtHome
  BY DEF AtHome, RunsAtHome, Runs
<1> QED  BY <1>1, <1>2, <1>3, Invariance, PTL DEF Spec

----------------------------------------------------------------------------
(* The heaps. *)

Calling == {"switchPd", "initHeap", "useHeap", "restoreHeap", "restorePd"}

(* Only the thread that runs createProcess can have another heap in use    *)
(* than its own, and that is Main.                                         *)
HeapInUse ==
    /\ \A t \in Thread :
          pc[t] \in Calling \/ (pc[t] \in Building /\ local[t].child \in Processes) => t = Main
    /\ current \notin {NULL, Main} => currentHeap = thread[current].heap

LEMMA StepHeaps ==
    ASSUME Inv, HeapInUse, NEW t \in Thread, ThreadStep(t), ~SwitchAway(t)
    PROVE  /\ HeapInUse'
           /\ \A u \in Thread : pc[u] # "unused" => thread'[u].heap = thread[u].heap
<1>0. Typed /\ NULL \notin Thread
  BY TypedIs, ThreadAssumption DEF Inv
<1> DEFINE Kept == \A u \in Thread : thread'[u].heap = thread[u].heap
<1> USE DEF Runs, Goto, queue, memory, ending, Building, Calling
<1>1. ASSUME NEW c \in Thread, CreateThread(t, c) \/ (t = Main /\ CreateProcess(c))
      PROVE  /\ HeapInUse'
             /\ \A u \in Thread : pc[u] # "unused" => thread'[u].heap = thread[u].heap
  <2>1. c # t /\ current = t /\ pc[t] = "launch" /\ pc[c] = "unused"
        /\ current' = current /\ currentHeap' = currentHeap
    BY <1>1 DEF CreateThread, CreateProcess
  <2>2. /\ local'[t].child = c /\ (t # Main => c \notin Processes /\ pc'[t] = "readTid")
        /\ \A u \in Thread \ {t} : local'[u] = local[u]
        /\ \A u \in Thread \ {c} : thread'[u].heap = thread[u].heap
        /\ \A u \in Thread \ {c, t} : pc'[u] = pc[u]
        /\ pc'[c] = "embryo"
    BY <1>0, <1>1, <2>1 DEF CreateThread, CreateProcess, Typed, LocalRec, ThreadRec
  <2> QED  BY <2>1, <2>2 DEF HeapInUse
<1>2. CASE SwitchPageDirectory(t) \/ ConstructHeap(t) \/ UseHeap(t) \/ RestoreHeap(t)
           \/ RestorePageDirectory(t)
  <2>1. /\ t = Main /\ current = t /\ current' = t /\ thread' = thread
        /\ \A u \in Thread \ {t} : pc'[u] = pc[u] /\ local'[u] = local[u]
    BY <1>0, <1>2 DEF SwitchPageDirectory, ConstructHeap, UseHeap, RestoreHeap,
                      RestorePageDirectory, HeapInUse, Typed
  <2> QED  BY <2>1 DEF HeapInUse
<1>3. CASE ReadTid(t) \/ WriteTid(t) \/ AddThread(t) \/ Walk(t)
  <2>1. Kept
    BY <1>0, <1>3 DEF ReadTid, WriteTid, AddThread, Walk, Typed, ThreadRec
  <2>2. /\ current' = current /\ currentHeap' = currentHeap
        /\ pc[t] \in Building /\ pc'[t] \in Building
        /\ \A u \in Thread \ {t} : pc'[u] = pc[u] /\ local'[u] = local[u]
    BY <1>0, <1>3 DEF ReadTid, WriteTid, AddThread, Walk, Typed
  <2>3. local'[t].child = local[t].child
    BY <1>0, <1>3 DEF ReadTid, WriteTid, AddThread, Walk, Typed, LocalRec
  <2> QED  BY <1>0, <2>1, <2>2, <2>3 DEF HeapInUse, Typed, Pointer
<1>4. CASE AllocateStack(t)
  <2>1. PICK c \in Thread : c = local[t].child /\ c # t
    BY <1>4 DEF AllocateStack, Inv, Private, Creating, Unseen
  <2>2. /\ current' = current /\ currentHeap' = currentHeap /\ Kept /\ local' = local
        /\ pc[t] \in Building
        /\ \A u \in Thread : pc'[u] = IF u = t THEN "test" ELSE IF u = c THEN "fresh" ELSE pc[u]
    BY <1>0, <1>4, <2>1 DEF AllocateStack, Typed, ThreadRec
  <2> QED  BY <1>0, <2>2 DEF HeapInUse, Typed, Pointer
<1>5. CASE SetHead(t) \/ Link(t)
  <2>1. /\ current' = current /\ currentHeap' = currentHeap /\ Kept /\ Added(t)
        /\ pc[t] \in Building
    BY <1>0, <1>5 DEF SetHead, Link, Typed, ThreadRec
  <2>2. /\ pc'[t] = "launch" \/ (pc'[t] = "restoreHeap" /\ local[t].child \in Processes)
        /\ \A u \in Thread \ {t} : pc'[u] = pc[u] /\ local'[u] = local[u]
    BY <1>0, <2>1, AddedEffect DEF Added, Typed
  <2> QED  BY <1>0, <2>1, <2>2 DEF HeapInUse, Typed, Pointer
<1>6. CASE ThreadStart(t) \/ ThreadExit(t)
  <2>1. /\ current' = current /\ currentHeap' = currentHeap /\ Kept /\ local' = local
        /\ pc'[t] \in {"launch", "exited"}
        /\ \A u \in Thread \ {t} : pc'[u] = pc[u]
    BY <1>0, <1>6 DEF ThreadStart, ThreadExit, Typed, ThreadRec
  <2> QED  BY <1>0, <2>1 DEF HeapInUse, Typed, Pointer
<1>7. CASE Release(t)
  <2>1. thread' = thread /\ current' = NULL /\ local' = local
        /\ \A u \in Thread : pc'[u] = IF u = t THEN "pop" ELSE pc[u]
    BY <1>0, <1>7, RemovesNothing DEF Release, Typed
  <2> QED  BY <2>1 DEF HeapInUse
<1>8. CASE Pop(t)
  <2>1. /\ thread' = thread /\ current = NULL /\ current' = NULL
        /\ \A u \in Thread : pc'[u] = IF u = t THEN "switch" ELSE pc[u]
        /\ \A u \in Thread \ {t} : local'[u] = local[u]
    BY <1>0, <1>8 DEF Pop, Inv, Ending, Typed
  <2> QED  BY <2>1 DEF HeapInUse
<1> QED  BY <1>1, <1>2, <1>3, <1>4, <1>5, <1>6, <1>7, <1>8 DEF ThreadStep

LEMMA SwitchHeaps ==
    ASSUME Inv, HeapInUse, Timer \/ \E t \in Thread : SwitchAway(t)
    PROVE  /\ HeapInUse'
           /\ \A u \in Thread \ {Main} : thread'[u].heap = thread[u].heap
<1>0. Typed /\ NULL \notin Thread
  BY TypedIs, ThreadAssumption DEF Inv
<1> USE DEF Building, Calling
<1>1. CASE TimerRotate
  <2>1. PICK R \in Thread, L \in Thread, C \in Thread : Rotates(R, L, C)
    BY <1>1, RotateEffect
  <2>2. \A u \in Thread \ {Main} : thread'[u].heap = thread[u].heap
    BY <2>1 DEF Rotates, HeapInUse
  <2> QED  BY <2>1, <2>2 DEF Rotates, HeapInUse
<1>2. CASE TimerRemove
  <2>1. /\ UNCHANGED <<thread, current, currentHeap, local>>
        /\ \A u \in Thread : pc'[u] = pc[u] \/ pc'[u] = "release"
    BY <1>0, <1>2 DEF TimerRemove, Goto, queue, memory, ending, Typed, Pointer
  <2> QED  BY <2>1 DEF HeapInUse
<1>3. ASSUME NEW t \in Thread, NEW new \in Thread, LeaveFor(t, new), current = NULL
      PROVE  HeapInUse' /\ thread' = thread
  <2> DEFINE leave == [pc EXCEPT ![t] = "gone"]
  <2>1. /\ thread' = thread /\ currentHeap' = thread[new].heap
        /\ \A u \in Thread \ {t} : local'[u] = local[u]
        /\ leave \in [Thread -> Labels] /\ leave[t] = "gone"
        /\ \A u \in Thread \ {t} : leave[u] = pc[u]
    BY <1>0, <1>3 DEF LeaveFor, Typed, Labels
  <2>2. /\ current' \in {NULL, new}
        /\ \A u \in Thread : pc'[u] \in {"gone", "popf"} \/ (u # t /\ pc'[u] = pc[u])
    <3>1. CASE LoadContext(new, leave)
      <4> HIDE DEF leave
      <4> QED  BY <2>1, <3>1, LoadEffect
    <3>2. CASE Goto(t, "gone") /\ UNCHANGED <<current, cr3>>
      BY <1>0, <1>3, <2>1, <3>2 DEF Goto, Typed
    <3> QED  BY <1>3, <3>1, <3>2 DEF LeaveFor
  <2> QED  BY <2>1, <2>2 DEF HeapInUse
<1>4. ASSUME NEW t \in Thread, SwitchAway(t) \/ TimerNested(t)
      PROVE  HeapInUse' /\ thread' = thread
  <2>1. current = NULL
    BY <1>4 DEF SwitchAway, TimerNested, Inv, Ending
  <2>2. CASE SwitchAway(t)
    <3>1. local[t].new \in Thread
      BY <2>2 DEF SwitchAway, Inv, Apart
    <3> QED  BY <1>3, <2>1, <2>2, <3>1 DEF SwitchAway
  <2>3. CASE TimerNested(t)
    <3>1. readyQueue \in Thread
      BY <1>0, <2>3 DEF TimerNested, Typed, Pointer
    <3> QED  BY <1>3, <2>1, <2>3, <3>1 DEF TimerNested
  <2> QED  BY <1>4, <2>2, <2>3
<1>5. ASSUME NEW t \in Thread, TimerNestedRemove(t)
      PROVE  HeapInUse' /\ thread' = thread
  BY <1>0, <1>5, NestedRemoveEffect DEF HeapInUse
<1> QED  BY <1>1, <1>2, <1>4, <1>5 DEF Timer

(* [TaskManager.cpp:229] The timer stores the heap in use into the thread  *)
(* it leaves; for every thread but Main, which runs createProcess, this is *)
(* the heap it was created with, whoever creates and ends meanwhile.       *)
THEOREM OwnHeaps == Spec => HeapsStay
<1>1. Init => HeapInUse
  BY DEF Init, HeapInUse, Calling, Building
<1>2. ASSUME Inv, HeapInUse, [Next]_vars
      PROVE  /\ HeapInUse'
             /\ [\A t \in Thread \ {Main} : pc[t] # "unused" => thread'[t].heap = thread[t].heap]_vars
  <2>1. CASE UNCHANGED vars
    <3>1. HeapInUse'
      BY <1>2, <2>1 DEF HeapInUse, vars, queue, memory, ending
    <3> QED  BY <2>1, <3>1
  <2>2. CASE Next
    <3>1. \/ \E t \in Thread : ThreadStep(t) /\ ~SwitchAway(t)
          \/ Timer \/ \E t \in Thread : SwitchAway(t)
      BY <2>2 DEF Next
    <3>2. HeapInUse'
      BY <1>2, <3>1, StepHeaps, SwitchHeaps
    <3>3. \A t \in Thread \ {Main} : pc[t] # "unused" => thread'[t].heap = thread[t].heap
      BY <1>2, <3>1, StepHeaps, SwitchHeaps
    <3> QED  BY <3>2, <3>3
  <2> QED  BY <1>2, <2>1, <2>2
<1> QED  BY <1>1, <1>2, Invariance, PTL DEF Spec, HeapsStay

----------------------------------------------------------------------------
(* While no thread returns. *)

(* The queue has one end: each node but the first is linked from another,  *)
(* so with two ends there would be fewer links than nodes to link to.      *)
LEMMA OneEnd ==
    ASSUME TypeOK, Chain, NEW u \in Queue, NEW v \in Queue,
           thread[u].next = NULL, thread[v].next = NULL
    PROVE  u = v
<1> SUFFICES ASSUME u # v PROVE FALSE
  OBVIOUS
<1> DEFINE S == Queue \ {readyQueue}
           T == Queue \ {u, v}
           g == [x \in S |-> CHOOSE y \in Queue : thread[y].next = x]
<1>1. FollowsLinks(Queue) /\ Queue \in SUBSET Thread
  BY QueueClosed
<1>2. IsFiniteSet(Queue)
  BY <1>1, FS_Subset, ThreadAssumption
<1>3. readyQueue \in Queue
  <2>1. readyQueue = NULL => FollowsLinks({})
    BY DEF FollowsLinks
  <2>2. readyQueue # NULL
    BY <2>1 DEF Queue
  <2> QED  BY <1>1, <2>2 DEF FollowsLinks
<1>4. ASSUME NEW x \in S PROVE \E y \in Queue : thread[y].next = x
  <2> SUFFICES ASSUME \A y \in Queue : thread[y].next # x PROVE FALSE
    OBVIOUS
  <2>1. FollowsLinks(Queue \ {x}) /\ Queue \ {x} \in SUBSET Thread
    BY <1>1, <1>3 DEF FollowsLinks
  <2>2. \A y \in Queue : y \in Queue \ {x}
    BY <2>1 DEF Queue
  <2> QED  BY <1>4, <2>2
<1>5. \A x \in S : g[x] \in Queue /\ thread[g[x]].next = x
  BY <1>4
<1>6. g \in [S -> T]
  <2>1. \A x \in S : x # NULL
    BY <1>1, ThreadAssumption
  <2> QED  BY <1>5, <2>1
<1>7. IsFiniteSet(S) /\ Cardinality(S) = Cardinality(Queue) - 1
  BY <1>2, <1>3, FS_RemoveElement
<1>8. IsFiniteSet(T) /\ Cardinality(T) = Cardinality(Queue) - 2
  <2>1. IsFiniteSet(Queue \ {u}) /\ Cardinality(Queue \ {u}) = Cardinality(Queue) - 1
    BY <1>2, FS_RemoveElement
  <2>2. /\ IsFiniteSet((Queue \ {u}) \ {v})
        /\ Cardinality((Queue \ {u}) \ {v}) = Cardinality(Queue \ {u}) - 1
    BY <2>1, FS_RemoveElement
  <2>3. T = (Queue \ {u}) \ {v} /\ Cardinality(Queue) \in Nat
    BY <1>2, FS_CardinalityType
  <2> QED  BY <2>1, <2>2, <2>3
<1>9. Cardinality(T) < Cardinality(S)
  BY <1>2, <1>7, <1>8, FS_CardinalityType
<1>10. \E x, y \in S : x # y /\ g[x] = g[y]
  <2> HIDE DEF g, S, T
  <2> QED  BY <1>6, <1>7, <1>8, <1>9, FS_PigeonHole
<1> QED  BY <1>5, <1>10

(* A tick loses no node of the queue. *)
LEMMA RotateQueue ==
    ASSUME Inv, NEW R \in Thread, NEW L \in Thread, NEW C \in Thread, Rotates(R, L, C)
    PROVE  Queue' = (Queue \cup {C}) \ {R}
<1>1. FollowsLinks(Queue) /\ Queue \in SUBSET Thread
  BY QueueClosed DEF Inv
<1>2. ASSUME NEW S \in SUBSET Thread, FollowsLinks(S)'
      PROVE  (Queue \cup {C}) \ {R} \subseteq S
  <2> DEFINE U == (S \cap Queue) \cup {R}
  <2>1. \A u \in Queue : u # L => thread'[u].next = thread[u].next
    BY <1>1 DEF Rotates
  <2>2. \A u \in S \cap Queue : thread[u].next \in U \cup {NULL}
    BY <1>1, <1>2, <2>1 DEF Rotates, FollowsLinks
  <2>3. thread[R].next \in U \cup {NULL}
    <3>1. CASE R = L
      BY <3>1 DEF Rotates
    <3>2. CASE R # L
      BY <1>1, <1>2, <2>1, <3>2 DEF Rotates, FollowsLinks
    <3> QED  BY <3>1, <3>2
  <2>4. FollowsLinks(U) /\ U \in SUBSET Thread
    BY <1>1, <2>2, <2>3 DEF Rotates, FollowsLinks
  <2>5. Queue \subseteq U
    <3> HIDE DEF U
    <3> QED  BY <2>4 DEF Queue
  <2>6. C \in S
    <3>1. thread'[L].next = C /\ C # NULL
      BY DEF Rotates
    <3>2. CASE L = R
      BY <1>2, <3>1, <3>2 DEF Rotates, FollowsLinks
    <3>3. CASE L # R
      <4>1. L \in S
        BY <2>5, <3>3 DEF Rotates
      <4> QED  BY <1>2, <3>1, <4>1 DEF FollowsLinks
    <3> QED  BY <3>2, <3>3
  <2> QED  BY <2>5, <2>6
<1>3. (Queue \cup {C}) \ {R} \subseteq Queue'
  BY <1>1, <1>2 DEF Queue
<1> QED  BY <1>3 DEF Rotates

(* What is linked behind the last node is queued, and so is all that was.  *)
LEMMA LinkQueue ==
    ASSUME Inv, NEW t \in Thread, Link(t), NEW c \in Thread, c = local[t].child,
           NEW i \in Queue, i = local[t].iterator, thread[i].next = NULL
    PROVE  Queue' = Queue \cup {c}
<1>0. Typed /\ FollowsLinks(Queue) /\ Queue \in SUBSET Thread
  BY TypedIs, QueueClosed DEF Inv
<1>1. Unseen(c) /\ readyQueue' = readyQueue /\ c # NULL
  BY ThreadAssumption DEF Link, Runs, Inv, Private, Creating, Building
<1>2. \A u \in Thread : thread'[u].next = IF u = i THEN c ELSE thread[u].next
  BY <1>0 DEF Link, Typed, ThreadRec
<1>3. Queue' \subseteq Queue \cup {c}
  <2> DEFINE S == Queue \cup {c}
  <2>1. S \in SUBSET Thread
    BY <1>0
  <2>2. /\ readyQueue' \in S \cup {NULL}
        /\ \A u \in S : thread'[u].next \in S \cup {NULL}
    BY <1>0, <1>1, <1>2 DEF FollowsLinks, Unseen
  <2>3. Queue' \subseteq S
    <3> HIDE DEF S
    <3> QED  BY <2>1, <2>2, QueueLeast DEF FollowsLinks
  <2> QED  BY <2>3
<1>4. ASSUME NEW S \in SUBSET Thread, FollowsLinks(S)' PROVE Queue \cup {c} \subseteq S
  <2> DEFINE U == S \cap Queue
  <2>1. FollowsLinks(U) /\ U \in SUBSET Thread
    BY <1>0, <1>1, <1>2, <1>4 DEF FollowsLinks
  <2>2. Queue \subseteq U
    <3> HIDE DEF U
    <3> QED  BY <2>1 DEF Queue
  <2>3. c \in S
    BY <1>0, <1>1, <1>2, <1>4, <2>2 DEF FollowsLinks
  <2> QED  BY <2>2, <2>3
<1>5. Queue \cup {c} \subseteq Queue'
  BY <1>0, <1>4 DEF Queue
<1> QED  BY <1>3, <1>5

(* The thread before t in the round of the running thread and the queue.   *)
Before(i, t) ==
    IF t = current THEN i \in Queue /\ thread[i].next = NULL
    ELSE IF t = readyQueue THEN i = current
    ELSE i \in Queue /\ thread[i].next = t

(* Nobody ends. *)
NoneEnds ==
    /\ current # NULL
    /\ \A t \in Thread : pc[t] \notin {"exited", "release"} \cup Dead /\ ~thread[t].remove

(* A thread that was made stays in the round, from the store that links it.*)
InRound ==
    \A t \in Thread : pc[t] \notin {"unused", "embryo"} =>
        \/ t = current \/ t \in Queue
        \/ pc[t] = "fresh" /\ \E u \in Thread : pc[u] \in Made /\ local[u].child = t

(* The walk of addThread is in the round, at another thread than its own,  *)
(* and the end it has found stays the one before its thread: only that     *)
(* thread can put another between them.                                    *)
Walking ==
    \A t \in Thread :
        /\ pc[t] = "setHead" => current = t /\ readyQueue = NULL
        /\ pc[t] = "walk" => local[t].iterator \in (Queue \cup {current}) \ {t}
        /\ pc[t] = "link" => Before(local[t].iterator, t)

Lasting == NoneEnds /\ InRound /\ Walking

LEMMA QuietLasts ==
    ASSUME Inv, Lasting, NEW t \in Thread,
           current = t /\ current' = t /\ readyQueue' = readyQueue,
           \A u \in Thread :
              /\ thread'[u].next = thread[u].next /\ thread'[u].remove = thread[u].remove
              /\ u # t =>
                    /\ local'[u] = local[u]
                    /\ \/ pc'[u] = pc[u]
                       \/ pc[u] = "unused" /\ pc'[u] = "embryo"
                       \/ pc[u] = "embryo" /\ pc'[u] = "fresh" /\ pc'[t] \in Made /\ local'[t].child = u,
           pc'[t] \notin {"exited", "release"} \cup Dead,
           pc[t] \in Made => pc'[t] \in Made /\ local'[t].child = local[t].child,
           pc'[t] = "setHead" => readyQueue = NULL,
           pc'[t] = "walk" => local'[t].iterator \in Queue,
           pc'[t] = "link" => local'[t].iterator \in Queue /\ thread[local'[t].iterator].next = NULL
    PROVE  Lasting'
<1>1. Queue' = Queue /\ Queue \in SUBSET Thread /\ t \notin Queue
  BY QueueSame, QueueClosed DEF Inv, Apart
<1>2. NoneEnds'
  BY DEF Lasting, NoneEnds, Dead
<1>3. InRound'
  BY <1>1 DEF Lasting, InRound, Made
<1>4. Walking'
  <2>1. ASSUME NEW u \in Thread, u # t, pc'[u] = "link" PROVE Before(local[u].iterator, u)'
    <3>1. pc[u] = "link" /\ Before(local[u].iterator, u) /\ local'[u] = local[u]
      BY <2>1 DEF Lasting, Walking
    <3>2. local[u].iterator \in Thread
      BY <3>1 DEF Inv, Private
    <3> QED  BY <1>1, <3>1, <3>2 DEF Before
  <2>2. pc'[t] = "link" => Before(local[t].iterator, t)'
    BY <1>1 DEF Before
  <2>3. \A u \in Thread : pc'[u] = "walk" => local'[u].iterator \in (Queue' \cup {current'}) \ {u}
    BY <1>1 DEF Lasting, Walking
  <2>4. \A u \in Thread : pc'[u] = "setHead" => current' = u /\ readyQueue' = NULL
    BY DEF Lasting, Walking
  <2> QED  BY <2>1, <2>2, <2>3, <2>4 DEF Walking
<1> QED  BY <1>2, <1>3, <1>4 DEF Lasting

LEMMA StepLasts ==
    ASSUME Returning = {}, Inv, Lasting, NEW t \in Thread, ThreadStep(t), ~SetHead(t), ~Link(t)
    PROVE  Lasting'
<1>0. Typed
  BY TypedIs DEF Inv
<1> USE DEF Runs, Goto, queue, memory, ending, Made, Dead
<1>1. ASSUME NEW c \in Thread, CreateThread(t, c) \/ (t = Main /\ CreateProcess(c)) PROVE Lasting'
  <2>1. c # t /\ current = t /\ pc[t] = "launch" /\ pc[c] = "unused"
        /\ current' = t /\ readyQueue' = readyQueue
    BY <1>1 DEF CreateThread, CreateProcess
  <2>2. /\ \A u \in Thread \ {t} : local'[u] = local[u]
        /\ \A u \in Thread \ {c, t} : pc'[u] = pc[u]
        /\ pc'[c] = "embryo" /\ pc'[t] \in {"readTid", "switchPd"}
    BY <1>0, <1>1, <2>1 DEF CreateThread, CreateProcess, Typed
  <2>3. \A u \in Thread : thread'[u].next = thread[u].next /\ thread'[u].remove = thread[u].remove
    <3>1. PICK p, h : thread' = [thread EXCEPT ![c].pageDirectory = p, ![c].heap = h]
      BY <1>1 DEF CreateThread, CreateProcess
    <3> QED  BY <1>0, <3>1 DEF Typed, ThreadRec
  <2> QED  BY <2>1, <2>2, <2>3, QuietLasts
<1>2. CASE SwitchPageDirectory(t) \/ ConstructHeap(t) \/ UseHeap(t) \/ RestoreHeap(t)
           \/ RestorePageDirectory(t) \/ ThreadStart(t) \/ ReadTid(t)
  BY <1>0, <1>2, QuietLasts
     DEF SwitchPageDirectory, ConstructHeap, UseHeap, RestoreHeap, RestorePageDirectory,
         ThreadStart, ReadTid, Typed
<1>3. CASE WriteTid(t)
  BY <1>0, <1>3, QuietLasts DEF WriteTid, Typed, ThreadRec
<1>4. CASE AllocateStack(t)
  <2>1. PICK c \in Thread : c = local[t].child /\ c # t /\ pc[c] = "embryo"
    BY <1>4 DEF AllocateStack, Inv, Private, Creating, Building, Unseen
  <2>2. /\ current = t /\ current' = t /\ readyQueue' = readyQueue /\ local' = local
        /\ pc[t] = "stack"
        /\ \A u \in Thread : pc'[u] = IF u = t THEN "test" ELSE IF u = c THEN "fresh" ELSE pc[u]
    BY <1>0, <1>4, <2>1 DEF AllocateStack, Typed
  <2>3. \A u \in Thread : thread'[u].next = thread[u].next /\ thread'[u].remove = thread[u].remove
    BY <1>0, <1>4 DEF AllocateStack, Typed, ThreadRec
  <2> QED  BY <2>1, <2>2, <2>3, QuietLasts
<1>5. CASE AddThread(t)
  <2>1. readyQueue # NULL => readyQueue \in Queue
    BY QueueClosed DEF Inv, FollowsLinks
  <2> QED  BY <1>0, <1>5, <2>1, QuietLasts DEF AddThread, Typed, LocalRec
<1>6. CASE Walk(t)
  <2>1. current = t /\ pc[t] = "walk" /\ local[t].iterator \in Queue
    BY <1>6 DEF Walk, Lasting, Walking
  <2>2. thread[local[t].iterator].next \in Queue \cup {NULL}
    BY <2>1, QueueClosed DEF Inv, FollowsLinks
  <2>3. local'[t].child = local[t].child
        /\ local'[t].iterator \in {local[t].iterator, thread[local[t].iterator].next}
    BY <1>0, <1>6 DEF Walk, Typed, LocalRec
  <2> QED  BY <1>0, <1>6, <2>1, <2>2, <2>3, QuietLasts DEF Walk, Typed, LocalRec
<1>7. ~ThreadExit(t) /\ ~Release(t) /\ ~Pop(t) /\ ~SwitchAway(t)
  BY DEF ThreadExit, Release, Pop, SwitchAway, Lasting, NoneEnds
<1> QED  BY <1>1, <1>2, <1>3, <1>4, <1>5, <1>6, <1>7 DEF ThreadStep

LEMMA SetHeadLasts ==
    ASSUME Inv, Lasting, NEW t \in Thread, SetHead(t) PROVE Lasting'
<1>0. Typed
  BY TypedIs DEF Inv
<1>1. PICK c \in Thread : c = local[t].child /\ Unseen(c)
  BY DEF SetHead, Runs, Inv, Private, Creating, Building
<1>2. /\ current = t /\ current' = t /\ readyQueue = NULL /\ readyQueue' = c
      /\ thread' = thread /\ Added(t) /\ c # t
  BY <1>1 DEF SetHead, Runs, Lasting, Walking, Unseen
<1>3. /\ pc'[t] \in {"restoreHeap", "launch"}
      /\ \A u \in Thread \ {t} : pc'[u] = pc[u] /\ local'[u] = local[u]
  BY <1>0, <1>2, AddedEffect
<1>4. Queue = {}
  <2>1. FollowsLinks({})
    BY <1>2 DEF FollowsLinks
  <2> QED  BY <2>1 DEF Queue
<1>5. c \in Queue'
  BY <1>2, ThreadAssumption DEF Queue, FollowsLinks
<1>6. NoneEnds'
  BY <1>2, <1>3 DEF Lasting, NoneEnds, Dead
<1>7. InRound'
  BY <1>1, <1>2, <1>3, <1>4, <1>5 DEF Lasting, InRound, Made
<1>8. Walking'
  BY <1>2, <1>3, <1>4 DEF Lasting, Walking, InRound
<1> QED  BY <1>6, <1>7, <1>8 DEF Lasting

LEMMA LinkLasts ==
    ASSUME Inv, Lasting, NEW t \in Thread, Link(t) PROVE Lasting'
<1>0. Typed /\ Queue \in SUBSET Thread /\ NULL \notin Thread
  BY TypedIs, QueueClosed, ThreadAssumption DEF Inv
<1>1. PICK c \in Thread : c = local[t].child /\ Unseen(c)
  BY DEF Link, Runs, Inv, Private, Creating, Building
<1>2. current = t /\ current' = t /\ readyQueue' = readyQueue /\ Added(t)
  BY DEF Link, Runs
<1>3. PICK i \in Queue : i = local[t].iterator /\ thread[i].next = NULL
  BY <1>2 DEF Link, Runs, Lasting, Walking, Before
<1>4. /\ pc'[t] \in {"restoreHeap", "launch"}
      /\ \A u \in Thread \ {t} : pc'[u] = pc[u] /\ local'[u] = local[u]
  BY <1>0, <1>2, AddedEffect
<1>5. \A u \in Thread : thread'[u].next = IF u = i THEN c ELSE thread[u].next
  BY <1>0, <1>1, <1>3 DEF Link, Typed, ThreadRec
<1>6. \A u \in Thread : thread'[u].remove = thread[u].remove
  <2>1. thread' = [thread EXCEPT ![i].next = c]
    BY <1>1, <1>3 DEF Link
  <2> QED  BY <1>0, <2>1 DEF Typed, ThreadRec
<1>7. Queue' = Queue \cup {c}
  BY <1>1, <1>3, LinkQueue
<1>8. NoneEnds'
  BY <1>2, <1>4, <1>6 DEF Lasting, NoneEnds, Dead
<1>9. InRound'
  BY <1>1, <1>2, <1>4, <1>7 DEF Lasting, InRound, Made
<1>10. Walking'
  <2>1. ASSUME NEW u \in Thread, pc'[u] = "link" PROVE Before(local[u].iterator, u)'
    <3>1. u # t /\ pc[u] = "link" /\ Before(local[u].iterator, u) /\ local'[u] = local[u]
      BY <1>4, <2>1 DEF Lasting, Walking
    <3>2. local[u].iterator \in Thread
      BY <3>1 DEF Inv, Private
    <3> QED  BY <1>0, <1>2, <1>3, <1>5, <1>7, <3>1, <3>2 DEF Before
  <2> QED  BY <1>2, <1>4, <1>7, <2>1 DEF Lasting, Walking
<1> QED  BY <1>8, <1>9, <1>10 DEF Lasting

LEMMA RotateLasts == ASSUME Inv, Lasting, TimerRotate PROVE Lasting'
<1>0. Typed /\ FollowsLinks(Queue) /\ Queue \in SUBSET Thread /\ NULL \notin Thread
  BY TypedIs, QueueClosed, ThreadAssumption DEF Inv
<1>1. PICK R \in Thread, L \in Thread, C \in Thread : Rotates(R, L, C)
  BY RotateEffect
<1>2. Queue' = (Queue \cup {C}) \ {R}
  BY <1>1, RotateQueue
<1>3. /\ C = current /\ R = readyQueue /\ R \in Queue /\ C \notin Queue /\ L \in Queue
      /\ current' = R /\ local' = local /\ readyQueue' = thread'[R].next
      /\ thread[L].next = NULL
      /\ \A u \in Thread : thread'[u].next = IF u = C THEN NULL ELSE IF u = L THEN C ELSE thread[u].next
      /\ \A u \in Thread : pc'[u] = pc[u] \/ (u = R /\ pc[u] = "fresh" /\ pc'[u] = "popf")
  BY <1>1 DEF Rotates
<1>4. NoneEnds'
  BY <1>1 DEF Rotates, Lasting, NoneEnds, Dead
<1>5. InRound'
  BY <1>2, <1>3 DEF Lasting, InRound, Made
<1>6. Walking'
  <2>1. ASSUME NEW u \in Thread, pc'[u] = "link" PROVE Before(local[u].iterator, u)'
    <3>1. PICK i \in Thread : i = local[u].iterator /\ i = local'[u].iterator
      BY <1>3, <2>1 DEF Inv, Private
    <3>2. pc[u] = "link" /\ Before(i, u) /\ (u = C \/ u \in Queue)
      BY <1>3, <2>1, <3>1 DEF Lasting, Walking, InRound
    <3>3. CASE u = C
      <4>1. i = L
        BY <1>3, <3>2, <3>3, OneEnd DEF Before, Inv
      <4>2. u # R /\ (L = R => readyQueue' = C) /\ (L # R => L \in Queue' /\ thread'[L].next = C)
        BY <1>2, <1>3, <3>3
      <4>3. L # R => readyQueue' # C
        BY <1>0, <1>3 DEF FollowsLinks
      <4> QED  BY <1>3, <3>1, <3>3, <4>1, <4>2, <4>3 DEF Before
    <3>4. CASE u = R
      BY <1>2, <1>3, <3>1, <3>2, <3>4 DEF Before
    <3>5. CASE u # C /\ u # R
      <4>1. i \in Queue /\ thread[i].next = u /\ u \in Queue
        BY <1>3, <3>2, <3>5 DEF Before
      <4>2. i # L /\ i # C /\ thread'[i].next = u
        BY <1>0, <1>3, <4>1
      <4>3. CASE i = R
        BY <1>3, <3>1, <3>5, <4>2, <4>3 DEF Before
      <4>4. CASE i # R
        <5>1. readyQueue' # u
          BY <1>0, <1>3, <3>5, <4>1, <4>4 DEF Inv, Chain
        <5> QED  BY <1>2, <1>3, <3>1, <3>5, <4>1, <4>2, <4>4, <5>1 DEF Before
      <4> QED  BY <4>3, <4>4
    <3> QED  BY <3>2, <3>3, <3>4, <3>5
  <2>2. \A u \in Thread : pc'[u] = "walk" => local'[u].iterator \in (Queue' \cup {current'}) \ {u}
    BY <1>2, <1>3 DEF Lasting, Walking
  <2>3. \A u \in Thread : pc'[u] # "setHead"
    BY <1>0, <1>3 DEF Lasting, Walking
  <2> QED  BY <2>1, <2>2, <2>3 DEF Walking
<1> QED  BY <1>4, <1>5, <1>6 DEF Lasting

LEMMA NextLasts == Returning = {} /\ Inv /\ Lasting /\ [Next]_vars => Lasting'
<1> SUFFICES ASSUME Returning = {}, Inv, Lasting, [Next]_vars PROVE Lasting'
  OBVIOUS
<1>1. ASSUME NEW t \in Thread, ThreadStep(t) PROVE Lasting'
  BY <1>1, StepLasts, SetHeadLasts, LinkLasts
<1>2. ~TimerRemove /\ \A t \in Thread : ~TimerNested(t) /\ ~TimerNestedRemove(t)
  BY TypedIs DEF TimerRemove, TimerNested, TimerNestedRemove, Lasting, NoneEnds, Dead, Inv, Typed, Pointer
<1>3. CASE UNCHANGED vars
  <2>1. UNCHANGED <<thread, current, readyQueue, pc, local>>
    BY <1>3 DEF vars, queue
  <2>2. Queue' = Queue
    BY <2>1, QueueSame
  <2> QED  BY <2>1, <2>2 DEF Lasting, NoneEnds, InRound, Walking, Before
<1> QED  BY <1>1, <1>2, <1>3, RotateLasts DEF Next, Timer

LEMMA LastsAlways == ASSUME Returning = {} PROVE Spec => []Lasting
<1>1. Init => Lasting
  BY ThreadAssumption DEF Init, NoThread, Lasting, NoneEnds, InRound, Walking, Dead
<1> QED  BY <1>1, NextLasts, Invariance, PTL DEF Spec

(* [TaskManager.cpp addThread] While no thread returns, the node that      *)
(* addThread stores into is the last one, although any number of threads   *)
(* walk and link with interrupts on and the timer moves the queue on.      *)
THEOREM Cursor == ASSUME Returning = {} PROVE Spec => []CursorAtEnd
<1>1. Inv /\ Lasting => CursorAtEnd
  <2> SUFFICES ASSUME Inv, Lasting, NEW t \in Thread, Runs(t, "link")
               PROVE  local[t].iterator = LastQueued
    BY DEF CursorAtEnd
  <2>1. local[t].iterator \in Queue /\ thread[local[t].iterator].next = NULL
    BY DEF Runs, Lasting, Walking, Before
  <2>2. LastQueued \in Queue /\ thread[LastQueued].next = NULL
    BY <2>1 DEF LastQueued
  <2> QED  BY <2>1, <2>2, OneEnd DEF Inv
<1> QED  BY <1>1, LastsAlways, Invariance, PTL

(* [TaskManager.cpp addThread, handleTimerEvent] While no thread returns,  *)
(* no thread is lost, however many create others at once.                  *)
THEOREM NobodyLost == ASSUME Returning = {} PROVE Spec => []NoThreadLost
<1>1. Lasting => NoThreadLost
  BY DEF Lasting, InRound, NoThreadLost, Alive, Made, Building
<1> QED  BY <1>1, LastsAlways, PTL

----------------------------------------------------------------------------
(* Counting along the links. *)

LEMMA Least ==
    ASSUME NEW T, T \subseteq Nat, T # {} PROVE \E n \in T : \A m \in T : n <= m
<1>1. PICK n \in T : \A m \in T : <<m, n>> \notin OpToRel(<, Nat)
  BY NatLessThanWellFounded, WFMin
<1>2. \A m \in T : ~(m < n)
  BY <1>1, Zenon DEF OpToRel
<1> QED  BY <1>2

(* Induction, for a set: what holds of the numbers below n holds of n.     *)
LEMMA Inductive ==
    ASSUME NEW S, 0 \in S, \A n \in Nat : n \in S => n + 1 \in S PROVE Nat \subseteq S
<1> DEFINE T == {n \in Nat : n \notin S}
<1> SUFFICES ASSUME T # {} PROVE FALSE
  OBVIOUS
<1>1. PICK n \in T : \A m \in T : n <= m
  <2>1. T \subseteq Nat
    OBVIOUS
  <2> HIDE DEF T
  <2> QED  BY <2>1, Least
<1>2. n # 0 /\ n - 1 \in Nat /\ n - 1 \notin T
  BY <1>1
<1> QED  BY <1>1, <1>2

(* The first n + 1 nodes from a, along f. *)
Along(f, a, n, h) == h = [k \in 0 .. n |-> IF k = 0 THEN a ELSE f[h[k - 1]].next]

LEMMA AlongUnique ==
    ASSUME NEW f, NEW a, NEW m \in Nat, NEW n \in Nat, m <= n,
           NEW g, Along(f, a, m, g), NEW h, Along(f, a, n, h)
    PROVE  \A k \in 0 .. m : g[k] = h[k]
<1> DEFINE S == {k \in Nat : k <= m => g[k] = h[k]}
<1>1. 0 \in S
  BY DEF Along
<1>2. ASSUME NEW k \in Nat, k \in S, k + 1 <= m PROVE g[k + 1] = h[k + 1]
  <2>1. k + 1 \in 0 .. m /\ k + 1 \in 0 .. n /\ (k + 1) - 1 = k /\ k + 1 # 0 /\ g[k] = h[k]
    BY <1>2
  <2>2. g[k + 1] = f[g[k]].next
    BY <2>1 DEF Along
  <2>3. h[k + 1] = f[h[k]].next
    BY <2>1 DEF Along
  <2> QED  BY <2>1, <2>2, <2>3
<1>3. Nat \subseteq S
  <2>1. \A k \in Nat : k \in S => k + 1 \in S
    BY <1>2
  <2> HIDE DEF S
  <2> QED  BY <1>1, <2>1, Inductive
<1> QED  BY <1>3

LEMMA AlongExists ==
    ASSUME NEW f, NEW a, NEW n \in Nat PROVE \E h : Along(f, a, n, h)
<1> DEFINE S == {k \in Nat : \E h : Along(f, a, k, h)}
<1>1. 0 \in S
  <2> DEFINE h == [k \in 0 .. 0 |-> a]
  <2>1. h = [k \in 0 .. 0 |-> IF k = 0 THEN a ELSE f[h[k - 1]].next]
    OBVIOUS
  <2> HIDE DEF h
  <2> QED  BY <2>1 DEF Along
<1>2. ASSUME NEW k \in Nat, NEW g, Along(f, a, k, g) PROVE k + 1 \in S
  <2> DEFINE h == [j \in 0 .. k + 1 |-> IF j = k + 1 THEN f[g[k]].next ELSE g[j]]
  <2>1. ASSUME NEW j \in 0 .. k + 1
        PROVE  h[j] = IF j = 0 THEN a ELSE f[h[j - 1]].next
    <3>1. CASE j = 0
      <4>1. g[0] = a
        BY <1>2 DEF Along
      <4> QED  BY <3>1, <4>1
    <3>2. CASE j = k + 1
      <4>1. h[j] = f[g[k]].next /\ h[k] = g[k] /\ j - 1 = k /\ j # 0
        BY <3>2
      <4> HIDE DEF h
      <4> QED  BY <4>1
    <3>3. CASE j \in 1 .. k
      <4>1. h[j] = g[j] /\ h[j - 1] = g[j - 1] /\ j # 0 /\ j \in 0 .. k
        BY <3>3
      <4>2. g[j] = f[g[j - 1]].next
        BY <1>2, <4>1 DEF Along
      <4> HIDE DEF h
      <4> QED  BY <4>1, <4>2
    <3> QED  BY <3>1, <3>2, <3>3
  <2>2. h = [j \in 0 .. k + 1 |-> h[j]]
    OBVIOUS
  <2> HIDE DEF h
  <2>3. h = [j \in 0 .. k + 1 |-> IF j = 0 THEN a ELSE f[h[j - 1]].next]
    BY <2>1, <2>2
  <2> QED  BY <2>3 DEF Along
<1>3. Nat \subseteq S
  <2>1. \A k \in Nat : k \in S => k + 1 \in S
    BY <1>2
  <2> HIDE DEF S
  <2> QED  BY <1>1, <2>1, Inductive
<1> QED  BY <1>3

(* Hop is the recursive function that its definition asks for. *)
LEMMA HopIs == Hop[0] = readyQueue /\ \A n \in Nat : Hop[n + 1] = thread[Hop[n]].next
<1> DEFINE h(n) == CHOOSE e : Along(thread, readyQueue, n, e)
           g == [n \in Nat |-> h(n)[n]]
<1>1. \A n \in Nat : Along(thread, readyQueue, n, h(n))
  BY AlongExists
<1>2. ASSUME NEW n \in Nat PROVE g[n] = IF n = 0 THEN readyQueue ELSE thread[g[n - 1]].next
  <2>1. Along(thread, readyQueue, n, h(n)) /\ g[n] = h(n)[n]
    BY <1>1
  <2>2. CASE n = 0
    BY <2>1, <2>2 DEF Along
  <2>3. CASE n # 0
    <3>1. n - 1 \in Nat /\ n - 1 <= n /\ n - 1 \in 0 .. n - 1 /\ n \in 0 .. n
      BY <2>3
    <3>2. Along(thread, readyQueue, n - 1, h(n - 1)) /\ g[n - 1] = h(n - 1)[n - 1]
      BY <1>1, <3>1
    <3>3. h(n)[n] = thread[h(n)[n - 1]].next
      <4> HIDE DEF h, g
      <4> QED  BY <2>1, <2>3, <3>1 DEF Along
    <3>4. h(n - 1)[n - 1] = h(n)[n - 1]
      <4> HIDE DEF h, g
      <4> QED  BY <2>1, <3>1, <3>2, AlongUnique
    <3> HIDE DEF h, g
    <3> QED  BY <2>1, <2>3, <3>2, <3>3, <3>4
  <2> QED  BY <2>2, <2>3
<1>3. g = [n \in Nat |-> g[n]]
  OBVIOUS
<1> HIDE DEF g
<1>4. g = [n \in Nat |-> IF n = 0 THEN readyQueue ELSE thread[g[n - 1]].next]
  BY <1>2, <1>3
<1>5. Hop = [n \in Nat |-> IF n = 0 THEN readyQueue ELSE thread[Hop[n - 1]].next]
  BY <1>4 DEF Hop
<1> HIDE DEF Hop
<1>6. ASSUME NEW n \in Nat PROVE Hop[n + 1] = thread[Hop[n]].next
  <2>1. n + 1 \in Nat /\ n + 1 # 0 /\ (n + 1) - 1 = n
    OBVIOUS
  <2> QED  BY <1>5, <2>1
<1> QED  BY <1>5, <1>6

----------------------------------------------------------------------------
(* The queue as a sequence. *)

(* As long as the links stay in the queue they come to no node twice: the  *)
(* first that were met again would be linked from two nodes, or be the     *)
(* head and linked from one.                                               *)
LEMMA NoLoop ==
    ASSUME Chain, Queue \in SUBSET Thread, NEW k \in Nat, \A i \in 0 .. k - 1 : Hop[i] \in Queue
    PROVE  \A i, j \in 0 .. k - 1 : Hop[i] = Hop[j] => i = j
<1> DEFINE Again == {i \in Nat : \E j \in 0 .. k - 1 : i < j /\ Hop[i] = Hop[j]}
<1>1. ASSUME Again # {} PROVE FALSE
  <2>1. PICK i \in Again : \A m \in Again : i <= m
    <3>1. Again \subseteq Nat
      OBVIOUS
    <3> HIDE DEF Again
    <3> QED  BY <1>1, <3>1, Least
  <2>2. PICK j \in 0 .. k - 1 : i < j /\ Hop[i] = Hop[j] /\ i \in 0 .. k - 1
    OBVIOUS
  <2>3. /\ j - 1 \in 0 .. k - 1 /\ (j - 1) + 1 = j
        /\ Hop[j] = thread[Hop[j - 1]].next /\ Hop[j - 1] \in Queue
    <3>1. j - 1 \in Nat /\ j - 1 \in 0 .. k - 1 /\ (j - 1) + 1 = j
      BY <2>2
    <3> HIDE DEF Hop
    <3> QED  BY <3>1, HopIs
  <2>4. CASE i = 0
    <3> HIDE DEF Hop
    <3> QED  BY <2>2, <2>3, <2>4, HopIs DEF Chain
  <2>5. CASE i # 0
    <3>1. i - 1 \in Nat /\ i - 1 \in 0 .. k - 1 /\ (i - 1) + 1 = i /\ i - 1 < j - 1
      BY <2>2, <2>5
    <3>2. Hop[i] = thread[Hop[i - 1]].next /\ Hop[i - 1] \in Queue /\ Hop[i] \in Queue
      <4> HIDE DEF Hop
      <4> QED  BY <2>2, <3>1, HopIs
    <3>3. Hop[i - 1] = Hop[j - 1]
      <4> HIDE DEF Hop
      <4> QED  BY <2>2, <2>3, <3>2, ThreadAssumption DEF Chain
    <3>4. i - 1 \in Again
      <4> HIDE DEF Hop
      <4> QED  BY <2>3, <3>1, <3>3
    <3> QED  BY <2>1, <3>1, <3>4
  <2> QED  BY <2>4, <2>5
<1> HIDE DEF Hop
<1> QED  BY <1>1

(* The links lead through the whole queue, and out of it after its last.   *)
LEMMA Counted ==
    ASSUME TypeOK, Chain
    PROVE  /\ IsFiniteSet(Queue) /\ Cardinality(Queue) \in Nat
           /\ \A i \in 0 .. Cardinality(Queue) - 1 : Hop[i] \in Queue
           /\ \A i, j \in 0 .. Cardinality(Queue) - 1 : Hop[i] = Hop[j] => i = j
           /\ \A t \in Queue : \E i \in 0 .. Cardinality(Queue) - 1 : Hop[i] = t
           /\ Hop[Cardinality(Queue)] = NULL
<1> HIDE DEF Hop
<1>1. FollowsLinks(Queue) /\ Queue \in SUBSET Thread /\ NULL \notin Thread
  BY QueueClosed, ThreadAssumption
<1>2. IsFiniteSet(Queue) /\ Cardinality(Queue) \in Nat
  BY <1>1, FS_Subset, FS_CardinalityType, ThreadAssumption
<1> DEFINE Out == {k \in Nat : Hop[k] \notin Queue}
<1>3. Out # {}
  <2> SUFFICES ASSUME \A k \in Nat : Hop[k] \in Queue PROVE FALSE
    OBVIOUS
  <2> DEFINE n == Cardinality(Queue)
             f == [i \in 0 .. n |-> Hop[i]]
  <2>1. n \in Nat /\ IsFiniteSet(0 .. n) /\ Cardinality(0 .. n) = n + 1
    BY <1>2, FS_Interval
  <2>2. f \in [0 .. n -> Queue] /\ Cardinality(Queue) < Cardinality(0 .. n)
    BY <2>1
  <2>3. PICK i, j \in 0 .. n : i # j /\ f[i] = f[j]
    <3> HIDE DEF f, n
    <3> QED  BY <1>2, <2>1, <2>2, FS_PigeonHole
  <2>4. n + 1 \in Nat /\ i \in 0 .. (n + 1) - 1 /\ j \in 0 .. (n + 1) - 1 /\ Hop[i] = Hop[j]
    BY <2>1, <2>3
  <2>5. \A m \in 0 .. (n + 1) - 1 : Hop[m] \in Queue
    BY <2>1
  <2> HIDE DEF n
  <2> QED  BY <1>1, <2>3, <2>4, <2>5, NoLoop
<1>4. PICK n \in Out : \A m \in Out : n <= m
  <2>1. Out \subseteq Nat
    OBVIOUS
  <2> HIDE DEF Out
  <2> QED  BY <1>3, <2>1, Least
<1>5. n \in Nat /\ \A i \in 0 .. n - 1 : Hop[i] \in Queue
  BY <1>4
<1>6. \A i, j \in 0 .. n - 1 : Hop[i] = Hop[j] => i = j
  BY <1>1, <1>5, NoLoop
<1>7. Hop[n] = NULL
  <2>1. CASE n = 0
    BY <1>1, <1>4, <2>1, HopIs DEF FollowsLinks
  <2>2. CASE n # 0
    <3>1. n - 1 \in Nat /\ n - 1 \in 0 .. n - 1 /\ (n - 1) + 1 = n
      BY <1>5, <2>2
    <3>2. Hop[n] = thread[Hop[n - 1]].next
      BY <3>1, HopIs
    <3> QED  BY <1>1, <1>4, <1>5, <3>1, <3>2 DEF FollowsLinks
  <2> QED  BY <2>1, <2>2
<1>8. \A t \in Queue : \E i \in 0 .. n - 1 : Hop[i] = t
  <2> DEFINE S == {Hop[i] : i \in 0 .. n - 1}
  <2>1. S \in SUBSET Thread
    BY <1>1, <1>5
  <2>2. readyQueue \in S \cup {NULL}
    <3>1. CASE n = 0
      BY <1>7, <3>1, HopIs
    <3>2. CASE n # 0
      BY <1>5, <3>2, HopIs
    <3> QED  BY <3>1, <3>2
  <2>3. ASSUME NEW i \in 0 .. n - 1 PROVE thread[Hop[i]].next \in S \cup {NULL}
    <3>1. thread[Hop[i]].next = Hop[i + 1] /\ i + 1 \in 0 .. n
      BY <1>5, HopIs
    <3> QED  BY <1>5, <1>7, <3>1
  <2>4. FollowsLinks(S)
    BY <2>2, <2>3 DEF FollowsLinks
  <2>5. Queue \subseteq S
    <3> HIDE DEF S
    <3> QED  BY <2>1, <2>4 DEF Queue
  <2> QED  BY <2>5
<1>9. Cardinality(Queue) = n
  <2> DEFINE f == [i \in 1 .. n |-> Hop[i - 1]]
  <2>1. \A i \in 1 .. n : f[i] = Hop[i - 1] /\ i - 1 \in 0 .. n - 1
    BY <1>5
  <2>2. f \in [1 .. n -> Queue]
    BY <1>5, <2>1
  <2>3. \A t \in Queue : \E i \in 1 .. n : f[i] = t
    <3> SUFFICES ASSUME NEW t \in Queue PROVE \E i \in 1 .. n : f[i] = t
      OBVIOUS
    <3>1. PICK i \in 0 .. n - 1 : Hop[i] = t
      BY <1>8
    <3>2. i + 1 \in 1 .. n /\ (i + 1) - 1 = i
      BY <1>5
    <3> QED  BY <3>1, <3>2
  <2>4. \A i, j \in 1 .. n : f[i] = f[j] => i = j
    <3> SUFFICES ASSUME NEW i \in 1 .. n, NEW j \in 1 .. n, f[i] = f[j] PROVE i = j
      OBVIOUS
    <3>1. i - 1 = j - 1
      <4> HIDE DEF f
      <4> QED  BY <1>6, <2>1
    <3> QED  BY <3>1
  <2>5. f \in Bijection(1 .. n, Queue)
    <3> HIDE DEF f
    <3> QED  BY <2>2, <2>3, <2>4 DEF Bijection, Injection, Surjection, IsInjective
  <2> HIDE DEF f
  <2> QED  BY <1>5, <2>5, FS_CountingElements DEF ExistsBijection
<1> QED  BY <1>2, <1>5, <1>6, <1>7, <1>8, <1>9

(* r is the queue: its first node, then what each node links to. *)
Follows(r) ==
    /\ Len(r) = Cardinality(Queue)
    /\ Len(r) > 0 => r[1] = readyQueue
    /\ \A i \in 1 .. Len(r) - 1 : r[i + 1] = thread[r[i]].next

LEMMA Listed ==
    ASSUME TypeOK, Chain
    PROVE  /\ ReadyList \in Seq(Thread) /\ Follows(ReadyList)
           /\ RR!Waiting = Queue
           /\ \A i, j \in 1 .. Len(ReadyList) : ReadyList[i] = ReadyList[j] => i = j
           /\ Len(ReadyList) > 0 => thread[ReadyList[Len(ReadyList)]].next = NULL
<1> DEFINE n == Cardinality(Queue)
<1> HIDE DEF Hop
<1>1. n \in Nat /\ Queue \in SUBSET Thread
  BY Counted, QueueClosed
<1>2. ReadyList = [i \in 1 .. n |-> Hop[i - 1]]
  BY DEF ReadyList
<1>3. \A i \in 1 .. n : ReadyList[i] = Hop[i - 1] /\ i - 1 \in 0 .. n - 1 /\ ReadyList[i] \in Queue
  BY <1>1, <1>2, Counted
<1>4. ReadyList \in Seq(Thread) /\ Len(ReadyList) = n
  BY <1>1, <1>2, <1>3
<1> HIDE DEF n
<1>5. \A i \in 1 .. n : thread[ReadyList[i]].next = Hop[i]
  <2> SUFFICES ASSUME NEW i \in 1 .. n PROVE thread[ReadyList[i]].next = Hop[i]
    OBVIOUS
  <2>1. i - 1 \in Nat /\ (i - 1) + 1 = i
    BY <1>1
  <2> QED  BY <1>3, <2>1, HopIs
<1>6. \A i \in 1 .. n - 1 : ReadyList[i + 1] = thread[ReadyList[i]].next
  <2> SUFFICES ASSUME NEW i \in 1 .. n - 1 PROVE ReadyList[i + 1] = thread[ReadyList[i]].next
    OBVIOUS
  <2>1. i + 1 \in 1 .. n /\ i \in 1 .. n /\ (i + 1) - 1 = i
    BY <1>1
  <2> QED  BY <1>3, <1>5, <2>1
<1>7. n > 0 => ReadyList[1] = readyQueue
  <2> SUFFICES ASSUME n > 0 PROVE ReadyList[1] = readyQueue
    OBVIOUS
  <2>1. 1 \in 1 .. n /\ 1 - 1 = 0
    BY <1>1
  <2> QED  BY <1>3, <2>1, HopIs
<1>8. n > 0 => thread[ReadyList[n]].next = NULL
  <2> SUFFICES ASSUME n > 0 PROVE thread[ReadyList[n]].next = NULL
    OBVIOUS
  <2>1. n \in 1 .. n
    BY <1>1
  <2> QED  BY <1>5, <2>1, Counted DEF n
<1>9. \A i, j \in 1 .. n : ReadyList[i] = ReadyList[j] => i = j
  <2> SUFFICES ASSUME NEW i \in 1 .. n, NEW j \in 1 .. n, ReadyList[i] = ReadyList[j] PROVE i = j
    OBVIOUS
  <2>1. i - 1 = j - 1
    BY <1>3, Counted DEF n
  <2> QED  BY <2>1
<1>10. \A t \in Queue : \E i \in 1 .. n : ReadyList[i] = t
  <2> SUFFICES ASSUME NEW t \in Queue PROVE \E i \in 1 .. n : ReadyList[i] = t
    OBVIOUS
  <2>1. PICK k \in 0 .. n - 1 : Hop[k] = t
    BY Counted DEF n
  <2>2. k + 1 \in 1 .. n /\ (k + 1) - 1 = k
    BY <1>1
  <2> QED  BY <1>3, <2>1, <2>2
<1>11. RR!Waiting = Queue
  BY <1>3, <1>4, <1>10 DEF RR!Waiting
<1>12. Follows(ReadyList)
  BY <1>4, <1>6, <1>7 DEF Follows, n
<1> QED  BY <1>4, <1>8, <1>9, <1>11, <1>12

(* The links leave no choice. *)
Determined == \A r \in Seq(Thread) : Follows(r) => ReadyList = r

LEMMA ListIs == TypeOK /\ Chain => Determined
<1> SUFFICES ASSUME TypeOK, Chain, NEW r \in Seq(Thread), Follows(r) PROVE ReadyList = r
  BY DEF Determined
<1>1. /\ ReadyList \in Seq(Thread) /\ Len(ReadyList) = Len(r) /\ Len(r) \in Nat
      /\ Len(r) > 0 => ReadyList[1] = r[1]
      /\ \A i \in 1 .. Len(r) - 1 :
            ReadyList[i + 1] = thread[ReadyList[i]].next /\ r[i + 1] = thread[r[i]].next
  BY Listed DEF Follows
<1> DEFINE S == {k \in Nat : k < Len(r) => ReadyList[k + 1] = r[k + 1]}
<1>2. 0 \in S
  BY <1>1
<1>3. ASSUME NEW k \in Nat, k \in S PROVE k + 1 \in S
  <2> SUFFICES ASSUME k + 1 < Len(r) PROVE ReadyList[(k + 1) + 1] = r[(k + 1) + 1]
    OBVIOUS
  <2>1. k + 1 \in 1 .. Len(r) - 1 /\ k < Len(r)
    BY <1>1
  <2> QED  BY <1>1, <1>3, <2>1
<1>4. Nat \subseteq S
  <2> HIDE DEF S
  <2> QED  BY <1>2, <1>3, Inductive
<1>5. \A i \in 1 .. Len(r) : ReadyList[i] = r[i]
  <2> SUFFICES ASSUME NEW i \in 1 .. Len(r) PROVE ReadyList[i] = r[i]
    OBVIOUS
  <2>1. i - 1 \in S /\ i - 1 < Len(r) /\ (i - 1) + 1 = i
    BY <1>1, <1>4
  <2> QED  BY <2>1
<1> QED  BY <1>1, <1>5

LEMMA ListIsNext == TypeOK' /\ Chain' => Determined'
BY ListIs, PTL

----------------------------------------------------------------------------
(* The refinement: while no thread returns, the list is a queue.           *)

LEMMA SameList ==
    ASSUME Inv, Inv', readyQueue' = readyQueue,
           \A u \in Thread : thread'[u].next = thread[u].next
    PROVE  ReadyList' = ReadyList
<1>1. PICK r : r = ReadyList
  OBVIOUS
<1>2. r \in Seq(Thread) /\ Follows(r)
  BY <1>1, Listed DEF Inv
<1>3. Follows(r)'
  <2>1. \A i \in 1 .. Len(r) - 1 : r[i] \in Thread
    BY <1>2
  <2>2. Queue' = Queue
    BY QueueSame
  <2> QED  BY <1>2, <2>1, <2>2 DEF Follows
<1> QED  BY <1>1, <1>2, <1>3, ListIsNext DEF Determined, Inv

(* The store of addThread into an empty queue, and behind the last node.   *)
LEMMA SetHeadAdmits ==
    ASSUME Inv, Inv', Lasting, NEW t \in Thread, SetHead(t)
    PROVE  \E c \in Thread : RR!Admit(c)
<1>1. PICK c \in Thread : c = local[t].child /\ Unseen(c)
  BY DEF SetHead, Runs, Inv, Private, Creating, Building
<1>2. /\ current = t /\ current' = t /\ readyQueue = NULL /\ readyQueue' = c /\ thread' = thread
  BY <1>1 DEF SetHead, Runs, Lasting, Walking
<1>3. Queue = {} /\ Cardinality(Queue) = 0 /\ Queue' = {c} /\ Cardinality(Queue') = 1
  <2>1. FollowsLinks({})
    BY <1>2 DEF FollowsLinks
  <2>2. Queue = {}
    BY <2>1 DEF Queue
  <2>3. thread[c].next = NULL
    BY <1>1 DEF Unseen
  <2>4. FollowsLinks({c})'
    BY <1>2, <2>3 DEF FollowsLinks
  <2>5. Queue' \subseteq {c}
    BY <2>4, QueueLeast
  <2>6. c \in Queue'
    BY <1>2, ThreadAssumption DEF Queue, FollowsLinks
  <2>7. Queue' = {c}
    BY <2>5, <2>6
  <2> QED  BY <2>2, <2>7, FS_EmptySet, FS_Singleton
<1>4. ReadyList = <<>>
  BY <1>3, Listed DEF Inv, Follows
<1>5. ReadyList' = <<c>>
  <2>1. <<c>> \in Seq(Thread) /\ Follows(<<c>>)'
    BY <1>2, <1>3 DEF Follows
  <2> QED  BY <2>1, ListIsNext DEF Determined, Inv
<1>6. RR!Waiting = {}
  BY <1>3, Listed DEF Inv
<1> QED  BY <1>1, <1>2, <1>4, <1>5, <1>6 DEF RR!Admit, Unseen

LEMMA LinkAdmits ==
    ASSUME Inv, Inv', Lasting, NEW t \in Thread, Link(t)
    PROVE  \E c \in Thread : RR!Admit(c)
<1>0. Typed /\ Queue \in SUBSET Thread /\ NULL \notin Thread
  BY TypedIs, QueueClosed, ThreadAssumption DEF Inv
<1>1. PICK c \in Thread : c = local[t].child /\ Unseen(c)
  BY DEF Link, Runs, Inv, Private, Creating, Building
<1>2. current = t /\ current' = t /\ readyQueue' = readyQueue
  BY DEF Link, Runs
<1>3. PICK i \in Queue : i = local[t].iterator /\ thread[i].next = NULL
  BY <1>2 DEF Link, Runs, Lasting, Walking, Before
<1>4. \A u \in Thread : thread'[u].next = IF u = i THEN c ELSE thread[u].next
  BY <1>0, <1>1, <1>3 DEF Link, Typed, ThreadRec
<1>5. Queue' = Queue \cup {c}
  BY <1>1, <1>3, LinkQueue
<1>6. PICK r : r = ReadyList
  OBVIOUS
<1>7. /\ r \in Seq(Thread) /\ Follows(r) /\ Len(r) \in Nat
      /\ Queue = {r[k] : k \in 1 .. Len(r)}
      /\ \A j, k \in 1 .. Len(r) : r[j] = r[k] => j = k
      /\ Len(r) > 0 => thread[r[Len(r)]].next = NULL
  BY <1>6, Listed DEF Inv, RR!Waiting
<1>8. Len(r) > 0 /\ r[Len(r)] = i
  <2>1. Len(r) > 0 /\ r[Len(r)] \in Queue
    BY <1>3, <1>7
  <2> QED  BY <1>3, <1>7, <2>1, OneEnd DEF Inv
<1>9. Cardinality(Queue') = Len(r) + 1
  <2>1. c \notin Queue /\ IsFiniteSet(Queue) /\ Cardinality(Queue) = Len(r)
    BY <1>1, <1>7, Counted DEF Unseen, Inv, Follows
  <2>2. Cardinality(Queue \cup {c}) = Cardinality(Queue) + 1
    BY <2>1, FS_AddElement
  <2> QED  BY <1>5, <2>1, <2>2
<1> DEFINE q == Append(r, c)
<1>10. /\ q \in Seq(Thread) /\ Len(q) = Len(r) + 1 /\ q[Len(r) + 1] = c
       /\ \A k \in 1 .. Len(r) : q[k] = r[k] /\ r[k] \in Thread
  BY <1>1, <1>7
<1> HIDE DEF q
<1>11. Follows(q)'
  <2>1. ASSUME NEW k \in 1 .. Len(q) - 1 PROVE q[k + 1] = thread'[q[k]].next
    <3>1. CASE k = Len(r)
      BY <1>4, <1>7, <1>8, <1>10, <3>1
    <3>2. CASE k # Len(r)
      <4>1. k \in 1 .. Len(r) - 1 /\ k + 1 \in 1 .. Len(r) /\ k \in 1 .. Len(r) /\ Len(r) \in 1 .. Len(r)
        BY <1>7, <1>10, <2>1, <3>2
      <4>2. r[k] # i
        BY <1>7, <1>8, <3>2, <4>1
      <4>3. r[k + 1] = thread[r[k]].next
        BY <1>7, <4>1 DEF Follows
      <4> QED  BY <1>4, <1>10, <4>1, <4>2, <4>3
    <3> QED  BY <3>1, <3>2
  <2>2. q[1] = readyQueue'
    <3>1. Len(r) \in Nat /\ Len(r) > 0 /\ r[1] = readyQueue
      BY <1>7, <1>8 DEF Follows
    <3>2. q[1] = r[1]
      BY <1>10, <3>1
    <3> QED  BY <1>2, <3>1, <3>2
  <2> QED  BY <1>9, <1>10, <2>1, <2>2 DEF Follows
<1>12. ReadyList' = Append(ReadyList, c)
  BY <1>6, <1>10, <1>11, ListIsNext DEF Determined, Inv, q
<1>13. RR!Waiting = Queue
  BY Listed DEF Inv
<1> QED  BY <1>1, <1>2, <1>12, <1>13 DEF RR!Admit, Unseen

(* A tick takes the first and puts the one that ran behind the last.       *)
LEMMA TickRotates ==
    ASSUME Inv, Inv', TimerRotate PROVE RR!Rotate
<1>0. Typed /\ Queue \in SUBSET Thread /\ NULL \notin Thread
  BY TypedIs, QueueClosed, ThreadAssumption DEF Inv
<1>1. PICK R \in Thread, L \in Thread, C \in Thread : Rotates(R, L, C)
  BY RotateEffect
<1>2. Queue' = (Queue \cup {C}) \ {R}
  BY <1>1, RotateQueue
<1>3. /\ C = current /\ R = readyQueue /\ R \in Queue /\ C \notin Queue /\ L \in Queue
      /\ current' = R /\ readyQueue' = thread'[R].next /\ thread[L].next = NULL
      /\ \A u \in Thread : thread'[u].next = IF u = C THEN NULL ELSE IF u = L THEN C ELSE thread[u].next
  BY <1>1 DEF Rotates
<1>4. PICK r : r = ReadyList
  OBVIOUS
<1>5. /\ r \in Seq(Thread) /\ Follows(r) /\ Len(r) \in Nat
      /\ Queue = {r[k] : k \in 1 .. Len(r)}
      /\ \A j, k \in 1 .. Len(r) : r[j] = r[k] => j = k
      /\ Len(r) > 0 => thread[r[Len(r)]].next = NULL
  BY <1>4, Listed DEF Inv, RR!Waiting
<1>6. Len(r) > 0 /\ r[1] = R /\ r[Len(r)] = L
  <2>1. Len(r) > 0 /\ r[Len(r)] \in Queue
    BY <1>3, <1>5
  <2> QED  BY <1>3, <1>5, <2>1, OneEnd DEF Inv, Follows
<1>7. Cardinality(Queue') = Len(r)
  <2>1. IsFiniteSet(Queue) /\ Cardinality(Queue) = Len(r)
    BY <1>5, Counted DEF Inv, Follows
  <2>2. IsFiniteSet(Queue \cup {C}) /\ Cardinality(Queue \cup {C}) = Len(r) + 1
    BY <1>3, <2>1, FS_AddElement
  <2>3. Cardinality((Queue \cup {C}) \ {R}) = Cardinality(Queue \cup {C}) - 1
    <3>1. R \in Queue \cup {C}
      BY <1>3
    <3> QED  BY <2>2, <3>1, FS_RemoveElement
  <2> QED  BY <1>2, <1>5, <2>2, <2>3
<1> DEFINE q == Append(Tail(r), C)
<1>8. /\ q \in Seq(Thread) /\ Len(q) = Len(r) /\ q[Len(r)] = C
      /\ \A k \in 1 .. Len(r) - 1 : q[k] = r[k + 1]
      /\ \A k \in 1 .. Len(r) : r[k] \in Queue /\ r[k] \in Thread
  BY <1>0, <1>5, <1>6
<1> HIDE DEF q
<1>9. Follows(q)'
  <2>1. ASSUME NEW k \in 1 .. Len(q) - 1 PROVE q[k + 1] = thread'[q[k]].next
    <3>0. k \in 1 .. Len(r) - 1 /\ Len(r) \in Nat
      BY <1>5, <1>8, <2>1 DEF Follows
    <3>1. k \in 1 .. Len(r) - 1 /\ k + 1 \in 1 .. Len(r) /\ Len(r) \in 1 .. Len(r) /\ q[k] = r[k + 1]
      BY <1>8, <3>0
    <3>2. CASE k + 1 = Len(r)
      <4>1. q[k] = L
        BY <1>6, <3>1, <3>2
      <4> QED  BY <1>3, <1>8, <3>2, <4>1
    <3>3. CASE k + 1 # Len(r)
      <4>1. k + 1 \in 1 .. Len(r) - 1 /\ q[k + 1] = r[(k + 1) + 1]
        BY <1>5, <1>8, <3>1, <3>3
      <4>2. r[k + 1] # L /\ r[k + 1] # C
        BY <1>3, <1>5, <1>6, <1>8, <3>1, <3>3
      <4>3. r[(k + 1) + 1] = thread[r[k + 1]].next
        BY <1>5, <4>1 DEF Follows
      <4> QED  BY <1>3, <1>8, <3>1, <4>1, <4>2, <4>3
    <3> QED  BY <3>2, <3>3
  <2>2. q[1] = readyQueue'
    <3>1. CASE Len(r) = 1
      BY <1>3, <1>6, <1>8, <3>1
    <3>2. CASE Len(r) # 1
      <4>1. 1 \in 1 .. Len(r) - 1 /\ 1 \in 1 .. Len(r) /\ Len(r) \in 1 .. Len(r)
        <5>1. PICK n \in Nat : n = Len(r)
          BY <1>5
        <5>2. n > 0 /\ n # 1
          BY <1>6, <3>2, <5>1
        <5>3. 1 \in 1 .. n - 1 /\ 1 \in 1 .. n /\ n \in 1 .. n
          BY <5>2
        <5> QED  BY <5>1, <5>3
      <4>2. q[1] = r[1 + 1] /\ r[1 + 1] = thread[r[1]].next
        BY <1>5, <1>8, <4>1 DEF Follows
      <4>3. R # L /\ R # C
        BY <1>3, <1>5, <1>6, <3>2, <4>1
      <4> QED  BY <1>3, <1>6, <4>2, <4>3
    <3> QED  BY <3>1, <3>2
  <2> QED  BY <1>7, <1>8, <2>1, <2>2 DEF Follows
<1>10. ReadyList' = Append(Tail(ReadyList), current)
  BY <1>3, <1>4, <1>8, <1>9, ListIsNext DEF Determined, Inv, q
<1>11. current' = Head(ReadyList) /\ ReadyList # <<>>
  BY <1>3, <1>4, <1>5, <1>6
<1> QED  BY <1>10, <1>11 DEF RR!Rotate

(* All other lines leave the list and the running thread alone.            *)
LEMMA OthersStutter ==
    ASSUME Inv, Inv', Lasting, Returning = {}, NEW t \in Thread, ThreadStep(t),
           ~SetHead(t), ~Link(t)
    PROVE  UNCHANGED RR!vars
<1>0. Typed
  BY TypedIs DEF Inv
<1> USE DEF queue, memory, ending
<1>1. /\ current' = current /\ readyQueue' = readyQueue
      /\ \A u \in Thread : thread'[u].next = thread[u].next
  <2>1. ASSUME NEW c \in Thread, CreateThread(t, c) \/ (t = Main /\ CreateProcess(c))
        PROVE  /\ current' = current /\ readyQueue' = readyQueue
               /\ \A u \in Thread : thread'[u].next = thread[u].next
    <3>1. PICK p, h : thread' = [thread EXCEPT ![c].pageDirectory = p, ![c].heap = h]
      BY <2>1 DEF CreateThread, CreateProcess
    <3> QED  BY <1>0, <2>1, <3>1 DEF CreateThread, CreateProcess, Typed, ThreadRec
  <2>2. CASE SwitchPageDirectory(t) \/ ConstructHeap(t) \/ UseHeap(t) \/ RestoreHeap(t)
             \/ RestorePageDirectory(t) \/ ThreadStart(t) \/ ReadTid(t) \/ AddThread(t) \/ Walk(t)
    BY <2>2 DEF SwitchPageDirectory, ConstructHeap, UseHeap, RestoreHeap, RestorePageDirectory,
                ThreadStart, ReadTid, AddThread, Walk
  <2>3. CASE WriteTid(t) \/ AllocateStack(t)
    BY <1>0, <2>3 DEF WriteTid, AllocateStack, Typed, ThreadRec
  <2>4. ~ThreadExit(t) /\ ~Release(t) /\ ~Pop(t) /\ ~SwitchAway(t)
    BY DEF ThreadExit, Release, Pop, SwitchAway, Lasting, NoneEnds, Dead, Runs
  <2> QED  BY <2>1, <2>2, <2>3, <2>4 DEF ThreadStep
<1> QED  BY <1>1, SameList DEF RR!vars

LEMMA StepRotates ==
    Returning = {} /\ Inv /\ Inv' /\ Lasting /\ [Next]_vars => [RR!Next]_(RR!vars)
<1> SUFFICES ASSUME Returning = {}, Inv, Inv', Lasting, [Next]_vars
             PROVE  RR!Next \/ UNCHANGED RR!vars
  OBVIOUS
<1>1. ~TimerRemove /\ \A t \in Thread : ~TimerNested(t) /\ ~TimerNestedRemove(t)
  BY TypedIs DEF TimerRemove, TimerNested, TimerNestedRemove, Lasting, NoneEnds, Dead, Inv, Typed, Pointer
<1>2. CASE UNCHANGED vars
  BY <1>2, SameList DEF vars, queue, RR!vars
<1> QED
  BY <1>1, <1>2, SetHeadAdmits, LinkAdmits, TickRotates, OthersStutter DEF Next, Timer, RR!Next

(* [TaskManager.cpp addThread, handleTimerEvent] While no thread returns,  *)
(* the linked list, its cursor and its head are a round-robin queue: the   *)
(* one store that links a thread admits it, a tick rotates the queue by    *)
(* one, and no other line changes it.  That the ticks never stop is the    *)
(* rest of RefinesRoundRobin, which the run threads_only checks.           *)
THEOREM ListIsQueue ==
    ASSUME Returning = {} PROVE Spec => RR!Init /\ [][RR!Next]_(RR!vars)
<1>1. Init => RR!Init
  <2> SUFFICES ASSUME Init PROVE RR!Init
    OBVIOUS
  <2>1. readyQueue = NULL /\ current = Main
    BY DEF Init
  <2>2. Queue = {}
    <3>1. FollowsLinks({})
      BY <2>1 DEF FollowsLinks
    <3> QED  BY <3>1 DEF Queue
  <2>3. ReadyList = <<>>
    BY <2>2, Listed, InitInv, FS_EmptySet DEF Inv, Follows
  <2> QED  BY <2>1, <2>3 DEF RR!Init
<1> QED  BY <1>1, StepRotates, LastsAlways, Invariance, PTL DEF Spec

(* [TaskManager.cpp addThread, removeThread] A thread stands in the list   *)
(* once, and not while it runs, whatever the number of threads and         *)
(* whichever of them return.                                               *)
THEOREM Once == Spec => []RR!OncePerThread
<1>1. Inv => RR!OncePerThread
  BY Listed DEF Inv, Apart, RR!OncePerThread
<1> QED  BY <1>1, Invariance, PTL

(* [TaskManager.cpp handleTimerEvent] While no thread returns, a thread    *)
(* that waits is never overtaken: the timer moves everybody one place      *)
(* forward, and addThread adds behind the last.                            *)
THEOREM Fair ==
    ASSUME Returning = {} PROVE Spec => RR!NoOvertaking
<1> DEFINE Forward ==
      \A i \in 1 .. Len(ReadyList) :
          \/ i = 1 /\ current' = ReadyList[i]
          \/ \E j \in 1 .. i : j \in 1 .. Len(ReadyList') /\ ReadyList'[j] = ReadyList[i]
<1>1. Inv /\ [RR!Next]_(RR!vars) => [Forward]_(RR!vars)
  <2> SUFFICES ASSUME Inv, RR!Next PROVE Forward
    OBVIOUS
  <2>0. ReadyList \in Seq(Thread)
    BY Listed DEF Inv
  <2>1. ASSUME NEW t \in Thread, RR!Admit(t) PROVE Forward
    <3>1. /\ Len(ReadyList') = Len(ReadyList) + 1 /\ Len(ReadyList) \in Nat
          /\ \A i \in 1 .. Len(ReadyList) : ReadyList'[i] = ReadyList[i]
      BY <2>0, <2>1 DEF RR!Admit
    <3> QED  BY <3>1
  <2>2. CASE RR!Rotate
    <3>1. /\ Len(ReadyList') = Len(ReadyList) /\ Len(ReadyList) \in Nat
          /\ \A i \in 1 .. Len(ReadyList) - 1 : ReadyList'[i] = ReadyList[i + 1]
          /\ current' = ReadyList[1]
      BY <2>0, <2>2 DEF RR!Rotate
    <3> SUFFICES ASSUME NEW i \in 1 .. Len(ReadyList), i # 1
                 PROVE \E j \in 1 .. i : j \in 1 .. Len(ReadyList') /\ ReadyList'[j] = ReadyList[i]
      BY <3>1
    <3>2. i - 1 \in 1 .. i /\ i - 1 \in 1 .. Len(ReadyList') /\ ReadyList'[i - 1] = ReadyList[i]
      BY <3>1
    <3> QED  BY <3>2
  <2> QED  BY <2>1, <2>2 DEF RR!Next
<1>2. QED  BY <1>1, ListIsQueue, Invariance, PTL DEF RR!NoOvertaking
----------------------------------------------------------------------------
(* The scheduler and the message passing together, with one creator of     *)
(* threads.                                                                *)

(* The thread has got its id. *)
Numbered(t) ==
    \/ pc[t] \notin {"unused", "embryo"}
    \/ pc[Main] = "stack" /\ local[Main].child = t

(* Ids are given out once, and only a thread that ends is to be removed.   *)
Ids ==
    /\ \A t \in Thread : pc[t] \in Creating => t = Main
    /\ \A t \in Thread : Numbered(t) => thread[t].id < tid
    /\ \A t, u \in Thread :
          Numbered(t) /\ Numbered(u) /\ thread[t].id = thread[u].id => t = u
    /\ pc[Main] = "writeTid" => local[Main].tid = tid
    /\ \A t \in Thread : thread[t].remove => pc[t] \in {"exited", "release"} \cup Dead

(* The thread has been linked into the queue once. *)
Known(t) == Admitted(t) \/ pc[t] \in {"release"} \cup Dead

Letter == [tid : Nat, serial : 1 .. sent]

Sorted(m) == \A i, j \in 1 .. Len(m) : i < j => m[i].serial < m[j].serial

(* The list is in the order of sending, holds nothing that was taken, and  *)
(* names no thread before it was linked.                                   *)
Letters ==
    /\ sent \in Nat /\ msgs \in Seq(Letter) /\ got \in [Thread -> Seq(1 .. sent)]
    /\ Sorted(msgs)
    /\ \A i \in 1 .. Len(msgs), t \in Thread : msgs[i].serial \notin Taken(t)
    /\ \A i \in 1 .. Len(msgs) : \E t \in Thread : Known(t) /\ msgs[i].tid = thread[t].id

(* The inductive invariant of Kernel. *)
Together == Inv /\ Ids /\ Letters

(* Nobody else appears, and what was known keeps its id.                   *)
Stays ==
    \A w \in Thread :
        /\ Known(w) => Known(w)' /\ thread'[w].id = thread[w].id
        /\ Admitted(w)' <=> Admitted(w)

(* A step that gives no id and puts nobody into the queue. *)
LEMMA QuietIds ==
    ASSUME Inv, Ids, tid' = tid,
           \A u \in Thread :
              /\ thread'[u].id = thread[u].id
              /\ thread'[u].remove => thread[u].remove \/ pc'[u] = "exited"
              /\ pc'[u] \in {"unused", "embryo"} <=> pc[u] \in {"unused", "embryo"}
              /\ pc'[u] \in {"release"} \cup Dead <=> pc[u] \in {"release"} \cup Dead
              /\ pc[u] = "exited" => pc'[u] = "exited"
              /\ pc'[u] \in Creating => u = Main
              /\ pc[u] \in Building => pc'[u] \in Building /\ local'[u].child = local[u].child
              /\ pc'[u] \in Building =>
                    \/ pc[u] \in Building
                    \/ pc'[local'[u].child] \in {"unused", "embryo"},
           pc'[Main] = "stack" <=> pc[Main] = "stack",
           pc'[Main] = "writeTid" => local'[Main].tid = tid
    PROVE  Ids' /\ Stays
<1>1. \A u \in Thread : Numbered(u)' <=> Numbered(u)
  BY ThreadAssumption DEF Numbered, Building
<1>2. Ids'
  BY <1>1 DEF Ids, Dead
<1>3. \A u \in Thread : u \in Alive' <=> u \in Alive
  BY DEF Alive, Dead
<1>4. ASSUME NEW w \in Thread, w \in Alive
      PROVE  (\E u \in Thread : pc'[u] \in Building /\ local'[u].child = w) <=>
             (\E u \in Thread : pc[u] \in Building /\ local[u].child = w)
  BY <1>3, <1>4 DEF Alive
<1>5. \A w \in Thread : Admitted(w)' <=> Admitted(w)
  BY <1>3, <1>4 DEF Admitted
<1> QED  BY <1>2, <1>5 DEF Stays, Known

LEMMA CreateIds ==
    ASSUME Spawners \subseteq {Main}, Inv, Ids, NEW t \in Thread, NEW c \in Thread,
           CreateThread(t, c) \/ (t = Main /\ CreateProcess(c))
    PROVE  Ids' /\ Stays
<1>0. Typed
  BY TypedIs DEF Inv
<1>1. c # t /\ t = Main /\ pc[t] = "launch" /\ pc[c] = "unused" /\ tid' = tid
  BY DEF CreateThread, CreateProcess, Runs
<1>2. /\ pc'[t] \in {"readTid", "switchPd"} /\ pc'[c] = "embryo"
      /\ \A u \in Thread \ {t, c} : pc'[u] = pc[u]
  BY <1>0, <1>1 DEF CreateThread, CreateProcess, Typed
<1>3. local'[t].child = c /\ \A u \in Thread \ {t} : local'[u] = local[u]
  BY <1>0, <1>1 DEF CreateThread, CreateProcess, Typed, LocalRec
<1>4. \A u \in Thread : thread'[u].id = thread[u].id /\ thread'[u].remove = thread[u].remove
  <2>1. CASE CreateThread(t, c)
    BY <1>0, <2>1 DEF CreateThread, Typed, ThreadRec
  <2>2. CASE CreateProcess(c)
    BY <1>0, <2>2 DEF CreateProcess, Typed, ThreadRec
  <2> QED  BY <2>1, <2>2
<1> QED  BY <1>1, <1>2, <1>3, <1>4, QuietIds DEF Ids, Creating, Building, Dead

(* The lines of createProcess, createThread and addThread that store       *)
(* neither an id nor a link, and the first and last steps of a thread.     *)
LEMMA CallIds ==
    ASSUME Inv, Ids, NEW t \in Thread,
           \/ SwitchPageDirectory(t) \/ ConstructHeap(t) \/ UseHeap(t)
           \/ ReadTid(t) \/ AddThread(t) \/ Walk(t) \/ RestoreHeap(t) \/ RestorePageDirectory(t)
           \/ ThreadStart(t) \/ ThreadExit(t)
    PROVE  Ids' /\ Stays
<1>0. Typed
  BY TypedIs DEF Inv
<1> USE DEF Runs, Goto, queue, memory, ending, Creating, Building
<1>1. CASE ReadTid(t) \/ AddThread(t) \/ Walk(t)
  <2>1. /\ UNCHANGED <<thread, tid>> /\ t = Main
        /\ \A u \in Thread \ {t} : pc'[u] = pc[u] /\ local'[u] = local[u]
    BY <1>0, <1>1 DEF ReadTid, AddThread, Walk, Typed, Ids
  <2>2. /\ local'[t].child = local[t].child
        /\ \/ pc[t] = "readTid" /\ pc'[t] = "writeTid" /\ local'[t].tid = tid
           \/ pc[t] = "test" /\ pc'[t] \in {"setHead", "walk"}
           \/ pc[t] = "walk" /\ pc'[t] \in {"walk", "link"}
    BY <1>0, <1>1 DEF ReadTid, AddThread, Walk, Typed, LocalRec
  <2> QED  BY <2>1, <2>2, QuietIds, ThreadAssumption DEF Ids, Dead
<1>2. CASE SwitchPageDirectory(t) \/ ConstructHeap(t) \/ UseHeap(t)
  <2>1. /\ UNCHANGED <<thread, tid, local>> /\ t = Main
        /\ \A u \in Thread \ {t} : pc'[u] = pc[u]
        /\ \/ pc[t] = "switchPd" /\ pc'[t] = "initHeap"
           \/ pc[t] = "initHeap" /\ pc'[t] = "useHeap"
           \/ pc[t] = "useHeap" /\ pc'[t] = "readTid"
    BY <1>0, <1>2 DEF SwitchPageDirectory, ConstructHeap, UseHeap, Typed, Ids
  <2>2. PICK c \in Thread : c = local[t].child /\ c # t /\ pc[c] = "embryo"
    BY <2>1 DEF Inv, Private, Made
  <2> QED  BY <2>1, <2>2, QuietIds, ThreadAssumption DEF Ids, Dead
<1>3. CASE RestoreHeap(t) \/ RestorePageDirectory(t)
  <2>1. /\ UNCHANGED <<thread, tid>> /\ pc[t] \in {"restoreHeap", "restorePd"}
        /\ pc'[t] \in {"restorePd", "launch"}
        /\ \A u \in Thread \ {t} : pc'[u] = pc[u] /\ local'[u] = local[u]
    BY <1>0, <1>3 DEF RestoreHeap, RestorePageDirectory, Typed
  <2>2. \A u \in Thread :
          pc'[u] \in Building => u # t /\ pc[u] \in Building /\ local'[u] = local[u]
    BY <2>1
  <2> QED  BY <2>1, <2>2, QuietIds, ThreadAssumption DEF Ids, Dead
<1>4. CASE ThreadStart(t) \/ ThreadExit(t)
  <2>1. /\ UNCHANGED <<tid, local>> /\ pc[t] \in {"popf", "launch"}
        /\ pc'[t] = "launch" \/ pc'[t] = "exited"
        /\ \A u \in Thread \ {t} : pc'[u] = pc[u] /\ thread'[u] = thread[u]
    BY <1>0, <1>4 DEF ThreadStart, ThreadExit, Typed
  <2>2. thread'[t].id = thread[t].id /\ (thread'[t].remove => thread[t].remove \/ pc'[t] = "exited")
    BY <1>0, <1>4 DEF ThreadStart, ThreadExit, Typed, ThreadRec
  <2> QED  BY <2>1, <2>2, QuietIds, ThreadAssumption DEF Ids, Dead
<1> QED  BY <1>1, <1>2, <1>3, <1>4

(* tid++ of the one creator: nobody had this id. *)
LEMMA WriteIds == ASSUME Inv, Ids, NEW t \in Thread, WriteTid(t) PROVE Ids' /\ Stays
<1>0. Typed
  BY TypedIs DEF Inv
<1>1. /\ t = Main /\ pc[t] = "writeTid" /\ local[t].tid = tid /\ tid' = tid + 1 /\ tid \in Nat
      /\ local' = local
      /\ \A u \in Thread : pc'[u] = IF u = t THEN "stack" ELSE pc[u]
  BY <1>0 DEF WriteTid, Runs, Goto, Ids, Creating, Building, Typed
<1>2. PICK c \in Thread : c = local[t].child /\ c # t /\ pc[c] = "embryo"
  BY <1>1 DEF Inv, Private, Creating, Building, Made
<1>3. \A u \in Thread : /\ thread'[u].id = IF u = c THEN tid ELSE thread[u].id
                        /\ thread'[u].remove = thread[u].remove
                        /\ thread[u].id \in Nat
  BY <1>0, <1>1, <1>2 DEF WriteTid, Typed, ThreadRec
<1>4. ~Numbered(c) /\ \A u \in Thread : Numbered(u)' <=> Numbered(u) \/ u = c
  BY <1>1, <1>2 DEF Numbered
<1>5. Ids'
  <2>1. \A u \in Thread : pc'[u] \in Creating => u = Main
    BY <1>1 DEF Ids
  <2>2. \A u \in Thread : Numbered(u)' => thread'[u].id < tid'
    BY <1>1, <1>3, <1>4 DEF Ids
  <2>3. \A u, v \in Thread :
          Numbered(u)' /\ Numbered(v)' /\ thread'[u].id = thread'[v].id => u = v
    BY <1>1, <1>3, <1>4 DEF Ids
  <2>4. \A u \in Thread : thread'[u].remove => pc'[u] \in {"exited", "release"} \cup Dead
    BY <1>1, <1>3 DEF Ids, Dead
  <2> QED  BY <1>1, <2>1, <2>2, <2>3, <2>4 DEF Ids
<1>6. \A w \in Thread : Admitted(w)' <=> Admitted(w)
  <2>1. \A u \in Thread : u \in Alive' <=> u \in Alive
    BY <1>1 DEF Alive
  <2>2. \A u \in Thread : pc'[u] \in Building <=> pc[u] \in Building
    BY <1>1 DEF Building
  <2> QED  BY <1>1, <2>1, <2>2 DEF Admitted
<1>7. \A w \in Thread : Known(w) => w # c
  BY <1>2 DEF Known, Admitted, Alive, Dead
<1> QED  BY <1>1, <1>3, <1>5, <1>6, <1>7 DEF Stays, Known, Dead

(* The thread is alive with its stack, but its creator has it in hand. *)
LEMMA StackIds == ASSUME Inv, Ids, NEW t \in Thread, AllocateStack(t) PROVE Ids' /\ Stays
<1>0. Typed
  BY TypedIs DEF Inv
<1>1. t = Main /\ pc[t] = "stack" /\ local' = local /\ tid' = tid
  BY DEF AllocateStack, Runs, Ids, Creating, Building
<1>2. PICK c \in Thread : c = local[t].child /\ c # t /\ pc[c] = "embryo"
  BY <1>1 DEF Inv, Private, Creating, Building, Made
<1>3. /\ \A u \in Thread : pc'[u] = IF u = t THEN "test" ELSE IF u = c THEN "fresh" ELSE pc[u]
      /\ \A u \in Thread : thread'[u].id = thread[u].id /\ thread'[u].remove = thread[u].remove
  BY <1>0, <1>1, <1>2 DEF AllocateStack, Typed, ThreadRec
<1>4. \A u \in Thread : Numbered(u)' <=> Numbered(u)
  BY <1>1, <1>2, <1>3 DEF Numbered
<1>5. Ids'
  BY <1>1, <1>2, <1>3, <1>4 DEF Ids, Creating, Building, Dead
<1>6. \A w \in Thread : Admitted(w)' <=> Admitted(w)
  <2>1. \A u \in Thread : u # c => (u \in Alive' <=> u \in Alive)
    BY <1>1, <1>3 DEF Alive
  <2>2. \A u \in Thread : pc'[u] \in Building <=> pc[u] \in Building
    BY <1>1, <1>2, <1>3 DEF Building
  <2>3. ~Admitted(c) /\ ~Admitted(c)'
    BY <1>1, <1>2, <2>2 DEF Admitted, Building
  <2> QED  BY <1>1, <2>1, <2>2, <2>3 DEF Admitted
<1> QED  BY <1>1, <1>2, <1>3, <1>5, <1>6 DEF Stays, Known, Dead

(* One thread more can be sent to, and none can no more. *)
Links(c) ==
    /\ ~Known(c)
    /\ \A w \in Thread :
          /\ Known(w) => Known(w)' /\ thread'[w].id = thread[w].id
          /\ Admitted(w)' <=> Admitted(w) \/ w = c

LEMMA LinkIds ==
    ASSUME Inv, Ids, NEW t \in Thread, SetHead(t) \/ Link(t)
    PROVE  Ids' /\ \E c \in Thread : Links(c)
<1>0. Typed
  BY TypedIs DEF Inv
<1>1. t = Main /\ pc[t] \in {"setHead", "link"} /\ Added(t) /\ tid' = tid
  BY DEF SetHead, Link, Runs, Ids, Creating, Building
<1>2. PICK c \in Thread : c = local[t].child /\ c # t /\ pc[c] = "fresh"
  BY <1>1 DEF Inv, Private, Creating, Building, Made
<1>3. /\ pc'[t] \in {"restoreHeap", "launch"}
      /\ \A u \in Thread \ {t} : pc'[u] = pc[u] /\ local'[u] = local[u]
  BY <1>0, <1>1, AddedEffect
<1>4. \A u \in Thread : thread'[u].id = thread[u].id /\ thread'[u].remove = thread[u].remove
  <2>1. CASE SetHead(t)
    BY <2>1 DEF SetHead
  <2>2. CASE Link(t)
    BY <1>0, <2>2 DEF Link, Typed, ThreadRec
  <2> QED  BY <2>1, <2>2
<1>5. \A u \in Thread : Numbered(u)' <=> Numbered(u)
  BY <1>1, <1>3 DEF Numbered
<1>6. Ids'
  BY <1>1, <1>3, <1>4, <1>5 DEF Ids, Creating, Building, Dead
<1>7. \A u \in Thread : pc[u] \in Building => u = t
  BY <1>1 DEF Ids, Creating
<1>8. \A u \in Thread : pc'[u] \notin Building
  BY <1>3, <1>7 DEF Building
<1>9. \A u \in Thread : u \in Alive' <=> u \in Alive
  BY <1>1, <1>3 DEF Alive
<1>10. pc[t] \in Building /\ c \in Alive
  BY <1>1, <1>2 DEF Building, Alive
<1>11. \A w \in Thread : Admitted(w)' <=> Admitted(w) \/ w = c
  BY <1>2, <1>7, <1>8, <1>9, <1>10 DEF Admitted
<1>12. ~Known(c)
  BY <1>2, <1>10 DEF Known, Admitted, Dead
<1>13. \A w \in Thread : Known(w) => Known(w)'
  BY <1>1, <1>3, <1>11 DEF Known, Dead
<1> QED  BY <1>4, <1>6, <1>11, <1>12, <1>13 DEF Links

LEMMA LeaveIds ==
    ASSUME Inv, Ids, NEW t \in Thread, pc[t] \in {"pop", "switch"}, NEW new \in Thread,
           LeaveFor(t, new)
    PROVE  Ids' /\ Stays
<1>0. Typed
  BY TypedIs DEF Inv
<1> DEFINE leave == [pc EXCEPT ![t] = "gone"]
<1>1. /\ thread' = thread /\ tid' = tid
      /\ \A u \in Thread \ {t} : local'[u] = local[u]
      /\ leave \in [Thread -> Labels] /\ leave[t] = "gone"
      /\ \A u \in Thread \ {t} : leave[u] = pc[u]
  BY <1>0 DEF LeaveFor, Typed, Labels
<1>2. \A u \in Thread :
          \/ u = t /\ pc'[u] = "gone"
          \/ u # t /\ (pc'[u] = pc[u] \/ (pc[u] = "fresh" /\ pc'[u] = "popf"))
  <2>1. CASE LoadContext(new, leave)
    <3> HIDE DEF leave
    <3>1. /\ \A u \in Thread : u # new => pc'[u] = leave[u]
          /\ pc'[new] = leave[new] \/ (pc[new] = "fresh" /\ pc'[new] = "popf")
      BY <1>1, <2>1, LoadEffect
    <3> QED  BY <1>1, <3>1
  <2>2. CASE Goto(t, "gone")
    BY <1>0, <2>2 DEF Goto, Typed
  <2> QED  BY <2>1, <2>2 DEF LeaveFor
<1> QED  BY <1>1, <1>2, QuietIds, ThreadAssumption DEF Ids, Dead, Creating, Building

LEMMA EndIds ==
    ASSUME Inv, Ids, NEW t \in Thread,
           Release(t) \/ Pop(t) \/ SwitchAway(t) \/ TimerNested(t) \/ TimerNestedRemove(t)
    PROVE  Ids' /\ Stays
<1>0. Typed
  BY TypedIs DEF Inv
<1>1. CASE Release(t)
  <2>1. /\ thread' = thread /\ tid' = tid /\ local' = local /\ pc[t] = "release"
        /\ \A u \in Thread : pc'[u] = IF u = t THEN "pop" ELSE pc[u]
    BY <1>0, <1>1, RemovesNothing DEF Release, Runs, Goto, Typed
  <2> QED  BY <2>1, QuietIds, ThreadAssumption DEF Ids, Dead, Creating, Building
<1>2. CASE Pop(t)
  <2>1. /\ thread' = thread /\ tid' = tid /\ pc[t] = "pop"
        /\ \A u \in Thread \ {t} : local'[u] = local[u]
        /\ \A u \in Thread : pc'[u] = IF u = t THEN "switch" ELSE pc[u]
    BY <1>0, <1>2 DEF Pop, Goto, Typed
  <2> QED  BY <2>1, QuietIds, ThreadAssumption DEF Ids, Dead, Creating, Building
<1>3. CASE SwitchAway(t)
  <2>1. pc[t] = "switch" /\ local[t].new \in Thread /\ LeaveFor(t, local[t].new)
    BY <1>3 DEF SwitchAway, Inv, Apart
  <2> QED  BY <2>1, LeaveIds
<1>4. CASE TimerNested(t)
  <2>1. pc[t] \in {"pop", "switch"} /\ readyQueue \in Thread /\ LeaveFor(t, readyQueue)
    BY <1>0, <1>4 DEF TimerNested, Typed, Pointer
  <2> QED  BY <2>1, LeaveIds
<1>5. CASE TimerNestedRemove(t)
  BY <1>5, NestedRemoveEffect, QuietIds, ThreadAssumption DEF Ids, Dead, Creating, Building
<1> QED  BY <1>1, <1>2, <1>3, <1>4, <1>5

LEMMA RotateIds == ASSUME Inv, Ids, TimerRotate PROVE Ids' /\ Stays
<1>1. PICK R \in Thread, L \in Thread, C \in Thread : Rotates(R, L, C)
  BY RotateEffect
<1>2. \A u \in Thread : pc'[u] = pc[u] \/ (pc[u] = "fresh" /\ pc'[u] = "popf")
  BY <1>1 DEF Rotates
<1>3. tid' = tid /\ local' = local
      /\ \A u \in Thread : thread'[u].id = thread[u].id /\ thread'[u].remove = thread[u].remove
  <2>1. Typed
    BY TypedIs DEF Inv
  <2> QED  BY <1>1, <2>1 DEF TimerRotate, Requeued, Rotates, Typed, ThreadRec
<1> QED  BY <1>2, <1>3, QuietIds, ThreadAssumption DEF Ids, Dead, Creating, Building

(* Whoever runs was linked, and is in nobody's hands. *)
LEMMA QueuedAdmitted ==
    ASSUME Inv, NEW t \in Thread, t \in Queue \/ (t = current /\ pc[t] # "release")
    PROVE  Admitted(t)
<1>1. t \in Alive
  BY ThreadAssumption DEF Inv, Apart, Alive, Dead
<1>2. \A u \in Thread : pc[u] \in Building => local[u].child # t
  BY DEF Inv, Private, Unseen, Creating
<1> QED  BY <1>1, <1>2 DEF Admitted

(* From the tick that begins to remove a thread nobody can send to it. *)
LEMMA RemoveIds ==
    ASSUME Inv, Ids, TimerRemove
    PROVE  /\ Ids' /\ current \in Thread /\ thread' = thread
           /\ Admitted(current) \/ pc[current] = "release"
           /\ \A w \in Thread :
                 /\ Known(w) => Known(w)'
                 /\ Admitted(w)' <=> Admitted(w) /\ w # current
<1>0. Typed
  BY TypedIs DEF Inv
<1>1. PICK c \in Thread : c = current
  BY <1>0 DEF TimerRemove, Typed, Pointer
<1>2. /\ thread[c].remove /\ UNCHANGED <<thread, tid, local>>
      /\ \A u \in Thread : pc'[u] = IF u = c THEN "release" ELSE pc[u]
  BY <1>0, <1>1 DEF TimerRemove, Goto, Typed, queue
<1>3. pc[c] \in {"exited", "release"}
  BY <1>1, <1>2, ThreadAssumption DEF Ids, Inv, Apart
<1>4. \A u \in Thread : Numbered(u)' <=> Numbered(u)
  BY <1>2, <1>3, ThreadAssumption DEF Numbered
<1>5. Ids'
  BY <1>2, <1>3, <1>4, ThreadAssumption DEF Ids, Creating, Building, Dead
<1>6. \A u \in Thread : pc'[u] \in Building <=> pc[u] \in Building
  BY <1>2, <1>3 DEF Building
<1>7. \A u \in Thread : u \in Alive' <=> u \in Alive /\ u # c
  BY <1>2, <1>3 DEF Alive
<1>8. \A w \in Thread : Admitted(w)' <=> Admitted(w) /\ w # c
  BY <1>2, <1>6, <1>7 DEF Admitted
<1>9. \A w \in Thread : Known(w) => Known(w)'
  BY <1>2, <1>8 DEF Known, Dead
<1>10. Admitted(c) \/ pc[c] = "release"
  BY <1>1, QueuedAdmitted
<1> QED  BY <1>1, <1>2, <1>5, <1>8, <1>9, <1>10

LEMMA InitIds == Init => Ids
<1> SUFFICES ASSUME Init PROVE Ids
  OBVIOUS
<1>1. tid = 1 /\ \A t \in Thread :
          /\ pc[t] = IF t = Main THEN "launch" ELSE "unused"
          /\ thread[t].id = 0 /\ thread[t].remove = FALSE
  BY DEF Init, NoThread
<1>2. \A t \in Thread : Numbered(t) => t = Main
  BY <1>1, ThreadAssumption DEF Numbered
<1> QED  BY <1>1, <1>2, ThreadAssumption DEF Ids, Creating, Building

(* Everything but the scheduler keeps the ids and the queue. *)
LEMMA SameIds ==
    ASSUME Ids, UNCHANGED <<thread, tid, pc, local>> PROVE Ids' /\ Stays
<1>1. \A t \in Thread : (Numbered(t)' <=> Numbered(t)) /\ (Admitted(t)' <=> Admitted(t))
  BY DEF Numbered, Admitted, Alive
<1> QED  BY <1>1 DEF Ids, Stays, Known

LEMMA ScheduleIds ==
    ASSUME Spawners \subseteq {Main}, Inv, Ids,
           TimerRotate \/ \E t \in Thread : TimerNested(t) \/ ThreadStep(t)
    PROVE  Ids' /\ (Stays \/ \E c \in Thread : Links(c))
<1>1. ASSUME NEW t \in Thread, ThreadStep(t) PROVE Ids' /\ (Stays \/ \E c \in Thread : Links(c))
  BY <1>1, CreateIds, CallIds, WriteIds, StackIds, LinkIds, EndIds DEF ThreadStep
<1> QED  BY <1>1, RotateIds, EndIds

LEMMA KnownIds ==
    ASSUME Ids, NEW t \in Thread, NEW u \in Thread, Known(t), Known(u), thread[t].id = thread[u].id
    PROVE  t = u
<1>1. Numbered(t) /\ Numbered(u)
  BY DEF Numbered, Known, Admitted, Alive, Dead
<1> QED  BY <1>1 DEF Ids

----------------------------------------------------------------------------
(* The list. *)

(* The nodes that stay keep their order and their contents. *)
LEMMA Restriction ==
    ASSUME msgs \in Seq(Letter), NEW S \in SUBSET (1 .. Len(msgs)), NEW m \in I!Restricted(S)
    PROVE  /\ m \in Seq(Letter)
           /\ \A k \in 1 .. Len(m) : \E i \in S : m[k] = msgs[i]
           /\ \A i \in S : \E k \in 1 .. Len(m) : m[k] = msgs[i]
           /\ Sorted(msgs) => Sorted(m)
<1> DEFINE n == Cardinality(S)
<1>1. n \in Nat
  <2>1. Len(msgs) \in Nat /\ IsFiniteSet(1 .. Len(msgs))
    BY FS_Interval
  <2> QED  BY <2>1, FS_Subset, FS_CardinalityType
<1>2. I!Cardinality(S) = n
  BY DEF I!Cardinality, Cardinality
<1> HIDE DEF n
<1>3. PICK f \in [1 .. n -> S] :
          /\ \A j, k \in 1 .. n : j < k => f[j] < f[k]
          /\ \A i \in S : \E k \in 1 .. n : f[k] = i
          /\ m = [k \in 1 .. n |-> msgs[f[k]]]
  BY <1>2 DEF I!Restricted
<1>4. \A k \in 1 .. n : f[k] \in S /\ f[k] \in 1 .. Len(msgs) /\ msgs[f[k]] \in Letter
  <2>1. \A k \in 1 .. n : f[k] \in S /\ f[k] \in 1 .. Len(msgs)
    BY <1>3
  <2> QED  BY <2>1, ElementOfSeq
<1>5. m \in Seq(Letter) /\ Len(m) = n /\ \A k \in 1 .. n : m[k] = msgs[f[k]]
  <2>1. m \in [1 .. n -> Letter]
    BY <1>3, <1>4
  <2>2. m \in Seq(Letter)
    BY <1>1, <2>1, SeqDef
  <2>3. DOMAIN m = 1 .. Len(m) /\ Len(m) \in Nat
    BY <2>2, LenProperties
  <2>4. Len(m) = n
    BY <1>1, <2>1, <2>3
  <2> QED  BY <1>3, <2>2, <2>4
<1>6. Sorted(msgs) => Sorted(m)
  BY <1>3, <1>4, <1>5 DEF Sorted
<1> QED  BY <1>3, <1>4, <1>5, <1>6

(* No number is in the list twice. *)
LEMMA Distinct ==
    ASSUME Letters, NEW i \in 1 .. Len(msgs), NEW j \in 1 .. Len(msgs),
           msgs[i].serial = msgs[j].serial
    PROVE  i = j
<1>1. Len(msgs) \in Nat /\ msgs[i].serial \in Nat
  <2>1. msgs[i] \in Letter
    BY DEF Letters
  <2> QED  BY <2>1 DEF Letter, Letters
<1> QED  BY <1>1 DEF Letters, Sorted

LEMMA InBox ==
    ASSUME NEW t \in Thread, NEW s
    PROVE  /\ s \in Box(t) <=>
                 Admitted(t) /\ \E i \in 1 .. Len(msgs) :
                                   msgs[i].tid = thread[t].id /\ msgs[i].serial = s
           /\ s \in Box(t)' <=>
                 Admitted(t)' /\ \E i \in 1 .. Len(msgs') :
                                    msgs'[i].tid = thread'[t].id /\ msgs'[i].serial = s
BY DEF Box, I!For

(* A number is in one box, and was taken by nobody. *)
LEMMA OneBox ==
    ASSUME Ids, Letters, NEW t \in Thread, NEW s \in Box(t)
    PROVE  /\ s \in 1 .. sent
           /\ \A u \in Thread : s \notin Taken(u) /\ (u # t => s \notin Box(u))
<1>1. PICK i \in 1 .. Len(msgs) : msgs[i].tid = thread[t].id /\ s = msgs[i].serial
  BY InBox
<1>2. msgs[i] \in Letter
  BY ElementOfSeq DEF Letters
<1>3. ASSUME NEW u \in Thread, s \in Box(u) PROVE u = t
  <2>1. PICK j \in 1 .. Len(msgs) : msgs[j].tid = thread[u].id /\ s = msgs[j].serial
    BY <1>3, InBox
  <2>2. thread[u].id = thread[t].id
    BY <1>1, <2>1, Distinct
  <2>3. Admitted(u) /\ Admitted(t)
    BY <1>3, InBox
  <2> QED  BY <2>2, <2>3, KnownIds DEF Known
<1> QED  BY <1>1, <1>2, <1>3 DEF Letter, Letters

Dropped == {s \in 1 .. sent : \A t \in Thread : s \notin Box(t) \cup Taken(t)}

(* A step that leaves the list alone. *)
LEMMA MailStays ==
    ASSUME Ids, Letters, Stays \/ \E c \in Thread : Links(c), UNCHANGED <<msgs, sent, got>>
    PROVE  Letters'
<1>1. \A t \in Thread : Known(t) => Known(t)' /\ thread'[t].id = thread[t].id
  BY DEF Stays, Links
<1>2. \A t \in Thread : Taken(t)' = Taken(t)
  BY DEF Taken
<1>3. \A i \in 1 .. Len(msgs') : \E t \in Thread : Known(t)' /\ msgs'[i].tid = thread'[t].id
  <2> SUFFICES ASSUME NEW i \in 1 .. Len(msgs) PROVE \E t \in Thread : Known(t)' /\ msgs[i].tid = thread'[t].id
    OBVIOUS
  <2>1. PICK t \in Thread : Known(t) /\ msgs[i].tid = thread[t].id
    BY DEF Letters
  <2> QED  BY <1>1, <2>1
<1> QED  BY <1>2, <1>3 DEF Letters, Letter

LEMMA StaysStutters ==
    ASSUME Stays, UNCHANGED <<msgs, sent, got>> PROVE UNCHANGED MB!vars
<1>1. \A t \in Thread : (Admitted(t)' <=> Admitted(t)) /\ (Admitted(t) => thread'[t].id = thread[t].id)
  BY DEF Stays, Known
<1>2. ASSUME NEW t \in Thread PROVE Box(t)' = Box(t) /\ Taken(t)' = Taken(t)
  <2>1. CASE Admitted(t)
    BY <1>1, <2>1 DEF Box, I!For, Taken
  <2>2. CASE ~Admitted(t)
    BY <1>1, <2>2 DEF Box, Taken
  <2> QED  BY <2>1, <2>2
<1>3. [t \in Thread |-> Box(t)]' = [t \in Thread |-> Box(t)] /\ Dropped' = Dropped
  BY <1>2 DEF Dropped
<1>4. {t \in Thread : Admitted(t)}' = {t \in Thread : Admitted(t)}
  BY <1>1
<1> QED  BY <1>3, <1>4 DEF MB!vars, Dropped

(* The store that links a thread opens its box, and no message waits in it.*)
LEMMA LinksOpens ==
    ASSUME Ids, Letters, Ids', NEW c \in Thread, Links(c), UNCHANGED <<msgs, sent, got>>
    PROVE  MB!Open(c)
<1>1. \A t \in Thread : (Admitted(t)' <=> Admitted(t) \/ t = c) /\ (Admitted(t) => thread'[t].id = thread[t].id)
  BY DEF Links, Known
<1>2. ~Admitted(c) /\ Box(c) = {}
  BY DEF Links, Known, Box
<1>3. Box(c)' = {}
  <2> SUFFICES ASSUME NEW s \in Box(c)' PROVE FALSE
    OBVIOUS
  <2>1. PICK i \in 1 .. Len(msgs) : msgs[i].tid = thread'[c].id
    BY InBox
  <2>2. PICK t \in Thread : Known(t) /\ msgs[i].tid = thread[t].id
    BY DEF Letters
  <2>3. Known(t)' /\ thread'[t].id = thread[t].id /\ t # c
    BY <2>2 DEF Links
  <2>4. Known(c)'
    BY <1>1 DEF Known
  <2>5. Numbered(t)' /\ Numbered(c)'
    BY <2>3, <2>4 DEF Numbered, Known, Admitted, Alive, Dead
  <2> QED  BY <2>1, <2>2, <2>3, <2>5 DEF Ids
<1>4. ASSUME NEW t \in Thread PROVE Box(t)' = Box(t) /\ Taken(t)' = Taken(t)
  <2>1. CASE Admitted(t)
    BY <1>1, <2>1 DEF Box, I!For, Taken
  <2>2. CASE t = c
    BY <1>2, <1>3, <2>2 DEF Taken
  <2>3. CASE ~Admitted(t) /\ t # c
    BY <1>1, <2>3 DEF Box, Taken
  <2> QED  BY <2>1, <2>2, <2>3
<1>5. [t \in Thread |-> Box(t)]' = [t \in Thread |-> Box(t)] /\ Dropped' = Dropped
  BY <1>4 DEF Dropped
<1>6. {t \in Thread : Admitted(t)}' = {t \in Thread : Admitted(t)} \cup {c}
  BY <1>1
<1> QED  BY <1>2, <1>5, <1>6 DEF MB!Open, Dropped

----------------------------------------------------------------------------
(* The three calls and the handler's clearMessages. *)

(* The id that is running names one thread, and that one has a mailbox. *)
LEMMA SendDelivers ==
    ASSUME Inv, Ids, Letters, NEW t \in Thread, SendMessage(t)
    PROVE  Letters' /\ \E c \in Thread : MB!Deliver(c)
<1>0. Typed
  BY TypedIs DEF Inv
<1>1. PICK id \in Running : I!sendMessage(id)
  BY DEF SendMessage
<1>2. PICK c \in Queue \cup ({current} \ {NULL}) : id = thread[c].id
  BY <1>1 DEF Running
<1>3. current = t /\ pc[t] = "launch" /\ UNCHANGED <<thread, tid, pc, local>>
  BY DEF SendMessage, Runs, vars, queue
<1>4. c \in Thread /\ Admitted(c) /\ id \in Nat
  <2>1. c \in Thread /\ (c \in Queue \/ (c = current /\ pc[c] # "release"))
    BY <1>2, <1>3 DEF Queue
  <2> QED  BY <1>0, <1>2, <2>1, QueuedAdmitted DEF Typed, ThreadRec
<1> DEFINE new == [tid |-> id, serial |-> sent + 1]
<1>5. /\ sent' = sent + 1 /\ msgs' = Append(msgs, new) /\ got' = got
      /\ sent \in Nat /\ msgs \in Seq(Letter) /\ new \in [tid : Nat, serial : 1 .. sent']
  BY <1>1, <1>4 DEF I!sendMessage, Letters
<1>6. /\ Len(msgs') = Len(msgs) + 1 /\ Len(msgs) \in Nat
      /\ msgs'[Len(msgs) + 1] = new
      /\ \A i \in 1 .. Len(msgs) : msgs'[i] = msgs[i] /\ msgs[i] \in Letter
  BY <1>5
<1>7. \A u \in Thread : thread'[u].id = thread[u].id /\ (Admitted(u)' <=> Admitted(u))
                        /\ (Known(u) => Known(u)')
  BY <1>3, SameIds DEF Stays
<1>8. \A u \in Thread : Admitted(u) /\ thread[u].id = id => u = c
  BY <1>2, <1>4, KnownIds DEF Known
<1>9. \A u \in Thread : Taken(u)' = Taken(u) /\ sent + 1 \notin Taken(u)
  BY <1>5 DEF Letters, Taken
<1>10. Letters'
  <2>1. 1 .. sent \subseteq 1 .. sent'
    BY <1>5
  <2>2. msgs' \in Seq([tid : Nat, serial : 1 .. sent'])
    <3>1. Letter \subseteq [tid : Nat, serial : 1 .. sent']
      BY <2>1 DEF Letter
    <3>2. msgs \in Seq([tid : Nat, serial : 1 .. sent'])
      BY <1>5, <3>1, SeqMonotonic
    <3> QED  BY <1>5, <3>2
  <2>3. got' \in [Thread -> Seq(1 .. sent')]
    BY <1>5, <2>1 DEF Letters
  <2>4. Sorted(msgs)'
    <3>1. \A i \in 1 .. Len(msgs) : msgs'[i] = msgs[i] /\ msgs[i].serial \in Nat /\ msgs[i].serial <= sent
      BY <1>5, <1>6 DEF Letter
    <3>2. msgs'[Len(msgs) + 1].serial = sent + 1
      BY <1>6
    <3>3. \A i, j \in 1 .. Len(msgs) : i < j => msgs[i].serial < msgs[j].serial
      BY DEF Letters, Sorted
    <3>4. \A i, j \in 1 .. Len(msgs) + 1 : i < j => msgs'[i].serial < msgs'[j].serial
      BY <1>5, <1>6, <3>1, <3>2, <3>3
    <3> QED  BY <1>6, <3>4 DEF Sorted
  <2>5. \A i \in 1 .. Len(msgs'), u \in Thread : msgs'[i].serial \notin Taken(u)'
    BY <1>5, <1>6, <1>9 DEF Letters
  <2>6. \A i \in 1 .. Len(msgs') : \E u \in Thread : Known(u)' /\ msgs'[i].tid = thread'[u].id
    <3> SUFFICES ASSUME NEW i \in 1 .. Len(msgs')
                 PROVE  \E u \in Thread : Known(u)' /\ msgs'[i].tid = thread'[u].id
      OBVIOUS
    <3>1. CASE i \in 1 .. Len(msgs)
      <4>1. PICK u \in Thread : Known(u) /\ msgs[i].tid = thread[u].id
        BY <3>1 DEF Letters
      <4> QED  BY <1>6, <1>7, <3>1, <4>1
    <3>2. CASE i = Len(msgs) + 1
      <4>1. Known(c)'
        BY <1>4, <1>7 DEF Known
      <4> QED  BY <1>2, <1>4, <1>6, <1>7, <3>2, <4>1
    <3> QED  BY <1>6, <3>1, <3>2
  <2>7. sent' \in Nat
    BY <1>5
  <2> QED  BY <2>2, <2>3, <2>4, <2>5, <2>6, <2>7 DEF Letters, Letter
<1>11. ASSUME NEW u \in Thread PROVE Box(u)' = IF u = c THEN Box(u) \cup {sent + 1} ELSE Box(u)
  <2>1. ASSUME NEW s \in Box(u) PROVE s \in Box(u)'
    <3>1. PICK i \in 1 .. Len(msgs) : Admitted(u) /\ msgs[i].tid = thread[u].id /\ msgs[i].serial = s
      BY <2>1, InBox
    <3>2. i \in 1 .. Len(msgs') /\ msgs'[i] = msgs[i]
      BY <1>6
    <3> QED  BY <1>7, <3>1, <3>2, InBox
  <2>2. ASSUME NEW s \in Box(u)', s \notin Box(u) PROVE u = c /\ s = sent + 1
    <3>1. PICK i \in 1 .. Len(msgs') :
              Admitted(u)' /\ msgs'[i].tid = thread'[u].id /\ msgs'[i].serial = s
      BY <2>2, InBox
    <3>2. i \notin 1 .. Len(msgs)
      BY <1>6, <1>7, <2>2, <3>1, InBox
    <3>3. msgs'[i] = new
      BY <1>6, <3>2
    <3> QED  BY <1>7, <1>8, <3>1, <3>3
  <2>3. sent + 1 \in Box(c)'
    <3>1. Len(msgs) + 1 \in 1 .. Len(msgs')
      BY <1>6
    <3> QED  BY <1>2, <1>4, <1>6, <1>7, <3>1, InBox
  <2> QED  BY <2>1, <2>2, <2>3
<1>12. [u \in Thread |-> Box(u)]' = [[u \in Thread |-> Box(u)] EXCEPT ![c] = @ \cup {sent + 1}]
  BY <1>4, <1>11
<1>13. 1 .. sent' = 1 .. sent \cup {sent + 1}
  BY <1>5
<1>14. Dropped' = Dropped
  <2>1. \A u \in Thread : (Box(u) \cup Taken(u))' =
                          IF u = c THEN Box(u) \cup Taken(u) \cup {sent + 1} ELSE Box(u) \cup Taken(u)
    BY <1>9, <1>11
  <2>2. sent + 1 \in Box(c)'
    BY <1>4, <1>11
  <2>3. sent + 1 \notin 1 .. sent
    BY <1>5
  <2>4. \A s \in 1 .. sent : \A u \in Thread :
            s \in Box(u)' \cup Taken(u)' <=> s \in Box(u) \cup Taken(u)
    BY <1>9, <1>11, <2>3
  <2>5. \A s : s \in Dropped' <=> s \in Dropped
    BY <1>4, <1>13, <2>2, <2>4 DEF Dropped
  <2> QED  BY <2>5 DEF Dropped
<1>15. {u \in Thread : Admitted(u)}' = {u \in Thread : Admitted(u)} /\ c \in {u \in Thread : Admitted(u)}
  BY <1>4, <1>7
<1> QED  BY <1>4, <1>5, <1>10, <1>12, <1>14, <1>15 DEF MB!Deliver, Dropped

(* The caller is admitted, and takes its own oldest message. *)
LEMMA ReceiveTakes ==
    ASSUME Inv, Ids, Letters, NEW t \in Thread, ReceiveMessage(t)
    PROVE  Letters' /\ MB!Take(t)
<1>1. PICK i \in 1 .. Len(msgs) :
          /\ I!FirstFor(thread[t].id, i)
          /\ msgs' \in I!Restricted((1 .. Len(msgs)) \ {i})
          /\ got' = [got EXCEPT ![t] = Append(@, msgs[i].serial)]
  BY DEF ReceiveMessage
<1> DEFINE s == msgs[i].serial
           S == (1 .. Len(msgs)) \ {i}
<1>2. current = t /\ pc[t] = "launch" /\ UNCHANGED <<thread, tid, pc, local, sent>>
  BY DEF ReceiveMessage, Runs, vars, queue
<1>3. Admitted(t)
  BY <1>2, QueuedAdmitted
<1>4. \A u \in Thread : thread'[u].id = thread[u].id /\ (Admitted(u)' <=> Admitted(u))
                        /\ (Known(u) => Known(u)')
  BY <1>2, SameIds DEF Stays
<1>5. /\ msgs \in Seq(Letter) /\ Sorted(msgs) /\ sent \in Nat /\ Len(msgs) \in Nat
      /\ \A j \in 1 .. Len(msgs) : msgs[j] \in Letter
  BY ElementOfSeq DEF Letters
<1>6. /\ msgs' \in Seq(Letter) /\ Sorted(msgs')
      /\ \A k \in 1 .. Len(msgs') : \E j \in S : msgs'[k] = msgs[j]
      /\ \A j \in S : \E k \in 1 .. Len(msgs') : msgs'[k] = msgs[j]
  <2>1. S \in SUBSET (1 .. Len(msgs)) /\ msgs' \in I!Restricted(S)
    BY <1>1
  <2> HIDE DEF S
  <2> QED  BY <1>5, <2>1, Restriction
<1>7. \A j \in 1 .. Len(msgs) : msgs[j].serial = s => j = i
  BY Distinct
<1>8. /\ Taken(t)' = Taken(t) \cup {s} /\ \A u \in Thread \ {t} : Taken(u)' = Taken(u)
      /\ got' \in [Thread -> Seq(1 .. sent)]
  <2>1. s \in 1 .. sent
    BY <1>5 DEF Letter
  <2>2. got'[t] = Append(got[t], s) /\ got[t] \in Seq(1 .. sent)
        /\ \A u \in Thread \ {t} : got'[u] = got[u]
    BY <1>1 DEF Letters
  <2>3. Len(got[t]) \in Nat /\ Len(got'[t]) = Len(got[t]) + 1
        /\ got'[t][Len(got[t]) + 1] = s
        /\ \A k \in 1 .. Len(got[t]) : got'[t][k] = got[t][k]
    BY <2>2
  <2>4. Taken(t)' = Taken(t) \cup {s} /\ \A u \in Thread \ {t} : Taken(u)' = Taken(u)
    BY <2>2, <2>3 DEF Taken
  <2>5. got' \in [Thread -> Seq(1 .. sent)]
    <3> HIDE DEF s
    <3> QED  BY <1>1, <2>1 DEF Letters, s
  <2> QED  BY <2>4, <2>5
<1>9. Letters'
  <2>1. \A k \in 1 .. Len(msgs'), u \in Thread : msgs'[k].serial \notin Taken(u)'
    <3> SUFFICES ASSUME NEW k \in 1 .. Len(msgs'), NEW u \in Thread
                 PROVE  msgs'[k].serial \notin Taken(u)'
      OBVIOUS
    <3>1. PICK j \in S : msgs'[k] = msgs[j]
      BY <1>6
    <3>2. msgs[j].serial # s /\ msgs[j].serial \notin Taken(u)
      BY <1>7 DEF Letters
    <3> QED  BY <1>8, <3>1, <3>2
  <2>2. \A k \in 1 .. Len(msgs') : \E u \in Thread : Known(u)' /\ msgs'[k].tid = thread'[u].id
    <3> SUFFICES ASSUME NEW k \in 1 .. Len(msgs')
                 PROVE  \E u \in Thread : Known(u)' /\ msgs'[k].tid = thread'[u].id
      OBVIOUS
    <3>1. PICK j \in S : msgs'[k] = msgs[j]
      BY <1>6
    <3>2. PICK u \in Thread : Known(u) /\ msgs[j].tid = thread[u].id
      BY DEF Letters
    <3> QED  BY <1>4, <3>1, <3>2
  <2>3. sent' = sent
    BY <1>2
  <2> QED  BY <1>5, <1>6, <1>8, <2>1, <2>2, <2>3 DEF Letters, Letter
<1>10. s \in Box(t) /\ msgs[i].tid = thread[t].id /\ \A j \in I!For(thread[t].id) : i <= j
  BY <1>1, <1>3 DEF I!FirstFor, I!For, Box
<1>11. \A r \in Box(t) : s <= r
  <2> SUFFICES ASSUME NEW j \in I!For(thread[t].id) PROVE s <= msgs[j].serial
    BY <1>3 DEF Box
  <2>1. j \in 1 .. Len(msgs) /\ i <= j
    BY <1>10 DEF I!For
  <2>2. msgs[j] \in Letter /\ msgs[i] \in Letter
    BY <1>5, <2>1
  <2> QED  BY <1>5, <2>1, <2>2 DEF Sorted, Letter
<1>12. ASSUME NEW u \in Thread PROVE Box(u)' = IF u = t THEN Box(u) \ {s} ELSE Box(u)
  <2>1. ASSUME NEW r \in Box(u)' PROVE r \in Box(u) /\ r # s
    <3>1. PICK k \in 1 .. Len(msgs') :
              Admitted(u)' /\ msgs'[k].tid = thread'[u].id /\ msgs'[k].serial = r
      BY <2>1, InBox
    <3>2. PICK j \in S : msgs'[k] = msgs[j]
      BY <1>6
    <3>3. j \in 1 .. Len(msgs) /\ msgs[j].tid = thread[u].id /\ msgs[j].serial = r /\ Admitted(u)
      BY <1>4, <3>1, <3>2
    <3> QED  BY <1>7, <3>2, <3>3, InBox
  <2>2. ASSUME NEW r \in Box(u), r # s PROVE r \in Box(u)'
    <3>1. PICK j \in 1 .. Len(msgs) : Admitted(u) /\ msgs[j].tid = thread[u].id /\ msgs[j].serial = r
      BY <2>2, InBox
    <3>2. PICK k \in 1 .. Len(msgs') : msgs'[k] = msgs[j]
      BY <1>6, <2>2, <3>1
    <3> QED  BY <1>4, <3>1, <3>2, InBox
  <2>3. u # t => s \notin Box(u)
    BY <1>10, OneBox
  <2> QED  BY <2>1, <2>2, <2>3
<1>13. [u \in Thread |-> Box(u)]' = [[u \in Thread |-> Box(u)] EXCEPT ![t] = @ \ {s}]
  BY <1>12
<1>14. Dropped' = Dropped
  <2>1. \A u \in Thread : Box(u)' \cup Taken(u)' = Box(u) \cup Taken(u)
    BY <1>8, <1>10, <1>12
  <2> QED  BY <1>2, <2>1 DEF Dropped
<1>15. {u \in Thread : Admitted(u)}' = {u \in Thread : Admitted(u)} /\ t \in {u \in Thread : Admitted(u)}
  BY <1>3, <1>4
<1> QED  BY <1>1, <1>2, <1>9, <1>10, <1>11, <1>13, <1>14, <1>15 DEF MB!Take, MB!Oldest, Dropped

(* What clearMessages leaves is in the list as it was, and whatever was    *)
(* for another id is left.                                                 *)
LEMMA Clears ==
    ASSUME Letters, NEW id, I!clearMessages(id)
    PROVE  /\ msgs' \in Seq(Letter) /\ Sorted(msgs')
           /\ \A k \in 1 .. Len(msgs') : \E j \in 1 .. Len(msgs) : msgs'[k] = msgs[j]
           /\ \A j \in 1 .. Len(msgs) :
                 msgs[j].tid # id => \E k \in 1 .. Len(msgs') : msgs'[k] = msgs[j]
<1> DEFINE S == (1 .. Len(msgs)) \ I!Unlinked(id)
<1>1. \A i \in I!Freed(id) : msgs[i].tid = id
  BY DEF I!Freed, I!For
<1>2. S \in SUBSET (1 .. Len(msgs)) /\ msgs' \in I!Restricted(S) /\ msgs \in Seq(Letter)
  BY DEF I!clearMessages, Letters
<1>3. \A j \in 1 .. Len(msgs) : msgs[j].tid # id => j \in S
  BY <1>1 DEF I!Unlinked
<1>4. /\ msgs' \in Seq(Letter) /\ Sorted(msgs')
      /\ \A k \in 1 .. Len(msgs') : \E i \in S : msgs'[k] = msgs[i]
      /\ \A i \in S : \E k \in 1 .. Len(msgs') : msgs'[k] = msgs[i]
  <2> HIDE DEF S
  <2> QED  BY <1>2, Restriction DEF Letters
<1> QED  BY <1>3, <1>4

(* The box of the thread that ends is closed, and no other loses a         *)
(* message; a timer that finds the thread still there closes nothing.      *)
LEMMA ClearCloses ==
    ASSUME Inv, Ids, Letters, ClearMessages
    PROVE  Letters' /\ ((\E c \in Thread : MB!Close(c)) \/ UNCHANGED MB!vars)
<1>1. PICK c \in Thread : c = current
  BY RemoveIds DEF ClearMessages
<1>2. /\ I!clearMessages(thread[c].id) /\ UNCHANGED <<sent, got, thread>>
      /\ \A u \in Thread : /\ Known(u) => Known(u)'
                           /\ Admitted(u)' <=> Admitted(u) /\ u # c
      /\ Known(c)
  BY <1>1, RemoveIds DEF ClearMessages, Known
<1>3. /\ msgs' \in Seq(Letter) /\ Sorted(msgs')
      /\ \A k \in 1 .. Len(msgs') : \E j \in 1 .. Len(msgs) : msgs'[k] = msgs[j]
      /\ \A j \in 1 .. Len(msgs) :
            msgs[j].tid # thread[c].id => \E k \in 1 .. Len(msgs') : msgs'[k] = msgs[j]
  BY <1>2, Clears
<1>4. \A u \in Thread : Taken(u)' = Taken(u)
  BY <1>2 DEF Taken
<1>5. Letters'
  <2>1. \A k \in 1 .. Len(msgs'), u \in Thread : msgs'[k].serial \notin Taken(u)'
    BY <1>3, <1>4 DEF Letters
  <2>2. \A k \in 1 .. Len(msgs') : \E u \in Thread : Known(u)' /\ msgs'[k].tid = thread'[u].id
    <3> SUFFICES ASSUME NEW k \in 1 .. Len(msgs')
                 PROVE  \E u \in Thread : Known(u)' /\ msgs'[k].tid = thread'[u].id
      OBVIOUS
    <3>1. PICK j \in 1 .. Len(msgs) : msgs'[k] = msgs[j]
      BY <1>3
    <3>2. PICK u \in Thread : Known(u) /\ msgs[j].tid = thread[u].id
      BY DEF Letters
    <3> QED  BY <1>2, <3>1, <3>2
  <2>3. sent' \in Nat /\ got' \in [Thread -> Seq(1 .. sent')] /\ msgs' \in Seq([tid : Nat, serial : 1 .. sent'])
    BY <1>2, <1>3 DEF Letters, Letter
  <2> QED  BY <1>3, <2>1, <2>2, <2>3 DEF Letters, Letter
<1>6. ASSUME NEW u \in Thread PROVE Box(u)' = IF u = c THEN {} ELSE Box(u)
  <2>1. ASSUME NEW r \in Box(u)' PROVE r \in Box(u) /\ u # c
    <3>1. PICK k \in 1 .. Len(msgs') :
              Admitted(u)' /\ msgs'[k].tid = thread'[u].id /\ msgs'[k].serial = r
      BY <2>1, InBox
    <3>2. PICK j \in 1 .. Len(msgs) : msgs'[k] = msgs[j]
      BY <1>3
    <3>3. msgs[j].tid = thread[u].id /\ msgs[j].serial = r /\ Admitted(u) /\ u # c
      BY <1>2, <3>1, <3>2
    <3> QED  BY <3>3, InBox
  <2>2. ASSUME NEW r \in Box(u), u # c PROVE r \in Box(u)'
    <3>1. PICK j \in 1 .. Len(msgs) : Admitted(u) /\ msgs[j].tid = thread[u].id /\ msgs[j].serial = r
      BY <2>2, InBox
    <3>2. thread[u].id # thread[c].id
      BY <1>2, <2>2, <3>1, KnownIds DEF Known
    <3>3. PICK k \in 1 .. Len(msgs') : msgs'[k] = msgs[j]
      BY <1>3, <3>1, <3>2
    <3>4. Admitted(u)' /\ msgs'[k].tid = thread'[u].id /\ msgs'[k].serial = r
      BY <1>2, <2>2, <3>1, <3>3
    <3> QED  BY <3>4, InBox
  <2> QED  BY <2>1, <2>2
<1>7. CASE Admitted(c)
  <2>1. [u \in Thread |-> Box(u)]' = [[u \in Thread |-> Box(u)] EXCEPT ![c] = {}]
    BY <1>6
  <2>2. Dropped' = Dropped \cup Box(c)
    <3>1. \A s \in Box(c) : s \in 1 .. sent /\ \A u \in Thread : s \notin Taken(u) /\ (u # c => s \notin Box(u))
      BY OneBox
    <3> QED  BY <1>2, <1>4, <1>6, <3>1 DEF Dropped
  <2>3. /\ {u \in Thread : Admitted(u)}' = {u \in Thread : Admitted(u)} \ {c}
        /\ c \in {u \in Thread : Admitted(u)}
    BY <1>2, <1>7
  <2>4. MB!Close(c)
    BY <1>2, <2>1, <2>2, <2>3 DEF MB!Close, Dropped
  <2> QED  BY <1>5, <2>4
<1>8. CASE ~Admitted(c)
  <2>1. \A u \in Thread : Box(u)' = Box(u)
    BY <1>6, <1>8 DEF Box
  <2>2. [u \in Thread |-> Box(u)]' = [u \in Thread |-> Box(u)] /\ Dropped' = Dropped
    BY <1>2, <1>4, <2>1 DEF Dropped
  <2>3. {u \in Thread : Admitted(u)}' = {u \in Thread : Admitted(u)}
    BY <1>2, <1>8
  <2>4. UNCHANGED MB!vars
    BY <1>2, <2>2, <2>3 DEF MB!vars, Dropped
  <2> QED  BY <1>5, <2>4
<1> QED  BY <1>7, <1>8

(* Messages cleared to a number read from page 0 are those of one thread,  *)
(* or of none that can still receive.                                      *)
LEMMA AstrayLoses ==
    ASSUME Inv, Ids, Letters, ClearAstray
    PROVE  Letters' /\ ((Astray /\ \E c \in Thread : MB!Lose(c)) \/ UNCHANGED MB!vars)
<1>1. PICK id \in 0 .. Cardinality(Thread) : I!clearMessages(id)
  BY DEF ClearAstray
<1>2. /\ Stays /\ Astray /\ UNCHANGED <<sent, got, thread>>
  <2>1. PICK t \in Thread : TimerNestedRemove(t)
    BY DEF ClearAstray
  <2> QED  BY <2>1, NestedRemoveEffect, EndIds DEF ClearAstray, Astray, TimerNestedRemove
<1>3. /\ msgs' \in Seq(Letter) /\ Sorted(msgs')
      /\ \A k \in 1 .. Len(msgs') : \E j \in 1 .. Len(msgs) : msgs'[k] = msgs[j]
      /\ \A j \in 1 .. Len(msgs) :
            msgs[j].tid # id => \E k \in 1 .. Len(msgs') : msgs'[k] = msgs[j]
  BY <1>1, Clears
<1>4. \A u \in Thread : Taken(u)' = Taken(u)
  BY <1>2 DEF Taken
<1>5. Letters'
  <2>1. \A k \in 1 .. Len(msgs'), u \in Thread : msgs'[k].serial \notin Taken(u)'
    BY <1>3, <1>4 DEF Letters
  <2>2. \A k \in 1 .. Len(msgs') : \E u \in Thread : Known(u)' /\ msgs'[k].tid = thread'[u].id
    <3> SUFFICES ASSUME NEW k \in 1 .. Len(msgs')
                 PROVE  \E u \in Thread : Known(u)' /\ msgs'[k].tid = thread'[u].id
      OBVIOUS
    <3>1. PICK j \in 1 .. Len(msgs) : msgs'[k] = msgs[j]
      BY <1>3
    <3>2. PICK u \in Thread : Known(u) /\ msgs[j].tid = thread[u].id
      BY DEF Letters
    <3> QED  BY <1>2, <3>1, <3>2 DEF Stays
  <2>3. sent' \in Nat /\ got' \in [Thread -> Seq(1 .. sent')] /\ msgs' \in Seq([tid : Nat, serial : 1 .. sent'])
    BY <1>2, <1>3 DEF Letters, Letter
  <2> QED  BY <1>3, <2>1, <2>2, <2>3 DEF Letters, Letter
<1>6. ASSUME NEW u \in Thread PROVE Box(u)' \subseteq Box(u) /\ (thread[u].id # id => Box(u)' = Box(u))
  <2>1. ASSUME NEW r \in Box(u)' PROVE r \in Box(u)
    <3>1. PICK k \in 1 .. Len(msgs') :
              Admitted(u)' /\ msgs'[k].tid = thread'[u].id /\ msgs'[k].serial = r
      BY <2>1, InBox
    <3>2. PICK j \in 1 .. Len(msgs) : msgs'[k] = msgs[j]
      BY <1>3
    <3>3. msgs[j].tid = thread[u].id /\ msgs[j].serial = r /\ Admitted(u)
      BY <1>2, <3>1, <3>2 DEF Stays
    <3> QED  BY <3>3, InBox
  <2>2. ASSUME NEW r \in Box(u), thread[u].id # id PROVE r \in Box(u)'
    <3>1. PICK j \in 1 .. Len(msgs) : Admitted(u) /\ msgs[j].tid = thread[u].id /\ msgs[j].serial = r
      BY <2>2, InBox
    <3>2. PICK k \in 1 .. Len(msgs') : msgs'[k] = msgs[j]
      BY <1>3, <2>2, <3>1
    <3>3. Admitted(u)' /\ msgs'[k].tid = thread'[u].id /\ msgs'[k].serial = r
      BY <1>2, <3>1, <3>2 DEF Stays
    <3> QED  BY <3>3, InBox
  <2> QED  BY <2>1, <2>2
<1>7. {u \in Thread : Admitted(u)}' = {u \in Thread : Admitted(u)}
  BY <1>2 DEF Stays
<1>8. CASE \E c \in Thread : Admitted(c) /\ thread[c].id = id
  <2>1. PICK c \in Thread : Admitted(c) /\ thread[c].id = id
    BY <1>8
  <2>2. ASSUME NEW u \in Thread, u # c PROVE Box(u)' = Box(u)
    <3>1. CASE thread[u].id # id
      BY <1>6, <3>1
    <3>2. CASE thread[u].id = id
      <4>1. ~Admitted(u)
        BY <2>1, <2>2, <3>2, KnownIds DEF Known
      <4>2. Box(u) = {}
        BY <4>1 DEF Box
      <4> QED  BY <1>6, <4>2
    <3> QED  BY <3>1, <3>2
  <2> DEFINE lost == Box(c) \ Box(c)'
  <2>3. lost \in SUBSET Box(c) /\ Box(c)' = Box(c) \ lost
    BY <1>6
  <2>4. [u \in Thread |-> Box(u)]' = [[u \in Thread |-> Box(u)] EXCEPT ![c] = @ \ lost]
    BY <2>2, <2>3
  <2>5. Dropped' = Dropped \cup lost
    <3>1. \A r \in lost : r \in 1 .. sent /\ \A u \in Thread : r \notin Taken(u) /\ (u # c => r \notin Box(u))
      BY OneBox
    <3>2. \A u \in Thread : Box(u)' = IF u = c THEN Box(u) \ lost ELSE Box(u)
      BY <2>2, <2>3
    <3>3. ASSUME NEW r \in 1 .. sent PROVE r \in Dropped' <=> r \in Dropped \cup lost
      <4>1. r \in Dropped' <=> \A u \in Thread : r \notin Box(u)' \cup Taken(u)
        BY <1>2, <1>4 DEF Dropped
      <4>2. r \in Dropped <=> \A u \in Thread : r \notin Box(u) \cup Taken(u)
        BY DEF Dropped
      <4> HIDE DEF lost
      <4>3. CASE r \in lost
        BY <3>1, <3>2, <4>1, <4>3
      <4>4. CASE r \notin lost
        BY <3>2, <4>1, <4>2, <4>4
      <4> QED  BY <4>3, <4>4
    <3>4. Dropped' \subseteq 1 .. sent /\ Dropped \cup lost \subseteq 1 .. sent
      <4>1. lost \subseteq 1 .. sent
        BY <3>1
      <4> QED  BY <1>2, <4>1 DEF Dropped
    <3> HIDE DEF lost, Dropped
    <3> QED  BY <3>3, <3>4
  <2>6. MB!Lose(c)
    <3> HIDE DEF lost
    <3> QED  BY <1>2, <1>7, <2>3, <2>4, <2>5 DEF MB!Lose, Dropped
  <2> QED  BY <1>2, <1>5, <2>6
<1>9. CASE \A c \in Thread : Admitted(c) => thread[c].id # id
  <2>1. \A u \in Thread : Box(u)' = Box(u)
    BY <1>6, <1>9 DEF Box
  <2>2. [u \in Thread |-> Box(u)]' = [u \in Thread |-> Box(u)] /\ Dropped' = Dropped
    BY <1>2, <1>4, <2>1 DEF Dropped
  <2>3. UNCHANGED MB!vars
    BY <1>2, <1>7, <2>2 DEF MB!vars, Dropped
  <2> QED  BY <1>5, <2>3
<1> QED  BY <1>8, <1>9

----------------------------------------------------------------------------

(* A receive that finds nothing, and a step that is none. *)
LEMMA NothingHappens ==
    ASSUME Together,
           (\E t \in Thread : ReceiveNothing(t)) \/ UNCHANGED kernelVars
    PROVE  Together' /\ UNCHANGED MB!vars
<1>1. /\ UNCHANGED <<thread, tid, current, readyQueue, currentHeap, cr3, heapAt, frame, pc,
                     local, nullPage, freed, msgs, sent, got>>
      /\ halted' \in BOOLEAN
  <2>1. halted \in BOOLEAN
    BY DEF Together, Inv, TypeOK
  <2>2. CASE UNCHANGED kernelVars
    BY <2>1, <2>2 DEF kernelVars, vars, queue, memory, ending, mail
  <2>3. CASE \E t \in Thread : ReceiveNothing(t)
    BY <2>3 DEF ReceiveNothing, I!receiveNothing, queue, memory
  <2> QED  BY <2>2, <2>3
<1>2. Inv'
  BY <1>1, SameInv DEF Together
<1>3. Ids' /\ Stays
  BY <1>1, SameIds DEF Together
<1> QED  BY <1>1, <1>2, <1>3, MailStays, StaysStutters DEF Together

LEMMA TogetherNext ==
    ASSUME Spawners \subseteq {Main}, Together, [KernelNext]_kernelVars
    PROVE  Together' /\ [MB!Next \/ (Astray /\ \E t \in Thread : MB!Lose(t))]_(MB!vars)
<1> USE DEF Together
<1>1. ASSUME NEW t \in Thread, SendMessage(t) \/ ReceiveMessage(t)
      PROVE  Together' /\ MB!Next
  <2>1. UNCHANGED vars
    BY <1>1 DEF SendMessage, ReceiveMessage
  <2>2. Inv'
    BY <2>1, NextInv
  <2>3. Ids'
    BY <2>1, SameIds DEF vars, queue
  <2> QED  BY <1>1, <2>2, <2>3, SendDelivers, ReceiveTakes DEF MB!Next
<1>2. CASE ClearMessages
  <2>1. Inv'
    BY <1>2, NextInv DEF ClearMessages, Next, Timer
  <2>2. Ids'
    BY <1>2, RemoveIds DEF ClearMessages
  <2> QED  BY <1>2, <2>1, <2>2, ClearCloses DEF MB!Next
<1>3. CASE Schedule
  <2>1. Inv'
    BY <1>3, NextInv DEF Schedule, Next, Timer
  <2>2. Ids' /\ (Stays \/ \E c \in Thread : Links(c))
    BY <1>3, ScheduleIds DEF Schedule
  <2>3. UNCHANGED <<msgs, sent, got>>
    BY <1>3 DEF Schedule, mail
  <2> QED  BY <2>1, <2>2, <2>3, MailStays, StaysStutters, LinksOpens DEF MB!Next
<1>4. CASE ClearAstray
  <2>1. PICK t \in Thread : TimerNestedRemove(t)
    BY <1>4 DEF ClearAstray
  <2>2. Inv'
    BY <2>1, NextInv DEF Next, Timer
  <2>3. Ids'
    BY <2>1, EndIds
  <2> QED  BY <1>4, <2>2, <2>3, AstrayLoses
<1> QED  BY <1>1, <1>2, <1>3, <1>4, NothingHappens DEF KernelNext

LEMMA TogetherInit == KernelInit => Together /\ MB!Init
<1> SUFFICES ASSUME KernelInit PROVE Together /\ MB!Init
  OBVIOUS
<1>1. Init /\ Inv /\ Ids
  BY InitInv, InitIds DEF KernelInit
<1>2. /\ msgs = <<>> /\ Len(msgs) = 0 /\ 1 .. Len(msgs) = {} /\ msgs \in Seq(Letter)
      /\ sent = 0 /\ 1 .. sent = {} /\ got = [t \in Thread |-> <<>>]
      /\ got \in [Thread -> Seq(1 .. sent)]
  <2>1. msgs = <<>> /\ Len(msgs) = 0 /\ msgs \in Seq(Letter)
    BY EmptySeq DEF KernelInit
  <2> QED  BY <2>1 DEF KernelInit
<1>3. Letters
  BY <1>2 DEF Letters, Sorted
<1>4. \A t \in Thread : Box(t) = {}
  BY <1>2 DEF Box, I!For
<1>5. \A t \in Thread : Admitted(t) <=> t = Main
  BY <1>1, ThreadAssumption DEF Init, Admitted, Alive, Building
<1>6. Dropped = {}
  BY <1>2 DEF Dropped
<1> QED  BY <1>1, <1>2, <1>3, <1>4, <1>5, <1>6, ThreadAssumption DEF Together, MB!Init, Dropped

(* Scheduler and message passing together keep a mailbox for each thread,  *)
(* for any number of threads and processes, when kmain's thread is the one *)
(* that makes them: ids are given out once, a message names a thread that  *)
(* was linked into the queue, and only the tick that begins to remove a    *)
(* thread closes its box.  Messages of one other thread are lost by a tick *)
(* that finds current_thread NULL and page 0 used, and by no other step.   *)
THEOREM Delivery == ASSUME Spawners \subseteq {Main} PROVE KernelSpec => KernelDelivers
<1>1. Together /\ [KernelNext]_kernelVars =>
         Together' /\ [MB!Next \/ (Astray /\ \E t \in Thread : MB!Lose(t))]_(MB!vars)
  BY TogetherNext
<1> QED  BY <1>1, TogetherInit, PTL DEF KernelSpec, KernelDelivers
=============================================================================
