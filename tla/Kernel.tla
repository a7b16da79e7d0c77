------------------------------- MODULE Kernel -------------------------------
(***************************************************************************)
(* The scheduler and the message passing together: what TaskManager does,  *)
(* with the list of IPC in kernel memory.  Threads send and receive with   *)
(* interrupts off, by the ids that createThread gave out; the handler      *)
(* clears the messages of a thread that returned, and a timer that finds   *)
(* it still there clears them again.                                       *)
(***************************************************************************)
EXTENDS TaskManager, Sequences

CONSTANT MaxSent   \* a bound: messages accepted in a behaviour

ASSUME MaxSentAssumption == MaxSent \in Nat

VARIABLES msgs, sent, blocks, got   \* as in IPC; got by thread

mail == <<msgs, sent, blocks, got>>
kernelVars == <<vars, mail>>

(* isRunning: the ids of the current thread and of the queued ones. *)
Running == {thread[t].id : t \in Queue \cup ({current} \ {NULL})}

I == INSTANCE IPC WITH
    Id <- 0 .. Cardinality(Thread), First <- 0,
    running <- Running, ended <- {},
    current <- IF current = NULL THEN 0 ELSE thread[current].id,
    zeroPage <- nullPage = "zero"

KernelInit ==
    /\ Init
    /\ msgs = <<>> /\ sent = 0 /\ blocks = {}
    /\ got = [t \in Thread |-> <<>>]

----------------------------------------------------------------------------

SendMessage(t) ==
    /\ Runs(t, "launch")
    /\ UNCHANGED vars
    /\ \E id \in Running : I!sendMessage(id)

ReceiveMessage(t) ==
    /\ Runs(t, "launch")
    /\ \E i \in 1 .. Len(msgs) :
          /\ I!FirstFor(thread[t].id, i)
          /\ msgs' \in I!Restricted((1 .. Len(msgs)) \ {i})
          /\ got' = [got EXCEPT ![t] = Append(@, msgs[i].serial)]
          /\ blocks' = blocks \ {I!NodeAt(i)}
    /\ UNCHANGED <<vars, sent>>

(* With no message at all the walk goes through address 0. *)
ReceiveNothing(t) ==
    /\ Runs(t, "launch")
    /\ UNCHANGED <<queue, memory, tid, pc, local, nullPage, freed>>
    /\ I!receiveNothing(thread[t].id)

(* The handler clears the messages of the thread it is going to remove. *)
ClearMessages ==
    /\ TimerRemove
    /\ I!clearMessages(thread[current].id)
    /\ UNCHANGED <<sent, got>>

(* For the thread it finds on page 0 the handler clears the messages to    *)
(* the number it reads there: any, and so those to a thread that lives.    *)
ClearAstray ==
    /\ \E t \in Thread : TimerNestedRemove(t)
    /\ \E id \in 0 .. Cardinality(Thread) : I!clearMessages(id)
    /\ UNCHANGED <<sent, got>>

Schedule ==
    /\ TimerRotate \/ \E t \in Thread : TimerNested(t) \/ ThreadStep(t)
    /\ UNCHANGED mail

KernelNext ==
    \/ \E t \in Thread : SendMessage(t) \/ ReceiveMessage(t) \/ ReceiveNothing(t)
    \/ ClearMessages \/ ClearAstray \/ Schedule

KernelSpec == KernelInit /\ [][KernelNext]_kernelVars

----------------------------------------------------------------------------

(* The threads a message can reach: linked into the queue and not yet in   *)
(* the hands of the handler that removes them. *)
Admitted(t) ==
    /\ t \in Alive
    /\ ~\E u \in Thread : pc[u] \in Building /\ local[u].child = t

Box(t) == IF Admitted(t) THEN {msgs[i].serial : i \in I!For(thread[t].id)} ELSE {}

Taken(t) == {got[t][i] : i \in 1 .. Len(got[t])}

MB == INSTANCE Mailbox WITH
    Id <- Thread, First <- Main,
    open <- {t \in Thread : Admitted(t)},
    box <- [t \in Thread |-> Box(t)],
    dropped <- {s \in 1 .. sent : \A t \in Thread : s \notin Box(t) \cup Taken(t)}

Astray == current = NULL /\ nullPage = "used"

(* Each thread has a mailbox of its own from the store that links it into  *)
(* the ready queue to the tick that begins to remove it, although messages *)
(* name a thread by a number that was given out with interrupts on and are *)
(* cleared by a handler that can be interrupted: no thread gets another's  *)
(* message, and a box is closed only when its thread ends.  A thread can   *)
(* lose messages without that in one case only: the handler was            *)
(* interrupted with current_thread NULL and page 0 had been used by the    *)
(* end of an earlier thread.  Then it is one thread that loses some, none  *)
(* gets a message more, and no box opens or closes.                        *)
KernelDelivers ==
    /\ MB!Init
    /\ [][MB!Next \/ (Astray /\ \E t \in Thread : MB!Lose(t))]_(MB!vars)
=============================================================================
