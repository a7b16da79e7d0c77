-------------------------------- MODULE IPC --------------------------------
(***************************************************************************)
(* IPC.cpp: the one list of messages in kernel memory.  The three calls    *)
(* run with interrupts off from their first line to their last, so each is *)
(* one step; between them the timer switches threads, starts new ones, and *)
(* ends the ones that returned, after clearing their messages.             *)
(***************************************************************************)
EXTENDS Naturals, Sequences, FiniteSets

CONSTANTS
    Id,        \* the ids of all the threads
    First,     \* the id of kmain's thread
    MaxSent    \* bound: messages accepted in a behaviour

ASSUME IdAssumption == First \in Id /\ MaxSent \in Nat

VARIABLES
    running,   \* the threads isRunning finds: the current and the queued ones
    ended,     \* the threads that have been removed
    current,   \* currentThread()
    msgs,      \* the list: for each node its tid, and the number of its message
    sent,      \* how many messages were accepted
    blocks,    \* the blocks kernel_malloc gave out for messages, not yet freed
    got,       \* the messages receiveMessage returned to each thread
    zeroPage,  \* whether address 0, where a NULL iterator points, holds zeros
    halted     \* a page fault: the kernel panics

threads == <<running, ended, current>>
machine == <<zeroPage, halted>>
vars == <<threads, machine, msgs, sent, blocks, got>>

TypeOK ==
    /\ running \subseteq Id /\ ended \subseteq Id /\ current \in Id
    /\ sent \in Nat
    /\ msgs \in Seq([tid : Id, serial : 1 .. sent])
    /\ blocks \subseteq {"node", "data"} \X (1 .. sent)
    /\ got \in [Id -> Seq(1 .. sent)]
    /\ zeroPage \in BOOLEAN /\ halted \in BOOLEAN

Init ==
    /\ running = {First} /\ ended = {} /\ current = First
    /\ msgs = <<>> /\ sent = 0 /\ blocks = {}
    /\ got = [t \in Id |-> <<>>]
    /\ zeroPage \in BOOLEAN /\ halted = FALSE

(* The places in the list of the messages for t. *)
For(t) == {i \in 1 .. Len(msgs) : msgs[i].tid = t}

(* The list without the nodes that are not at the places S. *)
Restricted(S) ==
    {[k \in 1 .. Cardinality(S) |-> msgs[f[k]]] :
        f \in {g \in [1 .. Cardinality(S) -> S] :
                  /\ \A j, k \in 1 .. Cardinality(S) : j < k => g[j] < g[k]
                  /\ \A i \in S : \E k \in 1 .. Cardinality(S) : g[k] = i}}

----------------------------------------------------------------------------
(* The three calls. *)

sendMessage(t) ==
    /\ ~halted /\ sent < MaxSent
    /\ t \in running
    /\ sent' = sent + 1
    /\ msgs' = Append(msgs, [tid |-> t, serial |-> sent + 1])
    /\ blocks' = blocks \cup {<<"node", sent + 1>>, <<"data", sent + 1>>}
    /\ UNCHANGED <<threads, machine, got>>

(* Mutants of FirstFor: the last match; a match at the head only. *)
LastFor(t, i) == i \in For(t) /\ \A j \in For(t) : j <= i

HeadFor(t, i) == i \in For(t) /\ i = 1

(* Where receiveMessage finds the caller's message. *)
FirstFor(t, i) == i \in For(t) /\ \A j \in For(t) : i <= j

(* A mutant: the node at the head is freed. *)
NodeOfHead(i) == <<"node", msgs[1].serial>>

NodeAt(i) == <<"node", msgs[i].serial>>

(* The caller's message is unlinked, its node is freed, and its data is    *)
(* copied to the caller; the block that held the data stays.               *)
receiveMessage(t) ==
    /\ ~halted /\ current = t
    /\ \E i \in 1 .. Len(msgs) :
          /\ FirstFor(t, i)
          /\ msgs' \in Restricted((1 .. Len(msgs)) \ {i})
          /\ got' = [got EXCEPT ![t] = Append(@, msgs[i].serial)]
          /\ blocks' = blocks \ {NodeAt(i)}
    /\ UNCHANGED <<threads, machine, sent>>

(* With no message at all, iterator is NULL and iterator->next is read at  *)
(* address 12: zeros end the walk, anything else is followed.              *)
receiveNothing(t) ==
    /\ ~halted /\ current = t
    /\ msgs = <<>> /\ ~zeroPage
    /\ halted' = TRUE
    /\ UNCHANGED <<threads, msgs, sent, blocks, got, zeroPage>>

(* clearMessages frees a match at the head, then looks at the node behind  *)
(* each node it stands on, and steps over the node behind the one it       *)
(* removed without a look.                                                 *)
Freed(t) ==
    LET freed[i \in 1 .. Len(msgs)] == i \in For(t) /\ (i <= 2 \/ ~freed[i - 1])
    IN  {i \in For(t) : freed[i]}

(* When the head was removed, the walk stands on the freed head: a second  *)
(* match is unlinked from that node, and msgs still points to it.          *)
Unlinked(t) == Freed(t) \ (IF 1 \in Freed(t) THEN {2} ELSE {})

clearMessages(t) ==
    /\ msgs' \in Restricted((1 .. Len(msgs)) \ Unlinked(t))
    /\ blocks' = blocks \ {NodeAt(i) : i \in Freed(t)}

----------------------------------------------------------------------------
(* What the scheduler does between the calls. *)

(* The timer gives the processor to another thread. *)
Switch(t) ==
    /\ ~halted /\ t \in running
    /\ current' = t
    /\ UNCHANGED <<running, ended, machine, msgs, sent, blocks, got>>

(* createThread: a new thread, under an id of its own. *)
Start(t) ==
    /\ ~halted /\ t \notin running \cup ended
    /\ running' = running \cup {t}
    /\ UNCHANGED <<ended, current, machine, msgs, sent, blocks, got>>

(* The handler that removes a thread which returned clears its messages,   *)
(* takes it out of the run and saves its registers at address 0.           *)
End(t) ==
    /\ ~halted /\ current = t /\ t # First
    /\ clearMessages(t)
    /\ running' = running \ {t}
    /\ ended' = ended \cup {t}
    /\ current' \in running'
    /\ zeroPage' = FALSE
    /\ UNCHANGED <<sent, got, halted>>

Next ==
    \E t \in Id :
        \/ sendMessage(t) \/ receiveMessage(t) \/ receiveNothing(t)
        \/ Switch(t) \/ Start(t) \/ End(t)

(* The scheduler is round robin, so every thread gets the processor, and   *)
(* one that gets it again and again comes round to its receive loop.       *)
Fairness == \A t \in Id : WF_vars(Switch(t)) /\ SF_vars(receiveMessage(t))

Spec == Init /\ [][Next]_vars /\ Fairness

----------------------------------------------------------------------------
(* The list implements a mailbox for each thread. *)

Box(t) == IF t \in running THEN {msgs[i].serial : i \in For(t)} ELSE {}

Taken(t) == {got[t][i] : i \in 1 .. Len(got[t])}

MB == INSTANCE Mailbox WITH
    open <- running,
    box <- [t \in Id |-> Box(t)],
    dropped <- {s \in 1 .. sent : \A t \in Id : s \notin Box(t) \cup Taken(t)}

(* Every call on the shared list is a call on one mailbox: receiveMessage  *)
(* takes the caller's oldest message and no other, and clearMessages,      *)
(* whatever it leaves behind, touches no message for another thread.       *)
ImplementsMailbox == MB!Spec

(* A message is received in the end, unless its addressee ends first. *)
Delivered ==
    \A t \in Id, s \in 1 .. MaxSent :
        s \in Box(t) ~> (s \in Taken(t) \/ t \notin running \/ halted)

(* The kernel block of a message that can still be received is not given   *)
(* back: no call frees the node of a message it leaves in the list.        *)
NodesAllocated ==
    \A i \in 1 .. Len(msgs) : msgs[i].tid \in running => NodeAt(i) \in blocks
=============================================================================
