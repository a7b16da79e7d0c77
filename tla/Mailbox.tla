------------------------------ MODULE Mailbox ------------------------------
(***************************************************************************)
(* What the message passing promises a thread: a mailbox of its own.       *)
(* Messages are numbered in the order they are accepted; a thread takes    *)
(* the oldest one in its box; the end of a thread empties its box.  The    *)
(* one list that all threads share is in IPC.                              *)
(***************************************************************************)
EXTENDS Naturals, Sequences

CONSTANTS Id, First

VARIABLES
    open,     \* the threads that have a mailbox
    box,      \* the messages in each mailbox
    sent,     \* how many messages were accepted
    got,      \* what each thread took, in the order it took it
    dropped   \* the messages that went with a mailbox

vars == <<open, box, sent, got, dropped>>

Init ==
    /\ open = {First}
    /\ box = [t \in Id |-> {}]
    /\ sent = 0
    /\ got = [t \in Id |-> <<>>]
    /\ dropped = {}

Open(t) ==
    /\ t \notin open
    /\ open' = open \cup {t}
    /\ UNCHANGED <<box, sent, got, dropped>>

Deliver(t) ==
    /\ t \in open
    /\ sent' = sent + 1
    /\ box' = [box EXCEPT ![t] = @ \cup {sent + 1}]
    /\ UNCHANGED <<open, got, dropped>>

(* s is the oldest message in the box of t. *)
Oldest(t, s) == s \in box[t] /\ \A r \in box[t] : s <= r

Take(t) ==
    /\ t \in open
    /\ \E s \in box[t] :
          /\ Oldest(t, s)
          /\ box' = [box EXCEPT ![t] = @ \ {s}]
          /\ got' = [got EXCEPT ![t] = Append(@, s)]
    /\ UNCHANGED <<open, sent, dropped>>

Close(t) ==
    /\ t \in open
    /\ open' = open \ {t}
    /\ dropped' = dropped \cup box[t]
    /\ box' = [box EXCEPT ![t] = {}]
    /\ UNCHANGED <<sent, got>>

(* Not a step of Next: a thread loses some messages and keeps its box.     *)
Lose(t) ==
    /\ \E lost \in SUBSET box[t] :
          /\ box' = [box EXCEPT ![t] = @ \ lost]
          /\ dropped' = dropped \cup lost
    /\ UNCHANGED <<open, sent, got>>

Next == \E t \in Id : Open(t) \/ Deliver(t) \/ Take(t) \/ Close(t)

Spec == Init /\ [][Next]_vars

----------------------------------------------------------------------------

TypeOK ==
    /\ open \subseteq Id
    /\ box \in [Id -> SUBSET (1 .. sent)]
    /\ sent \in Nat
    /\ got \in [Id -> Seq(1 .. sent)]
    /\ dropped \subseteq 1 .. sent

Taken(t) == {got[t][i] : i \in 1 .. Len(got[t])}

(* A thread receives its messages in the order they were sent. *)
InOrder ==
    \A t \in Id :
        /\ \A i, j \in 1 .. Len(got[t]) : i < j => got[t][i] < got[t][j]
        /\ \A i \in 1 .. Len(got[t]), s \in box[t] : got[t][i] < s

(* A message has one addressee: no other thread holds or takes it, and     *)
(* none is taken twice.                                                    *)
OneAddressee ==
    \A t, u \in Id :
        /\ box[t] \cap Taken(t) = {}
        /\ t # u => (box[t] \cup Taken(t)) \cap (box[u] \cup Taken(u)) = {}

(* No accepted message disappears while its addressee lives. *)
NothingLost ==
    \A s \in 1 .. sent : s \in dropped \/ \E t \in Id : s \in box[t] \cup Taken(t)
=============================================================================
