----------------------------- MODULE IPCProofs -----------------------------
(* The list shared by all threads implements one mailbox per thread, for   *)
(* any number of threads and messages.                                     *)
EXTENDS IPC, FiniteSetTheorems, SequenceTheorems, TLAPS

Msg == [tid : Id, serial : 1 .. sent]

(* The list is in the order of sending; what it still holds was not taken; *)
(* its messages are for threads that run or have run.                      *)
Sorted(m) == \A i, j \in 1 .. Len(m) : i < j => m[i].serial < m[j].serial

Untaken == \A i \in 1 .. Len(msgs), t \in Id : msgs[i].serial \notin Taken(t)

(* The inductive invariant. *)
Inv ==
    /\ TypeOK
    /\ Sorted(msgs)
    /\ Untaken
    /\ current \in running
    /\ running \cap ended = {}
    /\ \A i \in 1 .. Len(msgs) : msgs[i].tid \in running \cup ended

----------------------------------------------------------------------------
(* Taking nodes out of the list. *)

(* The nodes that stay keep their order and their contents. *)
LEMMA Restriction ==
    ASSUME msgs \in Seq(Msg), NEW S \in SUBSET (1 .. Len(msgs)), NEW m \in Restricted(S)
    PROVE  /\ m \in Seq(Msg)
           /\ \A k \in 1 .. Len(m) : \E i \in S : m[k] = msgs[i]
           /\ \A i \in S : \E k \in 1 .. Len(m) : m[k] = msgs[i]
           /\ Sorted(msgs) => Sorted(m)
<1> DEFINE n == Cardinality(S)
<1>1. n \in Nat
  <2>1. Len(msgs) \in Nat /\ IsFiniteSet(1 .. Len(msgs))
    BY FS_Interval
  <2> QED  BY <2>1, FS_Subset, FS_CardinalityType
<1> HIDE DEF n
<1>2. PICK f \in [1 .. n -> S] :
          /\ \A j, k \in 1 .. n : j < k => f[j] < f[k]
          /\ \A i \in S : \E k \in 1 .. n : f[k] = i
          /\ m = [k \in 1 .. n |-> msgs[f[k]]]
  BY DEF Restricted, n
<1>3. \A k \in 1 .. n : f[k] \in S /\ f[k] \in 1 .. Len(msgs) /\ msgs[f[k]] \in Msg
  <2>1. \A k \in 1 .. n : f[k] \in S /\ f[k] \in 1 .. Len(msgs)
    BY <1>2
  <2> QED  BY <2>1, ElementOfSeq
<1>4. m \in Seq(Msg) /\ Len(m) = n /\ \A k \in 1 .. n : m[k] = msgs[f[k]]
  <2>1. m \in [1 .. n -> Msg]
    BY <1>2, <1>3
  <2>2. m \in Seq(Msg)
    BY <1>1, <2>1, SeqDef
  <2>3. DOMAIN m = 1 .. Len(m) /\ Len(m) \in Nat
    BY <2>2, LenProperties
  <2>4. Len(m) = n
    BY <1>1, <2>1, <2>3
  <2> QED  BY <1>2, <2>2, <2>4
<1>5. Sorted(msgs) => Sorted(m)
  BY <1>2, <1>3, <1>4 DEF Sorted
<1> QED  BY <1>2, <1>3, <1>4, <1>5

(* No number is in the list twice. *)
LEMMA Distinct ==
    ASSUME msgs \in Seq(Msg), Sorted(msgs), sent \in Nat,
           NEW i \in 1 .. Len(msgs), NEW j \in 1 .. Len(msgs),
           msgs[i].serial = msgs[j].serial
    PROVE  i = j
<1>1. Len(msgs) \in Nat /\ msgs[i].serial \in Nat
  <2>1. msgs[i] \in Msg
    OBVIOUS
  <2> QED  BY <2>1 DEF Msg
<1> QED  BY <1>1 DEF Sorted

----------------------------------------------------------------------------
(* The invariant. *)

LEMMA InitInv == Init => Inv
<1> SUFFICES ASSUME Init PROVE Inv
  OBVIOUS
<1>1. msgs = <<>> /\ msgs \in Seq(Msg) /\ 1 .. Len(msgs) = {}
  <2>1. msgs = <<>> /\ msgs \in Seq(Msg) /\ Len(msgs) = 0
    BY EmptySeq DEF Init
  <2> QED  BY <2>1
<1>2. TypeOK
  BY IdAssumption, <1>1 DEF Init, TypeOK, Msg
<1> QED  BY <1>1, <1>2, IdAssumption DEF Init, Inv, Sorted, Untaken

LEMMA SendInv == ASSUME Inv, NEW t \in Id, sendMessage(t) PROVE Inv'
<1> DEFINE new == [tid |-> t, serial |-> sent + 1]
<1>1. /\ msgs \in Seq(Msg) /\ sent \in Nat /\ sent' = sent + 1
      /\ Len(msgs') = Len(msgs) + 1 /\ Len(msgs) \in Nat
      /\ msgs'[Len(msgs) + 1] = new
      /\ \A i \in 1 .. Len(msgs) : msgs'[i] = msgs[i] /\ msgs[i].serial \in 1 .. sent
                                   /\ msgs[i].tid \in Id /\ msgs[i] \in Msg
  <2>1. msgs \in Seq(Msg) /\ sent \in Nat /\ sent' = sent + 1 /\ msgs' = Append(msgs, new)
    BY DEF Inv, TypeOK, Msg, sendMessage
  <2>2. \A i \in 1 .. Len(msgs) : msgs[i] \in Msg
    BY <2>1
  <2> QED  BY <2>1, <2>2 DEF Msg
<1>2. 1 .. sent \subseteq 1 .. sent' /\ sent + 1 \in 1 .. sent'
  BY <1>1
<1>3. msgs' \in Seq([tid : Id, serial : 1 .. sent'])
  <2>1. msgs \in Seq([tid : Id, serial : 1 .. sent'])
    <3>1. Msg \subseteq [tid : Id, serial : 1 .. sent']
      BY <1>2 DEF Msg
    <3> QED  BY <1>1, <3>1, SeqMonotonic
  <2>2. new \in [tid : Id, serial : 1 .. sent']
    BY <1>2
  <2> QED  BY <2>1, <2>2 DEF sendMessage
<1>4. TypeOK'
  <2>1. got' \in [Id -> Seq(1 .. sent')]
    BY <1>2 DEF Inv, TypeOK, sendMessage
  <2>2. blocks' \subseteq {"node", "data"} \X (1 .. sent')
    BY <1>1, <1>2 DEF Inv, TypeOK, sendMessage
  <2> QED  BY <1>1, <1>3, <2>1, <2>2 DEF Inv, TypeOK, sendMessage, threads, machine
<1>5. Sorted(msgs)'
  BY <1>1 DEF Inv, Sorted
<1>6. Untaken'
  <2>1. \A u \in Id : Taken(u)' = Taken(u) /\ sent + 1 \notin Taken(u)
    BY <1>1 DEF Inv, TypeOK, sendMessage, Taken
  <2> QED  BY <1>1, <2>1 DEF Inv, Untaken
<1>7. \A i \in 1 .. Len(msgs') : msgs'[i].tid \in running' \cup ended'
  BY <1>1 DEF Inv, sendMessage, threads
<1> QED  BY <1>4, <1>5, <1>6, <1>7 DEF Inv, sendMessage, threads

(* What receiveMessage takes out of the list, and what it leaves. *)
LEMMA ReceiveEffect ==
    ASSUME Inv, NEW t \in Id, receiveMessage(t)
    PROVE  \E i \in 1 .. Len(msgs) :
              /\ FirstFor(t, i)
              /\ got' = [got EXCEPT ![t] = Append(@, msgs[i].serial)]
              /\ blocks' = blocks \ {NodeAt(i)}
              /\ Taken(t)' = Taken(t) \cup {msgs[i].serial}
              /\ \A u \in Id \ {t} : Taken(u)' = Taken(u)
              /\ msgs' \in Seq(Msg) /\ Sorted(msgs')
              /\ \A k \in 1 .. Len(msgs') : \E j \in (1 .. Len(msgs)) \ {i} : msgs'[k] = msgs[j]
              /\ \A j \in (1 .. Len(msgs)) \ {i} : \E k \in 1 .. Len(msgs') : msgs'[k] = msgs[j]
<1>1. PICK i \in 1 .. Len(msgs) :
          /\ FirstFor(t, i)
          /\ msgs' \in Restricted((1 .. Len(msgs)) \ {i})
          /\ got' = [got EXCEPT ![t] = Append(@, msgs[i].serial)]
          /\ blocks' = blocks \ {NodeAt(i)}
  BY DEF receiveMessage
<1>2. msgs \in Seq(Msg)
  BY DEF Inv, TypeOK, Msg
<1>3. got'[t] = Append(got[t], msgs[i].serial) /\ got[t] \in Seq(1 .. sent)
      /\ \A u \in Id \ {t} : got'[u] = got[u]
  BY <1>1 DEF Inv, TypeOK
<1>4. Len(got[t]) \in Nat /\ Len(got'[t]) = Len(got[t]) + 1
      /\ got'[t][Len(got[t]) + 1] = msgs[i].serial
      /\ \A k \in 1 .. Len(got[t]) : got'[t][k] = got[t][k]
  BY <1>3
<1>5. Taken(t)' = Taken(t) \cup {msgs[i].serial} /\ \A u \in Id \ {t} : Taken(u)' = Taken(u)
  BY <1>3, <1>4 DEF Taken
<1>6. /\ msgs' \in Seq(Msg) /\ Sorted(msgs')
      /\ \A k \in 1 .. Len(msgs') : \E j \in (1 .. Len(msgs)) \ {i} : msgs'[k] = msgs[j]
      /\ \A j \in (1 .. Len(msgs)) \ {i} : \E k \in 1 .. Len(msgs') : msgs'[k] = msgs[j]
  <2> DEFINE S == (1 .. Len(msgs)) \ {i}
  <2>1. S \in SUBSET (1 .. Len(msgs)) /\ msgs' \in Restricted(S) /\ Sorted(msgs)
    BY <1>1 DEF Inv
  <2> HIDE DEF S
  <2>2. /\ msgs' \in Seq(Msg) /\ Sorted(msgs')
        /\ \A k \in 1 .. Len(msgs') : \E j \in S : msgs'[k] = msgs[j]
        /\ \A j \in S : \E k \in 1 .. Len(msgs') : msgs'[k] = msgs[j]
    BY <1>2, <2>1, Restriction
  <2> QED  BY <2>2 DEF S
<1> QED  BY <1>1, <1>5, <1>6

LEMMA ReceiveInv == ASSUME Inv, NEW t \in Id, receiveMessage(t) PROVE Inv'
<1>1. PICK i \in 1 .. Len(msgs) :
          /\ got' = [got EXCEPT ![t] = Append(@, msgs[i].serial)]
          /\ Taken(t)' = Taken(t) \cup {msgs[i].serial}
          /\ \A u \in Id \ {t} : Taken(u)' = Taken(u)
          /\ msgs' \in Seq(Msg) /\ Sorted(msgs')
          /\ \A k \in 1 .. Len(msgs') : \E j \in (1 .. Len(msgs)) \ {i} : msgs'[k] = msgs[j]
  BY ReceiveEffect
<1>2. UNCHANGED <<threads, machine, sent>> /\ blocks' \subseteq blocks
  BY DEF receiveMessage
<1>3. msgs[i].serial \in 1 .. sent
  <2>1. msgs \in Seq(Msg)
    BY DEF Inv, TypeOK, Msg
  <2>2. msgs[i] \in Msg
    BY <2>1
  <2> QED  BY <2>2 DEF Msg
<1>4. TypeOK'
  <2>1. got' \in [Id -> Seq(1 .. sent)]
    BY <1>1, <1>3 DEF Inv, TypeOK
  <2> QED  BY <1>1, <1>2, <2>1 DEF Inv, TypeOK, Msg, threads, machine
<1>5. Untaken'
  <2> SUFFICES ASSUME NEW k \in 1 .. Len(msgs'), NEW u \in Id
               PROVE  msgs'[k].serial \notin Taken(u)'
    BY DEF Untaken
  <2>1. PICK j \in (1 .. Len(msgs)) \ {i} : msgs'[k] = msgs[j]
    BY <1>1
  <2>2. msgs[j].serial # msgs[i].serial
    BY Distinct DEF Inv, TypeOK, Msg
  <2> QED  BY <1>1, <2>1, <2>2 DEF Inv, Untaken
<1> QED  BY <1>1, <1>2, <1>4, <1>5 DEF Inv, threads

(* What clearMessages leaves is in the list as it was, and whatever was    *)
(* for another thread is left.                                             *)
LEMMA ClearEffect ==
    ASSUME Inv, NEW t \in Id, clearMessages(t)
    PROVE  /\ msgs' \in Seq(Msg) /\ Sorted(msgs')
           /\ \A k \in 1 .. Len(msgs') : \E j \in 1 .. Len(msgs) : msgs'[k] = msgs[j]
           /\ \A j \in 1 .. Len(msgs) :
                 msgs[j].tid # t => \E k \in 1 .. Len(msgs') : msgs'[k] = msgs[j]
           /\ blocks' \subseteq blocks
<1> DEFINE S == (1 .. Len(msgs)) \ Unlinked(t)
<1>1. \A i \in Freed(t) : msgs[i].tid = t
  BY DEF Freed, For
<1>2. S \in SUBSET (1 .. Len(msgs)) /\ msgs' \in Restricted(S) /\ msgs \in Seq(Msg)
  BY DEF clearMessages, Inv, TypeOK, Msg
<1>3. \A j \in 1 .. Len(msgs) : msgs[j].tid # t => j \in S
  BY <1>1 DEF Unlinked
<1>4. /\ msgs' \in Seq(Msg) /\ Sorted(msgs')
      /\ \A k \in 1 .. Len(msgs') : \E i \in S : msgs'[k] = msgs[i]
      /\ \A i \in S : \E k \in 1 .. Len(msgs') : msgs'[k] = msgs[i]
  <2> HIDE DEF S
  <2> QED  BY <1>2, Restriction DEF Inv
<1> QED  BY <1>3, <1>4 DEF clearMessages

LEMMA EndInv == ASSUME Inv, NEW t \in Id, End(t) PROVE Inv'
<1>1. /\ msgs' \in Seq(Msg) /\ Sorted(msgs') /\ blocks' \subseteq blocks
      /\ \A k \in 1 .. Len(msgs') : \E j \in 1 .. Len(msgs) : msgs'[k] = msgs[j]
  BY ClearEffect DEF End
<1>2. /\ sent' = sent /\ got' = got /\ halted' = halted /\ zeroPage' = FALSE
      /\ running' = running \ {t} /\ ended' = ended \cup {t} /\ current' \in running'
  BY DEF End
<1>3. TypeOK'
  BY <1>1, <1>2 DEF Inv, TypeOK, Msg
<1>4. Untaken'
  BY <1>1, <1>2 DEF Inv, Untaken, Taken
<1>5. \A k \in 1 .. Len(msgs') : msgs'[k].tid \in running' \cup ended'
  BY <1>1, <1>2 DEF Inv
<1>6. current' \in running' /\ running' \cap ended' = {}
  BY <1>2 DEF Inv
<1> QED  BY <1>1, <1>3, <1>4, <1>5, <1>6 DEF Inv

LEMMA NextInv == Inv /\ [Next]_vars => Inv'
<1> SUFFICES ASSUME Inv, [Next]_vars PROVE Inv'
  OBVIOUS
<1>1. ASSUME NEW t \in Id, receiveNothing(t) \/ Switch(t) \/ Start(t) PROVE Inv'
  <2>1. /\ UNCHANGED <<msgs, sent, blocks, got, ended, zeroPage>>
        /\ halted' \in BOOLEAN /\ running \subseteq running' /\ running' \subseteq Id
        /\ current' \in running' /\ running' \cap ended = {}
    BY <1>1 DEF Inv, TypeOK, receiveNothing, Switch, Start, threads, machine
  <2>2. TypeOK' /\ Untaken'
    BY <2>1 DEF Inv, TypeOK, Untaken, Taken
  <2> QED  BY <2>1, <2>2 DEF Inv
<1>2. CASE UNCHANGED vars
  BY <1>2 DEF Inv, TypeOK, Untaken, Taken, vars, threads, machine
<1> QED  BY <1>1, <1>2, SendInv, ReceiveInv, EndInv DEF Next

(* What the list keeps always: it is in the order of sending, and nothing  *)
(* in it was received before.                                              *)
LEMMA Invariance == Spec => []Inv
  BY InitInv, NextInv, PTL DEF Spec

THEOREM Typing == Spec => []TypeOK
<1>1. Inv => TypeOK
  BY DEF Inv
<1> QED  BY <1>1, Invariance, PTL

----------------------------------------------------------------------------
(* The blocks of the nodes. *)

LEMMA SendKeepsNodes ==
    ASSUME Inv, NodesAllocated, NEW t \in Id, sendMessage(t) PROVE NodesAllocated'
<1>1. /\ Len(msgs') = Len(msgs) + 1 /\ Len(msgs) \in Nat
      /\ msgs'[Len(msgs) + 1].serial = sent + 1
      /\ \A i \in 1 .. Len(msgs) : msgs'[i] = msgs[i]
  <2>1. msgs \in Seq(Msg) /\ msgs' = Append(msgs, [tid |-> t, serial |-> sent + 1])
    BY DEF Inv, TypeOK, Msg, sendMessage
  <2> QED  BY <2>1
<1>2. running' = running /\ blocks \cup {<<"node", sent + 1>>} \subseteq blocks'
  BY DEF sendMessage, threads
<1> SUFFICES ASSUME NEW i \in 1 .. Len(msgs'), msgs'[i].tid \in running'
             PROVE  <<"node", msgs'[i].serial>> \in blocks'
  BY DEF NodesAllocated, NodeAt
<1>3. CASE i \in 1 .. Len(msgs)
  BY <1>1, <1>2, <1>3 DEF NodesAllocated, NodeAt
<1>4. CASE i = Len(msgs) + 1
  BY <1>1, <1>2, <1>4
<1> QED  BY <1>1, <1>3, <1>4

(* The node that is freed carries a number that is in the list once. *)
LEMMA ReceiveKeepsNodes ==
    ASSUME Inv, NodesAllocated, NEW t \in Id, receiveMessage(t) PROVE NodesAllocated'
<1>1. PICK i \in 1 .. Len(msgs) :
          /\ blocks' = blocks \ {NodeAt(i)}
          /\ \A k \in 1 .. Len(msgs') : \E j \in (1 .. Len(msgs)) \ {i} : msgs'[k] = msgs[j]
  BY ReceiveEffect
<1>2. running' = running
  BY DEF receiveMessage, threads
<1> SUFFICES ASSUME NEW k \in 1 .. Len(msgs'), msgs'[k].tid \in running'
             PROVE  <<"node", msgs'[k].serial>> \in blocks'
  BY DEF NodesAllocated, NodeAt
<1>3. PICK j \in (1 .. Len(msgs)) \ {i} : msgs'[k] = msgs[j]
  BY <1>1
<1>4. msgs[j].serial # msgs[i].serial
  BY Distinct DEF Inv, TypeOK, Msg
<1>5. NodeAt(j) \in blocks
  BY <1>2, <1>3 DEF NodesAllocated
<1> QED  BY <1>1, <1>3, <1>4, <1>5 DEF NodeAt

(* clearMessages frees nodes of its own thread only, which leaves. *)
LEMMA EndKeepsNodes ==
    ASSUME Inv, NodesAllocated, NEW t \in Id, End(t) PROVE NodesAllocated'
<1>1. \A k \in 1 .. Len(msgs') : \E j \in 1 .. Len(msgs) : msgs'[k] = msgs[j]
  BY ClearEffect DEF End
<1>2. running' = running \ {t} /\ blocks' = blocks \ {NodeAt(i) : i \in Freed(t)}
  BY DEF End, clearMessages
<1> SUFFICES ASSUME NEW k \in 1 .. Len(msgs'), msgs'[k].tid \in running'
             PROVE  <<"node", msgs'[k].serial>> \in blocks'
  BY DEF NodesAllocated, NodeAt
<1>3. PICK j \in 1 .. Len(msgs) : msgs'[k] = msgs[j]
  BY <1>1
<1>4. NodeAt(j) \in blocks /\ msgs[j].tid # t
  BY <1>2, <1>3 DEF NodesAllocated
<1>5. ASSUME NEW i \in Freed(t) PROVE NodeAt(j) # NodeAt(i)
  <2>1. i \in 1 .. Len(msgs) /\ msgs[i].tid = t
    BY <1>5 DEF Freed, For
  <2>2. msgs[j].serial # msgs[i].serial
    BY <1>4, <2>1, Distinct DEF Inv, TypeOK, Msg
  <2> QED  BY <2>2 DEF NodeAt
<1> QED  BY <1>2, <1>3, <1>4, <1>5 DEF NodeAt

(* No call gives back the kernel block of a node it leaves in the list for *)
(* a thread that can still receive: receiveMessage and clearMessages free  *)
(* only nodes they unlink, or that nobody receives any more.               *)
THEOREM NodesStay == Spec => []NodesAllocated
<1>1. Init => NodesAllocated
  <2>1. Init => Len(msgs) = 0
    BY EmptySeq DEF Init
  <2> QED  BY <2>1 DEF NodesAllocated
<1>2. Inv /\ NodesAllocated /\ [Next]_vars => NodesAllocated'
  <2> SUFFICES ASSUME Inv, NodesAllocated, [Next]_vars PROVE NodesAllocated'
    OBVIOUS
  <2>1. ASSUME NEW t \in Id, receiveNothing(t) \/ Switch(t) PROVE NodesAllocated'
    BY <2>1 DEF NodesAllocated, NodeAt, receiveNothing, Switch, threads
  <2>2. ASSUME NEW t \in Id, Start(t) PROVE NodesAllocated'
    <3>1. UNCHANGED <<msgs, blocks>> /\ running' = running \cup {t}
          /\ \A i \in 1 .. Len(msgs) : msgs[i].tid # t
      BY <2>2 DEF Start, Inv
    <3> QED  BY <3>1 DEF NodesAllocated, NodeAt
  <2>3. CASE UNCHANGED vars
    BY <2>3 DEF NodesAllocated, NodeAt, vars, threads
  <2> QED
    BY <2>1, <2>2, <2>3, SendKeepsNodes, ReceiveKeepsNodes, EndKeepsNodes DEF Next
<1>3. QED  BY <1>1, <1>2, Invariance, PTL DEF Spec

----------------------------------------------------------------------------
(* The refinement: each call is the call on one mailbox. *)

Dropped == {s \in 1 .. sent : \A t \in Id : s \notin Box(t) \cup Taken(t)}

(* A number is in a box when a node of the list carries it. *)
LEMMA BoxMember ==
    ASSUME NEW u \in Id, NEW s
    PROVE  /\ s \in Box(u) <=>
                  u \in running /\ \E i \in 1 .. Len(msgs) : msgs[i].tid = u /\ msgs[i].serial = s
           /\ s \in Box(u)' <=>
                  u \in running' /\ \E i \in 1 .. Len(msgs') : msgs'[i].tid = u /\ msgs'[i].serial = s
BY DEF Box, For

LEMMA SameBox ==
    ASSUME Inv, NEW t \in Id, NEW s \in Box(t)
    PROVE  /\ s \in 1 .. sent
           /\ \A u \in Id : s \notin Taken(u) /\ (u # t => s \notin Box(u))
<1>1. PICK i \in 1 .. Len(msgs) : msgs[i].tid = t /\ s = msgs[i].serial
  BY DEF Box, For
<1>2. msgs \in Seq(Msg) /\ Sorted(msgs) /\ sent \in Nat
  BY DEF Inv, TypeOK, Msg
<1>3. msgs[i] \in Msg
  BY <1>2, ElementOfSeq
<1>4. ASSUME NEW u \in Id, s \in Box(u) PROVE u = t
  <2>1. PICK j \in 1 .. Len(msgs) : msgs[j].tid = u /\ s = msgs[j].serial
    BY <1>4 DEF Box, For
  <2> QED  BY <1>1, <1>2, <2>1, Distinct
<1> QED  BY <1>1, <1>3, <1>4 DEF Msg, Inv, Untaken

LEMMA SendRefines == ASSUME Inv, NEW t \in Id, sendMessage(t) PROVE MB!Deliver(t)
<1>1. /\ msgs \in Seq(Msg) /\ sent \in Nat /\ Len(msgs) \in Nat
      /\ msgs' = Append(msgs, [tid |-> t, serial |-> sent + 1])
  BY DEF Inv, TypeOK, Msg, sendMessage
<1>2. /\ Len(msgs') = Len(msgs) + 1
      /\ msgs'[Len(msgs) + 1] = [tid |-> t, serial |-> sent + 1]
      /\ \A i \in 1 .. Len(msgs) : msgs'[i] = msgs[i]
  BY <1>1
<1>3. running' = running /\ got' = got /\ sent' = sent + 1 /\ t \in running
  BY DEF sendMessage, threads
<1>4. \A u \in Id : Box(u)' = IF u = t THEN Box(u) \cup {sent + 1} ELSE Box(u)
  <2>1. ASSUME NEW u \in Id, NEW s \in Box(u) PROVE s \in Box(u)'
    <3>1. PICK i \in 1 .. Len(msgs) : msgs[i].tid = u /\ msgs[i].serial = s
      BY <2>1, BoxMember
    <3>2. i \in 1 .. Len(msgs') /\ msgs'[i] = msgs[i]
      BY <1>1, <1>2
    <3> QED  BY <1>3, <2>1, <3>1, <3>2, BoxMember
  <2>2. ASSUME NEW u \in Id, NEW s \in Box(u)', s \notin Box(u)
        PROVE  u = t /\ s = sent + 1
    <3>1. PICK i \in 1 .. Len(msgs') : msgs'[i].tid = u /\ msgs'[i].serial = s
      BY <2>2, BoxMember
    <3>2. i \notin 1 .. Len(msgs)
      BY <1>2, <1>3, <2>2, <3>1, BoxMember
    <3>3. i = Len(msgs) + 1
      BY <1>1, <1>2, <3>2
    <3> QED  BY <1>2, <3>1, <3>3
  <2>3. sent + 1 \in Box(t)'
    <3>1. Len(msgs) + 1 \in 1 .. Len(msgs')
      BY <1>1, <1>2
    <3> QED  BY <1>2, <1>3, <3>1, BoxMember
  <2> QED  BY <2>1, <2>2, <2>3
<1>5. [u \in Id |-> Box(u)]' = [[u \in Id |-> Box(u)] EXCEPT ![t] = @ \cup {sent + 1}]
  BY <1>4
<1>6. \A u \in Id : Taken(u)' = Taken(u)
  BY <1>3 DEF Taken
<1>7. 1 .. sent' = 1 .. sent \cup {sent + 1}
  BY <1>1, <1>3
<1>8. Dropped' = Dropped
  BY <1>4, <1>6, <1>7, <1>1 DEF Dropped
<1> QED  BY <1>3, <1>5, <1>8 DEF MB!Deliver, Dropped

LEMMA ReceiveRefines == ASSUME Inv, NEW t \in Id, receiveMessage(t) PROVE MB!Take(t)
<1>1. PICK i \in 1 .. Len(msgs) :
          /\ FirstFor(t, i)
          /\ got' = [got EXCEPT ![t] = Append(@, msgs[i].serial)]
          /\ Taken(t)' = Taken(t) \cup {msgs[i].serial}
          /\ \A u \in Id \ {t} : Taken(u)' = Taken(u)
          /\ \A k \in 1 .. Len(msgs') : \E j \in (1 .. Len(msgs)) \ {i} : msgs'[k] = msgs[j]
          /\ \A j \in (1 .. Len(msgs)) \ {i} : \E k \in 1 .. Len(msgs') : msgs'[k] = msgs[j]
  BY ReceiveEffect
<1> DEFINE s == msgs[i].serial
<1>2. running' = running /\ sent' = sent /\ t \in running
  BY DEF receiveMessage, threads, Inv
<1>3. msgs \in Seq(Msg) /\ Sorted(msgs) /\ sent \in Nat /\ Len(msgs) \in Nat
  BY DEF Inv, TypeOK, Msg
<1>4. msgs[i].tid = t /\ s \in Box(t) /\ \A j \in For(t) : i <= j
  BY <1>1, <1>2 DEF FirstFor, For, Box
<1>5. \A r \in Box(t) : s <= r
  <2> SUFFICES ASSUME NEW j \in For(t) PROVE s <= msgs[j].serial
    BY <1>2 DEF Box
  <2>1. j \in 1 .. Len(msgs) /\ i <= j
    BY <1>4 DEF For
  <2>2. msgs[j] \in Msg /\ msgs[i] \in Msg
    BY <1>3, <2>1, ElementOfSeq
  <2> QED  BY <1>3, <2>1, <2>2 DEF Sorted, Msg
<1>6. \A j \in 1 .. Len(msgs) : msgs[j].serial = s => j = i
  BY <1>3, Distinct
<1>7. \A u \in Id : Box(u)' = IF u = t THEN Box(u) \ {s} ELSE Box(u)
  <2>1. ASSUME NEW u \in Id, NEW r \in Box(u)' PROVE r \in Box(u) /\ r # s
    <3>1. PICK k \in 1 .. Len(msgs') : msgs'[k].tid = u /\ msgs'[k].serial = r
      BY <2>1, BoxMember
    <3>2. PICK j \in (1 .. Len(msgs)) \ {i} : msgs'[k] = msgs[j]
      BY <1>1
    <3> QED  BY <1>2, <1>6, <2>1, <3>1, <3>2, BoxMember
  <2>2. ASSUME NEW u \in Id, NEW r \in Box(u), r # s PROVE r \in Box(u)'
    <3>1. PICK j \in 1 .. Len(msgs) : msgs[j].tid = u /\ msgs[j].serial = r
      BY <2>2, BoxMember
    <3>2. PICK k \in 1 .. Len(msgs') : msgs'[k] = msgs[j]
      BY <1>1, <2>2, <3>1
    <3> QED  BY <1>2, <2>2, <3>1, <3>2, BoxMember
  <2>3. \A u \in Id \ {t} : s \notin Box(u)
    BY <1>4, SameBox
  <2> QED  BY <2>1, <2>2, <2>3
<1>8. [u \in Id |-> Box(u)]' = [[u \in Id |-> Box(u)] EXCEPT ![t] = @ \ {s}]
  BY <1>7
<1>9. Dropped' = Dropped
  <2>1. \A u \in Id \ {t} : Box(u)' \cup Taken(u)' = Box(u) \cup Taken(u)
    BY <1>1, <1>7
  <2>2. Box(t)' \cup Taken(t)' = Box(t) \cup Taken(t)
    BY <1>1, <1>4, <1>7
  <2>3. \A u \in Id : Box(u)' \cup Taken(u)' = Box(u) \cup Taken(u)
    BY <2>1, <2>2
  <2> QED  BY <1>2, <2>3 DEF Dropped
<1> QED  BY <1>1, <1>2, <1>4, <1>5, <1>8, <1>9 DEF MB!Take, MB!Oldest, Dropped

LEMMA EndRefines == ASSUME Inv, NEW t \in Id, End(t) PROVE MB!Close(t)
<1>1. /\ \A k \in 1 .. Len(msgs') : \E j \in 1 .. Len(msgs) : msgs'[k] = msgs[j]
      /\ \A j \in 1 .. Len(msgs) :
            msgs[j].tid # t => \E k \in 1 .. Len(msgs') : msgs'[k] = msgs[j]
  BY ClearEffect DEF End
<1>2. running' = running \ {t} /\ sent' = sent /\ got' = got /\ t \in running
  BY DEF End, Inv
<1>3. \A u \in Id : Box(u)' = IF u = t THEN {} ELSE Box(u)
  <2>1. ASSUME NEW u \in Id, NEW r \in Box(u)' PROVE r \in Box(u) /\ u # t
    <3>1. PICK k \in 1 .. Len(msgs') : msgs'[k].tid = u /\ msgs'[k].serial = r
      BY <2>1, BoxMember
    <3>2. PICK j \in 1 .. Len(msgs) : msgs'[k] = msgs[j]
      BY <1>1
    <3> QED  BY <1>2, <2>1, <3>1, <3>2, BoxMember
  <2>2. ASSUME NEW u \in Id \ {t}, NEW r \in Box(u) PROVE r \in Box(u)'
    <3>1. PICK j \in 1 .. Len(msgs) : msgs[j].tid = u /\ msgs[j].serial = r
      BY <2>2, BoxMember
    <3>2. PICK k \in 1 .. Len(msgs') : msgs'[k] = msgs[j]
      BY <1>1, <2>2, <3>1
    <3> QED  BY <1>2, <2>2, <3>1, <3>2, BoxMember
  <2> QED  BY <2>1, <2>2
<1>4. [u \in Id |-> Box(u)]' = [[u \in Id |-> Box(u)] EXCEPT ![t] = {}]
  BY <1>3
<1>5. \A u \in Id : Taken(u)' = Taken(u)
  BY <1>2 DEF Taken
<1>6. Dropped' = Dropped \cup Box(t)
  BY <1>2, <1>3, <1>5, SameBox DEF Dropped
<1> QED  BY <1>2, <1>4, <1>6 DEF MB!Close, Dropped

LEMMA StartRefines == ASSUME Inv, NEW t \in Id, Start(t) PROVE MB!Open(t)
<1>1. /\ t \notin running \cup ended /\ running' = running \cup {t}
      /\ UNCHANGED <<msgs, sent, got>>
  BY DEF Start
<1>2. For(t) = {}
  BY <1>1 DEF Inv, For
<1>3. \A u \in Id : Box(u)' = Box(u) /\ Taken(u)' = Taken(u)
  BY <1>1, <1>2 DEF Box, For, Taken
<1>4. [u \in Id |-> Box(u)]' = [u \in Id |-> Box(u)] /\ Dropped' = Dropped
  BY <1>1, <1>3 DEF Dropped
<1> QED  BY <1>1, <1>4 DEF MB!Open, Dropped

LEMMA StutterRefines ==
    ASSUME UNCHANGED <<running, msgs, sent, got>> PROVE UNCHANGED MB!vars
<1>1. \A u \in Id : Box(u)' = Box(u) /\ Taken(u)' = Taken(u)
  BY DEF Box, For, Taken
<1>2. [u \in Id |-> Box(u)]' = [u \in Id |-> Box(u)] /\ Dropped' = Dropped
  BY <1>1 DEF Dropped
<1> QED  BY <1>2 DEF MB!vars, Dropped

(* IPC.cpp implements Mailbox: messages reach the thread they are for,     *)
(* once and in order, and the end of a thread costs no other thread a      *)
(* message, although clearMessages skips nodes and all threads share one   *)
(* list.                                                                   *)
THEOREM Refinement == Spec => ImplementsMailbox
<1>1. Init => MB!Init
  <2> SUFFICES ASSUME Init PROVE MB!Init
    OBVIOUS
  <2>1. msgs = <<>> /\ Len(msgs) = 0
    BY EmptySeq DEF Init
  <2>2. \A u \in Id : Box(u) = {}
    BY <2>1 DEF Box, For
  <2>3. Dropped = {}
    BY DEF Dropped, Init
  <2> QED  BY <2>2, <2>3 DEF Init, MB!Init, Dropped
<1>2. Inv /\ [Next]_vars => [MB!Next]_(MB!vars)
  <2> SUFFICES ASSUME Inv, [Next]_vars PROVE MB!Next \/ UNCHANGED MB!vars
    OBVIOUS
  <2>1. ASSUME NEW t \in Id, receiveNothing(t) \/ Switch(t) PROVE UNCHANGED MB!vars
    BY <2>1, StutterRefines DEF receiveNothing, Switch, threads
  <2>2. CASE UNCHANGED vars
    BY <2>2, StutterRefines DEF vars, threads
  <2> QED
    BY <2>1, <2>2, SendRefines, ReceiveRefines, EndRefines, StartRefines DEF Next, MB!Next
<1>3. QED  BY <1>1, <1>2, Invariance, PTL DEF Spec, ImplementsMailbox, MB!Spec
----------------------------------------------------------------------------
(* What follows for the threads that send and receive. *)

(* Boxes and histories are what Mailbox says they are. *)
LEMMA MailboxTyping == Spec => []MB!TypeOK
<1>1. Inv => MB!TypeOK
  <2> SUFFICES ASSUME Inv PROVE MB!TypeOK
    OBVIOUS
  <2>1. ASSUME NEW t \in Id PROVE Box(t) \subseteq 1 .. sent
    <3>1. msgs \in Seq(Msg)
      BY DEF Inv, TypeOK, Msg
    <3>2. \A i \in 1 .. Len(msgs) : msgs[i] \in Msg
      BY <3>1, ElementOfSeq
    <3> QED  BY <3>2 DEF Box, For, Msg
  <2>2. sent \in Nat /\ got \in [Id -> Seq(1 .. sent)] /\ running \subseteq Id
    BY DEF Inv, TypeOK
  <2> QED  BY <2>1, <2>2 DEF MB!TypeOK
<1> QED  BY <1>1, Invariance, PTL

(* What Take appends to a history, and nothing else does. *)
LEMMA TakeEffect ==
    ASSUME MB!TypeOK, NEW t \in Id, MB!Take(t)
    PROVE  \E s \in Box(t) :
              /\ MB!Oldest(t, s)
              /\ Len(got'[t]) = Len(got[t]) + 1 /\ Len(got[t]) \in Nat
              /\ got'[t][Len(got[t]) + 1] = s
              /\ \A i \in 1 .. Len(got[t]) : got'[t][i] = got[t][i]
              /\ MB!Taken(t)' = MB!Taken(t) \cup {s}
              /\ Box(t)' = Box(t) \ {s}
              /\ \A u \in Id \ {t} :
                    Box(u)' = Box(u) /\ got'[u] = got[u] /\ MB!Taken(u)' = MB!Taken(u)
<1>1. PICK s \in Box(t) : /\ MB!Oldest(t, s)
                          /\ Box(t)' = Box(t) \ {s}
                          /\ \A u \in Id \ {t} : Box(u)' = Box(u)
                          /\ got' = [got EXCEPT ![t] = Append(@, s)]
  BY DEF MB!Take
<1>2. got'[t] = Append(got[t], s) /\ got[t] \in Seq(1 .. sent)
  BY <1>1 DEF MB!TypeOK
<1>3. /\ Len(got'[t]) = Len(got[t]) + 1 /\ Len(got[t]) \in Nat
      /\ got'[t][Len(got[t]) + 1] = s
      /\ \A i \in 1 .. Len(got[t]) : got'[t][i] = got[t][i]
  BY <1>2
<1>4. MB!Taken(t)' = MB!Taken(t) \cup {s}
  BY <1>3 DEF MB!Taken
<1>5. \A u \in Id \ {t} : Box(u)' = Box(u) /\ got'[u] = got[u] /\ MB!Taken(u)' = MB!Taken(u)
  BY <1>1 DEF MB!TypeOK, MB!Taken
<1> QED  BY <1>1, <1>3, <1>4, <1>5

(* A thread receives its messages in the order they were sent: what is     *)
(* accepted later has a larger number, and the smallest one is taken.      *)
THEOREM Order == Spec => []MB!InOrder
<1>1. MB!Init => MB!InOrder
  <2> SUFFICES ASSUME MB!Init PROVE MB!InOrder
    OBVIOUS
  <2> USE DEF MB!InOrder
  <2> TAKE t \in Id
  <2>1. got[t] = <<>>
    BY DEF MB!Init
  <2>2. 1 .. Len(got[t]) = {}
    BY <2>1
  <2> QED  BY <2>2
<1>2. MB!TypeOK /\ MB!InOrder /\ [MB!Next]_(MB!vars) => MB!InOrder'
  <2> SUFFICES ASSUME MB!TypeOK, MB!InOrder, [MB!Next]_(MB!vars) PROVE MB!InOrder'
    OBVIOUS
  <2>1. ASSUME NEW t \in Id, MB!Deliver(t) PROVE MB!InOrder'
    <3>1. \A u \in Id : Box(u)' \subseteq Box(u) \cup {sent + 1}
      BY <2>1 DEF MB!Deliver, MB!TypeOK
    <3>2. got' = got
      BY <2>1 DEF MB!Deliver
    <3>3. \A u \in Id : \A i \in 1 .. Len(got[u]) : got[u][i] \in 1 .. sent
      BY DEF MB!TypeOK
    <3>4. \A u \in Id : \A i \in 1 .. Len(got[u]) : got[u][i] < sent + 1
      BY <3>3 DEF MB!TypeOK
    <3> QED  BY <3>1, <3>2, <3>4 DEF MB!InOrder
  <2>2. ASSUME NEW t \in Id, MB!Take(t) PROVE MB!InOrder'
    <3>1. PICK s \in Box(t) :
              /\ MB!Oldest(t, s)
              /\ Len(got'[t]) = Len(got[t]) + 1 /\ Len(got[t]) \in Nat
              /\ got'[t][Len(got[t]) + 1] = s
              /\ \A i \in 1 .. Len(got[t]) : got'[t][i] = got[t][i]
              /\ Box(t)' = Box(t) \ {s}
              /\ \A u \in Id \ {t} : Box(u)' = Box(u) /\ got'[u] = got[u]
      BY <2>2, TakeEffect
    <3>2. Box(t) \subseteq Nat
      BY DEF MB!TypeOK
    <3>3. \A i, j \in 1 .. Len(got'[t]) : i < j => got'[t][i] < got'[t][j]
      BY <3>1 DEF MB!InOrder
    <3>4. ASSUME NEW i \in 1 .. Len(got'[t]), NEW r \in Box(t)' PROVE got'[t][i] < r
      <4>1. r \in Box(t) /\ r # s /\ r \in Nat /\ s \in Nat
        BY <3>1, <3>2, <3>4
      <4>2. s < r
        BY <3>1, <4>1 DEF MB!Oldest
      <4>3. CASE i = Len(got[t]) + 1
        BY <3>1, <4>2, <4>3
      <4>4. CASE i \in 1 .. Len(got[t])
        BY <3>1, <4>1, <4>4 DEF MB!InOrder
      <4> QED  BY <3>1, <3>4, <4>3, <4>4
    <3> QED  BY <3>1, <3>3, <3>4 DEF MB!InOrder
  <2>3. ASSUME NEW t \in Id, MB!Open(t) \/ MB!Close(t) PROVE MB!InOrder'
    <3>1. got' = got /\ \A u \in Id : Box(u)' \subseteq Box(u)
      BY <2>3 DEF MB!Open, MB!Close, MB!TypeOK
    <3> QED  BY <3>1 DEF MB!InOrder
  <2>4. CASE UNCHANGED MB!vars
    BY <2>4 DEF MB!InOrder, MB!vars
  <2> QED  BY <2>1, <2>2, <2>3, <2>4 DEF MB!Next
<1>3. QED  BY <1>1, <1>2, MailboxTyping, Refinement, PTL DEF ImplementsMailbox, MB!Spec

(* A message has one addressee: it is in one box, or was taken by one      *)
(* thread, and never both.                                                 *)
THEOREM Addressee == Spec => []MB!OneAddressee
<1>1. MB!Init => MB!OneAddressee
  BY DEF MB!Init, MB!OneAddressee, MB!Taken
<1>2. MB!TypeOK /\ MB!OneAddressee /\ [MB!Next]_(MB!vars) => MB!OneAddressee'
  <2> SUFFICES ASSUME MB!TypeOK, MB!OneAddressee, [MB!Next]_(MB!vars) PROVE MB!OneAddressee'
    OBVIOUS
  <2>1. ASSUME NEW t \in Id, MB!Deliver(t) PROVE MB!OneAddressee'
    <3>1. \A u \in Id : sent + 1 \notin Box(u) \cup MB!Taken(u)
      BY DEF MB!TypeOK, MB!Taken
    <3>2. \A u \in Id : MB!Taken(u)' = MB!Taken(u)
      BY <2>1 DEF MB!Deliver, MB!Taken
    <3>3. Box(t)' = Box(t) \cup {sent + 1} /\ \A u \in Id \ {t} : Box(u)' = Box(u)
      BY <2>1 DEF MB!Deliver, MB!TypeOK
    <3> QED  BY <3>1, <3>2, <3>3 DEF MB!OneAddressee
  <2>2. ASSUME NEW t \in Id, MB!Take(t) PROVE MB!OneAddressee'
    BY <2>2, TakeEffect DEF MB!OneAddressee
  <2>3. ASSUME NEW t \in Id, MB!Open(t) \/ MB!Close(t) PROVE MB!OneAddressee'
    <3>1. \A u \in Id : Box(u)' \subseteq Box(u) /\ MB!Taken(u)' = MB!Taken(u)
      BY <2>3 DEF MB!Open, MB!Close, MB!TypeOK, MB!Taken
    <3> QED  BY <3>1 DEF MB!OneAddressee
  <2>4. CASE UNCHANGED MB!vars
    BY <2>4 DEF MB!OneAddressee, MB!Taken, MB!vars
  <2> QED  BY <2>1, <2>2, <2>3, <2>4 DEF MB!Next
<1>3. QED  BY <1>1, <1>2, MailboxTyping, Refinement, PTL DEF ImplementsMailbox, MB!Spec

(* No accepted message disappears while its addressee lives: it leaves the *)
(* list by being taken or with the thread it is for, and what was taken    *)
(* stays taken.                                                            *)
Kept ==
    \A t \in Id :
        /\ \A s \in Box(t) : s \in Box(t)' \/ s \in MB!Taken(t)' \/ t \notin running'
        /\ MB!Taken(t) \subseteq MB!Taken(t)'

THEOREM Conservation == Spec => [][Kept]_vars
<1>1. MB!TypeOK /\ [MB!Next]_(MB!vars) => Kept
  <2> SUFFICES ASSUME MB!TypeOK, [MB!Next]_(MB!vars) PROVE Kept
    OBVIOUS
  <2>1. ASSUME NEW t \in Id, MB!Deliver(t) \/ MB!Open(t) PROVE Kept
    <3>1. \A u \in Id : Box(u) \subseteq Box(u)' /\ MB!Taken(u)' = MB!Taken(u)
      BY <2>1 DEF MB!Deliver, MB!Open, MB!Taken, MB!TypeOK
    <3> QED  BY <3>1 DEF Kept
  <2>2. ASSUME NEW t \in Id, MB!Take(t) PROVE Kept
    BY <2>2, TakeEffect DEF Kept
  <2>3. ASSUME NEW t \in Id, MB!Close(t) PROVE Kept
    <3>1. /\ \A u \in Id \ {t} : Box(u)' = Box(u)
          /\ \A u \in Id : MB!Taken(u)' = MB!Taken(u)
          /\ t \notin running'
      BY <2>3 DEF MB!Close, MB!Taken, MB!TypeOK
    <3> QED  BY <3>1 DEF Kept
  <2>4. CASE UNCHANGED MB!vars
    BY <2>4 DEF Kept, MB!Taken, MB!vars
  <2> QED  BY <2>1, <2>2, <2>3, <2>4 DEF MB!Next
<1>2. QED  BY <1>1, MailboxTyping, Refinement, PTL DEF ImplementsMailbox, MB!Spec
=============================================================================
