------------------------ MODULE JobScheduler_proofs ------------------------
(***************************************************************************)
(* Proofs about JobScheduler for every set of items and every cap.         *)
(* SlotsAccounted is not inductive alone: start_ready adds StartCount(q)   *)
(* to `running` while the ledger gains the items themselves, so the two    *)
(* agree only because pending has no duplicates and shares nothing with    *)
(* the ledger.  The inductive invariant is the conjunction of the four.    *)
(***************************************************************************)
EXTENDS JobScheduler, Lists_proofs

IInv == TypeOK /\ SlotsAccounted /\ NoDuplicates /\ CapHolds /\ queue.max <= MaxCap

(* The prefix that start_ready takes fits in pending and in the free       *)
(* slots.                                                                  *)
LEMMA StartCountBounds ==
  ASSUME NEW q \in QueueType(Items)
  PROVE  /\ StartCount(q) \in Nat
         /\ StartCount(q) <= Len(q.pending)
         /\ StartCount(q) > 0 => q.running + StartCount(q) <= q.max
BY DEF QueueType, StartCount, FreeSlots

(* The queue starts well-shaped, empty, with no slot in use.               *)
LEMMA InitIInv == Init => IInv
<1> SUFFICES ASSUME Init PROVE IInv
  OBVIOUS
<1> USE MaxCapAssumption
<1>1. PICK m \in 0 .. MaxCap : queue = NewQueue(m)
  BY DEF Init
<1>2. queue \in QueueType(Items) /\ queue.running = 0 /\ queue.pending = <<>> /\ queue.max <= MaxCap
  BY <1>1 DEF NewQueue, AtLeastOne, QueueType
<1>3. active = {} /\ IsFiniteSet(active) /\ Cardinality(active) = 0
  BY FS_EmptySet DEF Init
<1> QED BY <1>2, <1>3 DEF IInv, TypeOK, SlotsAccounted, NoDuplicates, CapHolds, PendingItems

-----------------------------------------------------------------------------
(* What each edit of pending does to its positions.                        *)

(* The position of a pending item is where it sits.                        *)
LEMMA PositionOfPending ==
  ASSUME NEW q \in QueueType(Items), NEW x, IsPending(q, x)
  PROVE  Position(q, x) \in 1 .. Len(q.pending) /\ q.pending[Position(q, x)] = x
BY DEF IsPending, Position

-----------------------------------------------------------------------------
(* Each operation preserves the inductive invariant.                       *)

LEMMA SubmitIInv ==
  ASSUME IInv, NEW x \in Items, Submit(x)
  PROVE  IInv'
<1>1. queue.pending \in Seq(Items) /\ queue \in QueueType(Items)
  BY DEF IInv, TypeOK, QueueType
<1>2. /\ queue' \in QueueType(Items)
      /\ queue'.pending = Append(queue.pending, x)
      /\ queue'.running = queue.running /\ queue'.max = queue.max /\ active' = active
  BY <1>1 DEF Submit, Enqueue, QueueType
<1>3. /\ Len(queue'.pending) = Len(queue.pending) + 1
      /\ \A i \in 1 .. Len(queue.pending) : queue'.pending[i] = queue.pending[i]
      /\ queue'.pending[Len(queue.pending) + 1] = x
  BY <1>1, <1>2
<1>4. NoDuplicates'
  BY <1>1, <1>2, <1>3 DEF IInv, NoDuplicates, PendingItems, Submit
<1> QED BY <1>2, <1>4 DEF IInv, TypeOK, SlotsAccounted, CapHolds

LEMMA ChangeCapIInv ==
  ASSUME IInv, NEW m \in 0 .. MaxCap, ChangeCap(m)
  PROVE  IInv'
<1> USE MaxCapAssumption
<1>1. queue \in QueueType(Items)
  BY DEF IInv, TypeOK
<1>2. /\ queue' \in QueueType(Items)
      /\ queue'.pending = queue.pending
      /\ queue'.running = queue.running /\ queue'.max <= MaxCap /\ active' = active
  BY <1>1 DEF ChangeCap, SetMax, AtLeastOne, QueueType
<1> QED BY <1>2 DEF IInv, TypeOK, SlotsAccounted, CapHolds, NoDuplicates, PendingItems

(* start_ready: the ledger gains a duplicate-free prefix that it did not   *)
(* share an item with, so it grows by exactly StartCount(queue).           *)
LEMMA StartIInv ==
  ASSUME IInv, Start
  PROVE  IInv'
<1> DEFINE n == StartCount(queue)
           T == {queue.pending[i] : i \in 1 .. n}
<1>1. queue \in QueueType(Items) /\ queue.pending \in Seq(Items) /\ queue.running \in Nat
  BY DEF IInv, TypeOK, QueueType
<1>2. /\ n \in Nat /\ n <= Len(queue.pending)
      /\ n > 0 => queue.running + n <= queue.max
  BY <1>1, StartCountBounds
<1>3. /\ queue' \in QueueType(Items)
      /\ queue'.running = queue.running + n
      /\ queue'.max = queue.max
      /\ queue'.pending = SubSeq(queue.pending, n + 1, Len(queue.pending))
  <2>1. SubSeq(queue.pending, n + 1, Len(queue.pending)) \in Seq(Items)
    BY <1>1, <1>2
  <2>2. queue' = [queue EXCEPT !.running = queue.running + n,
                               !.pending = SubSeq(queue.pending, n + 1, Len(queue.pending))]
    BY DEF Start, StartReady
  <2>3. queue.running + n \in Nat
    BY <1>1, <1>2
  <2> DEFINE r == queue.running + n
             s == SubSeq(queue.pending, n + 1, Len(queue.pending))
  <2> HIDE DEF n, r, s
  <2>4. r \in Nat /\ s \in Seq(Items) /\ queue' = [queue EXCEPT !.running = r, !.pending = s]
    BY <2>1, <2>2, <2>3 DEF r, s
  <2>5. queue' \in QueueType(Items) /\ queue'.running = r /\ queue'.pending = s /\ queue'.max = queue.max
    BY <1>1, <2>4 DEF QueueType
  <2> QED BY <2>5 DEF r, s
<1>4. active' = active \cup T
  <2>1. \A i \in 1 .. n : Started(queue)[i] = queue.pending[i]
    BY <1>1, <1>2 DEF Started
  <2> QED BY <2>1 DEF Start
<1>5. /\ Len(queue'.pending) = Len(queue.pending) - n
      /\ \A i \in 1 .. Len(queue.pending) - n : queue'.pending[i] = queue.pending[i + n]
  BY <1>1, <1>2, <1>3
<1>6. T \cap active = {} /\ T \subseteq Items
  BY <1>1, <1>2 DEF IInv, NoDuplicates, PendingItems
<1>7. IsFiniteSet(active') /\ Cardinality(active') = queue.running + n
  <2>1. IsFiniteSet(T) /\ Cardinality(T) = n
    <3>1. \A i, k \in 1 .. n : queue.pending[i] = queue.pending[k] => i = k
      BY <1>1, <1>2 DEF IInv, NoDuplicates
    <3>2. n \in Nat /\ n <= Len(queue.pending)
      BY <1>2
    <3> HIDE DEF n
    <3> QED BY <1>1, <3>1, <3>2, PrefixCardinality
  <2>2. IsFiniteSet(active) /\ Cardinality(active) = queue.running
    BY DEF IInv, SlotsAccounted
  <2>3. Cardinality(active \cap T) = 0
    BY <1>6, FS_EmptySet
  <2> HIDE DEF T
  <2>4. /\ IsFiniteSet(active \cup T)
        /\ Cardinality(active \cup T) = Cardinality(active) + Cardinality(T) - Cardinality(active \cap T)
    BY <2>1, <2>2, FS_Union
  <2> QED BY <1>1, <1>2, <1>4, <2>1, <2>2, <2>3, <2>4
<1>8. NoDuplicates'
  <2>1. \A i, k \in 1 .. Len(queue'.pending) : queue'.pending[i] = queue'.pending[k] => i = k
    <3> SUFFICES ASSUME NEW i \in 1 .. Len(queue'.pending), NEW k \in 1 .. Len(queue'.pending),
                        queue'.pending[i] = queue'.pending[k]
                 PROVE  i = k
      OBVIOUS
    <3>1. /\ i \in 1 .. Len(queue.pending) - n /\ k \in 1 .. Len(queue.pending) - n
          /\ i + n \in 1 .. Len(queue.pending) /\ k + n \in 1 .. Len(queue.pending)
      BY <1>1, <1>2, <1>5
    <3>2. queue.pending[i + n] = queue.pending[k + n]
      BY <1>5, <3>1
    <3>3. i + n = k + n
      BY <3>1, <3>2 DEF IInv, NoDuplicates
    <3> QED BY <1>2, <3>1, <3>3
  <2>2. active' \cap PendingItems' = {}
    <3> SUFFICES ASSUME NEW i \in 1 .. Len(queue'.pending), queue'.pending[i] \in active'
                 PROVE  FALSE
      BY DEF PendingItems
    <3>1. i + n \in 1 .. Len(queue.pending) /\ queue'.pending[i] = queue.pending[i + n]
      BY <1>1, <1>2, <1>5
    <3>2. queue.pending[i + n] \notin active
      BY <3>1 DEF IInv, NoDuplicates, PendingItems
    <3>3. queue.pending[i + n] \notin T
      BY <1>1, <1>2, <3>1 DEF IInv, NoDuplicates
    <3> QED BY <1>4, <3>1, <3>2, <3>3
  <2> QED BY <2>1, <2>2 DEF NoDuplicates
<1>9. queue'.running <= MaxCap
  BY <1>1, <1>2, <1>3, MaxCapAssumption DEF IInv, CapHolds, QueueType
<1> QED BY <1>3, <1>4, <1>6, <1>7, <1>8, <1>9 DEF IInv, TypeOK, SlotsAccounted, CapHolds

LEMMA FinishIInv ==
  ASSUME IInv, NEW x \in Items, Finish(x)
  PROVE  IInv'
<1>1. queue \in QueueType(Items) /\ queue.running \in Nat
  BY DEF IInv, TypeOK, QueueType
<1>2. IsFiniteSet(active) /\ Cardinality(active) = queue.running /\ x \in active
  BY DEF IInv, SlotsAccounted, Finish
<1>3. queue.running > 0
  BY <1>1, <1>2, FS_EmptySet
<1>4. /\ queue' \in QueueType(Items)
      /\ queue'.running = queue.running - 1
      /\ queue'.pending = queue.pending /\ queue'.max = queue.max /\ active' = active \ {x}
  BY <1>1, <1>3 DEF Finish, Complete, QueueType
<1>5. IsFiniteSet(active') /\ Cardinality(active') = queue'.running
  BY <1>1, <1>2, <1>4, FS_RemoveElement
<1>6. queue'.running <= MaxCap
  BY <1>1, <1>3, <1>4, MaxCapAssumption DEF IInv, CapHolds
<1> QED BY <1>4, <1>5, <1>6 DEF IInv, TypeOK, SlotsAccounted, NoDuplicates, CapHolds, PendingItems

LEMMA WithdrawIInv ==
  ASSUME IInv, NEW x \in Items, Withdraw(x)
  PROVE  IInv'
<1> DEFINE p == Position(queue, x)
<1>1. queue \in QueueType(Items) /\ queue.pending \in Seq(Items)
  BY DEF IInv, TypeOK, QueueType
<1>2. p \in 1 .. Len(queue.pending)
  BY <1>1, PositionOfPending DEF Withdraw
<1> HIDE DEF p
<1>3. queue'.pending = RemoveAt(queue.pending, p)
  BY <1>1 DEF Withdraw, RemovePending, QueueType, p
<1>4. /\ queue'.pending \in Seq(Items)
      /\ Len(queue'.pending) = Len(queue.pending) - 1
      /\ \A i \in 1 .. Len(queue.pending) - 1 :
            queue'.pending[i] = IF i < p THEN queue.pending[i] ELSE queue.pending[i + 1]
  BY <1>1, <1>2, <1>3, RemoveAtPositions
<1>5. queue' \in QueueType(Items) /\ queue'.running = queue.running
      /\ queue'.max = queue.max /\ active' = active
  BY <1>1, <1>4 DEF Withdraw, RemovePending, QueueType
<1>6. ASSUME NEW i \in 1 .. Len(queue'.pending)
      PROVE  LET o == IF i < p THEN i ELSE i + 1
             IN  o \in 1 .. Len(queue.pending) /\ queue'.pending[i] = queue.pending[o]
  BY <1>1, <1>2, <1>4
<1>7. NoDuplicates'
  <2>1. \A i, k \in 1 .. Len(queue'.pending) : queue'.pending[i] = queue'.pending[k] => i = k
    <3> SUFFICES ASSUME NEW i \in 1 .. Len(queue'.pending), NEW k \in 1 .. Len(queue'.pending),
                        queue'.pending[i] = queue'.pending[k]
                 PROVE  i = k
      OBVIOUS
    <3> DEFINE o(j) == IF j < p THEN j ELSE j + 1
    <3>1. o(i) \in 1 .. Len(queue.pending) /\ o(k) \in 1 .. Len(queue.pending)
          /\ queue.pending[o(i)] = queue.pending[o(k)]
      BY <1>6
    <3>2. o(i) = o(k)
      BY <3>1 DEF IInv, NoDuplicates
    <3> QED BY <1>2, <3>2
  <2>2. active' \cap PendingItems' = {}
    BY <1>5, <1>6 DEF IInv, NoDuplicates, PendingItems
  <2> QED BY <2>1, <2>2 DEF NoDuplicates
<1> QED BY <1>5, <1>7 DEF IInv, TypeOK, SlotsAccounted, CapHolds

(* Promote and Demote both exchange two neighbours.                        *)
LEMMA SwapIInv ==
  ASSUME IInv, NEW i \in 1 .. Len(queue.pending), NEW k \in 1 .. Len(queue.pending),
         queue' = [queue EXCEPT !.pending = Swap(@, i, k)], UNCHANGED active
  PROVE  IInv'
<1>1. queue \in QueueType(Items) /\ queue.pending \in Seq(Items)
  BY DEF IInv, TypeOK, QueueType
<1>2. queue'.pending = Swap(queue.pending, i, k)
  BY <1>1 DEF QueueType
<1>3. /\ queue'.pending \in Seq(Items)
      /\ Len(queue'.pending) = Len(queue.pending)
      /\ \A j \in 1 .. Len(queue.pending) :
            queue'.pending[j] = IF j = k THEN queue.pending[i]
                                ELSE IF j = i THEN queue.pending[k] ELSE queue.pending[j]
  BY <1>1, <1>2 DEF Swap
<1>4. queue' \in QueueType(Items) /\ queue'.running = queue.running /\ queue'.max = queue.max
  BY <1>1, <1>3 DEF QueueType
<1>5. NoDuplicates'
  BY <1>1, <1>3 DEF IInv, NoDuplicates, PendingItems
<1> QED BY <1>4, <1>5 DEF IInv, TypeOK, SlotsAccounted, CapHolds

LEMMA ReorderIInv ==
  ASSUME IInv, NEW x \in Items, Promote(x) \/ Demote(x)
  PROVE  IInv'
<1>1. queue \in QueueType(Items)
  BY DEF IInv, TypeOK
<1>2. IsPending(queue, x)
  BY DEF Promote, Demote, CanMoveUp, CanMoveDown
<1>3. Position(queue, x) \in 1 .. Len(queue.pending)
  BY <1>1, <1>2, PositionOfPending
<1>4. CASE Promote(x)
  <2>1. Position(queue, x) - 1 \in 1 .. Len(queue.pending)
    BY <1>3, <1>4 DEF Promote, CanMoveUp
  <2> QED BY <1>3, <1>4, <2>1, SwapIInv DEF Promote, MoveUp
<1>5. CASE Demote(x)
  <2>1. Position(queue, x) + 1 \in 1 .. Len(queue.pending)
    BY <1>1, <1>3, <1>5 DEF Demote, CanMoveDown, QueueType
  <2> QED BY <1>3, <1>5, <2>1, SwapIInv DEF Demote, MoveDown
<1> QED BY <1>4, <1>5

(* Every step of the scheduler preserves the invariant.                    *)
LEMMA NextIInv == IInv /\ [Next]_vars => IInv'
<1> SUFFICES ASSUME IInv, [Next]_vars PROVE IInv'
  OBVIOUS
<1>1. CASE UNCHANGED vars
  BY <1>1 DEF vars, IInv, TypeOK, SlotsAccounted, NoDuplicates, CapHolds, PendingItems
<1>2. ASSUME NEW x \in Items, Submit(x) PROVE IInv'
  BY <1>2, SubmitIInv
<1>3. ASSUME NEW x \in Items, Finish(x) PROVE IInv'
  BY <1>3, FinishIInv
<1>4. ASSUME NEW x \in Items, Withdraw(x) PROVE IInv'
  BY <1>4, WithdrawIInv
<1>5. ASSUME NEW x \in Items, Promote(x) \/ Demote(x) PROVE IInv'
  BY <1>5, ReorderIInv
<1>6. ASSUME NEW m \in 0 .. MaxCap, ChangeCap(m) PROVE IInv'
  BY <1>6, ChangeCapIInv
<1>7. CASE Start
  BY <1>7, StartIInv
<1> QED BY <1>1, <1>2, <1>3, <1>4, <1>5, <1>6, <1>7 DEF Next

(* The inductive invariant holds in every reachable state.                 *)
LEMMA IInvAlways == Spec => []IInv
BY InitIInv, NextIInv, PTL DEF Spec

-----------------------------------------------------------------------------
(* The queue keeps its shape: the cap never falls to 0 (queue.rs:17-29).   *)
THEOREM TypeCorrect == Spec => []TypeOK
<1>1. IInv => TypeOK
  BY DEF IInv
<1> QED BY <1>1, IInvAlways, PTL

(* The slot counter equals the number of jobs in flight, for any number of *)
(* items, any cap and any sequence of cap changes (queue.rs:38-55).        *)
THEOREM SlotsNeverLeak == Spec => []SlotsAccounted
<1>1. IInv => SlotsAccounted
  BY DEF IInv
<1> QED BY <1>1, IInvAlways, PTL

(* No item is handed out twice: it is pending once, or running, never both *)
(* (queue.rs:68-97).                                                       *)
THEOREM NeverHandedOutTwice == Spec => []NoDuplicates
<1>1. IInv => NoDuplicates
  BY DEF IInv
<1> QED BY <1>1, IInvAlways, PTL

(* The slots in use never exceed the largest cap (queue.rs:40).            *)
THEOREM CapAlwaysHolds == Spec => []CapHolds
<1>1. IInv => CapHolds
  BY DEF IInv
<1> QED BY <1>1, IInvAlways, PTL

(* FIFO: an item never starts before one that was ahead of it, for any     *)
(* number of items and slots (queue.rs:38-50).                             *)
THEOREM StartsInOrder == Spec => NoOvertaking
<1> DEFINE A == \A k \in 1 .. Len(queue.pending) :
                  queue.pending[k] \in active' =>
                    \A i \in 1 .. k : queue.pending[i] \in active'
<1>1. ASSUME IInv, Next PROVE A
  <2>1. queue \in QueueType(Items) /\ queue.pending \in Seq(Items)
    BY <1>1 DEF IInv, TypeOK, QueueType
  <2>2. \A k \in 1 .. Len(queue.pending) : queue.pending[k] \notin active
    BY <1>1 DEF IInv, NoDuplicates, PendingItems
  <2>3. CASE Start
    <3> DEFINE n == StartCount(queue)
    <3>1. n \in Nat /\ n <= Len(queue.pending)
      BY <2>1, StartCountBounds
    <3>2. active' = active \cup {queue.pending[i] : i \in 1 .. n}
      <4>1. \A i \in 1 .. n : Started(queue)[i] = queue.pending[i]
        BY <2>1, <3>1 DEF Started
      <4> QED BY <2>3, <4>1 DEF Start
    <3> SUFFICES ASSUME NEW k \in 1 .. Len(queue.pending), queue.pending[k] \in active',
                        NEW i \in 1 .. k
                 PROVE  queue.pending[i] \in active'
      OBVIOUS
    <3>3. PICK j \in 1 .. n : queue.pending[k] = queue.pending[j]
      BY <2>2, <3>2
    <3>4. k = j
      BY <1>1, <2>1, <3>1, <3>3 DEF IInv, NoDuplicates
    <3>5. i \in 1 .. n
      BY <2>1, <3>1, <3>4
    <3> QED BY <3>2, <3>5
  <2>4. CASE active' \subseteq active
    BY <2>2, <2>4
  <2>5. Start \/ active' \subseteq active
    BY <1>1 DEF Next, Submit, Finish, Withdraw, Promote, Demote, ChangeCap
  <2> QED BY <2>3, <2>4, <2>5
<1>2. IInv /\ [Next]_vars => [A]_vars
  BY <1>1
<1> QED BY <1>2, IInvAlways, PTL DEF Spec, NoOvertaking

(* Starting fills the slots: jobs start only under the cap in force, and a *)
(* slot stays free only when nothing is pending (queue.rs:38-50).          *)
THEOREM StartingFillsSlots == Spec => StartsFillSlots
<1> DEFINE A == (active \subseteq active' /\ active # active') =>
                  /\ queue'.running <= queue'.max
                  /\ queue'.running < queue'.max => queue'.pending = <<>>
<1>1. ASSUME IInv, Next PROVE A
  <2>1. queue \in QueueType(Items) /\ queue.pending \in Seq(Items) /\ queue.running \in Nat
    BY <1>1 DEF IInv, TypeOK, QueueType
  <2>2. CASE Start
    <3> DEFINE n == StartCount(queue)
    <3>1. n \in Nat /\ n <= Len(queue.pending) /\ (n > 0 => queue.running + n <= queue.max)
      BY <2>1, StartCountBounds
    <3>2. queue'.running = queue.running + n /\ queue'.max = queue.max
          /\ queue'.pending = SubSeq(queue.pending, n + 1, Len(queue.pending))
      BY <2>1, <2>2 DEF Start, StartReady, QueueType
    <3>3. n = 0 => active' = active
      BY <2>2 DEF Start
    <3>4. queue.running + n < queue.max => n = Len(queue.pending)
      BY <2>1 DEF StartCount, FreeSlots, QueueType
    <3>5. n = Len(queue.pending) => SubSeq(queue.pending, n + 1, Len(queue.pending)) = <<>>
      BY <2>1, <3>1, SubSeqEmpty
    <3> QED BY <2>1, <3>1, <3>2, <3>3, <3>4, <3>5 DEF QueueType
  <2>3. CASE active' \subseteq active
    BY <2>3
  <2>4. Start \/ active' \subseteq active
    BY <1>1 DEF Next, Submit, Finish, Withdraw, Promote, Demote, ChangeCap
  <2> QED BY <2>2, <2>3, <2>4
<1>2. IInv /\ [Next]_vars => [A]_vars
  BY <1>1
<1> QED BY <1>2, IInvAlways, PTL DEF Spec, StartsFillSlots
=============================================================================
