---------------------------- MODULE JobScheduler ----------------------------
(***************************************************************************)
(* The protocol between a Queue<T> and a client that obeys it: an item is  *)
(* enqueued while it is neither pending nor running, complete() is called  *)
(* once for every item start_ready() returned, and the cap may be changed  *)
(* at any time (the settings screen).  `active` is the client's ledger:    *)
(* the items it was handed and has not completed.                          *)
(***************************************************************************)
EXTENDS JobQueue, FiniteSets

CONSTANTS Items,        \* the ids the client may enqueue
          MaxCap        \* the largest parallelism the settings allow

ASSUME MaxCapAssumption == MaxCap \in Nat \ {0}

VARIABLES queue,        \* the Queue<T>
          active        \* items handed to the client and not completed

vars == <<queue, active>>

PendingItems == {queue.pending[i] : i \in 1 .. Len(queue.pending)}

Init ==
  /\ \E m \in 0 .. MaxCap : queue = NewQueue(m)
  /\ active = {}

-----------------------------------------------------------------------------
Submit(x) ==
  /\ x \notin active \cup PendingItems
  /\ queue' = Enqueue(queue, x)
  /\ UNCHANGED active

ChangeCap(m) ==
  /\ queue' = SetMax(queue, m)
  /\ UNCHANGED active

Start ==
  /\ queue' = StartReady(queue)
  /\ active' = active \cup {Started(queue)[i] : i \in 1 .. StartCount(queue)}

Finish(x) ==
  /\ x \in active
  /\ queue' = Complete(queue)
  /\ active' = active \ {x}

Withdraw(x) ==
  /\ IsPending(queue, x)
  /\ queue' = RemovePending(queue, x)
  /\ UNCHANGED active

Promote(x) ==
  /\ CanMoveUp(queue, x)
  /\ queue' = MoveUp(queue, x)
  /\ UNCHANGED active

Demote(x) ==
  /\ CanMoveDown(queue, x)
  /\ queue' = MoveDown(queue, x)
  /\ UNCHANGED active

Next ==
  \/ \E x \in Items : Submit(x) \/ Finish(x) \/ Withdraw(x) \/ Promote(x) \/ Demote(x)
  \/ \E m \in 0 .. MaxCap : ChangeCap(m)
  \/ Start

Spec == Init /\ [][Next]_vars

-----------------------------------------------------------------------------
(* Shapes of the queue (job/queue.rs:10-14) and of the client's ledger.    *)
TypeOK ==
  /\ queue \in QueueType(Items)
  /\ active \in SUBSET Items

(* The slot counter is exact: start_ready and complete keep `running`      *)
(* equal to the number of items handed out and not completed, whatever the *)
(* cap was changed to meanwhile, so saturating_sub never hides an          *)
(* imbalance and no slot leaks (queue.rs:38-55).                           *)
SlotsAccounted ==
  /\ IsFiniteSet(active)
  /\ queue.running = Cardinality(active)

(* An item is pending at one position at most and never both pending and   *)
(* running, through every reordering and removal (queue.rs:68-97).         *)
NoDuplicates ==
  /\ \A i, k \in 1 .. Len(queue.pending) :
        queue.pending[i] = queue.pending[k] => i = k
  /\ active \cap PendingItems = {}

(* Lowering the cap below the jobs in flight never lets one more start,    *)
(* and the slots in use never exceed the largest cap (queue.rs:40).        *)
CapHolds == queue.running <= MaxCap

(* FIFO: when an item starts, every item that was ahead of it starts in    *)
(* the same call (queue.rs:41).                                            *)
NoOvertaking ==
  [][\A k \in 1 .. Len(queue.pending) :
        queue.pending[k] \in active' =>
          \A i \in 1 .. k : queue.pending[i] \in active']_vars

(* start_ready starts only under the cap in force, and leaves a free slot  *)
(* only when nothing is pending (queue.rs:40-47).                          *)
StartsFillSlots ==
  [][(active \subseteq active' /\ active # active') =>
        /\ queue'.running <= queue'.max
        /\ queue'.running < queue'.max => queue'.pending = <<>>]_vars

=============================================================================
