------------------------------ MODULE JobQueue ------------------------------
(***************************************************************************)
(* The value type Queue<T> of cascade-core/src/job/queue.rs: a FIFO of     *)
(* pending items and a count of the slots in use, under a cap.  The queue  *)
(* never spawns anything; it only decides when an item may start.  Every   *)
(* method is an operator from the queue before the call to the one after.  *)
(***************************************************************************)
EXTENDS Naturals, Sequences, SequencesExt

AtLeastOne(m) == IF m < 1 THEN 1 ELSE m

QueueType(Items) == [max : Nat \ {0}, running : Nat, pending : Seq(Items)]

NewQueue(m) == [max |-> AtLeastOne(m), running |-> 0, pending |-> <<>>]

(* Slip: set_max without the clamp.                                        *)
SetMaxUnclamped(q, m) == [q EXCEPT !.max = m]

SetMax(q, m) == [q EXCEPT !.max = AtLeastOne(m)]

Enqueue(q, x) == [q EXCEPT !.pending = Append(@, x)]

-----------------------------------------------------------------------------
(* start_ready pops the front while a slot is free: in one call it takes   *)
(* as many items as there are free slots, or all of them.                  *)

(* Slips: one item per call; items taken from the back; returned without   *)
(* being popped.                                                           *)
FreeSlots(q) == IF q.running < q.max THEN q.max - q.running ELSE 0

StartCountOne(q) ==
  IF FreeSlots(q) = 0 \/ q.pending = <<>> THEN 0 ELSE 1

StartCount(q) ==
  IF FreeSlots(q) < Len(q.pending) THEN FreeSlots(q) ELSE Len(q.pending)

StartedFromBack(q) ==
  SubSeq(q.pending, Len(q.pending) - StartCount(q) + 1, Len(q.pending))

Started(q) == SubSeq(q.pending, 1, StartCount(q))

StartReadyKeepsFront(q) == [q EXCEPT !.running = @ + StartCount(q)]

StartReady(q) ==
  [q EXCEPT !.running = @ + StartCount(q),
            !.pending = SubSeq(@, StartCount(q) + 1, Len(@))]

(* saturating_sub: a spurious complete() is absorbed, not an underflow.    *)
(* Slip: the slot is not given back.                                       *)
CompleteForgotten(q) == q

Complete(q) == [q EXCEPT !.running = IF @ = 0 THEN 0 ELSE @ - 1]

-----------------------------------------------------------------------------
(* The three edits of a still-pending item, at its position i.             *)

IsPending(q, x) == \E i \in 1 .. Len(q.pending) : q.pending[i] = x

Position(q, x) == CHOOSE i \in 1 .. Len(q.pending) : q.pending[i] = x

Swap(s, i, k) == [s EXCEPT ![i] = s[k], ![k] = s[i]]

RemovePending(q, x) ==
  [q EXCEPT !.pending = RemoveAt(@, Position(q, x))]

CanMoveUp(q, x) == IsPending(q, x) /\ Position(q, x) > 1

MoveUp(q, x) ==
  [q EXCEPT !.pending = Swap(@, Position(q, x), Position(q, x) - 1)]

CanMoveDown(q, x) == IsPending(q, x) /\ Position(q, x) < Len(q.pending)

MoveDown(q, x) ==
  [q EXCEPT !.pending = Swap(@, Position(q, x), Position(q, x) + 1)]
=============================================================================
