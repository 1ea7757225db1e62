-------------------------- MODULE QueueView_proofs --------------------------
(***************************************************************************)
(* Proofs about QueueView, for any jobs, any cap, any number of stops and  *)
(* any path verdicts, with and without failing statements.                 *)
(*                                                                         *)
(* The promises of the page hold because its copies of the queue hang      *)
(* together, and that is the invariant (Ledger): the pending jobs are the  *)
(* last rows of the list box, in the queue's order; a job waits exactly    *)
(* while it is pending or in `ready`, never in both; every slot is a       *)
(* launched job or one of `ready`.  It is stated of a queue, a list of     *)
(* ready jobs, rows and items given as parameters, because a callback      *)
(* makes several edits before its step ends, and it holds after each.      *)
(***************************************************************************)
EXTENDS QueueView, Lists_proofs

Waiting(it) == {j \in Jobs : it[j] = "waiting"}
Launched(it) == {j \in Jobs : it[j] = "launched"}

ItemTypes(it) == it \in [Jobs -> {"absent", "waiting", "launched", "done"}]

(* The rows are the items there are, each once; the pending jobs are last. *)
RowsHold(q, rws, it) ==
  /\ rws \in Seq(Jobs) /\ Distinct(rws)
  /\ \A j \in Jobs : it[j] # "absent" <=> j \in Elements(rws)
  /\ IsTail(q.pending, rws)

(* A job that waits is in one of the two places that will launch it.       *)
WaitersHeld(q, rdy, it) ==
  /\ rdy \in Seq(Jobs) /\ Distinct(rdy)
  /\ Elements(rdy) \cap Elements(q.pending) = {}
  /\ Waiting(it) = Elements(rdy) \cup Elements(q.pending)

SlotsCount(q, rdy, it) ==
  /\ IsFiniteSet(Launched(it))
  /\ q.running = Cardinality(Launched(it)) + Len(rdy)

Ledger(q, rdy, rws, it) ==
  /\ q \in QueueType(Jobs) /\ ItemTypes(it)
  /\ RowsHold(q, rws, it) /\ WaitersHeld(q, rdy, it) /\ SlotsCount(q, rdy, it)

(* No slot of the cap is free while a job is pending.                      *)
Full(q) == q.pending = <<>> \/ q.running >= q.max

-----------------------------------------------------------------------------
Rows == [spec : Jobs, position : Nat]

OneRowEach(table) == \A r, o \in table : r.spec = o.spec => r = o

Specs(table) == {r.spec : r \in table}

(* The rest of the state, and the phases of the application.               *)
ViewTypes ==
  /\ saved \subseteq Rows /\ restoring \subseteq Rows
  /\ OneRowEach(saved) /\ OneRowEach(restoring)
  /\ runs \in [Jobs -> {"none", "running", "completed", "failed"}]
  /\ maxParallel \in Nat \ {0}
  /\ verdict \in [Jobs -> Verdicts] /\ ack \in [Jobs -> Verdicts]
  /\ \A j \in Jobs \ Volatile : verdict[j] = "clean"
  /\ proc \in [Jobs -> {"none", "live", "exited0", "exited1"}]
  /\ phase \in {"down", "restoring", "up"}
  /\ paused \in BOOLEAN
  /\ launching = None \/ (launching \in Jobs /\ item[launching] = "launched")
  /\ added \subseteq Jobs /\ released \subseteq Jobs /\ unrecorded \subseteq Jobs

Phases ==
  /\ phase = "up" => restoring = {}
  /\ phase # "up" => ready = <<>> /\ launching = None
  /\ phase # "up" => \A j \in Jobs : item[j] \in {"absent", "waiting"}
  /\ phase = "restoring" => paused
  /\ phase = "down" => (\A j \in Jobs : item[j] = "absent") /\ restoring = {}

(* A job is added once, and comes back from the disk only while it is not  *)
(* in the list.                                                            *)
AddedOnce ==
  /\ \A j \in Jobs : item[j] # "absent" => j \in added
  /\ Specs(saved) \subseteq added /\ Specs(restoring) \subseteq added
  /\ \A j \in Specs(restoring) : item[j] = "absent"

(* What an unpaused queue may launch, the user has released.               *)
OnlyReleased ==
  /\ phase = "up" /\ ~paused => Waiting(item) \subseteq released
  /\ Elements(ready) \subseteq released
  /\ launching # None => launching \in released

NeverStalled == phase = "up" /\ ~paused => Full(queue)

QueueIInv ==
  /\ Ledger(queue, ready, rows, item)
  /\ ViewTypes /\ Phases /\ AddedOnce /\ OnlyReleased /\ NeverStalled

-----------------------------------------------------------------------------
(* With a database that accepts its writes.                                *)

(* No run exists of a job that is still to be launched.                    *)
NotRunYet ==
  /\ \A j \in Jobs : item[j] = "waiting" \/ launching = j => runs[j] = "none"
  /\ \A j \in Specs(saved) \cup Specs(restoring) : runs[j] = "none"
  /\ \A j \in Jobs \ added : runs[j] = "none"

(* The saved rows are those of waiting jobs, in the order of the list box. *)
InStep(table, rws, it) ==
  /\ Specs(table) \subseteq Waiting(it) \ Secret
  /\ Waiting(it) \ (Secret \cup Volatile) \subseteq Specs(table)
  /\ \A r, o \in table :
       r.position < o.position <=> RowIndex(rws, r.spec) < RowIndex(rws, o.spec)

SavedInStep ==
  /\ phase = "up" => InStep(saved, rows, item)
  /\ phase = "restoring" => Specs(saved) \subseteq Waiting(item) \cup Specs(restoring)

RunsOfItems ==
  /\ phase # "down" =>
       \A j \in Jobs : runs[j] = "running" <=> item[j] = "launched" /\ launching # j
  /\ unrecorded = {}

StoreIInv == ~StoreMayFail => NotRunYet /\ SavedInStep /\ RunsOfItems

-----------------------------------------------------------------------------
(* What the edits of the lists do.                                         *)

(* An end of a list without duplicates has none.                           *)
LEMMA TailDistinct ==
  ASSUME NEW S, NEW s \in Seq(S), NEW p \in Seq(S), IsTail(p, s), Distinct(s)
  PROVE  Distinct(p)
<1> SUFFICES ASSUME NEW i \in 1 .. Len(p), NEW k \in 1 .. Len(p), p[i] = p[k]
             PROVE  i = k
  BY DEF Distinct
<1> DEFINE n == Len(s) - Len(p)
<1>1. n \in Nat /\ n + i \in 1 .. Len(s) /\ n + k \in 1 .. Len(s)
  BY DEF IsTail
<1>2. s[n + i] = s[n + k]
  BY DEF IsTail
<1>3. n + i = n + k
  BY <1>1, <1>2 DEF Distinct
<1> QED BY <1>1, <1>3

(* The first n of p are put in front of rest, which gives a; b is left.    *)
HandedOver(S, p, rest, n, a, b) ==
  /\ a \in Seq(S) /\ Len(a) = n + Len(rest) /\ Distinct(a)
  /\ b \in Seq(S) /\ Len(b) = Len(p) - n
  /\ \A i \in 1 .. Len(b) : b[i] = p[n + i]
  /\ Elements(a) \cap Elements(b) = {}
  /\ Elements(a) \cup Elements(b) = Elements(rest) \cup Elements(p)

(* start_ready hands the front of pending to the list of ready jobs.       *)
LEMMA HandOver ==
  ASSUME NEW S, NEW p \in Seq(S), NEW rest \in Seq(S), NEW n \in 0 .. Len(p),
         Distinct(p), Distinct(rest), Elements(rest) \cap Elements(p) = {},
         NEW a, a = SubSeq(p, 1, n) \o rest,
         NEW b, b = SubSeq(p, n + 1, Len(p))
  PROVE  HandedOver(S, p, rest, n, a, b)
<1> DEFINE c == SubSeq(p, 1, n)
<1>1. c \in Seq(S) /\ Len(c) = n /\ \A i \in 1 .. n : c[i] = p[i]
  OBVIOUS
<1>2. b \in Seq(S) /\ Len(b) = Len(p) - n /\ \A i \in 1 .. Len(b) : b[i] = p[n + i]
  OBVIOUS
<1>3. a = c \o rest
  OBVIOUS
<1> HIDE DEF c
<1>4. /\ a \in Seq(S) /\ Len(a) = n + Len(rest)
      /\ \A i \in 1 .. n + Len(rest) : a[i] = IF i <= n THEN c[i] ELSE rest[i - n]
  <2>1. /\ c \o rest \in Seq(S)
        /\ Len(c \o rest) = Len(c) + Len(rest)
        /\ \A i \in 1 .. Len(c) + Len(rest) :
             (c \o rest)[i] = IF i <= Len(c) THEN c[i] ELSE rest[i - Len(c)]
    BY <1>1, ConcatProperties
  <2> QED BY <1>1, <1>3, <2>1
<1>5. \A i \in 1 .. n + Len(rest) : a[i] = IF i <= n THEN p[i] ELSE rest[i - n]
  BY <1>1, <1>4
<1>6. Distinct(a)
  <2> SUFFICES ASSUME NEW i \in 1 .. Len(a), NEW k \in 1 .. Len(a), a[i] = a[k] PROVE i = k
    BY DEF Distinct
  <2>1. \A e \in 1 .. Len(rest), f \in 1 .. Len(p) : rest[e] # p[f]
    BY DEF Elements
  <2>2. CASE i <= n /\ k <= n
    BY <1>4, <1>5, <2>2 DEF Distinct
  <2>3. CASE ~(i <= n) /\ ~(k <= n)
    <3>1. i - n \in 1 .. Len(rest) /\ k - n \in 1 .. Len(rest) /\ rest[i - n] = rest[k - n]
      BY <1>4, <1>5, <2>3
    <3>2. i - n = k - n
      BY <3>1 DEF Distinct
    <3> QED BY <1>4, <3>2
  <2>4. CASE i <= n /\ ~(k <= n)
    <3>1. k - n \in 1 .. Len(rest) /\ i \in 1 .. Len(p) /\ rest[k - n] = p[i]
      BY <1>4, <1>5, <2>4
    <3> QED BY <2>1, <3>1
  <2>5. CASE ~(i <= n) /\ k <= n
    <3>1. i - n \in 1 .. Len(rest) /\ k \in 1 .. Len(p) /\ rest[i - n] = p[k]
      BY <1>4, <1>5, <2>5
    <3> QED BY <2>1, <3>1
  <2> QED BY <2>2, <2>3, <2>4, <2>5
<1>7. Elements(a) = Elements(rest) \cup {p[i] : i \in 1 .. n}
  <2>1. ASSUME NEW i \in 1 .. Len(a) PROVE a[i] \in Elements(rest) \cup {p[k] : k \in 1 .. n}
    <3>1. CASE i <= n
      BY <1>4, <1>5, <3>1
    <3>2. CASE ~(i <= n)
      <4>1. i - n \in 1 .. Len(rest) /\ a[i] = rest[i - n]
        BY <1>4, <1>5, <3>2
      <4> QED BY <4>1 DEF Elements
    <3> QED BY <3>1, <3>2
  <2>2. ASSUME NEW i \in 1 .. n PROVE p[i] \in Elements(a)
    <3>1. i \in 1 .. Len(a) /\ a[i] = p[i]
      BY <1>4, <1>5
    <3> QED BY <3>1 DEF Elements
  <2>3. ASSUME NEW i \in 1 .. Len(rest) PROVE rest[i] \in Elements(a)
    <3>1. n + i \in 1 .. Len(a) /\ a[n + i] = rest[i]
      BY <1>4, <1>5
    <3> QED BY <3>1 DEF Elements
  <2>4. Elements(a) \subseteq Elements(rest) \cup {p[i] : i \in 1 .. n}
    BY <2>1 DEF Elements
  <2>5. {p[i] : i \in 1 .. n} \subseteq Elements(a)
    BY <2>2
  <2>6. Elements(rest) \subseteq Elements(a)
    BY <2>3 DEF Elements
  <2> QED BY <2>4, <2>5, <2>6
<1>8. Elements(b) = {p[i] : i \in n + 1 .. Len(p)}
  <2>1. ASSUME NEW i \in 1 .. Len(b) PROVE b[i] \in {p[k] : k \in n + 1 .. Len(p)}
    <3>1. n + i \in n + 1 .. Len(p) /\ b[i] = p[n + i]
      BY <1>2
    <3> QED BY <3>1
  <2>2. ASSUME NEW k \in n + 1 .. Len(p) PROVE p[k] \in Elements(b)
    <3>1. k - n \in 1 .. Len(b) /\ n + (k - n) = k
      BY <1>2
    <3>2. b[k - n] = p[k]
      BY <1>2, <3>1
    <3> QED BY <3>1, <3>2 DEF Elements
  <2> QED BY ZenonT(40), <2>1, <2>2 DEF Elements
<1>9. Elements(p) = {p[i] : i \in 1 .. n} \cup {p[i] : i \in n + 1 .. Len(p)}
  <2>1. \A i : i \in 1 .. Len(p) <=> i \in 1 .. n \/ i \in n + 1 .. Len(p)
    OBVIOUS
  <2> QED BY <2>1 DEF Elements
<1>10. {p[i] : i \in 1 .. n} \cap {p[i] : i \in n + 1 .. Len(p)} = {}
  BY DEF Distinct
<1>11. Elements(a) \cap Elements(b) = {}
  BY <1>7, <1>8, <1>9, <1>10
<1> QED BY <1>2, <1>4, <1>6, <1>7, <1>8, <1>9, <1>11 DEF HandedOver

-----------------------------------------------------------------------------
(* pump().                                                                 *)

(* start_ready under the cap of the settings: it starts as many jobs as it *)
(* can, and none beyond the cap.                                           *)
LEMMA StartReadyEffect ==
  ASSUME NEW q \in QueueType(Jobs), NEW m \in Nat \ {0}
  PROVE  \E n \in 0 .. Len(q.pending) :
           /\ StartReady(SetMax(q, m)) \in QueueType(Jobs)
           /\ StartReady(SetMax(q, m)).max = m
           /\ StartReady(SetMax(q, m)).running = q.running + n
           /\ StartReady(SetMax(q, m)).pending = SubSeq(q.pending, n + 1, Len(q.pending))
           /\ Started(SetMax(q, m)) = SubSeq(q.pending, 1, n)
           /\ n > 0 => q.running + n <= m
           /\ n = Len(q.pending) \/ q.running + n >= m
<1> DEFINE c == SetMax(q, m)
           n == StartCount(c)
<1>1. c = [max |-> m, running |-> q.running, pending |-> q.pending]
  BY DEF SetMax, AtLeastOne, QueueType
<1>2. q.running \in Nat /\ q.pending \in Seq(Jobs)
  BY DEF QueueType
<1>3. /\ n \in 0 .. Len(q.pending)
      /\ n > 0 => q.running + n <= m
      /\ n = Len(q.pending) \/ q.running + n >= m
  <2> HIDE DEF c
  <2> QED BY <1>1, <1>2 DEF StartCount, FreeSlots
<1> DEFINE b == SubSeq(q.pending, n + 1, Len(q.pending))
<1>4. Started(c) = SubSeq(q.pending, 1, n)
  <2> HIDE DEF c
  <2> QED BY <1>1 DEF Started
<1>5. StartReady(c) = [max |-> m, running |-> q.running + n, pending |-> b]
  <2>1. StartReady(c) = [c EXCEPT !.running = c.running + n,
                                  !.pending = SubSeq(c.pending, n + 1, Len(c.pending))]
    BY DEF StartReady
  <2> HIDE DEF c, n
  <2> QED BY <1>1, <2>1 DEF b
<1>6. b \in Seq(Jobs) /\ q.running + n \in Nat
  BY <1>2, <1>3
<1>7. StartReady(c) \in QueueType(Jobs)
  <2> DEFINE k == q.running + n
  <2> HIDE DEF b, k, c
  <2> QED BY <1>5, <1>6 DEF QueueType, k
<1>8. StartReady(c).max = m /\ StartReady(c).running = q.running + n /\ StartReady(c).pending = b
  <2> HIDE DEF b, n, c
  <2> QED BY <1>5
<1> HIDE DEF n, c
<1>9. /\ StartReady(c) \in QueueType(Jobs)
      /\ StartReady(c).max = m
      /\ StartReady(c).running = q.running + n
      /\ StartReady(c).pending = SubSeq(q.pending, n + 1, Len(q.pending))
      /\ Started(c) = SubSeq(q.pending, 1, n)
  BY <1>4, <1>7, <1>8
<1> QED BY <1>3, <1>9 DEF c

(* pump() keeps the copies of the queue together, and unless the queue is  *)
(* paused it fills the cap that the settings hold now, and no more.        *)
LEMMA PumpKeepsLedger ==
  ASSUME NEW q, NEW rest, NEW rws, NEW it, NEW stopped \in BOOLEAN,
         Ledger(q, rest, rws, it), maxParallel \in Nat \ {0},
         Pump(q, rest, stopped)
  PROVE  /\ Ledger(queue', ready', rws, it)
         /\ ~stopped => Full(queue')
         /\ ready' = rest \/ queue'.running <= maxParallel
         /\ stopped => ready' = rest
<1>1. CASE stopped
  <2>1. queue' = q /\ ready' = rest
    BY <1>1 DEF Pump
  <2>2. q.running \in Nat
    BY DEF Ledger, QueueType
  <2> QED BY <1>1, <2>1, <2>2
<1>2. CASE ~stopped
  <2>0. q \in QueueType(Jobs) /\ q.pending \in Seq(Jobs) /\ q.running \in Nat
    BY DEF Ledger, QueueType
  <2>1. queue' = StartReady(SetMax(q, maxParallel)) /\ ready' = Started(SetMax(q, maxParallel)) \o rest
    BY <1>2 DEF Pump
  <2>2. PICK n \in 0 .. Len(q.pending) :
          /\ queue' \in QueueType(Jobs)
          /\ queue'.max = maxParallel
          /\ queue'.running = q.running + n
          /\ queue'.pending = SubSeq(q.pending, n + 1, Len(q.pending))
          /\ ready' = SubSeq(q.pending, 1, n) \o rest
          /\ n > 0 => q.running + n <= maxParallel
          /\ n = Len(q.pending) \/ q.running + n >= maxParallel
    BY <2>0, <2>1, StartReadyEffect
  <2>3. /\ rws \in Seq(Jobs) /\ Distinct(rws) /\ IsTail(q.pending, rws)
        /\ rest \in Seq(Jobs) /\ Distinct(rest) /\ Elements(rest) \cap Elements(q.pending) = {}
        /\ Waiting(it) = Elements(rest) \cup Elements(q.pending)
    BY DEF Ledger, RowsHold, WaitersHeld
  <2>4. Distinct(q.pending)
    BY <2>0, <2>3, TailDistinct
  <2>5. /\ ready' \in Seq(Jobs) /\ Len(ready') = n + Len(rest) /\ Distinct(ready')
        /\ queue'.pending \in Seq(Jobs) /\ Len(queue'.pending) = Len(q.pending) - n
        /\ \A i \in 1 .. Len(queue'.pending) : queue'.pending[i] = q.pending[n + i]
        /\ Elements(ready') \cap Elements(queue'.pending) = {}
        /\ Elements(ready') \cup Elements(queue'.pending) = Elements(rest) \cup Elements(q.pending)
    <3>1. HandedOver(Jobs, q.pending, rest, n, ready', queue'.pending)
      BY <2>0, <2>2, <2>3, <2>4, HandOver
    <3> QED BY <3>1 DEF HandedOver
  <2>6. IsTail(queue'.pending, rws)
    <3>1. Len(queue'.pending) <= Len(rws)
      BY <2>0, <2>3, <2>5 DEF IsTail
    <3>2. ASSUME NEW i \in 1 .. Len(queue'.pending)
          PROVE  queue'.pending[i] = rws[Len(rws) - Len(queue'.pending) + i]
      <4>1. n + i \in 1 .. Len(q.pending) /\ queue'.pending[i] = q.pending[n + i]
        BY <2>0, <2>5
      <4>2. q.pending[n + i] = rws[Len(rws) - Len(q.pending) + (n + i)]
        BY <2>3, <4>1 DEF IsTail
      <4>3. Len(rws) - Len(q.pending) + (n + i) = Len(rws) - Len(queue'.pending) + i
        BY <2>0, <2>3, <2>5
      <4> QED BY <4>1, <4>2, <4>3
    <3> QED BY <3>1, <3>2 DEF IsTail
  <2>7. RowsHold(queue', rws, it)
    BY <2>6 DEF Ledger, RowsHold
  <2>8. WaitersHeld(queue', ready', it)
    BY <2>3, <2>5 DEF WaitersHeld
  <2>9. SlotsCount(queue', ready', it)
    <3>1. IsFiniteSet(Launched(it)) /\ q.running = Cardinality(Launched(it)) + Len(rest)
      BY DEF Ledger, SlotsCount
    <3>2. Cardinality(Launched(it)) \in Nat /\ Len(rest) \in Nat
      BY <2>3, <3>1, FS_CardinalityType
    <3>3. queue'.running = Cardinality(Launched(it)) + Len(ready')
      BY <2>2, <2>5, <3>1, <3>2
    <3> QED BY <3>1, <3>3 DEF SlotsCount
  <2>10. Ledger(queue', ready', rws, it)
    BY <2>2, <2>7, <2>8, <2>9 DEF Ledger
  <2>11. Full(queue')
    <3>1. CASE n = Len(q.pending)
      BY <2>0, <2>5, <3>1 DEF Full
    <3>2. CASE q.running + n >= maxParallel
      BY <2>2, <3>2 DEF Full
    <3> QED BY <2>2, <3>1, <3>2
  <2>12. ready' = rest \/ queue'.running <= maxParallel
    <3>1. CASE n = 0
      <4>1. SubSeq(q.pending, 1, n) = <<>>
        BY <2>0, <3>1
      <4>2. <<>> \o rest = rest
        BY <2>3
      <4> QED BY <2>2, <4>1, <4>2
    <3>2. CASE n > 0
      BY <2>2, <3>2
    <3> QED BY <2>2, <3>1, <3>2
  <2> QED BY <1>2, <2>10, <2>11, <2>12
<1> QED BY <1>1, <1>2

-----------------------------------------------------------------------------
(* Each edit of the queue, the list box and the items keeps the ledger.    *)

(* Nothing is there yet.                                                   *)
LEMMA EmptyLedger ==
  ASSUME NEW m \in Nat \ {0}
  PROVE  Ledger(NewQueue(m), <<>>, <<>>, [j \in Jobs |-> "absent"])
<1> DEFINE it == [j \in Jobs |-> "absent"]
           q == NewQueue(m)
<1>1. q \in QueueType(Jobs) /\ q.running = 0 /\ q.pending = <<>>
  BY DEF NewQueue, AtLeastOne, QueueType
<1>2. ItemTypes(it)
  BY DEF ItemTypes
<1>3. RowsHold(q, <<>>, it)
  BY <1>1 DEF RowsHold, Distinct, Elements, IsTail
<1>4. WaitersHeld(q, <<>>, it)
  BY <1>1 DEF WaitersHeld, Distinct, Elements, Waiting
<1>5. SlotsCount(q, <<>>, it)
  <2>1. Launched(it) = {}
    BY DEF Launched
  <2> HIDE DEF it, q
  <2>2. Cardinality(Launched(it)) = 0 /\ IsFiniteSet(Launched(it))
    BY <2>1, FS_EmptySet
  <2>3. Len(<<>>) = 0
    OBVIOUS
  <2> QED BY <1>1, <2>2, <2>3 DEF SlotsCount
<1> QED BY <1>1, <1>2, <1>3, <1>4, <1>5 DEF Ledger

(* A job that is not in the list is appended to it and enqueued.           *)
LEMMA EnqueueKeepsLedger ==
  ASSUME NEW q, NEW rdy, NEW rws, NEW it, Ledger(q, rdy, rws, it),
         NEW j \in Jobs, it[j] = "absent"
  PROVE  Ledger(Enqueue(q, j), rdy, Append(rws, j), [it EXCEPT ![j] = "waiting"])
<1> DEFINE p == q.pending
           pp == Append(p, j)
           ww == Append(rws, j)
           ii == [it EXCEPT ![j] = "waiting"]
           qq == Enqueue(q, j)
<1>1. /\ q \in QueueType(Jobs) /\ p \in Seq(Jobs) /\ rws \in Seq(Jobs)
      /\ it \in [Jobs -> {"absent", "waiting", "launched", "done"}]
  BY DEF Ledger, QueueType, RowsHold, ItemTypes
<1>2. pp \in Seq(Jobs) /\ ww \in Seq(Jobs)
  BY <1>1
<1>3. qq \in QueueType(Jobs) /\ qq.pending = pp /\ qq.running = q.running
  BY <1>1, <1>2 DEF Enqueue, QueueType
<1>4. ii \in [Jobs -> {"absent", "waiting", "launched", "done"}]
      /\ ii[j] = "waiting" /\ \A k \in Jobs : k # j => ii[k] = it[k]
  BY <1>1
<1>5. j \notin Elements(rws) /\ Elements(ww) = Elements(rws) \cup {j}
  <2>1. j \notin Elements(rws)
    BY DEF Ledger, RowsHold
  <2>2. \A i : i \in 1 .. Len(ww) <=> i \in 1 .. Len(rws) \/ i = Len(rws) + 1
    BY <1>1
  <2>3. ww[Len(rws) + 1] = j /\ \A i \in 1 .. Len(rws) : ww[i] = rws[i]
    BY <1>1
  <2> QED BY <2>1, <2>2, <2>3 DEF Elements
<1>6. Elements(pp) = Elements(p) \cup {j}
  <2>1. \A i : i \in 1 .. Len(pp) <=> i \in 1 .. Len(p) \/ i = Len(p) + 1
    BY <1>1
  <2>2. pp[Len(p) + 1] = j /\ \A i \in 1 .. Len(p) : pp[i] = p[i]
    BY <1>1
  <2> QED BY <2>1, <2>2 DEF Elements
<1> HIDE DEF ii, qq
<1>7. RowsHold(qq, ww, ii)
  <2>1. Distinct(ww)
    <3>1. Distinct(rws)
      BY DEF Ledger, RowsHold
    <3> QED BY <1>1, <1>5, <3>1 DEF Distinct, Elements
  <2>2. \A k \in Jobs : ii[k] # "absent" <=> k \in Elements(ww)
    BY <1>4, <1>5 DEF Ledger, RowsHold
  <2>3. IsTail(pp, ww)
    <3>1. IsTail(p, rws)
      BY DEF Ledger, RowsHold
    <3>2. Len(pp) = Len(p) + 1 /\ Len(ww) = Len(rws) + 1 /\ Len(pp) <= Len(ww)
      BY <1>1, <3>1 DEF IsTail
    <3>3. ASSUME NEW i \in 1 .. Len(pp) PROVE pp[i] = ww[Len(ww) - Len(pp) + i]
      <4>1. CASE i = Len(p) + 1
        <5>1. Len(ww) - Len(pp) + i = Len(rws) + 1
          <6>1. Len(rws) \in Nat /\ Len(p) \in Nat
            BY <1>1
          <6> HIDE DEF pp, ww, p
          <6> QED BY <3>2, <4>1, <6>1
        <5>2. ww[Len(rws) + 1] = j /\ pp[Len(p) + 1] = j
          BY <1>1
        <5> QED BY <4>1, <5>1, <5>2
      <4>2. CASE i \in 1 .. Len(p)
        <5>1. Len(rws) - Len(p) + i \in 1 .. Len(rws)
              /\ Len(ww) - Len(pp) + i = Len(rws) - Len(p) + i
          BY <1>1, <3>1, <3>2, <4>2 DEF IsTail
        <5>2. p[i] = rws[Len(rws) - Len(p) + i]
          BY <3>1, <4>2 DEF IsTail
        <5>3. pp[i] = p[i]
          BY <1>1, <4>2
        <5>4. \A k \in 1 .. Len(rws) : ww[k] = rws[k]
          BY <1>1
        <5> QED BY <5>1, <5>2, <5>3, <5>4
      <4>3. i = Len(p) + 1 \/ i \in 1 .. Len(p)
        BY <1>1, <3>2
      <4> QED BY <4>1, <4>2, <4>3
    <3> HIDE DEF pp, ww
    <3> QED BY <3>2, <3>3 DEF IsTail
  <2> QED BY <1>2, <1>3, <2>1, <2>2, <2>3 DEF RowsHold
<1>8. WaitersHeld(qq, rdy, ii)
  <2>1. Waiting(ii) = Waiting(it) \cup {j}
    BY <1>4 DEF Waiting
  <2>2. j \notin Elements(rdy)
    BY <1>1 DEF Ledger, WaitersHeld, Waiting
  <2> QED BY <1>3, <1>6, <2>1, <2>2 DEF Ledger, WaitersHeld
<1>9. SlotsCount(qq, rdy, ii)
  <2>1. Launched(ii) = Launched(it)
    BY <1>1, <1>4 DEF Launched
  <2> QED BY <1>3, <2>1 DEF Ledger, SlotsCount
<1>10. ItemTypes(ii)
  BY <1>4 DEF ItemTypes
<1>11. Ledger(qq, rdy, ww, ii)
  BY <1>3, <1>7, <1>8, <1>9, <1>10 DEF Ledger
<1> QED BY <1>11 DEF ii, qq

(* A launched job is done: its slot is given back.                         *)
LEMMA CompleteKeepsLedger ==
  ASSUME NEW q, NEW rdy, NEW rws, NEW it, Ledger(q, rdy, rws, it),
         NEW j \in Jobs, it[j] = "launched"
  PROVE  Ledger(Complete(q), rdy, rws, [it EXCEPT ![j] = "done"])
<1> DEFINE ii == [it EXCEPT ![j] = "done"]
           qq == Complete(q)
<1>1. /\ q \in QueueType(Jobs) /\ q.running \in Nat /\ rdy \in Seq(Jobs)
      /\ it \in [Jobs -> {"absent", "waiting", "launched", "done"}]
  BY DEF Ledger, QueueType, WaitersHeld, ItemTypes
<1>2. ii \in [Jobs -> {"absent", "waiting", "launched", "done"}]
      /\ ii[j] = "done" /\ \A k \in Jobs : k # j => ii[k] = it[k]
  BY <1>1
<1>3. /\ IsFiniteSet(Launched(it)) /\ j \in Launched(it)
      /\ q.running = Cardinality(Launched(it)) + Len(rdy)
  BY DEF Ledger, SlotsCount, Launched
<1>4. Launched(ii) = Launched(it) \ {j}
  BY <1>1, <1>2 DEF Launched
<1>5. /\ IsFiniteSet(Launched(ii))
      /\ Cardinality(Launched(ii)) = Cardinality(Launched(it)) - 1
      /\ Cardinality(Launched(it)) \in Nat /\ Cardinality(Launched(it)) # 0
  BY ZenonT(40), <1>3, <1>4, FS_RemoveElement, FS_CardinalityType, FS_EmptySet
<1>6. q.running # 0
  BY <1>1, <1>3, <1>5
<1>7. qq \in QueueType(Jobs) /\ qq.pending = q.pending /\ qq.running = q.running - 1
  <2>1. qq = [max |-> q.max, running |-> q.running - 1, pending |-> q.pending]
    BY <1>1, <1>6 DEF Complete, QueueType
  <2>2. q.running - 1 \in Nat
    BY <1>1, <1>6
  <2>3. q.max \in Nat \ {0} /\ q.pending \in Seq(Jobs)
    BY <1>1 DEF QueueType
  <2> DEFINE r == q.running - 1
  <2> HIDE DEF qq, r
  <2> QED BY <2>1, <2>2, <2>3 DEF QueueType, r
<1> HIDE DEF ii, qq
<1>8. SlotsCount(qq, rdy, ii)
  BY <1>1, <1>3, <1>5, <1>7 DEF SlotsCount
<1>9. RowsHold(qq, rws, ii)
  BY <1>1, <1>2, <1>7 DEF Ledger, RowsHold
<1>10. WaitersHeld(qq, rdy, ii)
  <2>1. Waiting(ii) = Waiting(it)
    BY <1>1, <1>2 DEF Waiting
  <2> QED BY <1>7, <2>1 DEF Ledger, WaitersHeld
<1>11. ItemTypes(ii)
  BY <1>2 DEF ItemTypes
<1>12. Ledger(qq, rdy, rws, ii)
  BY <1>7, <1>8, <1>9, <1>10, <1>11 DEF Ledger
<1> QED BY <1>12 DEF ii, qq

(* The first ready job is taken and marked launched.                       *)
LEMMA BeginKeepsLedger ==
  ASSUME NEW q, NEW rdy, NEW rws, NEW it, Ledger(q, rdy, rws, it), rdy # <<>>
  PROVE  /\ Head(rdy) \in Jobs /\ it[Head(rdy)] = "waiting"
         /\ Ledger(q, Tail(rdy), rws, [it EXCEPT ![Head(rdy)] = "launched"])
         /\ Elements(Tail(rdy)) \cup {Head(rdy)} = Elements(rdy)
<1> DEFINE j == Head(rdy)
           tt == Tail(rdy)
           ii == [it EXCEPT ![j] = "launched"]
<1>1. /\ q \in QueueType(Jobs) /\ rdy \in Seq(Jobs) /\ Distinct(rdy)
      /\ it \in [Jobs -> {"absent", "waiting", "launched", "done"}]
  BY DEF Ledger, WaitersHeld, ItemTypes
<1>2. /\ tt \in Seq(Jobs) /\ Len(tt) = Len(rdy) - 1 /\ Len(rdy) \in Nat \ {0}
      /\ \A i \in 1 .. Len(tt) : tt[i] = rdy[i + 1]
      /\ j = rdy[1]
  BY <1>1
<1>3. j \in Jobs /\ j \in Elements(rdy)
  BY <1>1, <1>2 DEF Elements
<1>4. it[j] = "waiting"
  BY <1>3 DEF Ledger, WaitersHeld, Waiting
<1>5. ii \in [Jobs -> {"absent", "waiting", "launched", "done"}]
      /\ ii[j] = "launched" /\ \A k \in Jobs : k # j => ii[k] = it[k]
  BY <1>1, <1>3
<1> HIDE DEF j, tt, ii
<1>6. Elements(tt) = Elements(rdy) \ {j}
  <2>1. ASSUME NEW i \in 1 .. Len(tt) PROVE tt[i] \in Elements(rdy) \ {j}
    <3>1. i + 1 \in 1 .. Len(rdy) /\ i + 1 # 1 /\ 1 \in 1 .. Len(rdy) /\ tt[i] = rdy[i + 1]
      BY <1>2
    <3>2. rdy[i + 1] # rdy[1]
      BY <1>1, <3>1 DEF Distinct
    <3> QED BY <1>2, <3>1, <3>2 DEF Elements
  <2>2. ASSUME NEW k \in 1 .. Len(rdy), rdy[k] # j PROVE rdy[k] \in Elements(tt)
    <3>1. k - 1 \in 1 .. Len(tt) /\ (k - 1) + 1 = k
      BY <1>2, <2>2
    <3>2. tt[k - 1] = rdy[k]
      BY <1>2, <3>1
    <3> QED BY <3>1, <3>2 DEF Elements
  <2>3. Elements(tt) \subseteq Elements(rdy) \ {j}
    BY <2>1 DEF Elements
  <2>4. Elements(rdy) \ {j} \subseteq Elements(tt)
    BY <2>2 DEF Elements
  <2> QED BY <2>3, <2>4
<1>7. Distinct(tt)
  <2> SUFFICES ASSUME NEW i \in 1 .. Len(tt), NEW k \in 1 .. Len(tt), tt[i] = tt[k] PROVE i = k
    BY DEF Distinct
  <2>1. i + 1 \in 1 .. Len(rdy) /\ k + 1 \in 1 .. Len(rdy) /\ rdy[i + 1] = rdy[k + 1]
    BY <1>2
  <2>2. i + 1 = k + 1
    BY <1>1, <2>1 DEF Distinct
  <2> QED BY <1>2, <2>2
<1>8. WaitersHeld(q, tt, ii)
  <2>1. Waiting(ii) = Waiting(it) \ {j}
    BY <1>1, <1>5 DEF Waiting
  <2>2. j \notin Elements(q.pending)
    BY <1>3 DEF Ledger, WaitersHeld
  <2> QED BY <1>2, <1>6, <1>7, <2>1, <2>2 DEF Ledger, WaitersHeld
<1>9. RowsHold(q, rws, ii)
  BY <1>4, <1>5 DEF Ledger, RowsHold
<1>10. SlotsCount(q, tt, ii)
  <2>1. IsFiniteSet(Launched(it)) /\ q.running = Cardinality(Launched(it)) + Len(rdy)
    BY DEF Ledger, SlotsCount
  <2>2. Launched(ii) = Launched(it) \cup {j} /\ j \notin Launched(it)
    BY <1>3, <1>4, <1>5 DEF Launched
  <2>3. IsFiniteSet(Launched(ii)) /\ Cardinality(Launched(ii)) = Cardinality(Launched(it)) + 1
    BY <2>1, <2>2, FS_AddElement
  <2>4. Cardinality(Launched(it)) \in Nat
    BY <2>1, FS_CardinalityType
  <2> QED BY <1>2, <2>1, <2>3, <2>4 DEF SlotsCount
<1>11. Ledger(q, tt, rws, ii)
  BY <1>1, <1>5, <1>8, <1>9, <1>10 DEF Ledger, ItemTypes
<1>12. Elements(tt) \cup {j} = Elements(rdy)
  BY <1>3, <1>6
<1> QED BY <1>3, <1>4, <1>11, <1>12 DEF j, tt, ii

(* Where a job of a list without duplicates is, is where it is found.      *)
LEMMA RowIndexIs ==
  ASSUME NEW rws \in Seq(Jobs), Distinct(rws), NEW i \in 1 .. Len(rws)
  PROVE  RowIndex(rws, rws[i]) = i
BY DEF RowIndex, Distinct

(* A pending job is at one place of the queue and at the same place from   *)
(* the end of the list box.                                                *)
LEMMA PendingRow ==
  ASSUME NEW q, NEW rws, NEW it, q \in QueueType(Jobs), RowsHold(q, rws, it),
         NEW j, IsPending(q, j)
  PROVE  LET p == Position(q, j)
             r == Len(rws) - Len(q.pending)
         IN  /\ p \in 1 .. Len(q.pending) /\ q.pending[p] = j
             /\ r \in Nat /\ r + p \in 1 .. Len(rws) /\ rws[r + p] = j
             /\ RowIndex(rws, j) = r + p
<1>1. q.pending \in Seq(Jobs) /\ rws \in Seq(Jobs) /\ Distinct(rws) /\ IsTail(q.pending, rws)
  BY DEF QueueType, RowsHold
<1> DEFINE p == Position(q, j)
           r == Len(rws) - Len(q.pending)
<1>2. p \in 1 .. Len(q.pending) /\ q.pending[p] = j
  BY DEF IsPending, Position
<1> HIDE DEF p
<1>3. r \in Nat /\ r + p \in 1 .. Len(rws)
  BY <1>1, <1>2 DEF IsTail
<1>4. rws[r + p] = j
  BY <1>1, <1>2 DEF IsTail
<1> HIDE DEF r
<1>5. RowIndex(rws, j) = r + p
  BY <1>1, <1>3, <1>4, RowIndexIs
<1> QED BY <1>2, <1>3, <1>4, <1>5 DEF p, r

(* Removing a place of a list without duplicates removes its element.      *)
LEMMA RemoveAtElements ==
  ASSUME NEW S, NEW s \in Seq(S), NEW p \in 1 .. Len(s), Distinct(s)
  PROVE  /\ Distinct(RemoveAt(s, p))
         /\ Elements(RemoveAt(s, p)) = Elements(s) \ {s[p]}
<1> DEFINE t == RemoveAt(s, p)
           o(i) == IF i < p THEN i ELSE i + 1
<1> HIDE DEF t
<1>1. Len(t) = Len(s) - 1 /\ \A i \in 1 .. Len(t) : t[i] = IF i < p THEN s[i] ELSE s[i + 1]
  BY RemoveAtPositions DEF t
<1>2. \A i \in 1 .. Len(t) : o(i) \in 1 .. Len(s) /\ t[i] = s[o(i)] /\ o(i) # p
  BY <1>1
<1>3. \A i, k \in 1 .. Len(t) : o(i) = o(k) => i = k
  OBVIOUS
<1>4. \A m \in 1 .. Len(s) : m # p => \E i \in 1 .. Len(t) : o(i) = m
  <2> SUFFICES ASSUME NEW m \in 1 .. Len(s), m # p PROVE \E i \in 1 .. Len(t) : o(i) = m
    OBVIOUS
  <2>1. CASE m < p
    <3>1. m \in 1 .. Len(t) /\ o(m) = m
      BY <1>1, <2>1
    <3> QED BY <3>1
  <2>2. CASE m > p
    <3>1. m - 1 \in 1 .. Len(t) /\ o(m - 1) = m
      BY <1>1, <2>2
    <3> QED BY <3>1
  <2> QED BY <2>1, <2>2
<1> HIDE DEF o
<1>5. Distinct(t)
  BY <1>2, <1>3 DEF Distinct
<1>6. Elements(t) \subseteq Elements(s) \ {s[p]}
  BY <1>2 DEF Elements, Distinct
<1>7. Elements(s) \ {s[p]} \subseteq Elements(t)
  BY <1>2, <1>4 DEF Elements
<1> QED BY <1>5, <1>6, <1>7 DEF t

(* The places i and k of s are exchanged, which gives t.                   *)
Swapped(S, s, i, k, t) ==
  /\ t \in Seq(S) /\ Len(t) = Len(s) /\ Elements(t) = Elements(s)
  /\ \A m \in 1 .. Len(s) : t[m] = IF m = k THEN s[i] ELSE IF m = i THEN s[k] ELSE s[m]
  /\ Distinct(s) => Distinct(t)

(* Exchanging two places changes neither the elements nor their number.    *)
LEMMA SwapElements ==
  ASSUME NEW S, NEW s \in Seq(S), NEW i \in 1 .. Len(s), NEW k \in 1 .. Len(s)
  PROVE  Swapped(S, s, i, k, Swap(s, i, k))
<1> DEFINE t == Swap(s, i, k)
<1>1. t \in Seq(S) /\ Len(t) = Len(s)
      /\ \A m \in 1 .. Len(s) : t[m] = IF m = k THEN s[i] ELSE IF m = i THEN s[k] ELSE s[m]
  BY DEF Swap
<1> HIDE DEF t
<1>2. Elements(t) \subseteq Elements(s)
  BY <1>1 DEF Elements
<1>3. Elements(s) \subseteq Elements(t)
  <2> SUFFICES ASSUME NEW m \in 1 .. Len(s) PROVE s[m] \in Elements(t)
    BY DEF Elements
  <2>1. CASE m = i
    <3>1. k \in 1 .. Len(t) /\ t[k] = s[m]
      BY <1>1, <2>1
    <3> QED BY <3>1 DEF Elements
  <2>2. CASE m = k
    <3>1. i \in 1 .. Len(t) /\ t[i] = s[m]
      BY <1>1, <2>2
    <3> QED BY <3>1 DEF Elements
  <2>3. CASE m # i /\ m # k
    <3>1. m \in 1 .. Len(t) /\ t[m] = s[m]
      BY <1>1, <2>3
    <3> QED BY <3>1 DEF Elements
  <2> QED BY <2>1, <2>2, <2>3
<1>4. Distinct(s) => Distinct(t)
  BY <1>1 DEF Distinct
<1>5. Swapped(S, s, i, k, t)
  BY <1>1, <1>2, <1>3, <1>4 DEF Swapped
<1> QED BY <1>5 DEF t

(* A pending job waits.                                                    *)
LEMMA PendingWaits ==
  ASSUME NEW q, NEW rdy, NEW rws, NEW it, Ledger(q, rdy, rws, it),
         NEW j \in Jobs, IsPending(q, j)
  PROVE  it[j] = "waiting"
<1>1. j \in Elements(q.pending)
  BY DEF IsPending, Elements
<1> QED BY <1>1 DEF Ledger, WaitersHeld, Waiting

(* A pending job is removed from the queue and from the list box.          *)
LEMMA RemoveKeepsLedger ==
  ASSUME NEW q, NEW rdy, NEW rws, NEW it, Ledger(q, rdy, rws, it),
         NEW j \in Jobs, IsPending(q, j)
  PROVE  Ledger(RemovePending(q, j), rdy, RemoveAt(rws, RowIndex(rws, j)),
                [it EXCEPT ![j] = "absent"])
<1> DEFINE ii == [it EXCEPT ![j] = "absent"]
           qq == RemovePending(q, j)
           ww == RemoveAt(rws, RowIndex(rws, j))
           p == Position(q, j)
           r == Len(rws) - Len(q.pending)
           b == RemoveAt(q.pending, p)
<1>1. /\ q \in QueueType(Jobs) /\ q.pending \in Seq(Jobs) /\ rws \in Seq(Jobs) /\ Distinct(rws)
      /\ RowsHold(q, rws, it) /\ IsTail(q.pending, rws)
      /\ it \in [Jobs -> {"absent", "waiting", "launched", "done"}]
  BY DEF Ledger, QueueType, RowsHold, ItemTypes
<1>2. /\ p \in 1 .. Len(q.pending) /\ q.pending[p] = j
      /\ r \in Nat /\ r + p \in 1 .. Len(rws) /\ rws[r + p] = j
      /\ RowIndex(rws, j) = r + p
  BY <1>1, PendingRow
<1> HIDE DEF p
<1>3. Distinct(q.pending)
  BY <1>1, TailDistinct
<1>4. /\ b \in Seq(Jobs) /\ Len(b) = Len(q.pending) - 1
      /\ \A i \in 1 .. Len(q.pending) - 1 : b[i] = IF i < p THEN q.pending[i] ELSE q.pending[i + 1]
      /\ Elements(b) = Elements(q.pending) \ {j}
  BY ZenonT(40), <1>1, <1>2, <1>3, RemoveAtPositions, RemoveAtElements
<1>5. /\ ww \in Seq(Jobs) /\ Len(ww) = Len(rws) - 1 /\ Distinct(ww)
      /\ \A i \in 1 .. Len(rws) - 1 : ww[i] = IF i < r + p THEN rws[i] ELSE rws[i + 1]
      /\ Elements(ww) = Elements(rws) \ {j}
  <2> DEFINE k == r + p
  <2>1. k \in 1 .. Len(rws) /\ rws[k] = j /\ RowIndex(rws, j) = k
    BY <1>2
  <2> HIDE DEF k
  <2>2. /\ ww \in Seq(Jobs) /\ Len(ww) = Len(rws) - 1 /\ Distinct(ww)
        /\ \A i \in 1 .. Len(rws) - 1 : ww[i] = IF i < k THEN rws[i] ELSE rws[i + 1]
        /\ Elements(ww) = Elements(rws) \ {j}
    BY <1>1, <2>1, RemoveAtPositions, RemoveAtElements
  <2> QED BY <2>2 DEF k
<1>6. qq \in QueueType(Jobs) /\ qq.pending = b /\ qq.running = q.running /\ qq.max = q.max
  <2>1. qq = [q EXCEPT !.pending = b]
    BY <1>1 DEF RemovePending, QueueType, p
  <2> HIDE DEF b, qq
  <2> QED BY <1>1, <1>4, <2>1 DEF QueueType
<1>7. it[j] = "waiting" /\ j \notin Elements(rdy)
  <2>1. j \in Elements(q.pending)
    BY <1>2 DEF Elements
  <2> QED BY <2>1 DEF Ledger, WaitersHeld, Waiting
<1>8. ii \in [Jobs -> {"absent", "waiting", "launched", "done"}]
      /\ ii[j] = "absent" /\ \A k \in Jobs : k # j => ii[k] = it[k]
  BY <1>1
<1> HIDE DEF ii, qq, ww, b
<1>9. IsTail(b, ww)
  <2>1. Len(b) <= Len(ww) /\ Len(ww) - Len(b) = r
    BY <1>1, <1>4, <1>5 DEF IsTail
  <2>2. ASSUME NEW i \in 1 .. Len(b) PROVE b[i] = ww[r + i]
    <3>0. Len(b) \in Nat /\ Len(ww) \in Nat /\ Len(rws) \in Nat /\ Len(q.pending) \in Nat /\ p \in Nat
      BY <1>1, <1>2, <1>4, <1>5
    <3>1. /\ i \in 1 .. Len(q.pending) - 1 /\ i \in 1 .. Len(q.pending) /\ i + 1 \in 1 .. Len(q.pending)
          /\ r + i \in 1 .. Len(rws) - 1 /\ (i < p <=> r + i < r + p)
      <4> HIDE DEF r
      <4>1. Len(b) = Len(q.pending) - 1 /\ Len(ww) = Len(rws) - 1 /\ r \in Nat
        BY <1>2, <1>4, <1>5
      <4> QED BY <2>1, <3>0, <4>1
    <3>2. b[i] = IF i < p THEN q.pending[i] ELSE q.pending[i + 1]
      BY <1>4, <3>1
    <3>5. ww[r + i] = IF i < p THEN rws[r + i] ELSE rws[(r + i) + 1]
      <4> DEFINE x == r + i
                 y == r + p
      <4>1. x \in 1 .. Len(rws) - 1 /\ (i < p <=> x < y)
        BY <3>1
      <4>2. \A m \in 1 .. Len(rws) - 1 : ww[m] = IF m < y THEN rws[m] ELSE rws[m + 1]
        BY <1>5
      <4> HIDE DEF x, y
      <4>3. ww[x] = IF i < p THEN rws[x] ELSE rws[x + 1]
        BY <4>1, <4>2
      <4> QED BY <4>3 DEF x
    <3>3. q.pending[i] = rws[r + i] /\ q.pending[i + 1] = rws[r + (i + 1)]
      BY <1>1, <3>1 DEF IsTail
    <3>4. (r + i) + 1 = r + (i + 1)
      BY <1>2
    <3> HIDE DEF r
    <3> QED BY <3>2, <3>3, <3>4, <3>5
  <2> QED BY <2>1, <2>2 DEF IsTail
<1>10. RowsHold(qq, ww, ii)
  BY <1>1, <1>5, <1>6, <1>8, <1>9 DEF RowsHold
<1>11. WaitersHeld(qq, rdy, ii)
  <2>1. Waiting(ii) = Waiting(it) \ {j}
    BY <1>1, <1>8 DEF Waiting
  <2> QED BY <1>4, <1>6, <1>7, <2>1 DEF Ledger, WaitersHeld
<1>12. SlotsCount(qq, rdy, ii)
  <2>1. Launched(ii) = Launched(it)
    BY <1>1, <1>7, <1>8 DEF Launched
  <2> QED BY <1>6, <2>1 DEF Ledger, SlotsCount
<1>13. Ledger(qq, rdy, ww, ii)
  BY <1>6, <1>8, <1>10, <1>11, <1>12 DEF Ledger, ItemTypes
<1> QED BY <1>13 DEF ii, qq, ww

(* Two neighbours of the queue, which are neighbours in the list box, are  *)
(* exchanged in both.                                                      *)
LEMMA SwapKeepsLedger ==
  ASSUME NEW q, NEW rdy, NEW rws, NEW it, Ledger(q, rdy, rws, it),
         NEW i \in 1 .. Len(q.pending), NEW k \in 1 .. Len(q.pending), NEW r,
         r = Len(rws) - Len(q.pending)
  PROVE  Ledger([q EXCEPT !.pending = Swap(q.pending, i, k)], rdy, Swap(rws, r + i, r + k), it)
<1> DEFINE qq == [q EXCEPT !.pending = Swap(q.pending, i, k)]
           ww == Swap(rws, r + i, r + k)
           b == Swap(q.pending, i, k)
<1>1. /\ q \in QueueType(Jobs) /\ q.pending \in Seq(Jobs) /\ rws \in Seq(Jobs) /\ Distinct(rws)
      /\ IsTail(q.pending, rws)
  BY DEF Ledger, QueueType, RowsHold
<1>2. r \in Nat /\ r + i \in 1 .. Len(rws) /\ r + k \in 1 .. Len(rws)
  BY <1>1 DEF IsTail
<1>3. /\ b \in Seq(Jobs) /\ Len(b) = Len(q.pending) /\ Elements(b) = Elements(q.pending)
      /\ \A m \in 1 .. Len(q.pending) :
           b[m] = IF m = k THEN q.pending[i] ELSE IF m = i THEN q.pending[k] ELSE q.pending[m]
  <2>1. Swapped(Jobs, q.pending, i, k, b)
    BY <1>1, SwapElements
  <2> QED BY <2>1 DEF Swapped
<1>4. /\ ww \in Seq(Jobs) /\ Len(ww) = Len(rws) /\ Elements(ww) = Elements(rws) /\ Distinct(ww)
      /\ \A m \in 1 .. Len(rws) :
           ww[m] = IF m = r + k THEN rws[r + i] ELSE IF m = r + i THEN rws[r + k] ELSE rws[m]
  <2> DEFINE x == r + i
             y == r + k
  <2> HIDE DEF x, y
  <2>1. x \in 1 .. Len(rws) /\ y \in 1 .. Len(rws)
    BY <1>2 DEF x, y
  <2>2. Swapped(Jobs, rws, x, y, Swap(rws, x, y))
    BY <1>1, <2>1, SwapElements
  <2>3. Swapped(Jobs, rws, r + i, r + k, ww)
    BY <2>2 DEF x, y
  <2> HIDE DEF ww
  <2> QED BY <1>1, <2>3 DEF Swapped
<1>5. qq \in QueueType(Jobs) /\ qq.pending = b /\ qq.running = q.running
  <2> HIDE DEF b
  <2> QED BY <1>1, <1>3 DEF QueueType, b
<1> HIDE DEF qq, ww, b
<1>6. IsTail(b, ww)
  <2>1. Len(b) <= Len(ww) /\ Len(ww) - Len(b) = r
    BY <1>1, <1>3, <1>4 DEF IsTail
  <2>2. ASSUME NEW m \in 1 .. Len(b) PROVE b[m] = ww[r + m]
    <3>0. Len(rws) \in Nat /\ Len(q.pending) \in Nat /\ i \in Nat /\ k \in Nat
      BY <1>1
    <3>1. /\ m \in 1 .. Len(q.pending) /\ r + m \in 1 .. Len(rws)
          /\ (m = k <=> r + m = r + k) /\ (m = i <=> r + m = r + i)
      <4>1. Len(b) = Len(q.pending) /\ Len(ww) = Len(rws) /\ r \in Nat
        BY <1>2, <1>3, <1>4
      <4> QED BY <2>1, <3>0, <4>1
    <3>2. b[m] = IF m = k THEN q.pending[i] ELSE IF m = i THEN q.pending[k] ELSE q.pending[m]
      BY <1>3, <3>1
    <3>3. ww[r + m] = IF m = k THEN rws[r + i] ELSE IF m = i THEN rws[r + k] ELSE rws[r + m]
      <4> DEFINE x == r + m
                 y == r + k
                 z == r + i
      <4>1. x \in 1 .. Len(rws) /\ (m = k <=> x = y) /\ (m = i <=> x = z)
        BY <3>1
      <4>2. \A n \in 1 .. Len(rws) : ww[n] = IF n = y THEN rws[z] ELSE IF n = z THEN rws[y] ELSE rws[n]
        BY <1>4
      <4> HIDE DEF x, y, z
      <4>3. ww[x] = IF m = k THEN rws[z] ELSE IF m = i THEN rws[y] ELSE rws[x]
        BY <4>1, <4>2
      <4> QED BY <4>3 DEF x, y, z
    <3>4. q.pending[i] = rws[r + i] /\ q.pending[k] = rws[r + k] /\ q.pending[m] = rws[r + m]
      BY <1>1, <3>1 DEF IsTail
    <3> QED BY <3>2, <3>3, <3>4
  <2> QED BY <2>1, <2>2 DEF IsTail
<1>7. RowsHold(qq, ww, it)
  BY <1>4, <1>5, <1>6 DEF Ledger, RowsHold
<1>8. WaitersHeld(qq, rdy, it) /\ SlotsCount(qq, rdy, it)
  BY <1>3, <1>5 DEF Ledger, WaitersHeld, SlotsCount
<1>9. Ledger(qq, rdy, ww, it)
  BY <1>5, <1>7, <1>8 DEF Ledger
<1> QED BY <1>9 DEF qq, ww

(* The finished jobs leave the list box.                                   *)
LEMMA ClearKeepsLedger ==
  ASSUME NEW q, NEW rdy, NEW rws, NEW it, Ledger(q, rdy, rws, it)
  PROVE  Ledger(q, rdy, Kept(rws, {j \in Jobs : it[j] # "done"}),
                [j \in Jobs |-> IF it[j] = "done" THEN "absent" ELSE it[j]])
<1> DEFINE T == {j \in Jobs : it[j] # "done"}
           ww == Kept(rws, T)
           ii == [j \in Jobs |-> IF it[j] = "done" THEN "absent" ELSE it[j]]
<1>1. /\ q \in QueueType(Jobs) /\ q.pending \in Seq(Jobs) /\ rws \in Seq(Jobs) /\ Distinct(rws)
      /\ IsTail(q.pending, rws) /\ \A j \in Jobs : it[j] # "absent" <=> j \in Elements(rws)
      /\ it \in [Jobs -> {"absent", "waiting", "launched", "done"}]
  BY DEF Ledger, QueueType, RowsHold, ItemTypes
<1>2. /\ ii \in [Jobs -> {"absent", "waiting", "launched", "done"}]
      /\ \A j \in Jobs : ii[j] = IF it[j] = "done" THEN "absent" ELSE it[j]
  BY <1>1
<1>3. T \subseteq Jobs /\ \A j \in Jobs : j \in T <=> it[j] # "done"
  OBVIOUS
<1> HIDE DEF T, ii
<1>4. ww \in Seq(Jobs)
  <2>1. ww \in Seq(Jobs \cap T)
    BY <1>1, KeptType
  <2> QED BY <2>1
<1>5. Distinct(ww)
  BY <1>1, KeptDistinct
<1>6. \A j : j \in Elements(ww) <=> j \in T /\ j \in Elements(rws)
  BY <1>1, KeptElements DEF Elements
<1>7. IsTail(q.pending, ww)
  <2>1. \A i \in 1 .. Len(q.pending) : q.pending[i] \in T
    BY <1>1, <1>3 DEF Ledger, WaitersHeld, Waiting, Elements
  <2> QED BY <1>1, <2>1, KeptTail
<1> HIDE DEF ww
<1>8. RowsHold(q, ww, ii)
  BY <1>1, <1>2, <1>3, <1>4, <1>5, <1>6, <1>7 DEF RowsHold
<1>9. Waiting(ii) = Waiting(it) /\ Launched(ii) = Launched(it)
  BY <1>2 DEF Waiting, Launched
<1>10. Ledger(q, rdy, ww, ii)
  BY <1>2, <1>8, <1>9 DEF Ledger, WaitersHeld, SlotsCount, ItemTypes
<1> QED BY <1>10 DEF ww, ii, T

-----------------------------------------------------------------------------
(* persist().                                                              *)

(* The rows written are those of waiting jobs, one for each.               *)
LEMMA PersistedRows ==
  ASSUME NEW q, NEW rdy, NEW rws, NEW it, Ledger(q, rdy, rws, it)
  PROVE  /\ QueueItems(rws, it) \subseteq Rows /\ OneRowEach(QueueItems(rws, it))
         /\ Specs(QueueItems(rws, it)) = Persistable(it)
         /\ Persistable(it) \subseteq Waiting(it)
         /\ IsFiniteSet(Persistable(it))
<1> DEFINE pos(j) == Cardinality({k \in Persistable(it) : RowIndex(rws, k) < RowIndex(rws, j)})
           table == {[spec |-> j, position |-> pos(j)] : j \in Persistable(it)}
<1>1. Persistable(it) \subseteq Waiting(it) /\ Persistable(it) \subseteq Jobs
  BY DEF Persistable, Waiting
<1>2. IsFiniteSet(Persistable(it))
  <2>1. Waiting(it) \subseteq Elements(rws)
    BY DEF Ledger, RowsHold, Waiting
  <2>2. IsFiniteSet(Elements(rws))
    <3>1. rws \in Seq(Jobs) /\ \A i, k \in 1 .. Len(rws) : rws[i] = rws[k] => i = k
      BY DEF Ledger, RowsHold, Distinct
    <3>2. Len(rws) \in Nat /\ Len(rws) <= Len(rws)
      BY <3>1
    <3> QED BY <3>1, <3>2, PrefixCardinality DEF Elements
  <2> QED BY <1>1, <2>1, <2>2, FS_Subset
<1>3. \A j : pos(j) \in Nat
  <2> TAKE j
  <2> DEFINE before == {k \in Persistable(it) : RowIndex(rws, k) < RowIndex(rws, j)}
  <2>1. before \subseteq Persistable(it)
    OBVIOUS
  <2> HIDE DEF before
  <2>2. Cardinality(before) \in Nat
    BY <1>2, <2>1, FS_Subset, FS_CardinalityType
  <2> QED BY <2>2 DEF before
<1>4. QueueItems(rws, it) = table
  BY DEF QueueItems
<1> HIDE DEF pos
<1>5. table \subseteq Rows
  BY <1>1, <1>3 DEF Rows
<1>6. OneRowEach(table)
  BY DEF OneRowEach
<1>7. Specs(table) = Persistable(it)
  <2>1. \A r \in table : r.spec \in Persistable(it)
    OBVIOUS
  <2>2. ASSUME NEW j \in Persistable(it) PROVE \E r \in table : r.spec = j
    <3>1. [spec |-> j, position |-> pos(j)] \in table
      OBVIOUS
    <3> QED BY <3>1
  <2> QED BY <2>1, <2>2 DEF Specs
<1> QED BY <1>1, <1>2, <1>4, <1>5, <1>6, <1>7

(* Written or not, the saved rows are old ones or those of waiting jobs.   *)
LEMMA PersistEffect ==
  ASSUME NEW q, NEW rdy, NEW rws, NEW it, Ledger(q, rdy, rws, it), ViewTypes,
         Persist(rws, it)
  PROVE  /\ saved' \subseteq Rows /\ OneRowEach(saved')
         /\ Specs(saved') \subseteq Specs(saved) \cup Waiting(it)
<1>1. CASE saved' = QueueItems(rws, it)
  BY <1>1, PersistedRows
<1>2. CASE saved' = saved
  BY <1>2 DEF ViewTypes
<1> QED BY <1>1, <1>2 DEF Persist

-----------------------------------------------------------------------------
(* Every step keeps QueueIInv.                                             *)

(* remove_item.                                                            *)
LEMMA RemoveItemKeeps ==
  ASSUME QueueIInv, NEW j \in Jobs, RemoveItem(j)
  PROVE  QueueIInv'
<1>1. /\ phase = "up" /\ ready = <<>> /\ launching = None /\ IsPending(queue, j)
      /\ queue' = RemovePending(queue, j) /\ rows' = RemoveAt(rows, RowIndex(rows, j))
      /\ item' = [item EXCEPT ![j] = "absent"]
      /\ Persist(rows', item')
  BY DEF RemoveItem, Idle
<1>2. UNCHANGED <<runs, maxParallel, worldVars, phase, restoring, ack, paused, ready,
                  launching, cancelling, unrecorded, added, released>>
  BY DEF RemoveItem
<1>3. Ledger(queue, ready, rows, item)
  BY DEF QueueIInv
<1>4. /\ Ledger(queue', ready', rows', item')
      /\ item[j] = "waiting" /\ queue.pending # <<>>
      /\ queue'.running = queue.running /\ queue'.max = queue.max
  <2>1. queue.pending # <<>>
    BY <1>1 DEF IsPending
  <2>2. Ledger(RemovePending(queue, j), ready, RemoveAt(rows, RowIndex(rows, j)),
               [item EXCEPT ![j] = "absent"])
    BY <1>1, <1>3, RemoveKeepsLedger
  <2>3. item[j] = "waiting"
    BY <1>1, <1>3, PendingWaits
  <2>4. queue'.running = queue.running /\ queue'.max = queue.max
    BY <1>1, <1>3 DEF RemovePending, Ledger, QueueType
  <2>5. ready' = ready
    BY <1>2
  <2> QED BY <1>1, <2>1, <2>2, <2>3, <2>4, <2>5
<1>5. saved' \subseteq Rows /\ OneRowEach(saved') /\ Specs(saved') \subseteq Specs(saved) \cup Waiting(item')
  BY <1>1, <1>4, PersistEffect DEF QueueIInv
<1>6. \A k \in Jobs : item'[k] = IF k = j THEN "absent" ELSE item[k]
  BY <1>1, <1>3 DEF Ledger, ItemTypes
<1>7. ViewTypes'
  BY <1>1, <1>2, <1>5, <1>6 DEF QueueIInv, ViewTypes, worldVars
<1>8. Phases'
  BY <1>1, <1>2, <1>6 DEF QueueIInv, Phases
<1>9. AddedOnce'
  BY <1>1, <1>2, <1>5, <1>6 DEF QueueIInv, AddedOnce, Phases, Waiting, Specs
<1>10. OnlyReleased'
  BY <1>1, <1>2, <1>6 DEF QueueIInv, OnlyReleased, Waiting
<1>11. NeverStalled'
  BY <1>2, <1>4 DEF QueueIInv, NeverStalled, Full
<1> QED BY <1>4, <1>7, <1>8, <1>9, <1>10, <1>11 DEF QueueIInv

(* move_item, in either direction.                                         *)
LEMMA MovedKeeps ==
  ASSUME QueueIInv, Idle,
         NEW i \in 1 .. Len(queue.pending), NEW k \in 1 .. Len(queue.pending), NEW r,
         r = Len(rows) - Len(queue.pending),
         queue' = [queue EXCEPT !.pending = Swap(queue.pending, i, k)],
         rows' = Swap(rows, r + i, r + k),
         Persist(rows', item),
         UNCHANGED <<runs, maxParallel, worldVars, phase, restoring, item, ack, paused, ready,
                     launching, cancelling, unrecorded, added, released>>
  PROVE  QueueIInv'
<1>1. Ledger(queue, ready, rows, item) /\ item' = item /\ ready' = ready
  BY DEF QueueIInv
<1>2. Ledger(queue', ready', rows', item')
  <2>1. Ledger([queue EXCEPT !.pending = Swap(queue.pending, i, k)], ready, Swap(rows, r + i, r + k), item)
    BY <1>1, SwapKeepsLedger
  <2> QED BY <1>1, <2>1
<1>3. saved' \subseteq Rows /\ OneRowEach(saved') /\ Specs(saved') \subseteq Specs(saved) \cup Waiting(item')
  BY <1>1, <1>2, PersistEffect DEF QueueIInv
<1>4. queue'.running = queue.running /\ queue'.max = queue.max /\ queue.pending # <<>>
  <2>1. queue.pending # <<>>
    OBVIOUS
  <2> QED BY <1>1, <2>1 DEF Ledger, QueueType
<1>5. ViewTypes'
  BY <1>3 DEF QueueIInv, ViewTypes, worldVars
<1>6. Phases'
  BY DEF QueueIInv, Phases
<1>7. AddedOnce'
  BY <1>1, <1>3 DEF QueueIInv, AddedOnce, Phases, Waiting, Specs, Idle
<1>8. OnlyReleased'
  BY DEF QueueIInv, OnlyReleased
<1>9. NeverStalled'
  BY <1>4 DEF QueueIInv, NeverStalled, Full
<1> QED BY <1>2, <1>5, <1>6, <1>7, <1>8, <1>9 DEF QueueIInv

(* move_item(-1).                                                          *)
LEMMA MoveItemUpKeeps ==
  ASSUME QueueIInv, NEW j \in Jobs, MoveItemUp(j)
  PROVE  QueueIInv'
<1> DEFINE p == Position(queue, j)
           r == Len(rows) - Len(queue.pending)
<1>1. Ledger(queue, ready, rows, item) /\ IsPending(queue, j) /\ p > 1
  BY DEF QueueIInv, MoveItemUp, CanMoveUp
<1>2. queue \in QueueType(Jobs) /\ RowsHold(queue, rows, item)
  BY <1>1 DEF Ledger
<1>3. /\ p \in 1 .. Len(queue.pending) /\ r \in Nat /\ RowIndex(rows, j) = r + p
  BY <1>1, <1>2, PendingRow
<1>4. p - 1 \in 1 .. Len(queue.pending)
  BY <1>1, <1>3
<1>5. queue' = [queue EXCEPT !.pending = Swap(queue.pending, p, p - 1)]
  BY DEF MoveItemUp, MoveUp
<1>6. rows' = Swap(rows, r + p, r + (p - 1))
  <2>1. (r + p) - 1 = r + (p - 1)
    BY <1>3
  <2> QED BY <1>3, <2>1 DEF MoveItemUp
<1>7. Idle /\ Persist(rows', item)
  BY DEF MoveItemUp
<1>8. UNCHANGED <<runs, maxParallel, worldVars, phase, restoring, item, ack, paused, ready,
                  launching, cancelling, unrecorded, added, released>>
  BY DEF MoveItemUp
<1> HIDE DEF p
<1> QED BY <1>3, <1>4, <1>5, <1>6, <1>7, <1>8, MovedKeeps

(* move_item(+1).                                                          *)
LEMMA MoveItemDownKeeps ==
  ASSUME QueueIInv, NEW j \in Jobs, MoveItemDown(j)
  PROVE  QueueIInv'
<1> DEFINE p == Position(queue, j)
           r == Len(rows) - Len(queue.pending)
<1>1. Ledger(queue, ready, rows, item) /\ IsPending(queue, j) /\ p < Len(queue.pending)
  BY DEF QueueIInv, MoveItemDown, CanMoveDown
<1>2. queue \in QueueType(Jobs) /\ RowsHold(queue, rows, item) /\ Len(queue.pending) \in Nat
  BY <1>1 DEF Ledger, QueueType
<1>3. /\ p \in 1 .. Len(queue.pending) /\ r \in Nat /\ RowIndex(rows, j) = r + p
  BY <1>1, <1>2, PendingRow
<1>4. p + 1 \in 1 .. Len(queue.pending)
  BY <1>1, <1>2, <1>3
<1>5. queue' = [queue EXCEPT !.pending = Swap(queue.pending, p, p + 1)]
  BY DEF MoveItemDown, MoveDown
<1>6. rows' = Swap(rows, r + p, r + (p + 1))
  <2>1. (r + p) + 1 = r + (p + 1)
    BY <1>3
  <2> QED BY <1>3, <2>1 DEF MoveItemDown
<1>7. Idle /\ Persist(rows', item)
  BY DEF MoveItemDown
<1>8. UNCHANGED <<runs, maxParallel, worldVars, phase, restoring, item, ack, paused, ready,
                  launching, cancelling, unrecorded, added, released>>
  BY DEF MoveItemDown
<1> HIDE DEF p
<1> QED BY <1>3, <1>4, <1>5, <1>6, <1>7, <1>8, MovedKeeps

(* clear_finished.                                                         *)
LEMMA ClearFinishedKeeps ==
  ASSUME QueueIInv, ClearFinished
  PROVE  QueueIInv'
<1>1. /\ Idle
      /\ rows' = Kept(rows, {j \in Jobs : item[j] # "done"})
      /\ item' = [j \in Jobs |-> IF item[j] = "done" THEN "absent" ELSE item[j]]
  BY DEF ClearFinished
<1>2. UNCHANGED <<storeVars, worldVars, phase, restoring, ack, queue, paused, ready,
                  launching, cancelling, unrecorded, added, released>>
  BY DEF ClearFinished
<1>3. Ledger(queue, ready, rows, item)
  BY DEF QueueIInv
<1>4. Ledger(queue', ready', rows', item')
  <2>1. queue' = queue /\ ready' = ready
    BY <1>2
  <2> QED BY <1>1, <1>3, <2>1, ClearKeepsLedger
<1>5. \A k \in Jobs : item'[k] = IF item[k] = "done" THEN "absent" ELSE item[k]
  BY <1>1
<1>6. ViewTypes'
  BY <1>1, <1>2 DEF QueueIInv, ViewTypes, worldVars, storeVars, Idle
<1>7. Phases'
  BY <1>1, <1>2, <1>5 DEF QueueIInv, Phases, Idle
<1>8. AddedOnce'
  BY <1>1, <1>2, <1>5 DEF QueueIInv, AddedOnce, Phases, storeVars, Idle, Specs
<1>9. OnlyReleased'
  BY <1>1, <1>2, <1>5 DEF QueueIInv, OnlyReleased, Waiting
<1>10. NeverStalled'
  BY <1>2 DEF QueueIInv, NeverStalled, Full
<1> QED BY <1>4, <1>6, <1>7, <1>8, <1>9, <1>10 DEF QueueIInv

(* Steps that leave the view's memory alone.                               *)
LEMMA OutsideKeeps ==
  ASSUME QueueIInv,
         NEW j \in Jobs,
         CancelItem(j) \/ (\E n \in 1 .. MaxParallelJobs : ChangeParallel(n))
           \/ ChildExits(j) \/ PathsChange(j)
  PROVE  QueueIInv'
<1>1. UNCHANGED <<saved, runs, phase, restoring, rows, item, ack, queue, paused,
                  ready, launching, unrecorded, added, released>>
  BY DEF CancelItem, ChangeParallel, ChildExits, PathsChange, storeVars, viewVars
<1>2. Ledger(queue', ready', rows', item')
  BY <1>1 DEF QueueIInv
<1>3. /\ maxParallel' \in Nat \ {0}
      /\ verdict' \in [Jobs -> Verdicts] /\ \A k \in Jobs \ Volatile : verdict'[k] = "clean"
      /\ proc' \in [Jobs -> {"none", "live", "exited0", "exited1"}]
  <2>1. /\ maxParallel \in Nat \ {0}
        /\ verdict \in [Jobs -> Verdicts] /\ \A k \in Jobs \ Volatile : verdict[k] = "clean"
        /\ proc \in [Jobs -> {"none", "live", "exited0", "exited1"}]
    BY DEF QueueIInv, ViewTypes
  <2>2. CASE CancelItem(j)
    BY <2>1, <2>2 DEF CancelItem, storeVars, worldVars
  <2>3. CASE \E n \in 1 .. MaxParallelJobs : ChangeParallel(n)
    BY <2>1, <2>3, QueueViewAssumption DEF ChangeParallel, worldVars
  <2>4. CASE ChildExits(j)
    BY <2>1, <2>4 DEF ChildExits, storeVars
  <2>5. CASE PathsChange(j)
    BY <2>1, <2>5 DEF PathsChange, storeVars
  <2> QED BY <2>2, <2>3, <2>4, <2>5
<1>4. ViewTypes'
  BY <1>1, <1>3 DEF QueueIInv, ViewTypes
<1>5. Phases' /\ AddedOnce' /\ OnlyReleased'
  BY <1>1 DEF QueueIInv, Phases, AddedOnce, OnlyReleased
<1>6. NeverStalled'
  BY <1>1 DEF QueueIInv, NeverStalled, Full
<1> QED BY <1>2, <1>4, <1>5, <1>6 DEF QueueIInv

(* add_to_queue: whether it is paused or not, the job is released.         *)
LEMMA AddToQueueKeeps ==
  ASSUME QueueIInv, NEW j \in Jobs, NEW w \in Warnings, AddToQueue(j, w)
  PROVE  /\ QueueIInv'
         /\ ToSet(ready') \subseteq ToSet(ready) \/ queue'.running <= maxParallel'
<1>1. /\ phase = "up" /\ ready = <<>> /\ launching = None /\ j \notin added
      /\ rows' = Append(rows, j)
      /\ item' = [item EXCEPT ![j] = "waiting"]
      /\ ack' = [ack EXCEPT ![j] = w]
      /\ Persist(rows', item')
      /\ Pump(Enqueue(queue, j), <<>>, paused)
      /\ added' = added \cup {j} /\ released' = released \cup {j}
  BY DEF AddToQueue, Idle
<1>2. UNCHANGED <<runs, maxParallel, worldVars, phase, restoring, paused, launching, cancelling, unrecorded>>
  BY DEF AddToQueue
<1>3. Ledger(queue, <<>>, rows, item) /\ paused \in BOOLEAN /\ maxParallel \in Nat \ {0}
  BY <1>1 DEF QueueIInv, ViewTypes
<1>4. item[j] = "absent"
  BY <1>1 DEF QueueIInv, AddedOnce
<1>5. Ledger(Enqueue(queue, j), <<>>, rows', item')
  BY <1>1, <1>3, <1>4, EnqueueKeepsLedger
<1>6. /\ Ledger(queue', ready', rows', item')
      /\ ~paused => Full(queue')
      /\ ready' = <<>> \/ queue'.running <= maxParallel
      /\ paused => ready' = <<>>
  <2> DEFINE q == Enqueue(queue, j)
  <2>1. Ledger(q, <<>>, rows', item') /\ Pump(q, <<>>, paused)
    BY <1>1, <1>5
  <2> HIDE DEF q
  <2>2. /\ Ledger(queue', ready', rows', item')
        /\ ~paused => Full(queue')
        /\ ready' = <<>> \/ queue'.running <= maxParallel
        /\ paused => ready' = <<>>
    BY <1>3, <2>1, PumpKeepsLedger
  <2> QED BY <2>2 DEF q
<1>7. saved' \subseteq Rows /\ OneRowEach(saved') /\ Specs(saved') \subseteq Specs(saved) \cup Waiting(item')
  BY <1>1, <1>5, PersistEffect DEF QueueIInv
<1>8. \A k \in Jobs : item'[k] = IF k = j THEN "waiting" ELSE item[k]
  BY <1>1, <1>3 DEF Ledger, ItemTypes
<1>9. ViewTypes'
  <2>1. ack' \in [Jobs -> Verdicts]
    BY <1>1 DEF QueueIInv, ViewTypes, Verdicts, Warnings
  <2> QED BY <1>1, <1>2, <1>7, <2>1 DEF QueueIInv, ViewTypes, worldVars
<1>10. Phases'
  BY <1>1, <1>2 DEF QueueIInv, Phases
<1>11. AddedOnce'
  BY <1>1, <1>2, <1>7, <1>8 DEF QueueIInv, AddedOnce, Phases, Waiting, Specs
<1>12. OnlyReleased'
  <2>1. ~paused => Waiting(item') \subseteq released'
    BY <1>1, <1>8 DEF QueueIInv, OnlyReleased, Waiting
  <2>2. Elements(ready') \subseteq Waiting(item')
    BY <1>6 DEF Ledger, WaitersHeld
  <2>3. Elements(<<>>) = {}
    BY DEF Elements
  <2>4. Elements(ready') \subseteq released'
    BY <1>3, <1>6, <2>1, <2>2, <2>3
  <2> QED BY <1>1, <1>2, <2>1, <2>4 DEF OnlyReleased
<1>13. NeverStalled'
  BY <1>2, <1>6 DEF NeverStalled, Full
<1>14. ToSet(ready') \subseteq ToSet(ready) \/ queue'.running <= maxParallel'
  BY <1>1, <1>2, <1>6
<1> QED BY <1>6, <1>9, <1>10, <1>11, <1>12, <1>13, <1>14 DEF QueueIInv

(* The pause button.                                                       *)
LEMMA TogglePauseKeeps ==
  ASSUME QueueIInv, TogglePause
  PROVE  /\ QueueIInv'
         /\ ToSet(ready') \subseteq ToSet(ready) \/ queue'.running <= maxParallel'
<1>1. /\ phase = "up" /\ ready = <<>> /\ launching = None /\ paused' = ~paused
  BY DEF TogglePause, Idle
<1>2. UNCHANGED <<storeVars, worldVars, phase, restoring, rows, item, ack, launching, cancelling, unrecorded, added>>
  BY DEF TogglePause
<1>3. Ledger(queue, <<>>, rows, item) /\ paused \in BOOLEAN /\ maxParallel \in Nat \ {0}
      /\ queue.running \in Nat
  BY <1>1 DEF QueueIInv, ViewTypes, Ledger, QueueType
<1>4. /\ released' \subseteq Jobs
      /\ Ledger(queue', ready', rows', item')
      /\ paused => Full(queue') /\ Waiting(item) \subseteq released'
      /\ released \subseteq released'
      /\ ~paused => ready' = <<>>
      /\ ready' = <<>> \/ queue'.running <= maxParallel
  <2>0. released \subseteq Jobs
    BY DEF QueueIInv, ViewTypes
  <2>1. CASE paused
    <3>1. Pump(queue, <<>>, FALSE) /\ released' = released \cup {j \in Jobs : item[j] = "waiting"}
      BY <2>1 DEF TogglePause
    <3>2. /\ Ledger(queue', ready', rows, item) /\ Full(queue')
          /\ ready' = <<>> \/ queue'.running <= maxParallel
      BY <1>3, <3>1, PumpKeepsLedger
    <3>3. rows' = rows /\ item' = item
      BY <1>2
    <3> QED BY <2>0, <2>1, <3>1, <3>2, <3>3 DEF Waiting
  <2>2. CASE ~paused
    <3>1. queue' = queue /\ ready' = ready /\ released' = released
      BY <2>2 DEF TogglePause
    <3>2. Ledger(queue', ready', rows', item')
      BY <1>1, <1>2, <1>3, <3>1
    <3> QED BY <1>1, <1>3, <2>0, <2>2, <3>1, <3>2
  <2> QED BY <1>3, <2>1, <2>2
<1>5. ViewTypes'
  BY <1>1, <1>2, <1>4 DEF QueueIInv, ViewTypes, worldVars, storeVars
<1>6. Phases'
  BY <1>1, <1>2 DEF QueueIInv, Phases
<1>7. AddedOnce'
  BY <1>2 DEF QueueIInv, AddedOnce, storeVars
<1>8. OnlyReleased'
  <2>1. Elements(<<>>) = {}
    BY DEF Elements
  <2>2. Elements(ready') \subseteq Waiting(item')
    BY <1>4 DEF Ledger, WaitersHeld
  <2>3. item' = item /\ launching' = None
    BY <1>1, <1>2
  <2>4. CASE paused
    BY <1>4, <2>2, <2>3, <2>4 DEF OnlyReleased
  <2>5. CASE ~paused
    BY <1>1, <1>4, <2>1, <2>3, <2>5 DEF OnlyReleased
  <2> QED BY <1>3, <2>4, <2>5
<1>9. NeverStalled'
  <2>1. paused => Full(queue')
    BY <1>4
  <2>2. Full(queue)' <=> Full(queue')
    BY DEF Full
  <2> QED BY <1>1, <1>3, <2>1, <2>2 DEF NeverStalled
<1>10. ToSet(ready') \subseteq ToSet(ready) \/ queue'.running <= maxParallel'
  BY <1>1, <1>2, <1>4 DEF storeVars
<1> QED BY <1>4, <1>5, <1>6, <1>7, <1>8, <1>9, <1>10 DEF QueueIInv

(* launch(): the first ready job is marked.                                *)
LEMMA BeginLaunchKeeps ==
  ASSUME QueueIInv, BeginLaunch
  PROVE  QueueIInv'
<1>1. /\ phase = "up" /\ launching = None /\ ready # <<>>
      /\ launching' = Head(ready) /\ ready' = Tail(ready)
      /\ item' = [item EXCEPT ![Head(ready)] = "launched"]
      /\ Persist(rows, item')
  BY DEF BeginLaunch
<1>2. UNCHANGED <<runs, maxParallel, worldVars, phase, restoring, rows, ack, queue, paused,
                  cancelling, unrecorded, added, released>>
  BY DEF BeginLaunch
<1>3. Ledger(queue, ready, rows, item)
  BY DEF QueueIInv
<1> DEFINE j == Head(ready)
<1>4. /\ j \in Jobs /\ item[j] = "waiting"
      /\ Ledger(queue, Tail(ready), rows, [item EXCEPT ![j] = "launched"])
      /\ Elements(Tail(ready)) \cup {j} = Elements(ready)
  BY <1>1, <1>3, BeginKeepsLedger
<1>5. item' = [item EXCEPT ![j] = "launched"] /\ launching' = j
  BY <1>1
<1> HIDE DEF j
<1>6. Ledger(queue', ready', rows', item')
  BY <1>1, <1>2, <1>4, <1>5
<1>7. saved' \subseteq Rows /\ OneRowEach(saved') /\ Specs(saved') \subseteq Specs(saved) \cup Waiting(item')
  <2>1. Ledger(queue, Tail(ready), rows, item')
    BY <1>4, <1>5
  <2> QED BY <1>1, <2>1, PersistEffect DEF QueueIInv
<1>8. \A k \in Jobs : item'[k] = IF k = j THEN "launched" ELSE item[k]
  BY <1>3, <1>5 DEF Ledger, ItemTypes
<1>9. ViewTypes'
  BY <1>2, <1>4, <1>5, <1>7, <1>8 DEF QueueIInv, ViewTypes, worldVars
<1>10. Phases'
  BY <1>1, <1>2 DEF QueueIInv, Phases
<1>11. AddedOnce'
  BY <1>1, <1>2, <1>4, <1>7, <1>8 DEF QueueIInv, AddedOnce, Phases, Waiting, Specs
<1>12. OnlyReleased'
  <2>1. Waiting(item') \subseteq Waiting(item)
    BY <1>8 DEF Waiting
  <2>2. Elements(ready') \subseteq released /\ j \in released
    BY <1>1, <1>4 DEF QueueIInv, OnlyReleased
  <2> QED BY <1>2, <1>5, <2>1, <2>2 DEF QueueIInv, OnlyReleased
<1>13. NeverStalled'
  BY <1>2 DEF QueueIInv, NeverStalled, Full
<1> QED BY <1>6, <1>9, <1>10, <1>11, <1>12, <1>13 DEF QueueIInv

(* A slot is given back, and the queue pumped, for a job that is done.     *)
LEMMA DonePumps ==
  ASSUME QueueIInv, phase = "up", NEW j \in Jobs, item[j] = "launched",
         launching = None \/ launching = j,
         item' = [item EXCEPT ![j] = "done"],
         launching' = None,
         runs' \in [Jobs -> {"none", "running", "completed", "failed"}],
         Pump(Complete(queue), ready, paused),
         UNCHANGED <<saved, maxParallel, worldVars, phase, restoring, rows, ack, paused,
                     unrecorded, added, released>>
  PROVE  /\ QueueIInv'
         /\ ToSet(ready') \subseteq ToSet(ready) \/ queue'.running <= maxParallel'
<1>1. Ledger(queue, ready, rows, item) /\ paused \in BOOLEAN /\ maxParallel \in Nat \ {0}
      /\ queue.running \in Nat
  BY DEF QueueIInv, ViewTypes, Ledger, QueueType
<1>2. Ledger(Complete(queue), ready, rows, item')
  BY <1>1, CompleteKeepsLedger
<1>3. /\ Ledger(queue', ready', rows, item')
      /\ ~paused => Full(queue')
      /\ ready' = ready \/ queue'.running <= maxParallel
      /\ paused => ready' = ready
  <2> DEFINE q == Complete(queue)
  <2>1. Ledger(q, ready, rows, item') /\ Pump(q, ready, paused)
    BY <1>2
  <2> HIDE DEF q
  <2>2. /\ Ledger(queue', ready', rows, item')
        /\ ~paused => Full(queue')
        /\ ready' = ready \/ queue'.running <= maxParallel
        /\ paused => ready' = ready
    BY <1>1, <2>1, PumpKeepsLedger
  <2> QED BY <2>2 DEF q
<1>4. Ledger(queue', ready', rows', item')
  BY <1>3
<1>5. \A k \in Jobs : item'[k] = IF k = j THEN "done" ELSE item[k]
  BY <1>1 DEF Ledger, ItemTypes
<1>6. ViewTypes'
  BY DEF QueueIInv, ViewTypes, worldVars
<1>7. Phases'
  BY DEF QueueIInv, Phases
<1>8. AddedOnce'
  BY <1>5 DEF QueueIInv, AddedOnce, Phases, Specs
<1>9. OnlyReleased'
  <2>1. Waiting(item') = Waiting(item)
    BY <1>5 DEF Waiting
  <2>2. Elements(ready') \subseteq Waiting(item')
    BY <1>4 DEF Ledger, WaitersHeld
  <2> QED BY <1>1, <1>3, <2>1, <2>2 DEF QueueIInv, OnlyReleased
<1>10. NeverStalled'
  BY <1>3 DEF NeverStalled, Full
<1>11. ToSet(ready') \subseteq ToSet(ready) \/ queue'.running <= maxParallel'
  BY <1>3
<1> QED BY <1>4, <1>6, <1>7, <1>8, <1>9, <1>10, <1>11 DEF QueueIInv

(* launch() refuses a job.                                                 *)
LEMMA RefuseLaunchKeeps ==
  ASSUME QueueIInv, RefuseLaunch
  PROVE  /\ QueueIInv'
         /\ ToSet(ready') \subseteq ToSet(ready) \/ queue'.running <= maxParallel'
<1>1. launching # None /\ phase = "up" /\ launching \in Jobs /\ item[launching] = "launched"
  BY DEF RefuseLaunch, QueueIInv, Phases, ViewTypes
<1>2. /\ item' = [item EXCEPT ![launching] = "done"] /\ launching' = None
      /\ Pump(Complete(queue), ready, paused)
  BY DEF RefuseLaunch
<1>3. UNCHANGED <<saved, maxParallel, worldVars, phase, restoring, rows, ack, paused,
                  unrecorded, added, released>>
  BY DEF RefuseLaunch, storeVars
<1>4. runs' \in [Jobs -> {"none", "running", "completed", "failed"}]
  BY DEF RefuseLaunch, storeVars, QueueIInv, ViewTypes
<1> QED BY <1>1, <1>2, <1>3, <1>4, DonePumps

(* The consumer task learns that the child is gone.                        *)
LEMMA RunEndsKeeps ==
  ASSUME QueueIInv, NEW j \in Jobs, RunEnds(j)
  PROVE  /\ QueueIInv'
         /\ ToSet(ready') \subseteq ToSet(ready) \/ queue'.running <= maxParallel'
<1>1. launching = None /\ phase = "up" /\ item[j] = "launched" /\ ready = <<>>
  BY DEF RunEnds, Idle
<1>2. /\ item' = [item EXCEPT ![j] = "done"] /\ launching' = None
      /\ Pump(Complete(queue), ready, paused)
  BY <1>1 DEF RunEnds
<1>3. UNCHANGED <<saved, maxParallel, worldVars, phase, restoring, rows, ack, paused,
                  unrecorded, added, released>>
  BY DEF RunEnds
<1>4. runs' \in [Jobs -> {"none", "running", "completed", "failed"}]
  <2>1. runs \in [Jobs -> {"none", "running", "completed", "failed"}]
    BY DEF QueueIInv, ViewTypes
  <2> QED BY <2>1 DEF RunEnds
<1> QED BY <1>1, <1>2, <1>3, <1>4, DonePumps

(* launch() starts a run.                                                  *)
LEMMA StartRunKeeps ==
  ASSUME QueueIInv, StartRun
  PROVE  /\ QueueIInv'
         /\ phase = "up" /\ launching \in Jobs /\ item[launching] = "launched"
         /\ launching \in released /\ verdict[launching] = ack[launching]
         /\ \A j \in Jobs : j # launching => proc'[j] = proc[j]
<1>1. launching # None /\ phase = "up" /\ launching \in Jobs /\ item[launching] = "launched"
      /\ launching \in released
  BY DEF StartRun, QueueIInv, Phases, ViewTypes, OnlyReleased
<1>2. /\ launching' = None /\ proc' = [proc EXCEPT ![launching] = "live"]
      /\ verdict[launching] = ack[launching]
      /\ UNCHANGED <<saved, maxParallel, verdict, stops, phase, restoring, rows, item, ack, queue,
                     paused, ready, cancelling, added, released>>
  BY DEF StartRun, Launchable
<1>3. /\ runs \in [Jobs -> {"none", "running", "completed", "failed"}]
      /\ proc \in [Jobs -> {"none", "live", "exited0", "exited1"}] /\ unrecorded \subseteq Jobs
  BY DEF QueueIInv, ViewTypes
<1>4. /\ runs' \in [Jobs -> {"none", "running", "completed", "failed"}]
      /\ proc' \in [Jobs -> {"none", "live", "exited0", "exited1"}] /\ unrecorded' \subseteq Jobs
  BY <1>1, <1>2, <1>3 DEF StartRun
<1>5. Ledger(queue', ready', rows', item')
  BY <1>2 DEF QueueIInv
<1>6. ViewTypes'
  BY <1>2, <1>4 DEF QueueIInv, ViewTypes
<1>7. Phases' /\ AddedOnce' /\ OnlyReleased' /\ NeverStalled'
  <2>1. Full(queue') <=> Full(queue)
    BY <1>2 DEF Full
  <2> QED BY <1>1, <1>2, <2>1 DEF QueueIInv, Phases, AddedOnce, OnlyReleased, NeverStalled, Full
<1> QED BY <1>1, <1>2, <1>3, <1>5, <1>6, <1>7 DEF QueueIInv

(* The memory of an application that has just started, or is gone.         *)
LEMMA EmptyViewKeeps ==
  ASSUME QueueIInv, EmptyView,
         restoring' = {} \/ (restoring' = saved /\ phase' # "down"),
         phase' \in {"down", "restoring", "up"}, phase' = "up" => restoring' = {},
         paused' = (restoring' # {}), phase' = "restoring" => restoring' # {},
         runs' \in [Jobs -> {"none", "running", "completed", "failed"}],
         UNCHANGED <<saved, maxParallel, verdict, proc, added>>
  PROVE  QueueIInv'
<1>1. /\ rows' = <<>> /\ ready' = <<>> /\ launching' = None /\ queue' = NewQueue(maxParallel)
      /\ item' = [j \in Jobs |-> "absent"] /\ ack' = [j \in Jobs |-> "clean"]
      /\ unrecorded' = {} /\ released' = {}
  BY DEF EmptyView
<1>2. maxParallel \in Nat \ {0}
  BY DEF QueueIInv, ViewTypes
<1>3. Ledger(queue', ready', rows', item')
  BY <1>1, <1>2, EmptyLedger
<1>4. \A j \in Jobs : item'[j] = "absent"
  BY <1>1
<1>5. ViewTypes'
  <2>1. ack' \in [Jobs -> Verdicts]
    BY <1>1 DEF Verdicts
  <2>2. restoring' \subseteq Rows /\ OneRowEach(restoring')
    BY DEF QueueIInv, ViewTypes, OneRowEach
  <2> QED BY <1>1, <2>1, <2>2 DEF QueueIInv, ViewTypes
<1>6. Phases'
  BY <1>1, <1>4 DEF QueueIInv, Phases
<1>7. AddedOnce'
  <2>1. Specs(saved) \subseteq added
    BY DEF QueueIInv, AddedOnce
  <2>2. Specs(saved') \subseteq added' /\ Specs(restoring') \subseteq added'
    BY <2>1 DEF Specs
  <2>3. Specs(restoring') \subseteq Jobs
    BY <1>5 DEF ViewTypes, Specs, Rows
  <2> QED BY <1>4, <2>2, <2>3 DEF AddedOnce
<1>8. OnlyReleased'
  <2>1. Waiting(item') = {} /\ Elements(ready') = {}
    BY <1>1, <1>4 DEF Waiting, Elements
  <2> QED BY <1>1, <2>1 DEF OnlyReleased
<1>9. NeverStalled'
  BY <1>1 DEF NeverStalled, Full, NewQueue
<1> QED BY <1>3, <1>5, <1>6, <1>7, <1>8, <1>9 DEF QueueIInv

(* The application stops.                                                  *)
LEMMA StopKeeps ==
  ASSUME QueueIInv, Stop
  PROVE  QueueIInv'
<1>1. /\ EmptyView /\ restoring' = {} /\ phase' = "down" /\ paused' = FALSE
      /\ UNCHANGED <<saved, runs, maxParallel, verdict, proc, added>>
  BY DEF Stop, storeVars
<1>2. runs' \in [Jobs -> {"none", "running", "completed", "failed"}]
  BY <1>1 DEF QueueIInv, ViewTypes
<1>3. paused' = (restoring' # {})
  BY <1>1
<1> QED BY <1>1, <1>2, <1>3, EmptyViewKeeps

(* It starts again.                                                        *)
LEMMA BootKeeps ==
  ASSUME QueueIInv, Boot
  PROVE  QueueIInv'
<1>1. /\ EmptyView
      /\ restoring' = saved \/ restoring' = {}
      /\ paused' = (restoring' # {})
      /\ phase' = IF restoring' = {} THEN "up" ELSE "restoring"
      /\ UNCHANGED <<saved, maxParallel, worldVars, added>>
  BY DEF Boot
<1>2. runs' \in [Jobs -> {"none", "running", "completed", "failed"}]
  <2>1. runs \in [Jobs -> {"none", "running", "completed", "failed"}]
    BY DEF QueueIInv, ViewTypes
  <2> QED BY <2>1 DEF Boot
<1>3. UNCHANGED <<saved, maxParallel, verdict, proc, added>>
  BY <1>1 DEF worldVars
<1>4. /\ restoring' = {} \/ (restoring' = saved /\ phase' # "down")
      /\ phase' \in {"down", "restoring", "up"}
      /\ phase' = "up" => restoring' = {}
      /\ phase' = "restoring" => restoring' # {}
  BY <1>1
<1> QED BY <1>1, <1>2, <1>3, <1>4, EmptyViewKeeps

(* A saved job is enqueued again; the queue is paused.                     *)
LEMMA RestoreOneKeeps ==
  ASSUME QueueIInv, RestoreOne
  PROVE  QueueIInv' /\ ready' = ready
<1>1. PICK r \in restoring :
        /\ rows' = Append(rows, r.spec)
        /\ item' = [item EXCEPT ![r.spec] = "waiting"]
        /\ ack' = [ack EXCEPT ![r.spec] = "clean"]
        /\ Persist(rows', item')
        /\ Pump(Enqueue(queue, r.spec), <<>>, paused)
        /\ restoring' = restoring \ {r}
        /\ phase' = IF restoring = {r} THEN "up" ELSE "restoring"
  BY DEF RestoreOne
<1>2. UNCHANGED <<runs, maxParallel, worldVars, paused, launching, cancelling, unrecorded, added, released>>
  BY DEF RestoreOne
<1>3. phase = "restoring" /\ ready = <<>> /\ launching = None /\ paused
      /\ restoring \subseteq Rows /\ OneRowEach(restoring)
  BY DEF RestoreOne, QueueIInv, Phases, ViewTypes
<1>4. Ledger(queue, <<>>, rows, item)
  BY <1>3 DEF QueueIInv
<1> DEFINE j == r.spec
<1>5. j \in Jobs /\ j \in Specs(restoring) /\ j \in added
  BY <1>3 DEF Rows, Specs, QueueIInv, AddedOnce
<1>6. item[j] = "absent"
  BY <1>5 DEF QueueIInv, AddedOnce
<1>7. queue' = Enqueue(queue, j) /\ ready' = <<>>
  BY <1>1, <1>3 DEF Pump
<1>8. /\ rows' = Append(rows, j) /\ item' = [item EXCEPT ![j] = "waiting"]
      /\ ack' = [ack EXCEPT ![j] = "clean"]
  BY <1>1
<1>9. /\ j \notin Specs(restoring') /\ Specs(restoring') \subseteq Specs(restoring)
      /\ restoring' \subseteq Rows /\ OneRowEach(restoring')
      /\ phase' = "up" => restoring' = {}
  BY <1>1, <1>3 DEF Specs, OneRowEach
<1> HIDE DEF j
<1>10. Ledger(queue', ready', rows', item')
  BY <1>4, <1>5, <1>6, <1>7, <1>8, EnqueueKeepsLedger
<1>11. \A k \in Jobs : item'[k] = IF k = j THEN "waiting" ELSE item[k]
  BY <1>4, <1>8 DEF Ledger, ItemTypes
<1>12. saved' \subseteq Rows /\ OneRowEach(saved') /\ Specs(saved') \subseteq Specs(saved) \cup Waiting(item')
  BY <1>1, <1>10, PersistEffect DEF QueueIInv
<1>13. ViewTypes'
  <2>1. ack' \in [Jobs -> Verdicts]
    BY <1>5, <1>8 DEF QueueIInv, ViewTypes, Verdicts
  <2>2. phase' \in {"down", "restoring", "up"}
    BY <1>1
  <2> QED BY <1>2, <1>3, <1>9, <1>12, <2>1, <2>2 DEF QueueIInv, ViewTypes, worldVars
<1>14. Phases'
  BY <1>1, <1>2, <1>3, <1>7, <1>9, <1>11 DEF QueueIInv, Phases
<1>15. AddedOnce'
  <2>1. \A k \in Jobs : item'[k] # "absent" => k \in added
    BY <1>5, <1>11 DEF QueueIInv, AddedOnce
  <2>2. Specs(saved') \subseteq added
    BY <1>12, <2>1 DEF QueueIInv, AddedOnce, Waiting
  <2>3. \A k \in Specs(restoring') : item'[k] = "absent"
    <3>1. Specs(restoring') \subseteq Jobs
      BY <1>9 DEF Specs, Rows
    <3> QED BY <1>9, <1>11, <3>1 DEF QueueIInv, AddedOnce
  <2> QED BY <1>2, <1>9, <2>1, <2>2, <2>3 DEF QueueIInv, AddedOnce, Specs
<1>16. OnlyReleased'
  <2>1. Elements(<<>>) = {}
    BY DEF Elements
  <2> QED BY <1>2, <1>3, <1>7, <2>1 DEF OnlyReleased
<1>17. NeverStalled'
  BY <1>2, <1>3 DEF NeverStalled
<1>18. ready' = ready
  BY <1>3, <1>7
<1> QED BY <1>10, <1>13, <1>14, <1>15, <1>16, <1>17, <1>18 DEF QueueIInv

(* The first state.                                                        *)
LEMMA QueueInit ==
  ASSUME Init
  PROVE  QueueIInv
<1>1. /\ saved = {} /\ restoring = {} /\ phase = "up" /\ rows = <<>> /\ ready = <<>> /\ launching = None
      /\ item = [j \in Jobs |-> "absent"] /\ ack = [j \in Jobs |-> "clean"]
      /\ queue = NewQueue(maxParallel) /\ paused = FALSE /\ added = {} /\ released = {} /\ unrecorded = {}
      /\ runs = [j \in Jobs |-> "none"] /\ proc = [j \in Jobs |-> "none"]
      /\ verdict \in [Jobs -> Verdicts] /\ \A j \in Jobs \ Volatile : verdict[j] = "clean"
  BY DEF Init
<1>2. maxParallel \in Nat \ {0}
  BY QueueViewAssumption DEF Init
<1>3. Ledger(queue, ready, rows, item)
  BY <1>1, <1>2, EmptyLedger
<1>4. Specs(saved) = {} /\ Specs(restoring) = {} /\ Elements(ready) = {}
  BY <1>1 DEF Specs, Elements
<1>5. ViewTypes
  BY <1>1, <1>2 DEF ViewTypes, OneRowEach, Verdicts
<1>6. Phases
  BY <1>1 DEF Phases
<1>7. AddedOnce
  BY <1>1, <1>4 DEF AddedOnce
<1>8. OnlyReleased
  <2>1. Waiting(item) = {}
    BY <1>1 DEF Waiting
  <2> QED BY <1>1, <1>4, <2>1 DEF OnlyReleased
<1>9. NeverStalled
  BY <1>1 DEF NeverStalled, Full, NewQueue
<1> QED BY <1>3, <1>5, <1>6, <1>7, <1>8, <1>9 DEF QueueIInv

(* Of every step: it keeps the invariant, and no job starts beyond the cap *)
(* that the settings hold.                                                 *)
LEMMA QueueStep ==
  ASSUME QueueIInv, [Next]_vars
  PROVE  /\ QueueIInv'
         /\ ToSet(ready') \subseteq ToSet(ready) \/ queue'.running <= maxParallel'
<1> DEFINE Capped == ToSet(ready') \subseteq ToSet(ready) \/ queue'.running <= maxParallel'
<1> SUFFICES QueueIInv' /\ Capped
  OBVIOUS
<1>1. ready' = ready => Capped
  OBVIOUS
<1>2. ASSUME NEW j \in Jobs, NEW w \in Warnings, AddToQueue(j, w) PROVE QueueIInv' /\ Capped
  BY <1>2, AddToQueueKeeps
<1>3. CASE TogglePause
  BY <1>3, TogglePauseKeeps
<1>4. ASSUME NEW j \in Jobs, RemoveItem(j) PROVE QueueIInv' /\ Capped
  <2>1. ready' = ready
    BY <1>4 DEF RemoveItem
  <2> QED BY <1>1, <1>4, <2>1, RemoveItemKeeps
<1>5. ASSUME NEW j \in Jobs, MoveItemUp(j) PROVE QueueIInv' /\ Capped
  <2>1. ready' = ready
    BY <1>5 DEF MoveItemUp
  <2> QED BY <1>1, <1>5, <2>1, MoveItemUpKeeps
<1>6. ASSUME NEW j \in Jobs, MoveItemDown(j) PROVE QueueIInv' /\ Capped
  <2>1. ready' = ready
    BY <1>6 DEF MoveItemDown
  <2> QED BY <1>1, <1>6, <2>1, MoveItemDownKeeps
<1>7. ASSUME NEW j \in Jobs, CancelItem(j) \/ ChildExits(j) \/ PathsChange(j)
      PROVE  QueueIInv' /\ Capped
  <2>1. ready' = ready
    BY <1>7 DEF CancelItem, ChildExits, PathsChange, viewVars
  <2> QED BY <1>1, <1>7, <2>1, OutsideKeeps
<1>8. CASE ClearFinished
  <2>1. ready' = ready
    BY <1>8 DEF ClearFinished
  <2> QED BY <1>1, <1>8, <2>1, ClearFinishedKeeps
<1>9. ASSUME NEW n \in 1 .. MaxParallelJobs, ChangeParallel(n) PROVE QueueIInv' /\ Capped
  <2>1. queue' = queue /\ UNCHANGED <<saved, runs, worldVars, phase, restoring, viewVars, added, released>>
    BY <1>9 DEF ChangeParallel, viewVars
  <2>2. n \in Nat \ {0} /\ maxParallel' = n
    BY <1>9, QueueViewAssumption DEF ChangeParallel
  <2>3. QueueIInv'
    <3>1. Ledger(queue', ready', rows', item')
      BY <2>1 DEF QueueIInv, viewVars
    <3>2. ViewTypes'
      BY <2>1, <2>2 DEF QueueIInv, ViewTypes, viewVars, worldVars
    <3>3. Phases' /\ AddedOnce' /\ OnlyReleased'
      BY <2>1 DEF QueueIInv, Phases, AddedOnce, OnlyReleased, viewVars
    <3>4. NeverStalled'
      BY <2>1 DEF QueueIInv, NeverStalled, Full, viewVars
    <3> QED BY <3>1, <3>2, <3>3, <3>4 DEF QueueIInv
  <2>4. ready' = ready
    BY <2>1 DEF viewVars
  <2> QED BY <1>1, <2>3, <2>4
<1>10. CASE LaunchNext
  <2>1. CASE BeginLaunch
    <3>1. ready # <<>> /\ ready' = Tail(ready) /\ ready \in Seq(Jobs)
      BY <2>1 DEF BeginLaunch, QueueIInv, Ledger, WaitersHeld
    <3>2. ToSet(ready') \subseteq ToSet(ready)
      BY <3>1 DEF ToSet
    <3> QED BY <2>1, <3>2, BeginLaunchKeeps
  <2>2. CASE RefuseLaunch
    BY <2>2, RefuseLaunchKeeps
  <2>3. CASE StartRun
    <3>1. ready' = ready
      BY <2>3 DEF StartRun
    <3> QED BY <1>1, <2>3, <3>1, StartRunKeeps
  <2> QED BY <1>10, <2>1, <2>2, <2>3 DEF LaunchNext
<1>11. ASSUME NEW j \in Jobs, RunEnds(j) PROVE QueueIInv' /\ Capped
  BY <1>11, RunEndsKeeps
<1>12. CASE Stop \/ Boot
  <2>1. ready' = <<>>
    BY <1>12 DEF Stop, Boot, EmptyView
  <2>2. Capped
    BY <2>1 DEF ToSet
  <2> QED BY <1>12, <2>2, StopKeeps, BootKeeps
<1>13. CASE RestoreOne
  BY <1>1, <1>13, RestoreOneKeeps
<1>14. CASE UNCHANGED vars
  <2>1. Ledger(queue', ready', rows', item')
    BY <1>14 DEF QueueIInv, vars, viewVars
  <2>2. ViewTypes'
    BY <1>14 DEF QueueIInv, ViewTypes, vars, viewVars, worldVars, storeVars
  <2>3. Phases' /\ AddedOnce' /\ OnlyReleased'
    BY <1>14 DEF QueueIInv, Phases, AddedOnce, OnlyReleased, vars, viewVars, worldVars, storeVars
  <2>4. NeverStalled' /\ ready' = ready
    BY <1>14 DEF QueueIInv, NeverStalled, Full, vars, viewVars
  <2> QED BY <1>1, <2>1, <2>2, <2>3, <2>4 DEF QueueIInv
<1> HIDE DEF Capped
<1>15. CASE UserNext
  BY <1>2, <1>3, <1>4, <1>5, <1>6, <1>7, <1>8, <1>9, <1>15 DEF UserNext
<1>16. CASE WorldNext
  BY <1>7, <1>16 DEF WorldNext
<1> QED BY <1>10, <1>11, <1>12, <1>13, <1>14, <1>15, <1>16 DEF Next

-----------------------------------------------------------------------------
(* The copies of the queue hang together in every reachable state.         *)
THEOREM QueueHangsTogether == Spec => []QueueIInv
<1>1. Init => QueueIInv
  BY QueueInit
<1>2. QueueIInv /\ [Next]_vars => QueueIInv'
  BY QueueStep
<1> QED BY <1>1, <1>2, PTL DEF Spec

(* No error path of launch(), and no end of a run, leaks a slot or frees   *)
(* one twice.                                                              *)
THEOREM NoSlotIsLost == Spec => []SlotsAccounted
<1>1. QueueIInv => SlotsAccounted
  BY DEF QueueIInv, Ledger, SlotsCount, Launched, SlotsAccounted
<1> QED BY <1>1, QueueHangsTogether, PTL

(* Between two callbacks no job waits behind a free slot: every callback   *)
(* that could free one, or add a job, ends by filling them.                *)
THEOREM QueueNeverStalls == Spec => []NoStall
<1>1. QueueIInv => NoStall
  BY DEF QueueIInv, NeverStalled, Full, NoStall, Idle
<1> QED BY <1>1, QueueHangsTogether, PTL

(* No callback hands out a job beyond the cap of that moment, not even in  *)
(* the place of one it completed, however its pumps nest.                  *)
THEOREM NoStartBeyondTheCap == Spec => StartsUnderCap
<1>1. QueueIInv /\ [Next]_vars =>
        [ToSet(ready') \subseteq ToSet(ready) \/ queue'.running <= maxParallel']_vars
  BY QueueStep
<1> QED BY <1>1, QueueHangsTogether, PTL DEF Spec, StartsUnderCap

(* A child is started only for a job that the user let run in this session *)
(* and whose path warnings are those the user accepted.                    *)
THEOREM NothingStartsUnattended == Spec => NothingUnattended
<1> DEFINE Attended ==
      \A j \in Jobs : (proc[j] # "live" /\ proc'[j] = "live") => j \in released /\ verdict[j] = ack[j]
<1>1. QueueIInv /\ [Next]_vars => [Attended]_vars
  <2> SUFFICES ASSUME QueueIInv, Next PROVE Attended
    OBVIOUS
  <2>1. proc' = proc => Attended
    OBVIOUS
  <2>2. CASE UserNext
    <3>1. proc' = proc
      BY <2>2 DEF UserNext, AddToQueue, TogglePause, RemoveItem, MoveItemUp, MoveItemDown,
                  CancelItem, ClearFinished, ChangeParallel, worldVars
    <3> QED BY <2>1, <3>1
  <2>3. CASE BeginLaunch \/ RefuseLaunch
    <3>1. proc' = proc
      BY <2>3 DEF BeginLaunch, RefuseLaunch, worldVars
    <3> QED BY <2>1, <3>1
  <2>4. CASE StartRun
    BY <2>4, StartRunKeeps
  <2>5. CASE (\E j \in Jobs : RunEnds(j)) \/ Stop \/ Boot \/ RestoreOne
    <3>1. proc' = proc
      BY <2>5 DEF RunEnds, Stop, Boot, RestoreOne, worldVars
    <3> QED BY <2>1, <3>1
  <2>6. ASSUME NEW j \in Jobs, ChildExits(j) PROVE Attended
    <3>1. PICK p \in {"exited0", "exited1"} : proc' = [proc EXCEPT ![j] = p]
      BY <2>6 DEF ChildExits
    <3>2. proc \in [Jobs -> {"none", "live", "exited0", "exited1"}]
      BY DEF QueueIInv, ViewTypes
    <3>3. \A k \in Jobs : proc'[k] = proc[k] \/ proc'[k] # "live"
      BY <3>1, <3>2
    <3> QED BY <3>3
  <2>7. ASSUME NEW j \in Jobs, PathsChange(j) PROVE Attended
    BY <2>1, <2>7 DEF PathsChange
  <2> QED BY <2>2, <2>3, <2>4, <2>5, <2>6, <2>7 DEF Next, LaunchNext, WorldNext
<1> QED BY <1>1, QueueHangsTogether, PTL DEF Spec, NothingUnattended

-----------------------------------------------------------------------------
(* Order.                                                                  *)

(* What Kept keeps.                                                        *)
LEMMA KeptIs ==
  ASSUME NEW s \in Seq(Jobs), NEW T
  PROVE  Elements(Kept(s, T)) = Elements(s) \cap T
<1> DEFINE t == Kept(s, T)
<1>1. \A x : (\E k \in 1 .. Len(t) : t[k] = x) <=> x \in T /\ \E i \in 1 .. Len(s) : s[i] = x
  BY KeptElements
<1> HIDE DEF t
<1>2. Elements(t) = Elements(s) \cap T
  BY <1>1 DEF Elements
<1> QED BY <1>2 DEF t

(* The rows of the waiting jobs are those of the ready jobs, then those of *)
(* the pending ones in the queue's order.                                  *)
LEMMA LedgerOrdersRows ==
  ASSUME Ledger(queue, ready, rows, item)
  PROVE  RowsFollowQueue
<1> DEFINE W == {j \in Jobs : item[j] = "waiting"}
           N == {j \in Jobs : \A i \in 1 .. Len(ready) : ready[i] # j}
           waiting == Kept(rows, W)
           p == queue.pending
<1>1. /\ rows \in Seq(Jobs) /\ Distinct(rows) /\ IsTail(p, rows) /\ p \in Seq(Jobs)
      /\ ready \in Seq(Jobs) /\ Distinct(ready) /\ Elements(ready) \cap Elements(p) = {}
      /\ W = Elements(ready) \cup Elements(p)
      /\ \A j \in Jobs : item[j] # "absent" <=> j \in Elements(rows)
  BY DEF Ledger, RowsHold, WaitersHeld, QueueType, Waiting
<1>2. W \subseteq Elements(rows) /\ W \subseteq Jobs
  BY <1>1
<1>3. \A j \in Jobs : j \in N <=> j \notin Elements(ready)
  BY DEF Elements
<1> HIDE DEF W, N, p
<1>4. waiting \in Seq(Jobs)
  <2>1. waiting \in Seq(Jobs \cap W)
    BY <1>1, KeptType
  <2> QED BY <2>1
<1>5. Distinct(waiting)
  BY <1>1, KeptDistinct
<1>6. Elements(waiting) = W
  <2>1. Elements(waiting) = Elements(rows) \cap W
    BY <1>1, KeptIs
  <2> QED BY <1>2, <2>1
<1>7. IsTail(p, waiting)
  <2>1. \A i \in 1 .. Len(p) : p[i] \in W
    BY <1>1 DEF Elements
  <2> QED BY <1>1, <2>1, KeptTail
<1> HIDE DEF waiting
<1>8. Distinct(p)
  BY <1>1, TailDistinct
<1>9. Kept(waiting, N) = p
  <2>1. \A i \in 1 .. Len(p) : p[i] \in N
    <3> TAKE i \in 1 .. Len(p)
    <3>1. p[i] \in Elements(p)
      BY DEF Elements
    <3> QED BY <1>1, <1>2, <1>3, <3>1
  <2>2. ASSUME NEW i \in 1 .. Len(waiting) - Len(p) PROVE waiting[i] \notin N
    <3>1. i \in 1 .. Len(waiting) /\ waiting[i] \in W /\ waiting[i] \in Jobs
      <4>1. i \in 1 .. Len(waiting)
        BY <1>1, <1>4
      <4>2. waiting[i] \in Elements(waiting)
        BY <4>1 DEF Elements
      <4> QED BY <1>2, <1>6, <4>1, <4>2
    <3>2. waiting[i] \notin Elements(p)
      <4> SUFFICES ASSUME NEW k \in 1 .. Len(p), waiting[i] = p[k] PROVE FALSE
        BY DEF Elements
      <4> DEFINE m == Len(waiting) - Len(p) + k
      <4>1. m \in 1 .. Len(waiting) /\ m # i
        BY <1>1, <1>4, <1>7 DEF IsTail
      <4>2. p[k] = waiting[m]
        BY <1>7 DEF IsTail
      <4> HIDE DEF m
      <4> QED BY <1>5, <3>1, <4>1, <4>2 DEF Distinct
    <3> QED BY <1>1, <1>3, <3>1, <3>2
  <2> QED BY <1>1, <1>4, <1>7, <2>1, <2>2, KeptIsTail
<1>10. Len(waiting) = Len(ready) + Len(p)
  <2>2. Cardinality(Elements(ready) \cap Elements(p)) = 0
    BY <1>1, FS_EmptySet
  <2>3. IsFiniteSet(Elements(ready)) /\ Cardinality(Elements(ready)) = Len(ready) /\ Len(ready) \in Nat
    BY <1>1, DistinctCount
  <2>4. IsFiniteSet(Elements(p)) /\ Cardinality(Elements(p)) = Len(p) /\ Len(p) \in Nat
    BY <1>1, <1>8, DistinctCount
  <2>5. Cardinality(Elements(waiting)) = Len(waiting)
    BY <1>4, <1>5, DistinctCount
  <2>6. Cardinality(Elements(ready) \cup Elements(p))
          = Cardinality(Elements(ready)) + Cardinality(Elements(p))
            - Cardinality(Elements(ready) \cap Elements(p))
    BY <2>3, <2>4, FS_Union
  <2>7. Cardinality(Elements(ready) \cup Elements(p)) = Len(ready) + Len(p)
    BY <2>2, <2>3, <2>4, <2>6
  <2> QED BY <1>1, <1>6, <2>5, <2>7
<1>11. Kept(waiting, N) = p /\ Len(waiting) = Len(ready) + Len(Kept(waiting, N))
  BY <1>9, <1>10
<1> QED BY <1>11 DEF RowsFollowQueue, waiting, N, W, p

(* Where the rows are.                                                     *)
LEMMA RowIndexRange ==
  ASSUME NEW rws \in Seq(Jobs), Distinct(rws), NEW j, j \in Elements(rws)
  PROVE  RowIndex(rws, j) \in 1 .. Len(rws) /\ rws[RowIndex(rws, j)] = j
BY DEF RowIndex, Elements

(* The positions written are in the order of the rows.                     *)
LEMMA PositionsInOrder ==
  ASSUME NEW q, NEW rdy, NEW rws, NEW it, Ledger(q, rdy, rws, it),
         NEW r \in QueueItems(rws, it), NEW o \in QueueItems(rws, it)
  PROVE  r.position < o.position <=> RowIndex(rws, r.spec) < RowIndex(rws, o.spec)
<1> DEFINE before(j) == {k \in Persistable(it) : RowIndex(rws, k) < RowIndex(rws, j)}
<1>1. /\ r.spec \in Persistable(it) /\ r.position = Cardinality(before(r.spec))
      /\ o.spec \in Persistable(it) /\ o.position = Cardinality(before(o.spec))
  <2>1. PICK j \in Persistable(it) :
          r = [spec |-> j, position |-> Cardinality({k \in Persistable(it) : RowIndex(rws, k) < RowIndex(rws, j)})]
    BY DEF QueueItems
  <2>2. PICK i \in Persistable(it) :
          o = [spec |-> i, position |-> Cardinality({k \in Persistable(it) : RowIndex(rws, k) < RowIndex(rws, i)})]
    BY DEF QueueItems
  <2> QED BY <2>1, <2>2
<1>2. IsFiniteSet(Persistable(it)) /\ Persistable(it) \subseteq Waiting(it)
  BY PersistedRows
<1>3. rws \in Seq(Jobs) /\ Distinct(rws) /\ Waiting(it) \subseteq Elements(rws)
  BY DEF Ledger, RowsHold, Waiting
<1>4. \A j \in Persistable(it) : RowIndex(rws, j) \in Nat
  BY <1>2, <1>3, RowIndexRange
<1>5. ASSUME NEW x \in Persistable(it), NEW y \in Persistable(it), RowIndex(rws, x) < RowIndex(rws, y)
      PROVE  Cardinality(before(x)) < Cardinality(before(y))
  <2>1. before(x) \subseteq before(y) /\ x \in before(y) /\ x \notin before(x)
    BY <1>4, <1>5
  <2>2. before(y) \subseteq Persistable(it)
    OBVIOUS
  <2> HIDE DEF before
  <2>3. IsFiniteSet(before(y))
    BY <1>2, <2>2, FS_Subset
  <2>4. IsFiniteSet(before(x)) /\ Cardinality(before(x)) <= Cardinality(before(y))
        /\ Cardinality(before(x)) # Cardinality(before(y))
    BY <2>1, <2>3, FS_Subset
  <2>5. Cardinality(before(x)) \in Nat /\ Cardinality(before(y)) \in Nat
    BY <2>3, <2>4, FS_CardinalityType
  <2> QED BY <2>4, <2>5
<1>6. ASSUME NEW x \in Persistable(it), NEW y \in Persistable(it), RowIndex(rws, x) = RowIndex(rws, y)
      PROVE  before(x) = before(y)
  BY <1>6
<1>7. \A x \in Persistable(it) : Cardinality(before(x)) \in Nat
  <2> TAKE x \in Persistable(it)
  <2>1. before(x) \subseteq Persistable(it)
    OBVIOUS
  <2> HIDE DEF before
  <2> QED BY <1>2, <2>1, FS_Subset, FS_CardinalityType
<1> HIDE DEF before
<1> DEFINE x == r.spec
           y == o.spec
<1>8. x \in Persistable(it) /\ y \in Persistable(it)
  BY <1>1
<1> HIDE DEF x, y
<1>9. Cardinality(before(x)) < Cardinality(before(y)) <=> RowIndex(rws, x) < RowIndex(rws, y)
  BY <1>4, <1>5, <1>6, <1>7, <1>8
<1> QED BY <1>1, <1>9 DEF x, y

(* Clearing rows keeps the order of those that stay.                       *)
LEMMA ClearedInOrder ==
  ASSUME NEW rws \in Seq(Jobs), Distinct(rws), NEW T,
         NEW x \in Elements(Kept(rws, T)), NEW y \in Elements(Kept(rws, T))
  PROVE  RowIndex(Kept(rws, T), x) < RowIndex(Kept(rws, T), y) <=> RowIndex(rws, x) < RowIndex(rws, y)
<1> DEFINE ww == Kept(rws, T)
<1>1. ww \in Seq(Jobs)
  <2>1. ww \in Seq(Jobs \cap T)
    BY KeptType
  <2> QED BY <2>1
<1>2. Distinct(ww) /\ x \in Elements(rws) /\ y \in Elements(rws)
  BY KeptDistinct, KeptIs
<1>3. \A a, b \in 1 .. Len(ww) : a < b => Precedes(rws, ww[a], ww[b])
  BY KeptOrder
<1> HIDE DEF ww
<1>4. ASSUME NEW u \in Elements(ww), NEW v \in Elements(ww), RowIndex(ww, u) < RowIndex(ww, v)
      PROVE  RowIndex(rws, u) < RowIndex(rws, v)
  <2>1. /\ RowIndex(ww, u) \in 1 .. Len(ww) /\ ww[RowIndex(ww, u)] = u
        /\ RowIndex(ww, v) \in 1 .. Len(ww) /\ ww[RowIndex(ww, v)] = v
    BY <1>1, <1>2, RowIndexRange
  <2>2. Precedes(rws, u, v)
    BY <1>3, <1>4, <2>1
  <2>3. PICK i \in 1 .. Len(rws), k \in 1 .. Len(rws) : i < k /\ rws[i] = u /\ rws[k] = v
    BY <2>2 DEF Precedes
  <2>4. RowIndex(rws, u) = i /\ RowIndex(rws, v) = k
    BY <2>3, RowIndexIs
  <2> QED BY <2>3, <2>4
<1>5. \A u \in {x, y} : RowIndex(ww, u) \in Nat /\ RowIndex(rws, u) \in Nat
  <2>1. x \in Elements(ww) /\ y \in Elements(ww)
    BY DEF ww
  <2> QED BY <1>1, <1>2, <2>1, RowIndexRange
<1>6. RowIndex(ww, x) = RowIndex(ww, y) => x = y
  <2>1. x \in Elements(ww) /\ y \in Elements(ww)
    BY DEF ww
  <2>2. ww[RowIndex(ww, x)] = x /\ ww[RowIndex(ww, y)] = y
    BY <1>1, <1>2, <2>1, RowIndexRange
  <2> QED BY <2>2
<1>7. RowIndex(ww, x) < RowIndex(ww, y) <=> RowIndex(rws, x) < RowIndex(rws, y)
  <2>1. x \in Elements(ww) /\ y \in Elements(ww)
    BY DEF ww
  <2>2. RowIndex(ww, x) < RowIndex(ww, y) => RowIndex(rws, x) < RowIndex(rws, y)
    BY <1>4, <2>1
  <2>3. RowIndex(ww, y) < RowIndex(ww, x) => RowIndex(rws, y) < RowIndex(rws, x)
    BY <1>4, <2>1
  <2> QED BY <1>5, <1>6, <2>2, <2>3
<1> QED BY <1>7 DEF ww

-----------------------------------------------------------------------------
(* The database and the history, when no statement fails; and the life of  *)
(* each job, which the steps move along the edges of JobLifecycle.         *)

GoodStore == NotRunYet /\ SavedInStep /\ RunsOfItems

Edge(s, next) ==
  \/ s = next
  \/ s = "absent" /\ next = "pending"
  \/ Lifecycle!CanTransitionTo(s, next)

LivesMove == \A j \in Jobs : Edge(StatusOf(j), StatusOf(j)')

(* persist() leaves the saved queue in step with the list box.             *)
LEMMA PersistedInStep ==
  ASSUME NEW q, NEW rdy, NEW rws, NEW it, Ledger(q, rdy, rws, it), ViewTypes,
         ~StoreMayFail, Persist(rws, it)
  PROVE  InStep(saved', rws, it)
<1>1. saved' = QueueItems(rws, it)
  BY DEF Persist
<1>2. Specs(QueueItems(rws, it)) = Persistable(it)
  BY PersistedRows
<1>3. \A r, o \in QueueItems(rws, it) :
        r.position < o.position <=> RowIndex(rws, r.spec) < RowIndex(rws, o.spec)
  BY PositionsInOrder
<1>4. Persistable(it) \subseteq Waiting(it) \ Secret
  BY DEF Persistable, Waiting
<1>5. Waiting(it) \ (Secret \cup Volatile) \subseteq Persistable(it)
  BY DEF Persistable, Waiting, ViewTypes
<1> QED BY <1>1, <1>2, <1>3, <1>4, <1>5 DEF InStep

(* Nothing the store mirrors changes.                                      *)
LEMMA FrameKeepsStore ==
  ASSUME GoodStore,
         UNCHANGED <<saved, runs, phase, restoring, rows, item, launching, unrecorded, added>>
  PROVE  GoodStore' /\ LivesMove
<1>1. NotRunYet'
  BY DEF GoodStore, NotRunYet
<1>2. SavedInStep'
  BY DEF GoodStore, SavedInStep
<1>3. RunsOfItems'
  BY DEF GoodStore, RunsOfItems
<1>4. \A j \in Jobs : StatusOf(j)' = StatusOf(j)
  BY DEF StatusOf, InQueue
<1> QED BY <1>1, <1>2, <1>3, <1>4 DEF GoodStore, LivesMove, Edge

(* A callback that edits the queue without starting or ending a run.       *)
LEMMA EditKeepsStore ==
  ASSUME QueueIInv, GoodStore, phase = "up", phase' = "up", restoring' = restoring,
         runs' = runs, unrecorded' = unrecorded, added \subseteq added',
         InStep(saved', rows', item'),
         \A j \in Jobs : /\ (item'[j] = "launched" /\ launching' # j) <=> (item[j] = "launched" /\ launching # j)
                         /\ item'[j] = "waiting" \/ launching' = j
                              => item[j] = "waiting" \/ launching = j \/ j \notin added
                         /\ j \notin added /\ j \in added' => item'[j] = "waiting"
  PROVE  GoodStore' /\ LivesMove
<1>1. restoring = {}
  BY DEF QueueIInv, Phases
<1>2. \A j \in Jobs : item'[j] = "waiting" \/ launching' = j => runs[j] = "none"
  BY DEF GoodStore, NotRunYet
<1>3. NotRunYet'
  <2>1. \A j \in Specs(saved') : item'[j] = "waiting" /\ j \in Jobs
    BY DEF InStep, Waiting
  <2>2. Specs(restoring') = {}
    BY <1>1 DEF Specs
  <2>3. \A j \in Specs(saved') \cup Specs(restoring') : runs'[j] = "none"
    BY <1>2, <2>1, <2>2
  <2>4. \A j \in Jobs \ added' : runs'[j] = "none"
    BY DEF GoodStore, NotRunYet
  <2>5. \A j \in Specs(saved)' \cup Specs(restoring)' : runs'[j] = "none"
    BY <2>3 DEF Specs
  <2> QED BY <1>2, <2>4, <2>5 DEF NotRunYet
<1>4. SavedInStep'
  BY DEF SavedInStep
<1>5. RunsOfItems'
  BY DEF GoodStore, RunsOfItems
<1>6. ASSUME NEW j \in Jobs PROVE Edge(StatusOf(j), StatusOf(j)')
  <2>1. CASE j \notin added
    <3>1. StatusOf(j) = "absent"
      BY <2>1 DEF StatusOf
    <3>2. runs'[j] = "none"
      BY <2>1 DEF GoodStore, NotRunYet
    <3>3. StatusOf(j)' = "absent" \/ StatusOf(j)' = "pending"
      BY <2>1, <3>2 DEF StatusOf, InQueue
    <3> QED BY <3>1, <3>3 DEF Edge
  <2>2. CASE j \in added /\ runs[j] # "none"
    <3>1. StatusOf(j)' = StatusOf(j)
      BY <2>2 DEF StatusOf
    <3> QED BY <3>1 DEF Edge
  <2>3. CASE j \in added /\ runs[j] = "none"
    <3>1. InQueue(j)' => InQueue(j)
      BY <1>1, <2>3 DEF InQueue
    <3>2. StatusOf(j) = IF InQueue(j) THEN "pending" ELSE "cancelled"
      BY <2>3 DEF StatusOf
    <3>3. StatusOf(j)' = IF InQueue(j)' THEN "pending" ELSE "cancelled"
      BY <2>3 DEF StatusOf
    <3> QED BY <3>1, <3>2, <3>3 DEF Edge, Lifecycle!CanTransitionTo
  <2> QED BY <2>1, <2>2, <2>3
<1> QED BY <1>3, <1>4, <1>5, <1>6 DEF GoodStore, LivesMove

(* The user's edits of the queue.                                          *)
LEMMA UserKeepsStore ==
  ASSUME QueueIInv, QueueIInv', GoodStore, ~StoreMayFail, UserNext
  PROVE  GoodStore' /\ LivesMove
<1>1. item \in [Jobs -> {"absent", "waiting", "launched", "done"}] /\ ViewTypes
  BY DEF QueueIInv, Ledger, ItemTypes
<1>2. Ledger(queue', ready', rows', item')
  BY DEF QueueIInv
<1>3. Persist(rows', item') => InStep(saved', rows', item')
  BY <1>1, <1>2, PersistedInStep
<1>4. ASSUME NEW j \in Jobs, NEW w \in Warnings, AddToQueue(j, w) PROVE GoodStore' /\ LivesMove
  <2>1. /\ phase = "up" /\ phase' = "up" /\ restoring' = restoring /\ runs' = runs
        /\ unrecorded' = unrecorded /\ added' = added \cup {j} /\ launching = None /\ launching' = None
        /\ j \notin added /\ item' = [item EXCEPT ![j] = "waiting"] /\ Persist(rows', item')
    BY <1>4 DEF AddToQueue, Idle
  <2>2. \A k \in Jobs : item'[k] = IF k = j THEN "waiting" ELSE item[k]
    BY <1>1, <2>1
  <2>3. item[j] = "absent"
    BY <2>1 DEF QueueIInv, AddedOnce
  <2> QED BY <1>3, <2>1, <2>2, <2>3, EditKeepsStore
<1>5. ASSUME NEW j \in Jobs, RemoveItem(j) PROVE GoodStore' /\ LivesMove
  <2>1. /\ phase = "up" /\ phase' = "up" /\ restoring' = restoring /\ runs' = runs
        /\ unrecorded' = unrecorded /\ added' = added /\ launching = None /\ launching' = None
        /\ item' = [item EXCEPT ![j] = "absent"] /\ Persist(rows', item') /\ IsPending(queue, j)
    BY <1>5 DEF RemoveItem, Idle
  <2>2. \A k \in Jobs : item'[k] = IF k = j THEN "absent" ELSE item[k]
    BY <1>1, <2>1
  <2>3. item[j] = "waiting"
    BY <2>1, PendingWaits DEF QueueIInv
  <2> QED BY <1>3, <2>1, <2>2, <2>3, EditKeepsStore
<1>6. ASSUME NEW j \in Jobs, MoveItemUp(j) \/ MoveItemDown(j) PROVE GoodStore' /\ LivesMove
  <2>1. /\ phase = "up" /\ phase' = "up" /\ restoring' = restoring /\ runs' = runs
        /\ unrecorded' = unrecorded /\ added' = added /\ launching' = launching
        /\ item' = item /\ Persist(rows', item')
    BY <1>6 DEF MoveItemUp, MoveItemDown, Idle
  <2> QED BY <1>3, <2>1, EditKeepsStore
<1>7. ASSUME ClearFinished PROVE GoodStore' /\ LivesMove
  <2> DEFINE T == {j \in Jobs : item[j] # "done"}
  <2>1. /\ phase = "up" /\ phase' = "up" /\ restoring' = restoring /\ runs' = runs /\ saved' = saved
        /\ unrecorded' = unrecorded /\ added' = added /\ launching = None /\ launching' = None
        /\ item' = [j \in Jobs |-> IF item[j] = "done" THEN "absent" ELSE item[j]]
        /\ rows' = Kept(rows, T)
    BY <1>7 DEF ClearFinished, Idle, storeVars
  <2>2. \A k \in Jobs : item'[k] = IF item[k] = "done" THEN "absent" ELSE item[k]
    BY <2>1
  <2>3. Waiting(item') = Waiting(item) /\ Waiting(item) \subseteq T
    BY <2>2 DEF Waiting
  <2>4. rows \in Seq(Jobs) /\ Distinct(rows) /\ Waiting(item) \subseteq Elements(rows)
    BY DEF QueueIInv, Ledger, RowsHold, Waiting
  <2> HIDE DEF T
  <2>5. Waiting(item) \subseteq Elements(Kept(rows, T))
    BY <2>3, <2>4, KeptIs
  <2>6. InStep(saved, rows, item)
    BY <2>1 DEF GoodStore, SavedInStep
  <2>7. InStep(saved', rows', item')
    <3>1. ASSUME NEW r \in saved, NEW o \in saved
          PROVE  r.position < o.position
                   <=> RowIndex(Kept(rows, T), r.spec) < RowIndex(Kept(rows, T), o.spec)
      <4> DEFINE x == r.spec
                 y == o.spec
      <4>1. r.position < o.position <=> RowIndex(rows, x) < RowIndex(rows, y)
        BY <2>6 DEF InStep
      <4>2. x \in Elements(Kept(rows, T)) /\ y \in Elements(Kept(rows, T))
        BY <2>5, <2>6 DEF InStep, Specs
      <4> HIDE DEF x, y
      <4>3. RowIndex(Kept(rows, T), x) < RowIndex(Kept(rows, T), y) <=> RowIndex(rows, x) < RowIndex(rows, y)
        BY <2>4, <4>2, ClearedInOrder
      <4> QED BY <4>1, <4>3 DEF x, y
    <3> QED BY <2>1, <2>3, <2>6, <3>1 DEF InStep
  <2> QED BY <2>1, <2>2, <2>7, EditKeepsStore
<1>8. ASSUME TogglePause \/ (\E j \in Jobs : CancelItem(j)) \/ (\E n \in 1 .. MaxParallelJobs : ChangeParallel(n))
      PROVE  GoodStore' /\ LivesMove
  <2>1. UNCHANGED <<saved, runs, phase, restoring, rows, item, launching, unrecorded, added>>
    BY <1>8 DEF TogglePause, CancelItem, ChangeParallel, storeVars, viewVars
  <2> QED BY <2>1, FrameKeepsStore
<1> QED BY <1>4, <1>5, <1>6, <1>7, <1>8 DEF UserNext

(* launch(): marked and unsaved, then refused or started.                  *)
LEMMA LaunchKeepsStore ==
  ASSUME QueueIInv, QueueIInv', GoodStore, ~StoreMayFail, LaunchNext
  PROVE  GoodStore' /\ LivesMove
<1>1. /\ item \in [Jobs -> {"absent", "waiting", "launched", "done"}] /\ ViewTypes
      /\ runs \in [Jobs -> {"none", "running", "completed", "failed"}]
  BY DEF QueueIInv, Ledger, ItemTypes, ViewTypes
<1>2. Ledger(queue', ready', rows', item')
  BY DEF QueueIInv
<1>3. CASE BeginLaunch
  <2> DEFINE j == Head(ready)
  <2>1. /\ phase = "up" /\ phase' = "up" /\ restoring' = restoring /\ runs' = runs
        /\ unrecorded' = unrecorded /\ added' = added /\ launching = None /\ launching' = j
        /\ item' = [item EXCEPT ![j] = "launched"] /\ Persist(rows', item') /\ ready # <<>>
    BY <1>3 DEF BeginLaunch
  <2>2. j \in Jobs /\ item[j] = "waiting"
    BY <2>1, BeginKeepsLedger DEF QueueIInv
  <2> HIDE DEF j
  <2>3. \A k \in Jobs : item'[k] = IF k = j THEN "launched" ELSE item[k]
    BY <1>1, <2>1
  <2>4. InStep(saved', rows', item')
    BY <1>1, <1>2, <2>1, PersistedInStep
  <2>5. None \notin Jobs
    BY QueueViewAssumption
  <2> QED BY <2>1, <2>2, <2>3, <2>4, <2>5, EditKeepsStore
<1>4. CASE RefuseLaunch
  <2>1. /\ launching # None /\ phase = "up" /\ launching \in Jobs /\ item[launching] = "launched"
    BY <1>4 DEF RefuseLaunch, QueueIInv, Phases, ViewTypes
  <2>2. /\ phase' = phase /\ restoring' = restoring /\ runs' = runs /\ saved' = saved /\ rows' = rows
        /\ unrecorded' = unrecorded /\ added' = added /\ launching' = None
        /\ item' = [item EXCEPT ![launching] = "done"]
    BY <1>4 DEF RefuseLaunch, storeVars
  <2>3. \A k \in Jobs : item'[k] = IF k = launching THEN "done" ELSE item[k]
    BY <1>1, <2>1, <2>2
  <2>4. Waiting(item') = Waiting(item)
    BY <2>1, <2>3 DEF Waiting
  <2>5. InStep(saved', rows', item')
    BY <2>1, <2>2, <2>4 DEF GoodStore, SavedInStep, InStep
  <2>6. None \notin Jobs
    BY QueueViewAssumption
  <2> QED BY <2>1, <2>2, <2>3, <2>5, <2>6, EditKeepsStore
<1>5. CASE StartRun
  <2>1. /\ launching # None /\ phase = "up" /\ launching \in Jobs /\ item[launching] = "launched"
        /\ restoring = {}
    BY <1>5 DEF StartRun, QueueIInv, Phases, ViewTypes
  <2>2. /\ phase' = phase /\ restoring' = restoring /\ saved' = saved /\ rows' = rows
        /\ unrecorded' = unrecorded \ {launching} /\ added' = added /\ launching' = None
        /\ item' = item /\ runs' = [runs EXCEPT ![launching] = "running"]
    BY <1>5 DEF StartRun
  <2>3. \A k \in Jobs : runs'[k] = IF k = launching THEN "running" ELSE runs[k]
    BY <1>1, <2>1, <2>2
  <2>4. launching \in added /\ runs[launching] = "none" /\ launching \notin Specs(saved)
    <3>1. InStep(saved, rows, item)
      BY <2>1 DEF GoodStore, SavedInStep
    <3> QED BY <2>1, <3>1 DEF QueueIInv, AddedOnce, GoodStore, NotRunYet, InStep, Waiting
  <2>5. None \notin Jobs
    BY QueueViewAssumption
  <2>6. NotRunYet'
    <3>1. Specs(saved)' = Specs(saved) /\ Specs(restoring)' = {} /\ Specs(saved) \subseteq Jobs
      BY <1>1, <2>1, <2>2 DEF Specs, ViewTypes, Rows
    <3> QED BY <2>1, <2>2, <2>3, <2>4, <2>5, <3>1 DEF GoodStore, NotRunYet
  <2>7. SavedInStep'
    BY <2>2 DEF GoodStore, SavedInStep
  <2>8. RunsOfItems'
    BY <2>1, <2>2, <2>3, <2>5 DEF GoodStore, RunsOfItems
  <2>9. LivesMove
    <3>1. ASSUME NEW j \in Jobs, j # launching PROVE StatusOf(j)' = StatusOf(j)
      BY <2>2, <2>3, <2>5, <3>1 DEF StatusOf, InQueue
    <3>2. StatusOf(launching) = "pending"
      BY <2>1, <2>4 DEF StatusOf, InQueue
    <3>3. \A j \in Jobs : j = launching => StatusOf(j)' = "running"
      BY <2>2, <2>3, <2>4 DEF StatusOf
    <3> QED BY <3>1, <3>2, <3>3 DEF LivesMove, Edge, Lifecycle!CanTransitionTo
  <2> QED BY <2>6, <2>7, <2>8, <2>9 DEF GoodStore
<1> QED BY <1>3, <1>4, <1>5 DEF LaunchNext

(* The end of a run.                                                       *)
LEMMA EndKeepsStore ==
  ASSUME QueueIInv, GoodStore, ~StoreMayFail, NEW j \in Jobs, RunEnds(j)
  PROVE  GoodStore' /\ LivesMove
<1>1. /\ item \in [Jobs -> {"absent", "waiting", "launched", "done"}] /\ ViewTypes
      /\ runs \in [Jobs -> {"none", "running", "completed", "failed"}]
  BY DEF QueueIInv, Ledger, ItemTypes, ViewTypes
<1>2. /\ phase = "up" /\ launching = None /\ launching' = None /\ item[j] = "launched"
      /\ phase' = phase /\ restoring' = restoring /\ saved' = saved /\ rows' = rows
      /\ unrecorded' = unrecorded /\ added' = added
      /\ item' = [item EXCEPT ![j] = "done"]
  BY DEF RunEnds, Idle
<1>3. PICK e \in {"completed", "failed"} : runs' = [runs EXCEPT ![j] = e]
  BY DEF RunEnds, GoodStore, RunsOfItems
<1>4. \A k \in Jobs : runs'[k] = IF k = j THEN e ELSE runs[k]
  BY <1>1, <1>3
<1>5. \A k \in Jobs : item'[k] = IF k = j THEN "done" ELSE item[k]
  BY <1>1, <1>2
<1>6. restoring = {} /\ None \notin Jobs
  BY <1>2, QueueViewAssumption DEF QueueIInv, Phases
<1>7. InStep(saved, rows, item)
  BY <1>2 DEF GoodStore, SavedInStep
<1>8. j \notin Specs(saved) /\ j \in added /\ runs[j] = "running"
  BY <1>2, <1>6, <1>7 DEF InStep, Waiting, QueueIInv, AddedOnce, GoodStore, RunsOfItems
<1>9. NotRunYet'
  <2>1. Specs(saved)' = Specs(saved) /\ Specs(restoring)' = {} /\ Specs(saved) \subseteq Jobs
    BY <1>1, <1>2, <1>6 DEF Specs, ViewTypes, Rows
  <2> QED BY <1>2, <1>4, <1>5, <1>6, <1>8, <2>1 DEF GoodStore, NotRunYet
<1>10. SavedInStep'
  <2>1. Waiting(item') = Waiting(item)
    BY <1>2, <1>5 DEF Waiting
  <2>2. InStep(saved', rows', item')
    BY <1>2, <1>7, <2>1 DEF InStep
  <2> QED BY <1>2, <2>2 DEF SavedInStep
<1>11. RunsOfItems'
  BY <1>2, <1>3, <1>4, <1>5, <1>6 DEF GoodStore, RunsOfItems
<1>12. LivesMove
  <2>1. ASSUME NEW k \in Jobs, k # j PROVE StatusOf(k)' = StatusOf(k)
    BY <1>2, <1>4, <1>5, <2>1 DEF StatusOf, InQueue
  <2>2. StatusOf(j) = "running" /\ StatusOf(j)' \in {"completed", "failed"}
    BY <1>2, <1>3, <1>4, <1>8 DEF StatusOf
  <2> QED BY <2>1, <2>2 DEF LivesMove, Edge, Lifecycle!CanTransitionTo
<1> QED BY <1>9, <1>10, <1>11, <1>12 DEF GoodStore

(* A stop: what was pending and saved stays pending, the rest is lost.     *)
LEMMA StopKeepsStore ==
  ASSUME QueueIInv, GoodStore, ~StoreMayFail, Stop
  PROVE  GoodStore' /\ LivesMove
<1>1. /\ phase # "down" /\ phase' = "down" /\ restoring' = {} /\ launching' = None /\ unrecorded' = {}
      /\ item' = [j \in Jobs |-> "absent"] /\ saved' = saved /\ runs' = runs /\ added' = added
  BY DEF Stop, EmptyView, storeVars
<1>2. \A j \in Jobs : item'[j] = "absent" /\ launching' # j
  BY <1>1, QueueViewAssumption
<1>3. NotRunYet'
  <2>1. Specs(saved)' = Specs(saved) /\ Specs(restoring)' = {}
    BY <1>1 DEF Specs
  <2> QED BY <1>1, <1>2, <2>1 DEF GoodStore, NotRunYet
<1>4. SavedInStep' /\ RunsOfItems'
  BY <1>1 DEF SavedInStep, RunsOfItems
<1>5. ASSUME NEW j \in Jobs PROVE InQueue(j)' => InQueue(j)
  <2> SUFFICES ASSUME j \in Specs(saved) PROVE InQueue(j)
    BY <1>1 DEF InQueue, Specs
  <2>1. CASE phase = "up"
    <3>1. item[j] = "waiting"
      BY <2>1 DEF GoodStore, SavedInStep, InStep, Waiting
    <3> QED BY <2>1, <3>1 DEF InQueue
  <2>2. CASE phase = "restoring"
    <3>1. item[j] = "waiting" \/ j \in Specs(restoring)
      BY <2>2 DEF GoodStore, SavedInStep, Waiting
    <3> QED BY <2>2, <3>1 DEF InQueue, Specs
  <2> QED BY <1>1, <2>1, <2>2 DEF QueueIInv, ViewTypes
<1>6. ASSUME NEW j \in Jobs PROVE Edge(StatusOf(j), StatusOf(j)')
  <2>1. CASE j \notin added \/ runs[j] # "none"
    <3>1. StatusOf(j)' = StatusOf(j)
      BY <1>1, <2>1 DEF StatusOf
    <3> QED BY <3>1 DEF Edge
  <2>2. CASE j \in added /\ runs[j] = "none"
    <3>1. StatusOf(j) = IF InQueue(j) THEN "pending" ELSE "cancelled"
      BY <2>2 DEF StatusOf
    <3>2. StatusOf(j)' = IF InQueue(j)' THEN "pending" ELSE "cancelled"
      BY <1>1, <2>2 DEF StatusOf
    <3> QED BY <1>5, <3>1, <3>2 DEF Edge, Lifecycle!CanTransitionTo
  <2> QED BY <2>1, <2>2
<1> QED BY <1>3, <1>4, <1>6 DEF GoodStore, LivesMove

(* A start: interrupted runs fail, the saved queue is loaded.              *)
LEMMA BootKeepsStore ==
  ASSUME QueueIInv, GoodStore, ~StoreMayFail, Boot
  PROVE  GoodStore' /\ LivesMove
<1>1. /\ phase = "down" /\ restoring' = saved /\ launching' = None /\ unrecorded' = {}
      /\ phase' = IF saved = {} THEN "up" ELSE "restoring"
      /\ item' = [j \in Jobs |-> "absent"] /\ saved' = saved /\ added' = added
      /\ runs' = [j \in Jobs |-> IF runs[j] = "running" THEN "failed" ELSE runs[j]]
  BY DEF Boot, EmptyView
<1>2. \A j \in Jobs : item'[j] = "absent" /\ launching' # j
  BY <1>1, QueueViewAssumption
<1>3. \A j \in Jobs : runs'[j] = IF runs[j] = "running" THEN "failed" ELSE runs[j]
  BY <1>1
<1>4. Specs(saved)' = Specs(saved) /\ Specs(restoring)' = Specs(saved) /\ Specs(saved) \subseteq Jobs
  BY <1>1 DEF Specs, QueueIInv, ViewTypes, Rows
<1>5. NotRunYet'
  BY <1>1, <1>2, <1>3, <1>4 DEF GoodStore, NotRunYet
<1>6. SavedInStep'
  <2>1. CASE saved = {}
    <3>1. Specs(saved') = {} /\ Waiting(item') = {}
      BY <1>1, <1>2, <2>1 DEF Specs, Waiting
    <3>2. InStep(saved', rows', item')
      BY <1>1, <2>1, <3>1 DEF InStep
    <3> QED BY <1>1, <2>1, <3>2 DEF SavedInStep
  <2>2. CASE saved # {}
    BY <1>1, <1>4, <2>2 DEF SavedInStep
  <2> QED BY <2>1, <2>2
<1>7. RunsOfItems'
  BY <1>1, <1>2, <1>3 DEF RunsOfItems
<1>8. ASSUME NEW j \in Jobs PROVE InQueue(j)' <=> InQueue(j)
  <2>1. InQueue(j) <=> \E r \in saved : r.spec = j
    BY <1>1 DEF InQueue
  <2>2. InQueue(j)' <=> \E r \in saved : r.spec = j
    BY <1>1, <1>2 DEF InQueue
  <2> QED BY <2>1, <2>2
<1>9. ASSUME NEW j \in Jobs PROVE Edge(StatusOf(j), StatusOf(j)')
  <2>1. CASE runs[j] # "none"
    BY <1>1, <1>3, <2>1 DEF StatusOf, Edge, Lifecycle!CanTransitionTo
  <2>2. CASE runs[j] = "none"
    <3>1. StatusOf(j)' = StatusOf(j)
      BY <1>1, <1>3, <1>8, <2>2 DEF StatusOf
    <3> QED BY <3>1 DEF Edge
  <2> QED BY <2>1, <2>2
<1> QED BY <1>5, <1>6, <1>7, <1>9 DEF GoodStore, LivesMove

(* One saved job is back in the queue.                                     *)
LEMMA RestoreKeepsStore ==
  ASSUME QueueIInv, QueueIInv', GoodStore, ~StoreMayFail, RestoreOne
  PROVE  GoodStore' /\ LivesMove
<1>1. PICK r \in restoring :
        /\ item' = [item EXCEPT ![r.spec] = "waiting"]
        /\ Persist(rows', item')
        /\ restoring' = restoring \ {r}
        /\ phase' = IF restoring = {r} THEN "up" ELSE "restoring"
  BY DEF RestoreOne
<1>2. phase = "restoring" /\ UNCHANGED <<runs, launching, unrecorded, added>>
  BY DEF RestoreOne
<1>3. /\ item \in [Jobs -> {"absent", "waiting", "launched", "done"}] /\ ViewTypes /\ launching = None
      /\ None \notin Jobs
  BY <1>2, QueueViewAssumption DEF QueueIInv, Ledger, ItemTypes, Phases
<1> DEFINE j == r.spec
<1>4. j \in Jobs /\ j \in Specs(restoring) /\ j \in added
  BY <1>3 DEF Rows, Specs, QueueIInv, AddedOnce, ViewTypes
<1>5. \A k \in Jobs : item'[k] = IF k = j THEN "waiting" ELSE item[k]
  BY <1>1, <1>3
<1>6. Specs(restoring') = Specs(restoring) \ {j}
  <2>1. ASSUME NEW o \in restoring, o # r PROVE o.spec # j
    BY <1>3, <2>1 DEF ViewTypes, OneRowEach
  <2> QED BY <1>1, <2>1 DEF Specs
<1>7. InStep(saved', rows', item')
  <2>1. Ledger(queue', ready', rows', item')
    BY DEF QueueIInv
  <2> QED BY <1>1, <1>3, <2>1, PersistedInStep
<1>8. phase' \in {"up", "restoring"}
  BY <1>1
<1> HIDE DEF j
<1>9. runs[j] = "none"
  BY <1>4 DEF GoodStore, NotRunYet
<1>10. NotRunYet'
  <2>1. \A k \in Specs(saved') : k \in Jobs /\ item'[k] = "waiting"
    BY <1>7 DEF InStep, Waiting
  <2>2. \A k \in Jobs : item'[k] = "waiting" => runs[k] = "none"
    BY <1>5, <1>9 DEF GoodStore, NotRunYet
  <2>3. \A k \in Specs(saved') \cup Specs(restoring') : runs'[k] = "none"
    BY <1>2, <1>6, <2>1, <2>2 DEF GoodStore, NotRunYet
  <2>4. Specs(saved)' = Specs(saved') /\ Specs(restoring)' = Specs(restoring')
    BY DEF Specs
  <2> QED BY <1>2, <1>3, <2>2, <2>3, <2>4 DEF GoodStore, NotRunYet
<1>11. SavedInStep'
  BY <1>7 DEF SavedInStep, InStep, Specs
<1>12. RunsOfItems'
  BY <1>2, <1>3, <1>5, <1>8, <1>9 DEF GoodStore, RunsOfItems
<1>13. ASSUME NEW k \in Jobs PROVE InQueue(k)' <=> InQueue(k)
  <2>1. InQueue(k) <=> item[k] = "waiting" \/ k \in Specs(restoring)
    BY <1>2, <1>3 DEF InQueue, Specs
  <2>2. InQueue(k)' <=> item'[k] = "waiting" \/ k \in Specs(restoring')
    BY <1>2, <1>3, <1>8 DEF InQueue, Specs
  <2> QED BY <1>4, <1>5, <1>6, <2>1, <2>2
<1>14. LivesMove
  <2>1. \A k \in Jobs : StatusOf(k)' = StatusOf(k)
    BY <1>2, <1>13 DEF StatusOf
  <2> QED BY <2>1 DEF LivesMove, Edge
<1> QED BY <1>10, <1>11, <1>12, <1>14 DEF GoodStore

(* Of every step.                                                          *)
LEMMA StoreStep ==
  ASSUME QueueIInv, QueueIInv', GoodStore, ~StoreMayFail, [Next]_vars
  PROVE  GoodStore' /\ LivesMove
<1>1. CASE WorldNext \/ UNCHANGED vars
  <2>1. UNCHANGED <<saved, runs, phase, restoring, rows, item, launching, unrecorded, added>>
    BY <1>1 DEF WorldNext, ChildExits, PathsChange, vars, storeVars, viewVars
  <2> QED BY <2>1, FrameKeepsStore
<1>2. ASSUME NEW j \in Jobs, RunEnds(j) PROVE GoodStore' /\ LivesMove
  BY <1>2, EndKeepsStore
<1>3. CASE UserNext
  BY <1>3, UserKeepsStore
<1>4. CASE LaunchNext
  BY <1>4, LaunchKeepsStore
<1>5. CASE Stop
  BY <1>5, StopKeepsStore
<1>6. CASE Boot
  BY <1>6, BootKeepsStore
<1>7. CASE RestoreOne
  BY <1>7, RestoreKeepsStore
<1> QED BY <1>1, <1>2, <1>3, <1>4, <1>5, <1>6, <1>7 DEF Next

(* With a database that accepts its writes, the saved queue and the        *)
(* history follow the queue in every reachable state.                      *)
THEOREM StoreFollows == Spec => []StoreIInv
<1>1. Init => StoreIInv
  <2> SUFFICES ASSUME Init PROVE GoodStore
    BY DEF StoreIInv, GoodStore
  <2>1. /\ saved = {} /\ restoring = {} /\ launching = None /\ unrecorded = {} /\ phase = "up"
        /\ \A j \in Jobs : runs[j] = "none" /\ item[j] = "absent"
    BY DEF Init
  <2>2. Specs(saved) = {} /\ Specs(restoring) = {} /\ Waiting(item) = {}
    BY <2>1 DEF Specs, Waiting
  <2>3. SavedInStep
    BY <2>1, <2>2 DEF SavedInStep, InStep
  <2>4. NotRunYet
    BY <2>1, <2>2 DEF NotRunYet
  <2>5. RunsOfItems
    BY <2>1 DEF RunsOfItems
  <2> QED BY <2>3, <2>4, <2>5 DEF GoodStore
<1>2. QueueIInv /\ QueueIInv' /\ StoreIInv /\ [Next]_vars => StoreIInv'
  <2> SUFFICES ASSUME QueueIInv, QueueIInv', StoreIInv, [Next]_vars, ~StoreMayFail
               PROVE  GoodStore'
    BY DEF StoreIInv, GoodStore
  <2>1. GoodStore
    BY DEF StoreIInv, GoodStore
  <2> QED BY <2>1, StoreStep
<1> QED BY <1>1, <1>2, QueueHangsTogether, PTL DEF Spec

(* The order on the screen is the order jobs start in, and the order they  *)
(* are saved in.                                                           *)
THEOREM CopiesStayInOrder == Spec => []CopiesAgree
<1>1. QueueIInv => RowsFollowQueue
  BY LedgerOrdersRows DEF QueueIInv
<1>2. QueueIInv /\ StoreIInv => SavedFollowsQueue
  <2> SUFFICES ASSUME QueueIInv, StoreIInv, phase = "up", ~StoreMayFail
               PROVE  SavedFollowsQueue
    BY DEF SavedFollowsQueue
  <2>1. InStep(saved, rows, item)
    BY DEF StoreIInv, SavedInStep
  <2>2. \A r \in saved : item[r.spec] = "waiting" /\ r.spec \notin Secret
    BY <2>1 DEF InStep, Specs, Waiting
  <2>3. \A j \in Jobs \ (Secret \cup Volatile) : item[j] = "waiting" => \E r \in saved : r.spec = j
    BY <2>1 DEF InStep, Specs, Waiting
  <2> QED BY <2>1, <2>2, <2>3 DEF InStep, SavedFollowsQueue
<1> QED BY <1>1, <1>2, QueueHangsTogether, StoreFollows, PTL DEF CopiesAgree

(* The history shows as running exactly the jobs this session launched and *)
(* has not finished.                                                       *)
THEOREM HistoryFollowsItems == Spec => []RunRowsFollowItems
<1>1. StoreIInv => RunRowsFollowItems
  BY DEF StoreIInv, RunsOfItems, RunRowsFollowItems
<1> QED BY <1>1, StoreFollows, PTL

(* Across stops and restarts a job moves only along the edges of           *)
(* can_transition_to.  With a statement that fails this is not so: the     *)
(* row of a job removed from the queue stays, and brings the job back.     *)
THEOREM QueueObeysLifecycle ==
  ASSUME ~StoreMayFail
  PROVE  Spec => LifecycleSpec
<1> DEFINE status == [j \in Jobs |-> StatusOf(j)]
<1>1. Init => Lifecycle!Init
  BY DEF Init, StatusOf, Lifecycle!Init
<1>2. QueueIInv /\ QueueIInv' /\ StoreIInv /\ [Next]_vars => [Lifecycle!Next]_status
  <2> SUFFICES ASSUME QueueIInv, QueueIInv', StoreIInv, [Next]_vars
               PROVE  Lifecycle!Next
    OBVIOUS
  <2>1. LivesMove
    BY StoreStep DEF StoreIInv, GoodStore
  <2>2. \A j \in Jobs : StatusOf(j)' \in Lifecycle!JobStatus \cup {"absent"}
    <3>1. runs' \in [Jobs -> {"none", "running", "completed", "failed"}]
      BY DEF QueueIInv, ViewTypes
    <3> QED BY <3>1 DEF StatusOf, Lifecycle!JobStatus, Lifecycle!Terminal
  <2>3. \A j \in Jobs : status'[j] = StatusOf(j)' /\ status[j] = StatusOf(j)
    OBVIOUS
  <2>4. status' \in [Jobs -> Lifecycle!JobStatus \cup {"absent"}]
    BY <2>2
  <2> QED BY <2>1, <2>3, <2>4 DEF LivesMove, Edge, Lifecycle!Next
<1> QED BY <1>1, <1>2, QueueHangsTogether, StoreFollows, PTL
        DEF Spec, LifecycleSpec, Lifecycle!Spec
=============================================================================
