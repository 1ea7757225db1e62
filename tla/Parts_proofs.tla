----------------------------- MODULE Parts_proofs -----------------------------
(***************************************************************************)
(* Proofs about Mounts for every number of mounts, every set of mount      *)
(* points and links, and any number of fusermounts in flight; about RunLog *)
(* for any number of lines, starts and old logs; about Startup for every   *)
(* set of processes and all bounds.  And what is proved of each part holds *)
(* of Parts, the specification that is checked: a behaviour of Parts is,   *)
(* for each part, one of that part, because a step belongs to one of them  *)
(* and leaves the variables of the others.                                 *)
(***************************************************************************)
EXTENDS Parts, Lists_proofs, JobScheduler_proofs, JobForm_proofs

-----------------------------------------------------------------------------
(* The mounts page.                                                        *)

ProcessStates == {"none", "born", "checked", "serving", "ok", "bad"}
Subtitles == {"absent", "mounting", "mounted", "unmounting", "unmount failed", "failed"}

MountTypes ==
  /\ nextId \in Nat \ {0}
  /\ mountProcess \in [Mounts -> ProcessStates]
  /\ row \in [Mounts -> Subtitles]

(* An id that was not given out belongs to no process.                     *)
IdsInOrder == \A i \in 1 .. MaxMounts : mountProcess[i] # "none" => i < nextId

(* Only what has ended was heard to have.                                  *)
EndsAreEnds ==
  /\ heard \in [Mounts -> BOOLEAN]
  /\ \A i \in Mounts : heard[i] => mountProcess[i] \in {"ok", "bad"}

(* The row of a mount whose end was heard is gone: no timer, no unmount    *)
(* and no answer of fusermount brings it back.                             *)
HeardRowsAreGone == \A i \in Mounts : heard[i] => row[i] = "absent"

MountsIInv == MountTypes /\ IdsInOrder /\ EndsAreEnds /\ HeardRowsAreGone /\ RunningHasRow

(* The page starts with no row and no process.                             *)
LEMMA MountsInitIInv == MountsInit => MountsIInv
<1> SUFFICES ASSUME MountsInit PROVE MountsIInv
  OBVIOUS
<1>1. MountTypes /\ IdsInOrder
  BY DEF MountsInit, MountTypes, IdsInOrder, ProcessStates, Subtitles, Mounts
<1>2. EndsAreEnds
  BY Zenon DEF MountsInit, EndsAreEnds
<1>3. HeardRowsAreGone /\ RunningHasRow
  BY DEF MountsInit, HeardRowsAreGone, RunningHasRow, Running
<1> QED BY <1>1, <1>2, <1>3 DEF MountsIInv

(* A new mount takes the next id, whose row no one has spoken about.       *)
LEMMA DoMountStep ==
  ASSUME MountsIInv, NEW m \in MountPoints, DoMount(m)
  PROVE  MountsIInv'
<1> USE DEF MountsIInv
<1>1. /\ nextId \in Mounts /\ nextId' = nextId + 1
      /\ mountProcess' = [mountProcess EXCEPT ![nextId] = "born"]
      /\ row' = [row EXCEPT ![nextId] = "mounting"]
  BY DEF DoMount
<1>2. heard' = heard
  BY DEF DoMount
<1>3. nextId \in 1 .. MaxMounts /\ nextId \in Nat
  BY <1>1, MountsAssumption DEF Mounts
<1>4. mountProcess[nextId] = "none"
  <2>1. mountProcess[nextId] # "none" => nextId < nextId
    BY <1>3 DEF IdsInOrder
  <2>2. ~(nextId < nextId)
    BY <1>3
  <2> QED BY <2>1, <2>2
<1>5. ~heard[nextId]
  <2>1. heard[nextId] => mountProcess[nextId] \in {"ok", "bad"}
    BY <1>1, Zenon DEF EndsAreEnds
  <2>2. mountProcess[nextId] \notin {"ok", "bad"}
    BY <1>4
  <2> QED BY <2>1, <2>2, Zenon
<1>6. MountTypes'
  <2>1. nextId' \in Nat \ {0}
    BY <1>1, <1>3
  <2>2. mountProcess' \in [Mounts -> ProcessStates] /\ row' \in [Mounts -> Subtitles]
    BY <1>1 DEF MountTypes, ProcessStates, Subtitles
  <2> QED BY <2>1, <2>2 DEF MountTypes
<1>7. IdsInOrder'
  BY <1>1, <1>3, MountsAssumption DEF IdsInOrder, MountTypes, Mounts
<1>8. EndsAreEnds'
  <2>1. \A i \in Mounts \ {nextId} : mountProcess'[i] = mountProcess[i]
    BY <1>1 DEF MountTypes
  <2> QED BY <1>2, <1>5, <2>1, Zenon DEF EndsAreEnds
<1>9. HeardRowsAreGone' /\ RunningHasRow'
  <2>1. \A i \in Mounts \ {nextId} : mountProcess'[i] = mountProcess[i] /\ row'[i] = row[i]
    BY <1>1 DEF MountTypes
  <2>2. row'[nextId] = "mounting"
    BY <1>1 DEF MountTypes
  <2>3. RunningHasRow'
    BY <2>1, <2>2 DEF RunningHasRow, Running
  <2>4. HeardRowsAreGone'
    BY <1>2, <1>5, <2>1 DEF HeardRowsAreGone
  <2> QED BY <2>3, <2>4
<1> QED BY <1>6, <1>7, <1>8, <1>9

(* Every callback, answer and step of the outside keeps the invariant.     *)
LEMMA MountsStep == MountsIInv /\ MountsNext => MountsIInv'
<1> SUFFICES ASSUME MountsIInv, MountsNext PROVE MountsIInv'
  OBVIOUS
<1> USE DEF MountsIInv, MountTypes, IdsInOrder, EndsAreEnds, HeardRowsAreGone, RunningHasRow,
            Running, ProcessStates, Subtitles, Mounts
<1>1. CASE RemotesListed
  BY <1>1 DEF RemotesListed
<1>2. ASSUME NEW m \in MountPoints, DoMount(m) PROVE MountsIInv'
  BY <1>2, DoMountStep
<1>3. ASSUME NEW i \in Mounts, TimerFires(i) PROVE MountsIInv'
  BY <1>3 DEF TimerFires
<1>4. ASSUME NEW i \in Mounts, FinishedHeard(i) PROVE MountsIInv'
  BY <1>4 DEF FinishedHeard, RowAfterFinished
<1>5. ASSUME NEW i \in Mounts, Unmount(i) PROVE MountsIInv'
  BY <1>5 DEF Unmount
<1>6. ASSUME NEW i \in Mounts, Looks(i) PROVE MountsIInv'
  BY <1>6 DEF Looks
<1>7. ASSUME NEW i \in Mounts, Serves(i) PROVE MountsIInv'
  BY <1>7 DEF Serves
<1>8. ASSUME NEW i \in Mounts, Dies(i) PROVE MountsIInv'
  BY <1>8 DEF Dies
<1>9. ASSUME NEW k \in 1 .. MaxUnmounts, UnmountAnswered(k) PROVE MountsIInv'
  BY <1>9 DEF UnmountAnswered, RowAfterUnmount
<1>10. ASSUME NEW k \in 1 .. MaxUnmounts, Fusermount(k) PROVE MountsIInv'
  <2>1. PICK t : \/ mountProcess' = [mountProcess EXCEPT ![t] =
                                      IF mountProcess[t] = "serving" THEN "ok" ELSE mountProcess[t]]
                 \/ mountProcess' = mountProcess
    BY <1>10 DEF Fusermount
  <2>2. \A i \in Mounts : \/ mountProcess'[i] = mountProcess[i]
                          \/ mountProcess[i] = "serving" /\ mountProcess'[i] = "ok"
    BY <2>1
  <2>3. mountProcess' \in [Mounts -> ProcessStates]
    BY <2>1, <2>2
  <2>4. UNCHANGED <<nextId, heard, row>>
    BY <1>10 DEF Fusermount
  <2> QED BY <2>2, <2>3, <2>4
<1> QED BY <1>1, <1>2, <1>3, <1>4, <1>5, <1>6, <1>7, <1>8, <1>9, <1>10 DEF MountsNext

(* The invariant holds in every reachable state.                           *)
LEMMA MountsInvariant == MountsSpec => []MountsIInv
<1>1. MountsIInv /\ UNCHANGED mountVars => MountsIInv'
  BY DEF mountVars, MountsIInv, MountTypes, IdsInOrder, EndsAreEnds, HeardRowsAreGone, RunningHasRow,
         Running
<1> QED BY <1>1, MountsInitIInv, MountsStep, PTL DEF MountsSpec

(* A mount that runs has a row with an Unmount button, whichever mount a   *)
(* fusermount took off and whenever the timers speak (mounts.rs:278-331).  *)
THEOREM RunningMountsHaveRows == MountsSpec => []RunningHasRow
BY MountsInvariant, PTL DEF MountsIInv

(* The row of a mount that is over never comes back, whatever timer and    *)
(* answers were under way when it ended (mounts.rs:290-331).               *)
THEOREM GoneRowsStayAway == MountsSpec => []HeardRowsAreGone
BY MountsInvariant, PTL DEF MountsIInv

-----------------------------------------------------------------------------
(* The log of a run.  What may be shown is what a redactor leaves.         *)
Shareable == {"plain", "cut", "redacted"}

LogKinds == LineKinds \cup {"redacted"}
ReadKinds == LineKinds \cup CutMarkers

(* Whether a place is in a key depends on the place before and the line.   *)
LEMMA KeyAtNext ==
  ASSUME NEW s, NEW k \in Nat
  PROVE  InKeyAt(s, k + 1) <=> IF InKeyAt(s, k) THEN s[k + 1] \notin {"end", "cutend"}
                               ELSE s[k + 1] \in {"begin", "cutbegin"}
<1> DEFINE l == s[k + 1]
<1>1. ASSUME l \in {"begin", "cutbegin"} PROVE InKeyAt(s, k + 1)
  <2>1. k + 1 \in 1 .. k + 1 /\ \A j \in (k + 1) + 1 .. k + 1 : s[j] \notin {"end", "cutend"}
    OBVIOUS
  <2> QED BY <1>1, <2>1 DEF InKeyAt
<1>2. ASSUME InKeyAt(s, k), l \notin {"end", "cutend"} PROVE InKeyAt(s, k + 1)
  <2>1. PICK i \in 1 .. k : /\ s[i] \in {"begin", "cutbegin"}
                            /\ \A j \in i + 1 .. k : s[j] \notin {"end", "cutend"}
    BY <1>2 DEF InKeyAt
  <2>2. i \in 1 .. k + 1 /\ \A j \in i + 1 .. k + 1 : j \in i + 1 .. k \/ j = k + 1
    OBVIOUS
  <2> QED BY <1>2, <2>1, <2>2 DEF InKeyAt
<1>3. ASSUME InKeyAt(s, k + 1), l \notin {"begin", "cutbegin"}
      PROVE  InKeyAt(s, k) /\ l \notin {"end", "cutend"}
  <2>1. PICK i \in 1 .. k + 1 : /\ s[i] \in {"begin", "cutbegin"}
                                /\ \A j \in i + 1 .. k + 1 : s[j] \notin {"end", "cutend"}
    BY <1>3 DEF InKeyAt
  <2>2. i \in 1 .. k /\ k + 1 \in i + 1 .. k + 1 /\ \A j \in i + 1 .. k : j \in i + 1 .. k + 1
    BY <1>3, <2>1
  <2> QED BY <2>1, <2>2 DEF InKeyAt
<1>4. ~(l \in {"begin", "cutbegin"} /\ l \in {"end", "cutend"})
  OBVIOUS
<1> HIDE DEF l
<1>5. InKeyAt(s, k + 1) <=> IF InKeyAt(s, k) THEN l \notin {"end", "cutend"}
                            ELSE l \in {"begin", "cutbegin"}
  BY <1>1, <1>2, <1>3, <1>4
<1> QED BY <1>5 DEF l

(* One more line in what was read.                                         *)
LEMMA KeyGrows ==
  ASSUME NEW p \in Seq(ReadKinds), NEW l \in ReadKinds
  PROVE  InKey(Append(p, l)) <=> IF InKey(p) THEN l \notin {"end", "cutend"}
                                 ELSE l \in {"begin", "cutbegin"}
<1> DEFINE q == Append(p, l)
           n == Len(p)
<1>1. /\ n \in Nat /\ Len(q) = n + 1 /\ q[n + 1] = l
      /\ \A i \in 1 .. n : q[i] = p[i]
  OBVIOUS
<1> HIDE DEF q, n
<1>2. InKeyAt(q, n) <=> InKeyAt(p, n)
  BY <1>1 DEF InKeyAt
<1>3. InKeyAt(q, n + 1) <=> IF InKeyAt(q, n) THEN l \notin {"end", "cutend"}
                            ELSE l \in {"begin", "cutbegin"}
  BY <1>1, KeyAtNext
<1> QED BY <1>1, <1>2, <1>3 DEF InKey, q, n

(* What a redactor makes of a line that hides no marker.                   *)
LEMMA RedactedLine ==
  ASSUME NEW inside \in BOOLEAN, NEW l \in LogKinds
  PROVE  /\ RedactLine(inside, l).inside \in BOOLEAN
         /\ RedactLine(inside, l).inside <=> IF inside THEN l # "end" ELSE l = "begin"
         /\ RedactLine(inside, l).out = IF inside THEN << >>
                                        ELSE IF l \in {"begin", "secret"} THEN <<"redacted">> ELSE <<l>>
<1>1. CASE inside
  BY <1>1 DEF RedactLine
<1>2. CASE ~inside /\ l = "begin"
  BY <1>2 DEF RedactLine
<1>3. CASE ~inside /\ l # "begin"
  <2>1. l \notin CutMarkers
    BY DEF LogKinds, LineKinds, CutMarkers
  <2> QED BY <1>3, <2>1 DEF RedactLine
<1> QED BY <1>1, <1>2, <1>3

(* The pass over a list: its recursion has a solution.                     *)
LEMMA RedactedUpToDef ==
  ASSUME NEW s \in Seq(LogKinds)
  PROVE  /\ RedactedUpTo(s)[0] = [inside |-> FALSE, out |-> << >>]
         /\ \A n \in 1 .. Len(s) :
              RedactedUpTo(s)[n] =
                [inside |-> RedactLine(RedactedUpTo(s)[n - 1].inside, s[n]).inside,
                 out    |-> RedactedUpTo(s)[n - 1].out
                              \o RedactLine(RedactedUpTo(s)[n - 1].inside, s[n]).out]
<1> DEFINE Empty == [inside |-> FALSE, out |-> << >>]
           After(r, l) == [inside |-> RedactLine(r.inside, l).inside,
                           out    |-> r.out \o RedactLine(r.inside, l).out]
           Solves(g, m) == g = [n \in 0 .. m |-> IF n = 0 THEN Empty ELSE After(g[n - 1], s[n])]
           U == {m \in Nat : \E g : Solves(g, m)}
<1> HIDE DEF Empty, After
<1>1. 0 \in U
  <2>1. Solves([n \in {0} |-> Empty], 0)
    OBVIOUS
  <2> QED BY <2>1
<1>2. ASSUME NEW m \in U PROVE m + 1 \in U
  <2>1. PICK g : Solves(g, m)
    OBVIOUS
  <2> DEFINE h == [n \in 0 .. m + 1 |-> IF n = m + 1 THEN After(g[m], s[m + 1]) ELSE g[n]]
  <2>2. \A n \in 0 .. m : h[n] = g[n]
    OBVIOUS
  <2>3. \A n \in 0 .. m : g[n] = IF n = 0 THEN Empty ELSE After(g[n - 1], s[n])
    BY <2>1
  <2>4. h[m + 1] = After(h[m], s[m + 1])
    BY <2>2
  <2>5. ASSUME NEW n \in 0 .. m + 1
        PROVE  h[n] = IF n = 0 THEN Empty ELSE After(h[n - 1], s[n])
    <3>1. CASE n = m + 1
      BY <2>4, <3>1
    <3>2. CASE n = 0
      BY <2>2, <2>3, <3>2
    <3>3. CASE n \in 1 .. m
      BY <2>2, <2>3, <3>3
    <3> QED BY <3>1, <3>2, <3>3
  <2>6. Solves(h, m + 1)
    <3>1. h = [n \in 0 .. m + 1 |-> h[n]]
      OBVIOUS
    <3> HIDE DEF h
    <3> QED BY <2>5, <3>1
  <2>7. \E g0 : Solves(g0, m + 1)
    <3> HIDE DEF Solves, h
    <3> QED BY <2>6
  <2>8. m + 1 \in Nat
    OBVIOUS
  <2> HIDE DEF Solves
  <2> QED BY <2>7, <2>8
<1>3. U = Nat
  <2> HIDE DEF U
  <2>1. U \in SUBSET Nat
    BY DEF U
  <2> QED BY <1>1, <1>2, <2>1, NatInductionSet
<1>4. \E g : Solves(g, Len(s))
  BY <1>3
<1>5. Solves(RedactedUpTo(s), Len(s))
  <2> DEFINE Pass(g, n) == LET r == RedactLine(g[n - 1].inside, s[n])
                           IN  [inside |-> r.inside, out |-> g[n - 1].out \o r.out]
             Rec(g) == g = [n \in 0 .. Len(s) |->
                              IF n = 0 THEN [inside |-> FALSE, out |-> << >>] ELSE Pass(g, n)]
  <2>1. RedactedUpTo(s) = CHOOSE g : Rec(g)
    BY ZenonT(30) DEF RedactedUpTo
  <2>2. \A g : Solves(g, Len(s)) <=> Rec(g)
    <3>1. \A g, n : Pass(g, n) = After(g[n - 1], s[n])
      BY ZenonT(30) DEF After
    <3> HIDE DEF Pass
    <3> QED BY ZenonT(30), <3>1 DEF Empty
  <2>3. \E g : Rec(g)
    <3> HIDE DEF Rec, Solves
    <3> QED BY <1>4, <2>2
  <2>4. Rec(CHOOSE g : Rec(g))
    <3> HIDE DEF Rec
    <3> QED BY <2>3
  <2> HIDE DEF Rec, Solves
  <2> QED BY <2>1, <2>2, <2>4
<1> DEFINE f == RedactedUpTo(s)
<1> HIDE DEF f
<1>6. f = [n \in 0 .. Len(s) |-> IF n = 0 THEN Empty ELSE After(f[n - 1], s[n])]
  BY <1>5 DEF f
<1>7. f[0] = Empty /\ \A n \in 1 .. Len(s) : f[n] = After(f[n - 1], s[n])
  BY <1>6
<1> QED BY <1>7 DEF f, Empty, After

LEMMA RedactedParts ==
  ASSUME NEW s \in Seq(LogKinds)
  PROVE  /\ RedactedUpTo(s)[0].inside = FALSE /\ RedactedUpTo(s)[0].out = << >>
         /\ \A n \in 1 .. Len(s) :
              /\ RedactedUpTo(s)[n].inside = RedactLine(RedactedUpTo(s)[n - 1].inside, s[n]).inside
              /\ RedactedUpTo(s)[n].out = RedactedUpTo(s)[n - 1].out
                                            \o RedactLine(RedactedUpTo(s)[n - 1].inside, s[n]).out
<1> DEFINE f == RedactedUpTo(s)
           a(n) == RedactLine(f[n - 1].inside, s[n]).inside
           b(n) == f[n - 1].out \o RedactLine(f[n - 1].inside, s[n]).out
<1>1. f[0] = [inside |-> FALSE, out |-> << >>] /\ \A n \in 1 .. Len(s) : f[n] = [inside |-> a(n), out |-> b(n)]
  BY RedactedUpToDef
<1> HIDE DEF f, a, b
<1>2. f[0].inside = FALSE /\ f[0].out = << >>
  BY <1>1
<1>3. ASSUME NEW n \in 1 .. Len(s) PROVE f[n].inside = a(n) /\ f[n].out = b(n)
  <2> DEFINE p == a(n)
             q == b(n)
  <2>1. f[n] = [inside |-> p, out |-> q]
    BY <1>1
  <2> HIDE DEF p, q
  <2>2. f[n].inside = p /\ f[n].out = q
    BY <2>1
  <2> QED BY <2>2 DEF p, q
<1> QED BY <1>2, <1>3 DEF f, a, b

(* The redactor is inside a key exactly when the list is, at every place.  *)
LEMMA RedactorKnowsTheKey ==
  ASSUME NEW s \in Seq(LogKinds), NEW n \in 0 .. Len(s)
  PROVE  /\ RedactedUpTo(s)[n].inside \in BOOLEAN
         /\ RedactedUpTo(s)[n].inside <=> InKeyAt(s, n)
<1> DEFINE f == RedactedUpTo(s)
<1>1. /\ f[0].inside = FALSE
      /\ \A k \in 1 .. Len(s) : f[k].inside = RedactLine(f[k - 1].inside, s[k]).inside
  BY RedactedParts
<1> HIDE DEF f
<1> DEFINE U == {k \in 0 .. Len(s) : f[k].inside \in BOOLEAN /\ (f[k].inside <=> InKeyAt(s, k))}
<1>2. 0 \in U
  <2>1. 0 \in 0 .. Len(s) /\ ~InKeyAt(s, 0)
    BY DEF InKeyAt
  <2> QED BY <1>1, <2>1
<1>3. ASSUME NEW k \in 0 .. Len(s), k \in U, k < Len(s) PROVE k + 1 \in U
  <2>1. k + 1 \in 1 .. Len(s) /\ (k + 1) - 1 = k /\ s[k + 1] \in LogKinds /\ k + 1 \in 0 .. Len(s)
    BY <1>3
  <2>2. f[k + 1].inside = RedactLine(f[k].inside, s[k + 1]).inside
    BY <1>1, <2>1
  <2>3. f[k].inside \in BOOLEAN /\ (f[k].inside <=> InKeyAt(s, k))
    BY <1>3
  <2> DEFINE b == f[k].inside
             l == s[k + 1]
             r == RedactLine(b, l).inside
  <2>4. r \in BOOLEAN /\ (r <=> IF b THEN l # "end" ELSE l = "begin")
    <3> HIDE DEF b, l
    <3> QED BY <2>1, <2>3, RedactedLine DEF b, l
  <2> HIDE DEF r
  <2>5. InKeyAt(s, k + 1) <=> (IF InKeyAt(s, k) THEN l # "end" ELSE l = "begin")
    <3>1. l \notin CutMarkers /\ k \in Nat
      BY <2>1 DEF LogKinds, LineKinds, CutMarkers
    <3> QED BY <3>1, KeyAtNext DEF CutMarkers
  <2>6. f[k + 1].inside = r
    BY <2>2 DEF r
  <2>7. r <=> InKeyAt(s, k + 1)
    BY <2>3, <2>4, <2>5
  <2> QED BY <2>1, <2>4, <2>6, <2>7
<1>4. 0 .. Len(s) \subseteq U
  <2> DEFINE m == Len(s)
  <2>1. m \in Nat
    OBVIOUS
  <2>2. 0 \in U /\ \A k \in 0 .. m : k \in U /\ k < m => k + 1 \in U
    <3> HIDE DEF U
    <3> QED BY <1>2, <1>3
  <2> HIDE DEF U, m
  <2>3. 0 .. m \subseteq U
    BY <2>1, <2>2, IntervalInduction
  <2> QED BY <2>3 DEF m
<1> QED BY <1>4 DEF f

(* What is left of a list whose keys begin holds no secret.                *)
LEMMA SanitizedIsShareable ==
  ASSUME NEW s \in Seq(LogKinds), KeysBegin(s)
  PROVE  Sanitized(s) \in Seq(Shareable)
<1> DEFINE f == RedactedUpTo(s)
<1>1. /\ f[0].out = << >>
      /\ \A k \in 1 .. Len(s) : f[k].out = f[k - 1].out \o RedactLine(f[k - 1].inside, s[k]).out
  BY RedactedParts
<1>2. \A k \in 0 .. Len(s) : f[k].inside \in BOOLEAN /\ (f[k].inside <=> InKeyAt(s, k))
  BY RedactorKnowsTheKey
<1> HIDE DEF f
<1> DEFINE U == {k \in 0 .. Len(s) : f[k].out \in Seq(Shareable)}
<1>3. 0 \in U
  <2>1. 0 \in 0 .. Len(s) /\ << >> \in Seq(Shareable)
    OBVIOUS
  <2> QED BY <1>1, <2>1
<1>4. ASSUME NEW k \in 0 .. Len(s), k \in U, k < Len(s) PROVE k + 1 \in U
  <2> DEFINE l == s[k + 1]
             b == f[k].inside
  <2>1. /\ k + 1 \in 1 .. Len(s) /\ (k + 1) - 1 = k /\ k + 1 \in 0 .. Len(s)
        /\ l \in LogKinds /\ b \in BOOLEAN
        /\ l \in {"body", "end"} => b
    BY <1>2, <1>4 DEF KeysBegin
  <2>2. f[k + 1].out = f[k].out \o RedactLine(b, l).out
    BY <1>1, <2>1
  <2>3. RedactLine(b, l).out = IF b THEN << >>
                               ELSE IF l \in {"begin", "secret"} THEN <<"redacted">> ELSE <<l>>
    <3> HIDE DEF b, l
    <3> QED BY <2>1, RedactedLine
  <2>4. ~b => l \in {"plain", "cut", "redacted", "begin", "secret"}
    BY <2>1 DEF LogKinds, LineKinds
  <2>5. RedactLine(b, l).out \in Seq(Shareable)
    <3> HIDE DEF b, l
    <3>1. CASE b
      BY <2>3, <3>1
    <3>2. CASE ~b /\ l \in {"begin", "secret"}
      BY <2>3, <3>2 DEF Shareable
    <3>3. CASE ~b /\ l \notin {"begin", "secret"}
      <4>1. l \in Shareable
        BY <2>4, <3>3 DEF Shareable
      <4> QED BY <2>3, <3>3, <4>1
    <3> QED BY <3>1, <3>2, <3>3
  <2>6. f[k].out \in Seq(Shareable)
    BY <1>4
  <2> DEFINE q == RedactLine(b, l).out
  <2>7. f[k + 1].out = f[k].out \o q /\ q \in Seq(Shareable)
    BY <2>2, <2>5
  <2> HIDE DEF q
  <2>8. f[k + 1].out \in Seq(Shareable)
    BY <2>6, <2>7
  <2> QED BY <2>1, <2>8
<1>5. 0 .. Len(s) \subseteq U
  <2> HIDE DEF U
  <2> QED BY <1>3, <1>4, IntervalInduction
<1> QED BY <1>5 DEF f, Sanitized

(* A list that holds no secret is left as it is.                           *)
LEMMA ShareableStays ==
  ASSUME NEW s \in Seq(Shareable)
  PROVE  Sanitized(s) = s
<1>1. s \in Seq(LogKinds)
  BY DEF Shareable, LogKinds, LineKinds
<1> DEFINE f == RedactedUpTo(s)
<1>2. /\ f[0].out = << >>
      /\ \A k \in 1 .. Len(s) : f[k].out = f[k - 1].out \o RedactLine(f[k - 1].inside, s[k]).out
  BY <1>1, RedactedParts
<1>3. \A k \in 0 .. Len(s) : f[k].inside \in BOOLEAN /\ ~f[k].inside
  <2>1. \A k \in 1 .. Len(s) : s[k] # "begin" /\ s[k] # "cutbegin"
    BY DEF Shareable
  <2>2. \A k \in 0 .. Len(s) : ~InKeyAt(s, k)
    BY <2>1 DEF InKeyAt
  <2> QED BY <1>1, <2>2, RedactorKnowsTheKey
<1> HIDE DEF f
<1> DEFINE U == {k \in 0 .. Len(s) : f[k].out = SubSeq(s, 1, k)}
<1>4. 0 \in U
  <2>1. 0 \in 0 .. Len(s) /\ SubSeq(s, 1, 0) = << >>
    OBVIOUS
  <2> QED BY <1>2, <2>1
<1>5. ASSUME NEW k \in 0 .. Len(s), k \in U, k < Len(s) PROVE k + 1 \in U
  <2> DEFINE l == s[k + 1]
             b == f[k].inside
  <2>1. /\ k + 1 \in 1 .. Len(s) /\ (k + 1) - 1 = k /\ k + 1 \in 0 .. Len(s)
        /\ l \in Shareable /\ l \in LogKinds /\ b \in BOOLEAN /\ ~b
    BY <1>1, <1>3, <1>5
  <2>2. f[k + 1].out = f[k].out \o RedactLine(b, l).out
    BY <1>2, <2>1
  <2>3. RedactLine(b, l).out = <<l>>
    <3> HIDE DEF b, l
    <3>1. RedactLine(b, l).out = IF b THEN << >>
                                 ELSE IF l \in {"begin", "secret"} THEN <<"redacted">> ELSE <<l>>
      BY <2>1, RedactedLine
    <3> QED BY <2>1, <3>1 DEF Shareable
  <2>4. SubSeq(s, 1, k + 1) = SubSeq(s, 1, k) \o <<l>>
    BY <1>5
  <2> QED BY <1>5, <2>1, <2>2, <2>3, <2>4
<1>6. 0 .. Len(s) \subseteq U
  <2> HIDE DEF U
  <2> QED BY <1>4, <1>5, IntervalInduction
<1>7. f[Len(s)].out = SubSeq(s, 1, Len(s))
  BY <1>6
<1> QED BY <1>7 DEF f, Sanitized

-----------------------------------------------------------------------------
(* The redactor of a stream is inside a key exactly when what its reader   *)
(* took is; what was passed on may be shown.                               *)
ReaderState ==
  /\ read \in [Streams -> Seq(LineKinds)]
  /\ redactor \in [Streams -> BOOLEAN]
  /\ \A s \in Streams : redactor[s] <=> InKey(read[s])
  /\ events \in Seq(Shareable)

(* The log at the run's path is the writer's until one with a cut line is  *)
(* replaced.                                                               *)
WriterState ==
  /\ writer = FALSE
  /\ logged \in Seq(Shareable)
  /\ attached \in BOOLEAN
  /\ attached => log["live"] = logged
  /\ ~attached => "cut" \in Elements(logged)

FilesState ==
  /\ log \in [{"old", "live"} -> Seq(LogKinds)]
  /\ KeysBegin(log["old"])
  /\ log["live"] \in Seq(Shareable)
  /\ cleaned => log["old"] \in Seq(Shareable)

(* A start is at one of the two files and goes on to the second only when  *)
(* the first may be shown.                                                 *)
StarterState ==
  /\ starter \in [at : 0 .. 2, samePid : BOOLEAN, taken : BOOLEAN, content : Seq(LogKinds)]
  /\ starter = NoStarter \/ starter.at \in {1, 2}
  /\ starter.at = 1 /\ starter.taken => starter.content = log["old"]
  /\ starter.at = 2 => log["old"] \in Seq(Shareable)
  /\ starter.at = 2 /\ starter.taken =>
       /\ starter.content \in Seq(Shareable)
       /\ "cut" \in Elements(starter.content) => "cut" \in Elements(logged)

HarmlessKept ==
  Len(Harmless(events)) + Len(Harmless(logged))
    = Len(Harmless(read["stdout"])) + Len(Harmless(read["stderr"]))

(* While no reader dropped a marker.                                       *)
LogIInv == ReaderState /\ WriterState /\ FilesState /\ StarterState /\ HarmlessKept

(* How many lines that say nothing there are.                              *)
LEMMA HarmlessCount ==
  ASSUME NEW p \in Seq(LogKinds)
  PROVE  /\ Len(Harmless(p)) \in Nat
         /\ \A l \in LogKinds :
              Len(Harmless(Append(p, l))) = Len(Harmless(p)) + IF l \in {"plain", "cut"} THEN 1 ELSE 0
<1> DEFINE H == {"plain", "cut"}
<1>1. Kept(p, H) \in Seq(LogKinds \cap H)
  BY KeptType
<1>2. ASSUME NEW l \in LogKinds
      PROVE  Len(Harmless(Append(p, l))) = Len(Harmless(p)) + IF l \in {"plain", "cut"} THEN 1 ELSE 0
  <2>1. Kept(Append(p, l), H) = Kept(p, H) \o (IF l \in H THEN <<l>> ELSE << >>)
    <3> HIDE DEF H
    <3> QED BY KeptAppend
  <2> DEFINE q == Kept(p, H)
  <2>2. Harmless(p) = q /\ Harmless(Append(p, l)) = q \o (IF l \in H THEN <<l>> ELSE << >>)
    BY <2>1 DEF Harmless
  <2>3. q \in Seq(LogKinds \cap H)
    BY <1>1
  <2> HIDE DEF q
  <2>4. Len(q \o <<l>>) = Len(q) + 1 /\ Len(q \o << >>) = Len(q) + 0
    BY <2>3
  <2> QED BY <2>2, <2>4
<1> QED BY <1>1, <1>2 DEF Harmless

LEMMA HarmlessTail ==
  ASSUME NEW p \in Seq(LogKinds), p # << >>
  PROVE  Len(Harmless(p)) = Len(Harmless(Tail(p))) + IF Head(p) \in {"plain", "cut"} THEN 1 ELSE 0
<1> DEFINE H == {"plain", "cut"}
           q == Kept(Tail(p), H)
<1>1. Tail(p) \in Seq(LogKinds)
  OBVIOUS
<1>2. q \in Seq(LogKinds \cap H)
  BY <1>1, KeptType
<1>3. Kept(p, H) = (IF Head(p) \in H THEN <<Head(p)>> ELSE << >>) \o q
  BY KeptHead
<1> HIDE DEF q
<1>4. Len(<<Head(p)>> \o q) = Len(q) + 1 /\ Len(<< >> \o q) = Len(q) + 0
  BY <1>2
<1>5. Harmless(p) = Kept(p, H) /\ Harmless(Tail(p)) = q
  BY DEF Harmless, q
<1> QED BY <1>3, <1>4, <1>5

(* A reader takes a line and passes on what its redactor leaves.           *)
LEMMA ReadsKeeps == LogIInv /\ (\E s \in Streams, l \in LineKinds : Reads(s, l)) => LogIInv'
<1> SUFFICES ASSUME LogIInv, NEW s \in Streams, NEW l \in LineKinds, Reads(s, l) PROVE LogIInv'
  OBVIOUS
<1> DEFINE r == RedactLine(redactor[s], l)
<1>1. /\ (l \in {"body", "end"}) <=> InKey(read[s])
      /\ redactor' = [redactor EXCEPT ![s] = r.inside] /\ events' = events \o r.out
      /\ read' = [read EXCEPT ![s] = Append(@, l)]
      /\ UNCHANGED <<writer, logged, log, attached, starts, starter, temps, cleaned>>
  <2>1. l # "cutend"
    BY DEF LineKinds
  <2> QED BY <2>1 DEF Reads, RedactorsAfter
<1>2. /\ read \in [Streams -> Seq(LineKinds)] /\ redactor \in [Streams -> BOOLEAN]
      /\ events \in Seq(Shareable) /\ l \in LogKinds
      /\ \A t \in Streams : redactor[t] <=> InKey(read[t])
  BY DEF LogIInv, ReaderState, LogKinds
<1>3. /\ r.inside \in BOOLEAN
      /\ r.inside <=> IF redactor[s] THEN l # "end" ELSE l = "begin"
      /\ r.out = IF redactor[s] THEN << >> ELSE IF l \in {"begin", "secret"} THEN <<"redacted">> ELSE <<l>>
  <2> DEFINE b == redactor[s]
  <2>1. b \in BOOLEAN
    BY <1>2
  <2> HIDE DEF b
  <2>2. /\ RedactLine(b, l).inside \in BOOLEAN
        /\ RedactLine(b, l).inside <=> IF b THEN l # "end" ELSE l = "begin"
        /\ RedactLine(b, l).out = IF b THEN << >> ELSE IF l \in {"begin", "secret"} THEN <<"redacted">> ELSE <<l>>
    BY <1>2, <2>1, RedactedLine
  <2> QED BY <2>2 DEF b
<1> DEFINE in == r.inside
           out == r.out
<1>4. /\ in \in BOOLEAN /\ (in <=> IF redactor[s] THEN l # "end" ELSE l = "begin")
      /\ out = (IF redactor[s] THEN << >> ELSE IF l \in {"begin", "secret"} THEN <<"redacted">> ELSE <<l>>)
      /\ redactor' = [redactor EXCEPT ![s] = in] /\ events' = events \o out
  BY <1>1, <1>3
<1> HIDE DEF r, in, out
<1>5. redactor[s] <=> l \in {"body", "end"}
  BY <1>1, <1>2
<1>6. \/ redactor[s] /\ events' = events
      \/ ~redactor[s] /\ l \in {"begin", "secret"} /\ events' = Append(events, "redacted")
      \/ ~redactor[s] /\ l \in {"plain", "cut"} /\ events' = Append(events, l)
  BY <1>2, <1>4, <1>5 DEF LineKinds
<1>7. events' \in Seq(Shareable)
  <2>1. "redacted" \in Shareable /\ (l \in {"plain", "cut"} => l \in Shareable)
    BY DEF Shareable
  <2>2. CASE redactor[s]
    BY <1>2, <1>6, <2>2
  <2> DEFINE D == Shareable
  <2> HIDE DEF D
  <2>3. \A q \in Seq(D), e \in D : Append(q, e) \in Seq(D)
    OBVIOUS
  <2> QED BY <1>2, <1>6, <2>1, <2>2, <2>3 DEF D
<1>8. \A t \in Streams : /\ read'[t] = IF t = s THEN Append(read[s], l) ELSE read[t]
                         /\ t = s => (redactor'[t] <=> in)
                         /\ t # s => redactor'[t] = redactor[t]
  BY <1>1, <1>2, <1>4
<1>9. read' \in [Streams -> Seq(LineKinds)] /\ redactor' \in [Streams -> BOOLEAN]
  BY <1>1, <1>2, <1>4
<1>10. ASSUME NEW t \in Streams PROVE redactor'[t] <=> InKey(read'[t])
  <2>1. CASE t # s
    BY <1>2, <1>8, <2>1
  <2>2. CASE t = s
    <3>1. read[s] \in Seq(LineKinds) /\ read'[t] = Append(read[s], l)
      BY <1>2, <1>8, <2>2
    <3>2. InKey(read'[t]) <=> IF InKey(read[s]) THEN l # "end" ELSE l = "begin"
      <4>1. l \in ReadKinds /\ read[s] \in Seq(ReadKinds) /\ l # "cutbegin" /\ l # "cutend"
        BY <3>1 DEF ReadKinds, LineKinds
      <4> QED BY <3>1, <4>1, KeyGrows
    <3> QED BY <1>2, <1>4, <1>8, <2>2, <3>2
  <2> QED BY <2>1, <2>2
<1>11. ReaderState'
  BY <1>7, <1>9, <1>10 DEF ReaderState
<1>12. HarmlessKept'
  <2> DEFINE k == IF l \in {"plain", "cut"} THEN 1 ELSE 0
  <2>1. /\ events \in Seq(LogKinds) /\ logged' = logged /\ read[s] \in Seq(LogKinds)
        /\ read["stdout"] \in Seq(LogKinds) /\ read["stderr"] \in Seq(LogKinds)
        /\ logged \in Seq(LogKinds) /\ "redacted" \in LogKinds
    BY <1>1, <1>2 DEF Shareable, LogKinds, LineKinds, Streams, LogIInv, WriterState
  <2>2. Len(Harmless(events')) = Len(Harmless(events)) + k
    <3>1. Len(Harmless(events)) \in Nat
      BY <2>1, HarmlessCount
    <3>2. Len(Harmless(Append(events, "redacted"))) = Len(Harmless(events)) + 0
      <4>1. Len(Harmless(Append(events, "redacted")))
              = Len(Harmless(events)) + IF "redacted" \in {"plain", "cut"} THEN 1 ELSE 0
        BY <2>1, HarmlessCount
      <4> QED BY <4>1
    <3>3. Len(Harmless(Append(events, l))) = Len(Harmless(events)) + k
      BY <1>2, <2>1, HarmlessCount
    <3>4. ~(l \in {"plain", "cut"}) => k = 0
      OBVIOUS
    <3>5. l \in {"body", "end", "begin", "secret"} => ~(l \in {"plain", "cut"})
      OBVIOUS
    <3> HIDE DEF k
    <3>6. CASE redactor[s]
      BY <1>5, <1>6, <3>1, <3>4, <3>5, <3>6
    <3>7. CASE ~redactor[s] /\ l \in {"begin", "secret"}
      BY <1>6, <3>2, <3>4, <3>5, <3>7
    <3>8. CASE ~redactor[s] /\ l \in {"plain", "cut"}
      BY <1>6, <3>3, <3>8
    <3> QED BY <1>6, <3>6, <3>7, <3>8
  <2>3. Len(Harmless(Append(read[s], l))) = Len(Harmless(read[s])) + k
    BY <1>2, <2>1, HarmlessCount
  <2>4. s = "stdout" \/ s = "stderr"
    BY DEF Streams
  <2>5. /\ read'["stdout"] = IF s = "stdout" THEN Append(read[s], l) ELSE read["stdout"]
        /\ read'["stderr"] = IF s = "stderr" THEN Append(read[s], l) ELSE read["stderr"]
    BY <1>8 DEF Streams
  <2>6. /\ Len(Harmless(events)) \in Nat /\ Len(Harmless(logged)) \in Nat
        /\ Len(Harmless(read["stdout"])) \in Nat /\ Len(Harmless(read["stderr"])) \in Nat
    BY <2>1, HarmlessCount
  <2>7. k \in Nat
    OBVIOUS
  <2>8. /\ Len(Harmless(read'["stdout"])) = Len(Harmless(read["stdout"])) + (IF s = "stdout" THEN k ELSE 0)
        /\ Len(Harmless(read'["stderr"])) = Len(Harmless(read["stderr"])) + (IF s = "stderr" THEN k ELSE 0)
    BY <2>3, <2>5, <2>6
  <2> HIDE DEF k
  <2>9. Len(Harmless(events)) + Len(Harmless(logged))
          = Len(Harmless(read["stdout"])) + Len(Harmless(read["stderr"]))
    BY DEF LogIInv, HarmlessKept
  <2>10. Len(Harmless(events')) + Len(Harmless(logged'))
           = Len(Harmless(read'["stdout"])) + Len(Harmless(read'["stderr"]))
    <3> DEFINE e == Len(Harmless(events))
               g == Len(Harmless(logged))
               o == Len(Harmless(read["stdout"]))
               d == Len(Harmless(read["stderr"]))
    <3>1. e \in Nat /\ g \in Nat /\ o \in Nat /\ d \in Nat /\ e + g = o + d
      BY <2>6, <2>9
    <3>2. Len(Harmless(logged')) = g /\ Len(Harmless(events')) = e + k
      BY <2>1, <2>2
    <3>3. s = "stdout" => Len(Harmless(read'["stdout"])) = o + k /\ Len(Harmless(read'["stderr"])) = d
      BY <2>6, <2>8
    <3>4. s = "stderr" => Len(Harmless(read'["stdout"])) = o /\ Len(Harmless(read'["stderr"])) = d + k
      BY <2>6, <2>8
    <3> HIDE DEF e, g, o, d
    <3> QED BY <2>4, <2>7, <3>1, <3>2, <3>3, <3>4
  <2> QED BY <2>10 DEF HarmlessKept
<1>13. WriterState' /\ FilesState' /\ StarterState'
  BY <1>1 DEF LogIInv, WriterState, FilesState, StarterState
<1> QED BY <1>11, <1>12, <1>13 DEF LogIInv

(* The writer adds the line to what it was handed, and to the file that is *)
(* its own; a shareable line leaves its redactor outside a key.            *)
LEMMA WritesLineKeeps == LogIInv /\ WritesLine => LogIInv'
<1> SUFFICES ASSUME LogIInv, WritesLine PROVE LogIInv'
  OBVIOUS
<1> DEFINE l == Head(events)
           r == RedactLine(writer, l)
<1>1. /\ events # << >> /\ events \in Seq(Shareable) /\ logged \in Seq(Shareable) /\ writer = FALSE
      /\ log \in [{"old", "live"} -> Seq(LogKinds)] /\ attached \in BOOLEAN
  BY DEF WritesLine, LogIInv, ReaderState, WriterState, FilesState
<1>2. l \in Shareable /\ l \in LogKinds /\ Tail(events) \in Seq(Shareable)
  BY <1>1 DEF Shareable, LogKinds, LineKinds
<1>3. r.inside = FALSE /\ r.out = <<l>>
  <2> HIDE DEF l
  <2>1. l # "begin" /\ l # "secret" /\ l \notin CutMarkers
    BY <1>2 DEF Shareable, CutMarkers
  <2> QED BY <1>1, <2>1 DEF RedactLine
<1>4. /\ writer' = FALSE /\ logged' = logged \o <<l>> /\ events' = Tail(events)
      /\ log' = IF attached THEN [log EXCEPT !["live"] = @ \o <<l>>] ELSE log
      /\ UNCHANGED <<read, redactor, attached, starts, starter, temps, cleaned>>
  BY <1>3 DEF WritesLine
<1> HIDE DEF r, l
<1>5. logged' = Append(logged, l) /\ logged' \in Seq(Shareable)
  BY <1>1, <1>2, <1>4
<1>6. /\ log'["old"] = log["old"] /\ log' \in [{"old", "live"} -> Seq(LogKinds)]
      /\ log'["live"] = IF attached THEN log["live"] \o <<l>> ELSE log["live"]
  BY <1>1, <1>2, <1>4
<1>7. "cut" \in Elements(logged) => "cut" \in Elements(logged')
  <2>1. \A i \in 1 .. Len(logged) : i \in 1 .. Len(logged') /\ logged'[i] = logged[i]
    BY <1>1, <1>2, <1>5
  <2> QED BY <2>1 DEF Elements
<1>8. ReaderState'
  BY <1>2, <1>4 DEF LogIInv, ReaderState
<1>9. WriterState'
  BY <1>4, <1>5, <1>6, <1>7 DEF LogIInv, WriterState
<1>10. FilesState'
  <2>1. log["live"] \in Seq(Shareable) /\ log'["live"] \in Seq(Shareable)
    BY <1>2, <1>6 DEF LogIInv, FilesState
  <2> QED BY <1>4, <1>6, <2>1 DEF LogIInv, FilesState
<1>11. StarterState'
  BY <1>4, <1>6, <1>7 DEF LogIInv, StarterState
<1>12. HarmlessKept'
  <2>1. events \in Seq(LogKinds) /\ logged \in Seq(LogKinds)
    BY <1>1 DEF Shareable, LogKinds, LineKinds
  <2> DEFINE k == IF l \in {"plain", "cut"} THEN 1 ELSE 0
             e == Len(Harmless(events))
             t == Len(Harmless(events'))
             g == Len(Harmless(logged))
             h == Len(Harmless(logged'))
  <2>2. e = t + k
    BY <1>1, <1>4, <2>1, HarmlessTail DEF l
  <2>3. h = g + k
    BY <1>2, <1>5, <2>1, HarmlessCount
  <2>4. Tail(events) \in Seq(LogKinds)
    BY <1>1, <2>1
  <2>5. k \in Nat /\ t \in Nat /\ g \in Nat
    BY <1>4, <2>1, <2>4, HarmlessCount
  <2>6. e + g = Len(Harmless(read["stdout"])) + Len(Harmless(read["stderr"]))
    BY DEF LogIInv, HarmlessKept
  <2> HIDE DEF k, e, t, g, h
  <2>7. t + h = e + g
    BY <2>2, <2>3, <2>5
  <2> QED BY <1>4, <2>6, <2>7 DEF HarmlessKept, t, h
<1> QED BY <1>8, <1>9, <1>10, <1>11, <1>12 DEF LogIInv

(* What a start does leaves the run alone but for its file.                *)
LEMMA RunLeftAlone ==
  ASSUME LogIInv, UNCHANGED <<read, redactor, events, logged>>
  PROVE  ReaderState' /\ HarmlessKept'
BY DEF LogIInv, ReaderState, HarmlessKept

(* The next file is opened, if its temporary name is free.                 *)
LEMMA OpenedTemp ==
  ASSUME NEW k \in {1, 2}, NEW same \in BOOLEAN, NEW others, OpensTemp(k, same, others)
  PROVE  /\ starter' \in [at : 0 .. 2, samePid : BOOLEAN, taken : BOOLEAN, content : Seq(LogKinds)]
         /\ starter' = NoStarter \/ (starter'.at = k /\ ~starter'.taken)
<1>1. << >> \in Seq(LogKinds)
  OBVIOUS
<1>2. CASE starter' = NoStarter
  BY <1>1, <1>2 DEF NoStarter
<1>3. CASE starter' = [at |-> k, samePid |-> same, taken |-> FALSE, content |-> << >>]
  BY <1>1, <1>3
<1> QED BY <1>2, <1>3 DEF OpensTemp

LEMMA StartAgainKeeps == LogIInv /\ (\E same \in BOOLEAN : StartAgain(same)) => LogIInv'
<1> SUFFICES ASSUME LogIInv, NEW same \in BOOLEAN, StartAgain(same) PROVE LogIInv'
  OBVIOUS
<1>1. /\ UNCHANGED <<read, redactor, events, writer, logged, log, attached, cleaned>>
      /\ OpensTemp(1, same, temps)
  BY DEF StartAgain
<1>2. /\ starter' \in [at : 0 .. 2, samePid : BOOLEAN, taken : BOOLEAN, content : Seq(LogKinds)]
      /\ starter' = NoStarter \/ (starter'.at = 1 /\ ~starter'.taken)
  BY <1>1, OpenedTemp
<1>3. StarterState'
  BY <1>2 DEF StarterState, NoStarter
<1> QED BY <1>1, <1>3, RunLeftAlone DEF LogIInv, WriterState, FilesState

LEMMA StarterStopsKeeps == LogIInv /\ (StarterKilled \/ PassFails) => LogIInv'
<1> SUFFICES ASSUME LogIInv, StarterKilled \/ PassFails PROVE LogIInv'
  OBVIOUS
<1>1. /\ UNCHANGED <<read, redactor, events, writer, logged, log, attached, cleaned>>
      /\ starter' = NoStarter
  BY DEF StarterKilled, PassFails
<1>2. << >> \in Seq(LogKinds)
  OBVIOUS
<1>3. StarterState'
  BY <1>1, <1>2 DEF StarterState, NoStarter
<1> QED BY <1>1, <1>3, RunLeftAlone DEF LogIInv, WriterState, FilesState

(* The start reads the file it is at.                                      *)
LEMMA ReadsFileKeeps == LogIInv /\ ReadsFile => LogIInv'
<1> SUFFICES ASSUME LogIInv, ReadsFile PROVE LogIInv'
  OBVIOUS
<1> DEFINE c == log[LogFiles[starter.at]]
<1>1. /\ UNCHANGED <<read, redactor, events, writer, logged, log, attached, cleaned>>
      /\ starter' = [starter EXCEPT !.taken = TRUE, !.content = c] /\ starter # NoStarter
  BY DEF ReadsFile
<1>2. /\ starter \in [at : 0 .. 2, samePid : BOOLEAN, taken : BOOLEAN, content : Seq(LogKinds)]
      /\ log \in [{"old", "live"} -> Seq(LogKinds)]
      /\ attached \in BOOLEAN
  BY DEF LogIInv, StarterState, FilesState, WriterState
<1>3. /\ starter.at = 1 => c = log["old"] /\ c \in Seq(LogKinds)
      /\ starter.at = 2 => c = log["live"] /\ c \in Seq(LogKinds)
  BY <1>2 DEF LogFiles
<1>4. starter.at \in {1, 2}
  BY DEF LogIInv, StarterState, ReadsFile
<1> HIDE DEF c
<1>5. /\ starter' \in [at : 0 .. 2, samePid : BOOLEAN, taken : BOOLEAN, content : Seq(LogKinds)]
      /\ starter'.at = starter.at /\ starter'.content = c
  BY <1>1, <1>2, <1>3, <1>4
<1>6. starter.at = 2 => c \in Seq(Shareable) /\ ("cut" \in Elements(c) => "cut" \in Elements(logged))
  BY <1>2, <1>3 DEF LogIInv, FilesState, WriterState
<1>7. StarterState'
  BY <1>1, <1>3, <1>4, <1>5, <1>6 DEF LogIInv, StarterState
<1> QED BY <1>1, <1>5, <1>7, RunLeftAlone DEF LogIInv, WriterState, FilesState

(* The file is replaced, if something changed, by what may be shown of it. *)
LEMMA ReplacesFileKeeps == LogIInv /\ ReplacesFile => LogIInv'
<1> SUFFICES ASSUME LogIInv, ReplacesFile PROVE LogIInv'
  OBVIOUS
<1> DEFINE c == starter.content
           f == LogFiles[starter.at]
<1>1. /\ UNCHANGED <<read, redactor, events, writer, logged, starts>> /\ starter.taken
      /\ IF Changed(c)
         THEN /\ log' = [log EXCEPT ![f] = Sanitized(c)]
              /\ attached' = (attached /\ f # "live")
         ELSE UNCHANGED <<log, attached>>
      /\ IF starter.at = 2
         THEN starter' = NoStarter /\ temps' = temps \ {starter.at} /\ cleaned' = TRUE
         ELSE OpensTemp(starter.at + 1, starter.samePid, temps \ {starter.at}) /\ UNCHANGED cleaned
  BY DEF ReplacesFile, LogFiles
<1>2. /\ starter \in [at : 0 .. 2, samePid : BOOLEAN, taken : BOOLEAN, content : Seq(LogKinds)]
      /\ log \in [{"old", "live"} -> Seq(LogKinds)] /\ starter.at \in {1, 2}
      /\ c \in Seq(LogKinds) /\ starter.samePid \in BOOLEAN /\ attached \in BOOLEAN
      /\ log["live"] \in Seq(Shareable) /\ KeysBegin(log["old"])
      /\ logged \in Seq(Shareable) /\ writer = FALSE
  BY <1>1 DEF LogIInv, StarterState, FilesState, WriterState, NoStarter
<1> HIDE DEF c, f
<1>3. Seq(Shareable) \subseteq Seq(LogKinds) /\ \A q \in Seq(Shareable) : KeysBegin(q)
  <2>1. Shareable \subseteq LogKinds
    BY DEF Shareable, LogKinds, LineKinds
  <2>2. ASSUME NEW q \in Seq(Shareable) PROVE KeysBegin(q)
    <3>1. \A n \in 1 .. Len(q) : q[n] \notin {"body", "end", "cutend"}
      BY DEF Shareable
    <3> QED BY <3>1 DEF KeysBegin
  <2> QED BY <2>1, <2>2
<1>4. ~Changed(c) => Sanitized(c) = c /\ "cut" \notin Elements(c)
  BY <1>2 DEF Changed, ToSet, Elements
<1>5. CASE starter.at = 1
  <2>1. f = "old" /\ c = log["old"]
    BY <1>1, <1>5 DEF f, c, LogFiles, LogIInv, StarterState
  <2>2. Sanitized(c) \in Seq(Shareable)
    BY <1>2, <2>1, SanitizedIsShareable
  <2>3. /\ log'["live"] = log["live"] /\ log'["old"] \in Seq(Shareable)
        /\ log' \in [{"old", "live"} -> Seq(LogKinds)] /\ (attached' <=> attached) /\ attached' \in BOOLEAN
    <3>1. CASE Changed(c)
      <4> DEFINE d == Sanitized(c)
      <4>1. log' = [log EXCEPT !["old"] = d] /\ d \in Seq(Shareable) /\ d \in Seq(LogKinds)
        BY <1>1, <1>3, <2>1, <2>2, <3>1
      <4> HIDE DEF d
      <4>2. attached' = (attached /\ "old" # "live")
        BY <1>1, <2>1, <3>1
      <4>3. "old" # "live"
        OBVIOUS
      <4>4. (attached' <=> attached) /\ attached' \in BOOLEAN
        BY <1>2, <4>2, <4>3
      <4> QED BY <1>2, <4>1, <4>4
    <3>2. CASE ~Changed(c)
      BY <1>1, <1>2, <1>4, <2>1, <2>2, <3>2
    <3> QED BY <3>1, <3>2
  <2>4. /\ starter' \in [at : 0 .. 2, samePid : BOOLEAN, taken : BOOLEAN, content : Seq(LogKinds)]
        /\ starter' = NoStarter \/ (starter'.at = 2 /\ ~starter'.taken)
        /\ cleaned' = cleaned
    <3>1. OpensTemp(2, starter.samePid, temps \ {1}) /\ cleaned' = cleaned
      BY <1>1, <1>5
    <3> QED BY <1>2, <3>1, OpenedTemp
  <2>5. StarterState'
    BY <2>3, <2>4 DEF StarterState, NoStarter
  <2>6. FilesState'
    BY <1>2, <1>3, <2>3 DEF FilesState
  <2>7. WriterState'
    BY <1>1, <1>2, <2>3 DEF LogIInv, WriterState
  <2> QED BY <1>1, <2>5, <2>6, <2>7, RunLeftAlone DEF LogIInv
<1>6. CASE starter.at = 2
  <2>1. /\ f = "live" /\ c \in Seq(Shareable) /\ log["old"] \in Seq(Shareable)
        /\ "cut" \in Elements(c) => "cut" \in Elements(logged)
    BY <1>1, <1>6 DEF f, c, LogFiles, LogIInv, StarterState
  <2>2. Sanitized(c) = c
    BY <2>1, ShareableStays
  <2>3. starter' = NoStarter /\ cleaned' = TRUE
    BY <1>1, <1>6
  <2>4. << >> \in Seq(LogKinds)
    OBVIOUS
  <2>5. /\ log'["old"] = log["old"] /\ log'["live"] \in Seq(Shareable)
        /\ log' \in [{"old", "live"} -> Seq(LogKinds)] /\ attached' \in BOOLEAN
        /\ attached' => attached /\ log'["live"] = log["live"]
        /\ ~attached' => ~attached \/ "cut" \in Elements(logged)
    <3>1. CASE Changed(c)
      <4>1. "cut" \in Elements(c)
        BY <2>2, <3>1 DEF Changed, ToSet, Elements
      <4>2. log' = [log EXCEPT !["live"] = c]
        BY <1>1, <2>1, <2>2, <3>1
      <4>3. attached' = (attached /\ "live" # "live")
        BY <1>1, <2>1, <3>1
      <4>4. attached' \in BOOLEAN /\ ~attached'
        BY <4>3
      <4> QED BY <1>2, <2>1, <4>1, <4>2, <4>4
    <3>2. CASE ~Changed(c)
      BY <1>1, <1>2, <3>2
    <3> QED BY <3>1, <3>2
  <2>6. StarterState'
    BY <2>3, <2>4 DEF StarterState, NoStarter
  <2>7. FilesState'
    BY <1>2, <2>1, <2>5 DEF FilesState
  <2>8. WriterState'
    BY <1>1, <1>2, <2>5 DEF LogIInv, WriterState
  <2> QED BY <1>1, <2>6, <2>7, <2>8, RunLeftAlone DEF LogIInv
<1> QED BY <1>2, <1>5, <1>6

(* A step whose reader drops no marker keeps what holds without one.       *)
LEMMA LogIInvStep == LogIInv /\ [LogNext]_logVars /\ ~MarkerCutOff' => LogIInv'
<1> SUFFICES ASSUME LogIInv, [LogNext]_logVars, ~MarkerCutOff' PROVE LogIInv'
  OBVIOUS
<1>1. CASE UNCHANGED logVars
  BY <1>1 DEF logVars, LogIInv, ReaderState, WriterState, FilesState, StarterState, HarmlessKept
<1>2. ASSUME NEW s \in Streams, NEW l \in LineKinds \cup CutMarkers, Reads(s, l) PROVE LogIInv'
  <2>1. CASE l \in LineKinds
    BY <1>2, <2>1, ReadsKeeps
  <2>2. CASE l \in CutMarkers
    <3>1. read[s] \in Seq(LineKinds) /\ read' = [read EXCEPT ![s] = Append(read[s], l)] /\ s \in DOMAIN read
      BY <1>2 DEF Reads, LogIInv, ReaderState
    <3>2. read'[s] = Append(read[s], l)
      BY <3>1
    <3>3. Len(read'[s]) \in DOMAIN read'[s] /\ read'[s][Len(read'[s])] = l
      BY <3>1, <3>2
    <3> QED BY <2>2, <3>3 DEF MarkerCutOff, ToSet
  <2> QED BY <1>2, <2>1, <2>2
<1> QED BY <1>1, <1>2, WritesLineKeeps, StartAgainKeeps, StarterStopsKeeps, ReadsFileKeeps,
           ReplacesFileKeeps DEF LogNext

-----------------------------------------------------------------------------
(* What holds whatever the readers dropped: of an older log, and of what a *)
(* start does to it.                                                       *)
OldLogState ==
  /\ DOMAIN log = {"old", "live"}
  /\ log["old"] \in Seq(LogKinds) /\ KeysBegin(log["old"])
  /\ cleaned => log["old"] \in Seq(Shareable)
  /\ DOMAIN starter = {"at", "samePid", "taken", "content"}
  /\ starter = NoStarter \/ starter.at \in {1, 2}
  /\ starter.at = 1 /\ starter.taken => starter.content = log["old"]
  /\ starter.at = 2 => log["old"] \in Seq(Shareable)

LEMMA OldLogStep == OldLogState /\ [LogNext]_logVars => OldLogState'
<1> SUFFICES ASSUME OldLogState, [LogNext]_logVars PROVE OldLogState'
  OBVIOUS
<1>1. ASSUME log'["old"] = log["old"], DOMAIN log' = DOMAIN log, UNCHANGED <<starter, cleaned>>
      PROVE  OldLogState'
  BY <1>1 DEF OldLogState
<1>2. CASE UNCHANGED logVars
  BY <1>1, <1>2 DEF logVars
<1>3. ASSUME NEW s \in Streams, NEW l \in LineKinds \cup CutMarkers, Reads(s, l) PROVE OldLogState'
  BY <1>1, <1>3 DEF Reads
<1>4. CASE WritesLine
  <2>1. PICK d : log' = [log EXCEPT !["live"] = d] \/ log' = log
    BY <1>4 DEF WritesLine
  <2>2. log'["old"] = log["old"] /\ DOMAIN log' = DOMAIN log
    BY <2>1 DEF OldLogState
  <2> QED BY <1>1, <1>4, <2>2 DEF WritesLine
<1>5. ASSUME NEW same \in BOOLEAN, StartAgain(same) PROVE OldLogState'
  <2>1. /\ UNCHANGED <<log, cleaned>>
        /\ \/ starter' = NoStarter
           \/ starter' = [at |-> 1, samePid |-> same, taken |-> FALSE, content |-> << >>]
    BY <1>5 DEF StartAgain, OpensTemp
  <2> QED BY <2>1 DEF OldLogState, NoStarter
<1>6. CASE StarterKilled \/ PassFails
  <2>1. UNCHANGED <<log, cleaned>> /\ starter' = NoStarter
    BY <1>6 DEF StarterKilled, PassFails
  <2> QED BY <2>1 DEF OldLogState, NoStarter
<1>7. CASE ReadsFile
  <2> DEFINE c == log[LogFiles[starter.at]]
  <2>1. /\ UNCHANGED <<log, cleaned>> /\ starter # NoStarter
        /\ starter' = [starter EXCEPT !.taken = TRUE, !.content = c]
    BY <1>7 DEF ReadsFile
  <2>2. starter.at = 1 => c = log["old"]
    BY DEF LogFiles
  <2> HIDE DEF c
  <2>3. /\ starter'.at = starter.at /\ starter'.content = c
        /\ DOMAIN starter' = {"at", "samePid", "taken", "content"}
    BY <2>1 DEF OldLogState
  <2> QED BY <2>1, <2>2, <2>3 DEF OldLogState
<1>8. CASE ReplacesFile
  <2> DEFINE c == starter.content
             d == Sanitized(c)
             f == LogFiles[starter.at]
  <2>1. /\ starter.taken
        /\ (Changed(c) /\ log' = [log EXCEPT ![f] = d]) \/ (~Changed(c) /\ log' = log)
        /\ IF starter.at = 2
           THEN starter' = NoStarter /\ cleaned' = TRUE
           ELSE /\ \/ starter' = NoStarter
                   \/ starter' = [at |-> starter.at + 1, samePid |-> starter.samePid, taken |-> FALSE,
                                  content |-> << >>]
                /\ cleaned' = cleaned
    BY <1>8 DEF ReplacesFile, LogFiles, OpensTemp
  <2>2. starter.at \in {1, 2}
    BY <2>1 DEF OldLogState, NoStarter
  <2>3. ~Changed(c) => d = c
    BY DEF Changed
  <2>4. starter.at = 1 => f = "old" /\ c = log["old"]
    BY <2>1 DEF LogFiles, OldLogState
  <2>5. starter.at = 2 => f = "live" /\ log["old"] \in Seq(Shareable)
    BY <2>1 DEF LogFiles, OldLogState
  <2>6. starter.at = 1 => d \in Seq(Shareable)
    BY <2>4, SanitizedIsShareable DEF OldLogState
  <2> HIDE DEF c, d, f
  <2>7. DOMAIN log' = {"old", "live"} /\ log'["old"] \in Seq(Shareable)
    BY <2>1, <2>2, <2>3, <2>4, <2>5, <2>6 DEF OldLogState
  <2>8. \A q \in Seq(Shareable) : q \in Seq(LogKinds) /\ KeysBegin(q)
    <3>1. Shareable \subseteq LogKinds
      BY DEF Shareable, LogKinds, LineKinds
    <3>2. ASSUME NEW q \in Seq(Shareable) PROVE KeysBegin(q)
      <4>1. \A n \in 1 .. Len(q) : q[n] \notin {"body", "end", "cutend"}
        BY DEF Shareable
      <4> QED BY <4>1 DEF KeysBegin
    <3> QED BY <3>1, <3>2
  <2>9. \/ starter' = NoStarter
        \/ starter' = [at |-> 2, samePid |-> starter.samePid, taken |-> FALSE, content |-> << >>]
    BY <2>1, <2>2
  <2> QED BY <2>7, <2>8, <2>9 DEF OldLogState, NoStarter
<1> QED BY <1>2, <1>3, <1>4, <1>5, <1>6, <1>7, <1>8 DEF LogNext

-----------------------------------------------------------------------------
(* The run's own file until a cut line is in it: a key whose first marker  *)
(* a reader dropped comes after the mark of that line, on every way to the *)
(* file.                                                                   *)
CutLogged == "cut" \in Elements(logged)

LiveState ==
  /\ read \in [Streams -> Seq(ReadKinds)]
  /\ redactor \in [Streams -> BOOLEAN]
  /\ events \in Seq(LogKinds)
  /\ writer \in BOOLEAN /\ logged \in Seq(LogKinds)
  /\ attached \in BOOLEAN /\ (attached => log["live"] = logged)
  /\ \A s \in Streams : InKey(read[s]) => redactor[s] \/ CutLogged \/ "cut" \in Elements(events)
  /\ ~CutLogged =>
       /\ writer = FALSE /\ attached /\ logged \in Seq(Shareable)
       /\ \A n \in 1 .. Len(events) :
            events[n] \notin Shareable => \E m \in 1 .. n - 1 : events[m] = "cut"
       /\ starter.at = 2 /\ starter.taken =>
            starter.content \in Seq(Shareable) /\ "cut" \notin Elements(starter.content)

(* What a redactor makes of any line a reader takes.                       *)
LEMMA RedactedReading ==
  ASSUME NEW inside \in BOOLEAN, NEW l \in ReadKinds
  PROVE  /\ RedactLine(inside, l).inside \in BOOLEAN
         /\ RedactLine(inside, l).inside <=> IF inside THEN l # "end" ELSE l = "begin"
         /\ RedactLine(inside, l).out = IF inside THEN << >>
                                        ELSE IF l \in {"begin", "secret"} THEN <<"redacted">>
                                        ELSE IF l \in CutMarkers THEN <<"cut">> ELSE <<l>>
<1>1. CASE inside
  BY <1>1 DEF RedactLine
<1>2. CASE ~inside /\ l = "begin"
  BY <1>2 DEF RedactLine
<1>3. CASE ~inside /\ l # "begin"
  BY <1>3 DEF RedactLine, CutMarkers
<1> QED BY <1>1, <1>2, <1>3

LEMMA LiveReads ==
  ASSUME LiveState, NEW s \in Streams, NEW l \in ReadKinds, Reads(s, l)
  PROVE  LiveState'
<1> DEFINE b == redactor[s]
           in == RedactLine(b, l).inside
           out == RedactLine(b, l).out
<1>1. /\ (l \in {"body", "end", "cutend"}) <=> InKey(read[s])
      /\ redactor' = [redactor EXCEPT ![s] = in] /\ events' = events \o out
      /\ read' = [read EXCEPT ![s] = Append(@, l)]
      /\ UNCHANGED <<writer, logged, log, attached, starter>>
  BY DEF Reads, RedactorsAfter
<1>2. /\ read \in [Streams -> Seq(ReadKinds)] /\ redactor \in [Streams -> BOOLEAN] /\ b \in BOOLEAN
      /\ events \in Seq(LogKinds)
      /\ \A t \in Streams : InKey(read[t]) => redactor[t] \/ CutLogged \/ "cut" \in Elements(events)
  BY DEF LiveState
<1>3. /\ in \in BOOLEAN /\ (in <=> IF b THEN l # "end" ELSE l = "begin")
      /\ out = (IF b THEN << >> ELSE IF l \in {"begin", "secret"} THEN <<"redacted">>
                ELSE IF l \in CutMarkers THEN <<"cut">> ELSE <<l>>)
  <2> HIDE DEF b
  <2> QED BY <1>2, RedactedReading
<1> DEFINE o == IF l \in {"begin", "secret"} THEN "redacted" ELSE IF l \in CutMarkers THEN "cut" ELSE l
<1>4. /\ b => events' = events
      /\ ~b => events' = Append(events, o)
  <2> HIDE DEF b
  <2>1. b => out = << >>
    BY <1>3
  <2>2. ~b => out = <<o>>
    BY <1>3
  <2>3. events \in Seq(LogKinds) /\ events' = events \o out
    BY <1>1, <1>2
  <2> HIDE DEF out, o
  <2>4. CASE b
    BY <2>1, <2>3, <2>4
  <2>5. CASE ~b
    <3>1. events \o <<o>> = Append(events, o)
      BY <2>3
    <3> QED BY <2>2, <2>3, <2>5, <3>1
  <2> QED BY <2>4, <2>5
<1>5. o \in LogKinds
  BY DEF LogKinds, ReadKinds, LineKinds, CutMarkers
<1>6. ~InKey(read[s]) => o \in Shareable /\ (l \in {"cut", "cutbegin"} => o = "cut")
  BY <1>1 DEF Shareable, ReadKinds, LineKinds, CutMarkers
<1> HIDE DEF o, in, out
<1>7. \A t \in Streams : /\ read'[t] = IF t = s THEN Append(read[s], l) ELSE read[t]
                         /\ redactor'[t] = IF t = s THEN in ELSE redactor[t]
  BY <1>1, <1>2
<1>8. /\ read' \in [Streams -> Seq(ReadKinds)] /\ redactor' \in [Streams -> BOOLEAN]
      /\ events' \in Seq(LogKinds)
  BY <1>1, <1>2, <1>3, <1>4, <1>5
<1>9. /\ Elements(events) \subseteq Elements(events')
      /\ ~b => Len(events') = Len(events) + 1 /\ events'[Len(events) + 1] = o /\ o \in Elements(events')
      /\ \A n \in 1 .. Len(events) : events'[n] = events[n]
  <2> HIDE DEF b
  <2>1. events \in Seq(LogKinds) /\ (b => events' = events) /\ (~b => events' = Append(events, o))
    BY <1>2, <1>4
  <2>2. CASE b
    BY <2>1, <2>2
  <2>3. CASE ~b
    <3>1. /\ Len(events') = Len(events) + 1 /\ events'[Len(events) + 1] = o
          /\ \A n \in 1 .. Len(events) : events'[n] = events[n]
      BY <1>5, <2>1, <2>3
    <3>2. Elements(events) \subseteq Elements(events') /\ o \in Elements(events')
      BY <2>1, <3>1 DEF Elements
    <3> QED BY <2>3, <3>1, <3>2
  <2> QED BY <2>2, <2>3
<1>10. ASSUME NEW t \in Streams, InKey(read'[t])
       PROVE  redactor'[t] \/ CutLogged' \/ "cut" \in Elements(events')
  <2>1. CASE t # s
    BY <1>1, <1>2, <1>7, <1>9, <1>10, <2>1 DEF CutLogged
  <2>2. CASE t = s
    <3>1. IF InKey(read[s]) THEN l \notin {"end", "cutend"} ELSE l \in {"begin", "cutbegin"}
      <4>1. read[s] \in Seq(ReadKinds) /\ read'[t] = Append(read[s], l)
        BY <1>2, <1>7, <2>2
      <4> QED BY <1>10, <4>1, KeyGrows
    <3>2. redactor'[t] = in
      BY <1>7, <2>2
    <3>3. CASE InKey(read[s])
      <4>1. b \/ CutLogged \/ "cut" \in Elements(events)
        BY <1>2, <3>3
      <4> HIDE DEF b
      <4> QED BY <1>1, <1>3, <1>9, <3>1, <3>2, <3>3, <4>1 DEF CutLogged
    <3>4. CASE ~InKey(read[s])
      <4>1. l = "begin" \/ (l = "cutbegin" /\ o = "cut")
        BY <1>6, <3>1, <3>4
      <4> HIDE DEF b
      <4> QED BY <1>3, <1>9, <3>2, <4>1
    <3> QED BY <3>3, <3>4
  <2> QED BY <2>1, <2>2
<1>11. ASSUME ~CutLogged, NEW n \in 1 .. Len(events'), events'[n] \notin Shareable
       PROVE  \E m \in 1 .. n - 1 : events'[m] = "cut"
  <2>1. \A k \in 1 .. Len(events) :
          events[k] \notin Shareable => \E m \in 1 .. k - 1 : events[m] = "cut"
    BY <1>11 DEF LiveState
  <2>2. CASE n \in 1 .. Len(events)
    <3>1. PICK m \in 1 .. n - 1 : events[m] = "cut"
      BY <1>9, <1>11, <2>1, <2>2
    <3>2. events'[m] = "cut"
      BY <1>9, <2>2, <3>1
    <3> QED BY <3>2
  <2>3. CASE n \notin 1 .. Len(events)
    <3>1. ~b /\ n = Len(events) + 1 /\ o \notin Shareable
      <4> HIDE DEF b
      <4> QED BY <1>2, <1>4, <1>9, <1>11, <2>3
    <3>2. "cut" \in Elements(events)
      BY <1>2, <1>6, <1>11, <3>1
    <3>3. PICK m \in 1 .. Len(events) : events[m] = "cut"
      BY <3>2 DEF Elements
    <3>4. m \in 1 .. n - 1 /\ events'[m] = "cut"
      BY <1>2, <1>9, <3>1, <3>3
    <3> QED BY <3>4
  <2> QED BY <2>2, <2>3
<1> QED BY <1>1, <1>8, <1>10, <1>11 DEF LiveState, CutLogged

LEMMA LiveWrites ==
  ASSUME LiveState, OldLogState, WritesLine
  PROVE  LiveState'
<1> DEFINE l == Head(events)
           out == RedactLine(writer, l).out
<1>1. /\ events # << >> /\ events' = Tail(events)
      /\ logged' = logged \o out
      /\ log' = IF attached THEN [log EXCEPT !["live"] = @ \o out] ELSE log
      /\ writer' = RedactLine(writer, l).inside
      /\ UNCHANGED <<read, redactor, attached, starter>>
  BY DEF WritesLine
<1>2. /\ events \in Seq(LogKinds) /\ events' \in Seq(LogKinds) /\ Len(events') = Len(events) - 1
      /\ l = events[1] /\ l \in LogKinds /\ Len(events) \in Nat \ {0}
      /\ \A n \in 1 .. Len(events') : events'[n] = events[n + 1]
  BY <1>1 DEF LiveState
<1>3. attached => log'["live"] = logged'
  <2> HIDE DEF out
  <2>1. "live" \in DOMAIN log
    BY DEF OldLogState
  <2> QED BY <1>1, <2>1 DEF LiveState
<1>6. /\ writer' \in BOOLEAN /\ logged' \in Seq(LogKinds)
      /\ \A i \in 1 .. Len(logged) : i \in 1 .. Len(logged') /\ logged'[i] = logged[i]
  <2>1. writer \in BOOLEAN /\ logged \in Seq(LogKinds)
    BY DEF LiveState
  <2> HIDE DEF l
  <2>2. /\ RedactLine(writer, l).inside \in BOOLEAN
        /\ out = IF writer THEN << >> ELSE IF l \in {"begin", "secret"} THEN <<"redacted">> ELSE <<l>>
    BY <1>2, <2>1, RedactedLine
  <2>3. out \in Seq(LogKinds)
    <3>1. "redacted" \in LogKinds
      BY DEF LogKinds
    <3> HIDE DEF out
    <3> QED BY <1>2, <2>2, <3>1
  <2> HIDE DEF out
  <2> QED BY <1>1, <2>1, <2>2, <2>3
<1>4. CASE ~CutLogged
  <2>1. /\ writer = FALSE /\ attached /\ logged \in Seq(Shareable)
        /\ \A n \in 1 .. Len(events) :
             events[n] \notin Shareable => \E m \in 1 .. n - 1 : events[m] = "cut"
        /\ starter.at = 2 /\ starter.taken =>
             starter.content \in Seq(Shareable) /\ "cut" \notin Elements(starter.content)
    BY <1>4 DEF LiveState
  <2>2. l \in Shareable
    BY <1>2, <2>1
  <2>3. RedactLine(writer, l).inside = FALSE /\ out = <<l>>
    <3> HIDE DEF l
    <3>1. l # "begin" /\ l # "secret" /\ l \notin CutMarkers
      BY <2>2 DEF Shareable, CutMarkers
    <3> QED BY <2>1, <3>1 DEF RedactLine
  <2> HIDE DEF out, l
  <2>4. logged' = Append(logged, l) /\ writer' = FALSE
    BY <1>1, <2>1, <2>3
  <2>5. /\ logged' \in Seq(Shareable)
        /\ CutLogged' <=> l = "cut"
    <3>1. /\ Len(logged') = Len(logged) + 1 /\ logged'[Len(logged) + 1] = l
          /\ \A i \in 1 .. Len(logged) : logged'[i] = logged[i]
      BY <2>1, <2>4
    <3> QED BY <1>4, <2>1, <2>2, <2>4, <3>1 DEF CutLogged, Elements
  <2>6. ASSUME ~CutLogged', NEW n \in 1 .. Len(events'), events'[n] \notin Shareable
        PROVE  \E m \in 1 .. n - 1 : events'[m] = "cut"
    <3>1. n + 1 \in 1 .. Len(events) /\ events[n + 1] \notin Shareable
      BY <1>2, <2>6
    <3>2. PICK m \in 1 .. (n + 1) - 1 : events[m] = "cut"
      BY <2>1, <3>1
    <3>3. m # 1
      BY <1>2, <2>5, <2>6, <3>2
    <3>4. m - 1 \in 1 .. n - 1 /\ m - 1 \in 1 .. Len(events') /\ (m - 1) + 1 = m
      BY <1>2, <2>6, <3>2, <3>3
    <3> QED BY <1>2, <3>2, <3>4
  <2>7. "cut" \in Elements(events) => CutLogged' \/ "cut" \in Elements(events')
    <3> SUFFICES ASSUME NEW m \in 1 .. Len(events), events[m] = "cut", ~CutLogged'
                 PROVE  "cut" \in Elements(events')
      BY DEF Elements
    <3>1. m # 1
      BY <1>2, <2>5
    <3>2. m - 1 \in 1 .. Len(events') /\ (m - 1) + 1 = m
      BY <1>2, <3>1
    <3>3. events'[m - 1] = "cut"
      BY <1>2, <3>2
    <3> QED BY <3>2, <3>3 DEF Elements
  <2> QED BY <1>1, <1>2, <1>3, <1>4, <1>6, <2>1, <2>4, <2>5, <2>6, <2>7 DEF LiveState
<1>5. CASE CutLogged
  <2>1. CutLogged'
    <3>1. PICK i \in 1 .. Len(logged) : logged[i] = "cut"
      BY <1>5 DEF CutLogged, Elements
    <3> QED BY <1>6, <3>1 DEF CutLogged, Elements
  <2> QED BY <1>1, <1>2, <1>3, <1>6, <2>1 DEF LiveState
<1> QED BY <1>4, <1>5

(* A start replaces the run's file only where a cut line was in it.        *)
LEMMA LiveStep == LiveState /\ OldLogState /\ [LogNext]_logVars => LiveState'
<1> SUFFICES ASSUME LiveState, OldLogState, [LogNext]_logVars PROVE LiveState'
  OBVIOUS
<1>1. CASE UNCHANGED logVars
  BY <1>1 DEF logVars, LiveState, CutLogged
<1>2. ASSUME NEW s \in Streams, NEW l \in LineKinds \cup CutMarkers, Reads(s, l) PROVE LiveState'
  BY <1>2, LiveReads DEF ReadKinds
<1>3. CASE WritesLine
  BY <1>3, LiveWrites
<1>4. ASSUME UNCHANGED <<read, redactor, events, writer, logged, log, attached>>,
             ~CutLogged /\ starter'.at = 2 /\ starter'.taken =>
               starter'.content \in Seq(Shareable) /\ "cut" \notin Elements(starter'.content)
      PROVE  LiveState'
  BY <1>4 DEF LiveState, CutLogged
<1>5. CASE \E same \in BOOLEAN : StartAgain(same)
  <2>1. UNCHANGED <<read, redactor, events, writer, logged, log, attached>> /\ ~starter'.taken
    BY <1>5 DEF StartAgain, OpensTemp, NoStarter
  <2> QED BY <1>4, <2>1
<1>6. CASE StarterKilled \/ PassFails
  <2>1. UNCHANGED <<read, redactor, events, writer, logged, log, attached>> /\ ~starter'.taken
    BY <1>6 DEF StarterKilled, PassFails, NoStarter
  <2> QED BY <1>4, <2>1
<1>7. CASE ReadsFile
  <2> DEFINE c == log[LogFiles[starter.at]]
  <2>1. /\ UNCHANGED <<read, redactor, events, writer, logged, log, attached>>
        /\ starter # NoStarter
        /\ starter' = [starter EXCEPT !.taken = TRUE, !.content = c]
    BY <1>7 DEF ReadsFile
  <2>2. starter.at = 2 => c = log["live"]
    BY DEF LogFiles
  <2> HIDE DEF c
  <2>3. starter'.at = starter.at /\ starter'.content = c
    BY <2>1 DEF OldLogState
  <2>4. ~CutLogged => log["live"] \in Seq(Shareable) /\ "cut" \notin Elements(log["live"])
    BY DEF LiveState, CutLogged
  <2> QED BY <1>4, <2>1, <2>2, <2>3, <2>4
<1>8. CASE ReplacesFile
  <2> DEFINE c == starter.content
             d == Sanitized(c)
             f == LogFiles[starter.at]
  <2>1. /\ starter.taken
        /\ \/ /\ Changed(c) /\ log' = [log EXCEPT ![f] = d]
              /\ attached' = (attached /\ f # "live")
           \/ ~Changed(c) /\ UNCHANGED <<log, attached>>
        /\ UNCHANGED <<read, redactor, events, writer, logged>>
        /\ ~starter'.taken
    BY <1>8 DEF ReplacesFile, OpensTemp, NoStarter
  <2>2. starter.at \in {1, 2}
    BY <2>1 DEF OldLogState, NoStarter
  <2>3. starter.at = 1 => f = "old"
    BY DEF LogFiles
  <2>4. starter.at = 2 => f = "live"
    BY DEF LogFiles
  <2>5. starter.at = 2 /\ ~CutLogged => ~Changed(c)
    <3>1. SUFFICES ASSUME starter.at = 2, ~CutLogged PROVE ~Changed(c)
      OBVIOUS
    <3>2. c \in Seq(Shareable) /\ "cut" \notin Elements(c)
      BY <2>1, <3>1 DEF LiveState
    <3> HIDE DEF c
    <3>3. Sanitized(c) = c
      BY <3>2, ShareableStays
    <3> QED BY <3>2, <3>3 DEF Changed, ToSet, Elements
  <2> HIDE DEF c, d, f
  <2>6. /\ attached' \in BOOLEAN
        /\ attached' => attached /\ log'["live"] = log["live"]
        /\ ~CutLogged => (attached' <=> attached)
    <3>1. attached \in BOOLEAN
      BY DEF LiveState
    <3>2. CASE ~Changed(c)
      BY <2>1, <3>1, <3>2
    <3>3. CASE Changed(c) /\ starter.at = 1
      <4>1. log'["live"] = log["live"]
        BY <2>1, <2>3, <3>3 DEF OldLogState
      <4>2. attached' = (attached /\ "old" # "live")
        BY <2>1, <2>3, <3>3
      <4>3. attached' = attached
        BY <3>1, <4>2
      <4> QED BY <3>1, <4>1, <4>3
    <3>4. CASE Changed(c) /\ starter.at = 2
      <4>1. ~attached' /\ attached' \in BOOLEAN
        BY <2>1, <2>4, <3>4
      <4> QED BY <2>5, <3>4, <4>1
    <3> QED BY <2>2, <3>2, <3>3, <3>4
  <2>7. CutLogged' <=> CutLogged
    BY <2>1 DEF CutLogged
  <2> QED BY <2>1, <2>6, <2>7 DEF LiveState
<1> QED BY <1>1, <1>2, <1>3, <1>5, <1>6, <1>7, <1>8 DEF LogNext

(* A marker that was cut off has been read, and is in what was read after. *)
LEMMA MarkerStaysCut == LiveState /\ [LogNext]_logVars /\ MarkerCutOff => MarkerCutOff'
<1> SUFFICES ASSUME LiveState, [LogNext]_logVars, MarkerCutOff PROVE MarkerCutOff'
  OBVIOUS
<1>1. PICK s \in Streams : \E i \in DOMAIN read[s] : read[s][i] \in CutMarkers
  BY DEF MarkerCutOff, ToSet
<1>2. read \in [Streams -> Seq(ReadKinds)]
  BY DEF LiveState
<1>3. PICK i \in DOMAIN read[s] : read[s][i] \in CutMarkers
  BY <1>1
<1>4. i \in DOMAIN read'[s] /\ read'[s][i] = read[s][i]
  <2>1. CASE read' = read
    BY <2>1, <1>3
  <2>2. ASSUME NEW t \in Streams, NEW l \in LineKinds \cup CutMarkers, Reads(t, l)
        PROVE  i \in DOMAIN read'[s] /\ read'[s][i] = read[s][i]
    <3>1. read' = [read EXCEPT ![t] = Append(read[t], l)]
      BY <2>2 DEF Reads
    <3>2. read[s] \in Seq(ReadKinds) /\ (read'[s] = read[s] \/ read'[s] = Append(read[s], l))
      BY <1>2, <3>1
    <3> QED BY <1>3, <3>2
  <2>3. read' = read \/ \E t \in Streams, l \in LineKinds \cup CutMarkers : Reads(t, l)
    BY DEF LogNext, logVars, WritesLine, StartAgain, ReadsFile, ReplacesFile, PassFails, StarterKilled
  <2> QED BY <2>1, <2>2, <2>3
<1> QED BY <1>3, <1>4 DEF MarkerCutOff, ToSet

(* The three parts hold in every reachable state.                          *)
LEMMA LogInvariant == LogSpec => [](OldLogState /\ LiveState /\ (MarkerCutOff \/ LogIInv))
<1>1. LogInit => OldLogState /\ LiveState /\ LogIInv
  <2> SUFFICES ASSUME LogInit PROVE OldLogState /\ LiveState /\ LogIInv
    OBVIOUS
  <2>1. PICK old \in OldLogs : log = [f \in {"old", "live"} |-> IF f = "old" THEN old ELSE << >>]
    BY DEF LogInit
  <2>2. /\ old \in Seq(LogKinds) /\ KeysBegin(old) /\ DOMAIN log = {"old", "live"}
        /\ log["old"] = old /\ log["live"] = << >> /\ log \in [{"old", "live"} -> Seq(LogKinds)]
    BY <2>1, OldLogsAssumption DEF LogKinds
  <2>3. ReaderState
    BY DEF LogInit, ReaderState, InKey, InKeyAt
  <2>4. WriterState /\ FilesState
    BY <2>2 DEF LogInit, WriterState, FilesState
  <2>5. StarterState
    BY DEF LogInit, StarterState, NoStarter
  <2>6. HarmlessKept
    <3>1. Harmless(<< >>) = << >>
      BY KeptEmpty DEF Harmless
    <3>2. Len(Harmless(<< >>)) = 0
      BY <3>1
    <3> QED BY <3>2 DEF LogInit, HarmlessKept, Streams
  <2>7. OldLogState
    BY <2>2 DEF LogInit, OldLogState, NoStarter
  <2>8. LiveState
    <3>1. \A s \in Streams : read[s] = << >> /\ ~InKey(read[s])
      BY DEF LogInit, InKey, InKeyAt
    <3>2. read \in [Streams -> Seq(ReadKinds)] /\ redactor \in [Streams -> BOOLEAN]
      BY DEF LogInit
    <3>3. starter.at # 2
      BY DEF LogInit, NoStarter
    <3>4. events = << >> /\ writer = FALSE /\ logged = << >> /\ attached = TRUE
      BY DEF LogInit
    <3>5. << >> \in Seq(LogKinds) /\ << >> \in Seq(Shareable) /\ Len(<< >>) = 0
      OBVIOUS
    <3>6. \A n \in 1 .. Len(events) : events[n] \in Shareable
      BY <3>4, <3>5
    <3>7. starter.at = 2 /\ starter.taken =>
            starter.content \in Seq(Shareable) /\ "cut" \notin Elements(starter.content)
      BY <3>3
    <3>8. /\ events \in Seq(LogKinds) /\ writer \in BOOLEAN /\ logged \in Seq(LogKinds)
          /\ attached \in BOOLEAN /\ log["live"] = logged /\ logged \in Seq(Shareable)
      BY <2>2, <3>4, <3>5
    <3> QED BY <3>1, <3>2, <3>4, <3>6, <3>7, <3>8 DEF LiveState
  <2> QED BY <2>3, <2>4, <2>5, <2>6, <2>7, <2>8 DEF LogIInv
<1>3. LiveState /\ (MarkerCutOff \/ LogIInv) /\ [LogNext]_logVars => MarkerCutOff' \/ LogIInv'
  BY MarkerStaysCut, LogIInvStep
<1> QED BY <1>1, <1>3, OldLogStep, LiveStep, PTL DEF LogSpec

(* Nothing that may be shown is a secret.                                  *)
LEMMA ShareableHasNoSecret ==
  ASSUME NEW p \in Seq(Shareable)
  PROVE  ~HasSecret(p)
BY DEF HasSecret, ToSet, Shareable

(* No line of a private key and no secret goes to the page or into the log *)
(* of a run whose readers dropped no marker with the end of a line, nor    *)
(* stays in an older log once a pass over the directory has succeeded: for *)
(* any output and any old log whose keys have their first line, wherever   *)
(* the child or a start is killed (sanitize.rs:117-145,                    *)
(* process/mod.rs:413-451, logs/mod.rs:119-231).                           *)
THEOREM SecretsStayInTheReader == LogSpec => []NoKeyMaterial
<1>1. OldLogState /\ (MarkerCutOff \/ LogIInv) => NoKeyMaterial
  BY ShareableHasNoSecret DEF LogIInv, ReaderState, WriterState, FilesState, OldLogState, NoKeyMaterial
<1> QED BY <1>1, LogInvariant, PTL

(* Every line outside a key that a reader took is on its way or logged,    *)
(* once, however the two streams interleave, unless a marker was dropped   *)
(* with the end of a line (process/mod.rs:380-445).                        *)
THEOREM OnlyLinesOfKeysAreLost == LogSpec => []OnlyKeysSwallowed
<1>1. MarkerCutOff \/ LogIInv => OnlyKeysSwallowed
  BY DEF LogIInv, HarmlessKept, OnlyKeysSwallowed
<1> QED BY <1>1, LogInvariant, PTL

(* A start leaves the log of a run in progress to its writer unless a line *)
(* of it was cut, whenever the start reads and replaces it, whatever the   *)
(* readers dropped (logs/mod.rs:160-228).                                  *)
THEOREM LiveLogsAreKept == LogSpec => []LiveLogKept
<1>1. LiveState => LiveLogKept
  BY DEF LiveState, CutLogged, LiveLogKept, ToSet, Elements
<1> QED BY <1>1, LogInvariant, PTL

-----------------------------------------------------------------------------
(* The start of the program.  None of its three properties is inductive    *)
(* alone.  That a lone start gets the file needs that two starting         *)
(* processes have met, that the lock's holder is one of them, and that     *)
(* what a process read from schema_version is outdated only after it met   *)
(* another or was refused the reading.  That no old credential is shown    *)
(* needs that a purge has found whatever is left in the file, from its     *)
(* reading on.                                                             *)

Stages == {"off", "opening", "behind", "migrating", "open", "purging", "purge", "ready", "running"}
Stores == Processes \cup {"none", "disk"}
RunRows == [status : {"absent", "running", "completed", "failed"},
            told : {"nothing", "live", "completed", "failed"},
            in : Stores]

(* The types, that the lock's holder is migrating, that a process off has  *)
(* no store, and that the primary is the one process that runs.            *)
StartupTypes ==
  /\ version \in 0 .. Target /\ tables = version
  /\ secrets \in SUBSET Tables
  /\ runs \in [Runs -> RunRows]
  /\ stage \in [Processes -> Stages]
  /\ store \in [Processes -> Stores]
  /\ readVersion \in [Processes -> 0 .. Target]
  /\ found \in [Processes -> SUBSET Tables]
  /\ met \in [Processes -> BOOLEAN] /\ refused \in [Processes -> BOOLEAN]
  /\ lock # NoProcess => lock \in Processes /\ stage[lock] = "migrating"
  /\ \A p \in Processes : stage[p] = "off" => store[p] = "none"
  /\ unpurged \in BOOLEAN
  /\ primary # NoProcess => primary \in Processes /\ stage[primary] = "running"
  /\ windows # << >> => primary # NoProcess

(* Starts that overlap have met; an outdated reading is one of them.       *)
Meetings ==
  /\ \A p, q \in Processes : p # q /\ Starting(p) /\ Starting(q) => met[p]
  /\ \A p \in Processes : stage[p] = "behind" /\ readVersion[p] # version => met[p] \/ refused[p]
  /\ LoneStartOpensStore

(* A purge of the file under way knows all that is to be purged, and one   *)
(* that did not fail leaves nothing.                                       *)
Purges ==
  \A p \in Processes : store[p] = "disk" =>
    /\ stage[p] = "purge" => secrets \subseteq found[p]
    /\ stage[p] \in {"ready", "running"} /\ ~unpurged => secrets = {}

StartupIInv == StartupTypes /\ Meetings /\ Purges /\ RunRowsTrue

(* What the three ways to change a row of a run leave of it.               *)
LEMMA ChangedRows ==
  ASSUME NEW had \in RunRows, NEW status \in {"completed", "failed"}
  PROVE  /\ [had EXCEPT !.status = "failed"] \in RunRows
         /\ [had EXCEPT !.status = "failed"].told = had.told
         /\ [had EXCEPT !.told = "nothing"] \in RunRows
         /\ [had EXCEPT !.told = "nothing"].told = "nothing"
         /\ FinishedRow(had, status) \in RunRows
         /\ FinishedRow(had, status).status = status
         /\ FinishedRow(had, status).told = status
BY DEF RunRows, FinishedRow

(* A fresh system satisfies the invariant: no process is up.               *)
LEMMA StartupInitIInv == StartupInit => StartupIInv
<1> SUFFICES ASSUME StartupInit PROVE StartupIInv
  OBVIOUS
<1> USE StartupAssumption
<1>1. PICK orphan \in {NoRun, [NoRun EXCEPT !.status = "running", !.in = "disk"]} :
        runs = [r \in Runs |-> IF r = 1 THEN orphan ELSE NoRun]
  BY DEF StartupInit
<1>2. /\ NoRun \in RunRows /\ NoRun.told = "nothing"
      /\ orphan \in RunRows /\ orphan.told = "nothing"
  <2>1. NoRun \in RunRows /\ NoRun.told = "nothing"
    BY DEF NoRun, RunRows, Stores
  <2>2. CASE orphan = NoRun
    BY <2>1, <2>2
  <2>3. CASE orphan = [NoRun EXCEPT !.status = "running", !.in = "disk"]
    <3>1. orphan = [status |-> "running", told |-> "nothing", in |-> "disk"]
      BY <2>3 DEF NoRun
    <3> QED BY <2>1, <3>1 DEF RunRows, Stores
  <2> QED BY <2>1, <2>2, <2>3
<1>3. runs \in [Runs -> RunRows] /\ \A r \in Runs : runs[r].told = "nothing"
  BY <1>1, <1>2
<1>4. secrets \in SUBSET Tables
  BY DEF StartupInit
<1>5. StartupTypes
  <2>1. version \in 0 .. Target /\ tables = version /\ primary = NoProcess /\ windows = << >>
    BY DEF StartupInit
  <2>2. stage \in [Processes -> Stages] /\ store \in [Processes -> Stores]
    BY DEF StartupInit, Stages, Stores
  <2>3. readVersion \in [Processes -> 0 .. Target] /\ found \in [Processes -> SUBSET Tables]
    BY DEF StartupInit, Target
  <2>4. met \in [Processes -> BOOLEAN] /\ refused \in [Processes -> BOOLEAN]
    BY Zenon DEF StartupInit
  <2>5. /\ unpurged \in BOOLEAN /\ lock = NoProcess
        /\ \A p \in Processes : stage[p] = "off" => store[p] = "none"
    BY DEF StartupInit
  <2> QED BY <1>3, <1>4, <2>1, <2>2, <2>3, <2>4, <2>5 DEF StartupTypes
<1>6. Meetings
  BY DEF StartupInit, Meetings, Starting, LoneStartOpensStore
<1>7. Purges
  BY DEF StartupInit, Purges
<1>8. RunRowsTrue
  BY <1>3 DEF RunRowsTrue
<1> QED BY <1>5, <1>6, <1>7, <1>8 DEF StartupIInv

-----------------------------------------------------------------------------
(* The types, action by action.                                            *)
LEMMA StartupTypesStep == StartupTypes /\ StartupNext => StartupTypes'
<1> SUFFICES ASSUME StartupTypes, StartupNext PROVE StartupTypes'
  OBVIOUS
<1> USE StartupAssumption
<1>1. ASSUME NEW p \in Processes, StartProcess(p) PROVE StartupTypes'
  BY <1>1 DEF StartupTypes, StartProcess, Starting, Stages, Stores
<1>2. ASSUME NEW p \in Processes, OpenStore(p) PROVE StartupTypes'
  <2>1. PICK got \in {0, version} :
          /\ IF got = version THEN UNCHANGED <<failures, refused>> ELSE Refused(p)
          /\ IF got >= Target THEN Opened(p, "disk")
             ELSE /\ stage' = [stage EXCEPT ![p] = "behind"]
                  /\ readVersion' = [readVersion EXCEPT ![p] = got]
                  /\ UNCHANGED store
    BY <1>2 DEF OpenStore
  <2>2. stage[p] = "opening" /\ got \in 0 .. Target /\ 0 \in 0 .. Target
    BY <1>2 DEF OpenStore, StartupTypes, Target
  <2>3. refused' \in [Processes -> BOOLEAN]
    BY ZenonT(40), <2>1 DEF StartupTypes, Refused
  <2>4. readVersion' \in [Processes -> 0 .. Target]
    BY <2>1, <2>2 DEF StartupTypes, Opened
  <2>5. stage' \in [Processes -> Stages] /\ store' \in [Processes -> Stores]
    BY <2>1 DEF StartupTypes, Opened, Stages, Stores
  <2>6. /\ \A q \in Processes \ {p} : stage'[q] = stage[q] /\ store'[q] = store[q]
        /\ stage'[p] \in {"open", "behind"}
    BY <2>1 DEF StartupTypes, Opened
  <2>7. UNCHANGED <<version, tables, lock, secrets, runs, found, met, unpurged, primary, windows>>
    BY <1>2 DEF OpenStore
  <2> QED BY <2>2, <2>3, <2>4, <2>5, <2>6, <2>7 DEF StartupTypes
<1>3. ASSUME NEW p \in Processes, MigrationBegins(p) PROVE StartupTypes'
  <2>1. CASE lock # NoProcess \/ tables > readVersion[p]
    <3>1. Opened(p, p) /\ UNCHANGED <<tables, lock>>
      BY <1>3, <2>1 DEF MigrationBegins
    <3> QED BY <1>3, <3>1 DEF StartupTypes, MigrationBegins, Opened, Target, Stages, Stores
  <2>2. CASE ~(lock # NoProcess \/ tables > readVersion[p])
    <3>1. /\ stage' = [stage EXCEPT ![p] = "migrating"]
          /\ tables' = tables /\ lock' = p
          /\ UNCHANGED <<store, readVersion>>
      BY <1>3, <2>2 DEF MigrationBegins, TablesInMigration
    <3> QED BY <1>3, <3>1 DEF StartupTypes, MigrationBegins, Stages
  <2> QED BY <2>1, <2>2
<1>4. ASSUME NEW p \in Processes, MigrationCommits(p) PROVE StartupTypes'
  BY <1>4 DEF StartupTypes, MigrationCommits, Opened, Stages, Stores, Target
<1>5. ASSUME NEW p \in Processes, FailInterruptedRuns(p) PROVE StartupTypes'
  <2> DEFINE Failed(r) == [runs[r] EXCEPT !.status = "failed"]
  <2>1. \A r \in Runs : runs[r] \in RunRows /\ Failed(r) \in RunRows
    BY ChangedRows DEF StartupTypes
  <2>2. \/ runs' = runs
        \/ runs' = [r \in Runs |-> IF /\ store[p] = "disk" /\ runs[r].in = "disk"
                                     /\ runs[r].status = "running"
                                  THEN Failed(r) ELSE runs[r]]
    BY <1>5 DEF FailInterruptedRuns
  <2> HIDE DEF Failed
  <2>3. runs' \in [Runs -> RunRows]
    BY <2>1, <2>2 DEF StartupTypes
  <2> QED BY <1>5, <2>3 DEF StartupTypes, FailInterruptedRuns, Refused, Stages
<1>6. ASSUME NEW p \in Processes, PurgeReads(p) PROVE StartupTypes'
  BY <1>6 DEF StartupTypes, PurgeReads, PurgedTables, Stages
<1>7. ASSUME NEW p \in Processes, PurgeWrites(p) PROVE StartupTypes'
  BY <1>7 DEF StartupTypes, PurgeWrites, Stages
<1>8. ASSUME NEW p \in Processes, PurgeFails(p) PROVE StartupTypes'
  BY <1>8 DEF StartupTypes, PurgeFails, Refused, Stages
<1>9. ASSUME NEW p \in Processes, Activates(p) PROVE StartupTypes'
  <2>1. stage[p] = "ready"
    BY <1>9 DEF Activates
  <2>2. CASE primary = NoProcess
    <3>1. /\ primary' = p /\ stage' = [stage EXCEPT ![p] = "running"]
          /\ UNCHANGED <<store, met, refused>>
      BY <1>9, <2>2 DEF Activates
    <3> QED BY <1>9, <2>1, <3>1 DEF StartupTypes, Activates, Stages
  <2>3. CASE primary # NoProcess
    <3>1. Ended(p) /\ UNCHANGED primary
      BY <1>9, <2>3 DEF Activates
    <3>2. met' \in [Processes -> BOOLEAN] /\ refused' \in [Processes -> BOOLEAN]
      BY ZenonT(40), <3>1 DEF Ended, StartupTypes
    <3>3. stage' \in [Processes -> Stages] /\ store' \in [Processes -> Stores]
      BY <3>1 DEF Ended, StartupTypes, Stages, Stores
    <3>4. /\ \A q \in Processes \ {p} : stage'[q] = stage[q] /\ store'[q] = store[q]
          /\ store'[p] = "none"
      BY <3>1 DEF Ended, StartupTypes
    <3>5. UNCHANGED <<version, tables, lock, secrets, runs, readVersion, found, unpurged>>
      BY <1>9 DEF Activates
    <3> QED BY <2>1, <2>3, <3>1, <3>2, <3>3, <3>4, <3>5 DEF StartupTypes
  <2> QED BY <2>2, <2>3
<1>10. ASSUME NEW p \in Processes, ProcessEnds(p) PROVE StartupTypes'
  <2> DEFINE Unheard(r) == [runs[r] EXCEPT !.told = "nothing"]
  <2>1. \A r \in Runs : runs[r] \in RunRows /\ Unheard(r) \in RunRows
    BY ChangedRows DEF StartupTypes
  <2>2. \/ runs' = runs
        \/ runs' = [r \in Runs |-> IF runs[r].told = "live" THEN Unheard(r) ELSE runs[r]]
    BY <1>10 DEF ProcessEnds
  <2> HIDE DEF Unheard
  <2>3. runs' \in [Runs -> RunRows]
    BY <2>1, <2>2 DEF StartupTypes
  <2> QED BY <1>10, <2>3 DEF StartupTypes, ProcessEnds, Ended, Target, Stages, Stores
<1>11. ASSUME NEW w \in 1 .. MaxWindows, NEW j \in QueueJobs, AddJob(w, j) PROVE StartupTypes'
  <2>1. primary # NoProcess
    BY <1>11 DEF StartupTypes, AddJob
  <2> QED BY <1>11, <2>1 DEF StartupTypes, AddJob
<1>12. ASSUME NEW w \in 1 .. MaxWindows, RemoveJob(w) PROVE StartupTypes'
  <2>1. primary # NoProcess
    BY <1>12 DEF StartupTypes, RemoveJob
  <2> QED BY <1>12, <2>1 DEF StartupTypes, RemoveJob
<1>13. ASSUME NEW w \in 1 .. MaxWindows, LaunchJob(w) PROVE StartupTypes'
  <2>1. primary # NoProcess
    BY <1>13 DEF StartupTypes, LaunchJob
  <2>2. [status |-> "running", told |-> "live", in |-> store[primary]] \in RunRows
    BY <2>1 DEF StartupTypes, RunRows
  <2>3. runs' \in [Runs -> RunRows]
    BY <1>13, <2>2 DEF StartupTypes, LaunchJob
  <2> QED BY <1>13, <2>1, <2>3 DEF StartupTypes, LaunchJob
<1>14. ASSUME NEW r \in Runs, NEW status \in {"completed", "failed"}, RunEnds(r, status)
       PROVE StartupTypes'
  <2>1. FinishedRow(runs[r], status) \in RunRows
    BY ChangedRows DEF StartupTypes
  <2> QED BY <1>14, <2>1 DEF StartupTypes, RunEnds
<1>15. ASSUME NEW r \in Runs, FinishFails(r) PROVE StartupTypes'
  <2>1. [runs[r] EXCEPT !.told = "nothing"] \in RunRows
    BY ChangedRows DEF StartupTypes
  <2> QED BY <1>15, <2>1 DEF StartupTypes, FinishFails
<1>16. ASSUME NEW p \in Processes, OpenFails(p) PROVE StartupTypes'
  BY <1>16 DEF StartupTypes, OpenFails, Opened, Refused, Target, Stages, Stores
<1> QED BY <1>1, <1>2, <1>3, <1>4, <1>5, <1>6, <1>7, <1>8, <1>9, <1>10, <1>11, <1>12, <1>13,
           <1>14, <1>15, <1>16
        DEF StartupNext

-----------------------------------------------------------------------------
(* Who starts while another is starting is told so, and the row of         *)
(* schema_version changes only by another that is starting.                *)
LEMMA MeetingsStep == StartupTypes /\ Meetings /\ StartupNext => Meetings'
<1> SUFFICES ASSUME StartupTypes, Meetings, StartupNext PROVE Meetings'
  OBVIOUS
<1> USE StartupAssumption DEF Meetings, LoneStartOpensStore, Starting
<1>1. ASSUME NEW p \in Processes, StartProcess(p) PROVE Meetings'
  <2>1. \A q \in Processes \ {p} : stage'[q] = stage[q] /\ store'[q] = store[q]
    BY <1>1 DEF StartupTypes, StartProcess
  <2>2. stage'[p] = "opening" /\ store'[p] = "none" /\ stage[p] = "off" /\ "none" # p
    BY <1>1 DEF StartupTypes, StartProcess
  <2>3. \A q \in Processes \ {p} : met[q] \/ Starting(q) => met'[q]
    BY <1>1, Zenon DEF StartProcess
  <2>4. (\E o \in Processes : Starting(o)) => met'[p]
    BY <1>1, Zenon DEF StartProcess
  <2>5. readVersion' = readVersion /\ version' = version /\ refused' = refused
    BY <1>1 DEF StartProcess
  <2> QED BY <2>1, <2>2, <2>3, <2>4, <2>5
<1>2. ASSUME NEW p \in Processes, OpenStore(p) PROVE Meetings'
  <2>1. \A q \in Processes : Starting(q)' <=> Starting(q)
    BY <1>2 DEF StartupTypes, OpenStore, Opened
  <2>2. version' = version /\ met' = met
    BY <1>2 DEF OpenStore
  <2>3. \A q \in Processes \ {p} : /\ stage'[q] = stage[q] /\ store'[q] = store[q]
                                    /\ readVersion'[q] = readVersion[q]
                                    /\ refused'[q] = refused[q]
    BY <1>2 DEF StartupTypes, OpenStore, Opened, Refused
  <2>4. store'[p] \in {store[p], "disk"} /\ (refused[p] => refused'[p])
    BY <1>2 DEF StartupTypes, OpenStore, Opened, Refused
  <2>5. stage'[p] = "behind" /\ readVersion'[p] # version => refused'[p]
    BY <1>2 DEF StartupTypes, OpenStore, Opened, Refused
  <2> QED BY <2>1, <2>2, <2>3, <2>4, <2>5
<1>3. ASSUME NEW p \in Processes, MigrationBegins(p) PROVE Meetings'
  <2>1. CASE tables > readVersion[p] \/ lock # NoProcess
    <3>1. met[p] \/ refused[p]
      BY <1>3, <2>1 DEF StartupTypes, MigrationBegins, Target
    <3>2. /\ stage[p] = "behind" /\ UNCHANGED <<version, met, refused>>
          /\ stage' = [stage EXCEPT ![p] = "open"] /\ store' = [store EXCEPT ![p] = p]
          /\ readVersion' = [readVersion EXCEPT ![p] = 0]
      BY <1>3, <2>1 DEF MigrationBegins, Opened
    <3>3. /\ stage'[p] = "open"
          /\ \A q \in Processes \ {p} : /\ stage'[q] = stage[q] /\ store'[q] = store[q]
                                        /\ readVersion'[q] = readVersion[q]
      BY <3>2 DEF StartupTypes
    <3> QED BY <3>1, <3>2, <3>3
  <2>2. CASE ~(tables > readVersion[p] \/ lock # NoProcess)
    <3>1. /\ stage[p] = "behind" /\ stage' = [stage EXCEPT ![p] = "migrating"]
          /\ UNCHANGED <<version, store, readVersion, met, refused>>
      BY <1>3, <2>2 DEF MigrationBegins
    <3>2. stage'[p] = "migrating" /\ \A q \in Processes \ {p} : stage'[q] = stage[q]
      BY <3>1 DEF StartupTypes
    <3> QED BY <3>1, <3>2
  <2> QED BY <2>1, <2>2
<1>4. ASSUME NEW p \in Processes, MigrationCommits(p) PROVE Meetings'
  BY <1>4 DEF StartupTypes, MigrationCommits, Opened
<1>5. ASSUME NEW p \in Processes, FailInterruptedRuns(p) PROVE Meetings'
  <2>1. /\ stage[p] = "open" /\ stage' = [stage EXCEPT ![p] = "purging"]
        /\ UNCHANGED <<version, store, readVersion, met>>
        /\ refused' = refused \/ refused' = [refused EXCEPT ![p] = TRUE]
    BY <1>5 DEF FailInterruptedRuns, Refused
  <2>2. /\ \A q \in Processes \ {p} : stage'[q] = stage[q]
        /\ stage'[p] = "purging" /\ \A q \in Processes : refused[q] => refused'[q]
    BY <2>1 DEF StartupTypes
  <2> QED BY <2>1, <2>2
<1>6. ASSUME NEW p \in Processes, PurgeReads(p) PROVE Meetings'
  BY <1>6 DEF StartupTypes, PurgeReads
<1>7. ASSUME NEW p \in Processes, PurgeWrites(p) \/ PurgeFails(p) PROVE Meetings'
  <2>1. CASE PurgeWrites(p)
    BY <2>1 DEF StartupTypes, PurgeWrites
  <2>2. CASE PurgeFails(p)
    BY <2>2 DEF StartupTypes, PurgeFails, Refused
  <2> QED BY <1>7, <2>1, <2>2
<1>8. ASSUME NEW p \in Processes, Activates(p) PROVE Meetings'
  <2>1. /\ \A q \in Processes \ {p} : /\ stage'[q] = stage[q] /\ store'[q] = store[q]
                                       /\ met'[q] = met[q] /\ refused'[q] = refused[q]
        /\ stage'[p] \in {"off", "running"}
        /\ store'[p] = "none" \/ UNCHANGED <<store, met, refused>>
        /\ UNCHANGED <<version, readVersion>>
    BY <1>8 DEF StartupTypes, Activates, Ended
  <2> QED BY <2>1
<1>9. ASSUME NEW p \in Processes, ProcessEnds(p) PROVE Meetings'
  BY <1>9 DEF StartupTypes, ProcessEnds, Ended
<1>10. ASSUME UNCHANGED <<version, stage, store, readVersion, met, refused>> PROVE Meetings'
  BY <1>10
<1>11. ASSUME NEW w \in 1 .. MaxWindows, NEW j \in QueueJobs, AddJob(w, j) PROVE Meetings'
  BY <1>10, <1>11 DEF AddJob
<1>12. ASSUME NEW w \in 1 .. MaxWindows, RemoveJob(w) \/ LaunchJob(w) PROVE Meetings'
  BY <1>10, <1>12 DEF RemoveJob, LaunchJob
<1>13. ASSUME NEW r \in Runs, NEW status \in {"completed", "failed"}, RunEnds(r, status)
       PROVE Meetings'
  BY <1>10, <1>13 DEF RunEnds
<1>14. ASSUME NEW r \in Runs, FinishFails(r) PROVE Meetings'
  BY <1>10, <1>14 DEF FinishFails
<1>15. ASSUME NEW p \in Processes, OpenFails(p) PROVE Meetings'
  BY <1>15 DEF StartupTypes, OpenFails, Opened, Refused
<1> QED BY <1>1, <1>2, <1>3, <1>4, <1>5, <1>6, <1>7, <1>8, <1>9, <1>11, <1>12, <1>13, <1>14, <1>15
        DEF StartupNext

-----------------------------------------------------------------------------
(* Nothing writes a credential, a purge takes all it found, and only one   *)
(* that is over lets its process show a window.                            *)
LEMMA PurgesStep == StartupTypes /\ Purges /\ StartupNext => Purges'
<1> SUFFICES ASSUME StartupTypes, Purges, StartupNext PROVE Purges'
  OBVIOUS
<1> USE StartupAssumption DEF Purges
<1>1. ASSUME NEW p \in Processes, StartProcess(p) PROVE Purges'
  BY <1>1 DEF StartupTypes, StartProcess
<1>2. ASSUME NEW p \in Processes, OpenStore(p) PROVE Purges'
  BY <1>2 DEF StartupTypes, OpenStore, Opened
<1>3. ASSUME NEW p \in Processes, MigrationBegins(p) PROVE Purges'
  BY <1>3 DEF StartupTypes, MigrationBegins, Opened
<1>4. ASSUME NEW p \in Processes, MigrationCommits(p) PROVE Purges'
  BY <1>4 DEF StartupTypes, MigrationCommits, Opened
<1>5. ASSUME NEW p \in Processes, FailInterruptedRuns(p) PROVE Purges'
  BY <1>5 DEF StartupTypes, FailInterruptedRuns
<1>6. ASSUME NEW p \in Processes, PurgeReads(p) PROVE Purges'
  BY <1>6 DEF StartupTypes, PurgeReads, PurgedTables
<1>7. ASSUME NEW p \in Processes, PurgeWrites(p) PROVE Purges'
  BY <1>7 DEF StartupTypes, PurgeWrites
<1>8. ASSUME NEW p \in Processes, PurgeFails(p) PROVE Purges'
  BY <1>8 DEF StartupTypes, PurgeFails
<1>9. ASSUME NEW p \in Processes, Activates(p) PROVE Purges'
  <2>1. stage[p] = "ready" /\ UNCHANGED <<secrets, found, unpurged>>
    BY <1>9 DEF Activates
  <2>2. \/ stage' = [stage EXCEPT ![p] = "running"] /\ store' = store
        \/ stage' = [stage EXCEPT ![p] = "off"] /\ store' = [store EXCEPT ![p] = "none"]
    BY <1>9 DEF Activates, Ended
  <2>3. \A q \in Processes \ {p} : stage'[q] = stage[q] /\ store'[q] = store[q]
    BY <2>2 DEF StartupTypes
  <2>4. (stage'[p] = "running" /\ store'[p] = store[p]) \/ stage'[p] = "off"
    BY <2>2 DEF StartupTypes
  <2>5. ASSUME NEW q \in Processes, store'[q] = "disk"
        PROVE  /\ stage'[q] = "purge" => secrets \subseteq found[q]
               /\ stage'[q] \in {"ready", "running"} /\ ~unpurged => secrets = {}
    <3>1. CASE q # p
      BY <2>3, <2>5, <3>1
    <3>2. CASE q = p
      BY <2>1, <2>4, <2>5, <3>2
    <3> QED BY <3>1, <3>2
  <2> QED BY <2>1, <2>5
<1>10. ASSUME NEW p \in Processes, ProcessEnds(p) PROVE Purges'
  BY <1>10 DEF StartupTypes, ProcessEnds, Ended
<1>11. ASSUME UNCHANGED <<secrets, stage, store, found, unpurged>> PROVE Purges'
  BY <1>11
<1>12. ASSUME NEW w \in 1 .. MaxWindows, NEW j \in QueueJobs, AddJob(w, j) PROVE Purges'
  BY <1>11, <1>12 DEF AddJob
<1>13. ASSUME NEW w \in 1 .. MaxWindows, RemoveJob(w) \/ LaunchJob(w) PROVE Purges'
  BY <1>11, <1>13 DEF RemoveJob, LaunchJob
<1>14. ASSUME NEW r \in Runs, NEW status \in {"completed", "failed"}, RunEnds(r, status)
       PROVE Purges'
  BY <1>11, <1>14 DEF RunEnds
<1>15. ASSUME NEW r \in Runs, FinishFails(r) PROVE Purges'
  BY <1>11, <1>15 DEF FinishFails
<1>16. ASSUME NEW p \in Processes, OpenFails(p) PROVE Purges'
  BY <1>16 DEF StartupTypes, OpenFails, Opened
<1> QED BY <1>1, <1>2, <1>3, <1>4, <1>5, <1>6, <1>7, <1>8, <1>9, <1>10, <1>12, <1>13, <1>14, <1>15,
           <1>16
        DEF StartupNext

(* Only a running row is called interrupted by a start; the end a run is   *)
(* told replaces whatever its row says.                                    *)
LEMMA RunRowsStep == StartupTypes /\ RunRowsTrue /\ StartupNext => RunRowsTrue'
<1> SUFFICES ASSUME StartupTypes, RunRowsTrue, StartupNext PROVE RunRowsTrue'
  OBVIOUS
<1> USE DEF RunRowsTrue
<1>1. ASSUME NEW p \in Processes, FailInterruptedRuns(p) PROVE RunRowsTrue'
  <2>1. ASSUME NEW r \in Runs, runs[r].status # "running" PROVE runs'[r] = runs[r]
    BY <1>1, <2>1 DEF FailInterruptedRuns
  <2>2. ASSUME NEW r \in Runs PROVE runs'[r].told = runs[r].told
    <3>1. runs'[r] = runs[r] \/ runs'[r] = [runs[r] EXCEPT !.status = "failed"]
      BY <1>1 DEF StartupTypes, FailInterruptedRuns
    <3>2. [runs[r] EXCEPT !.status = "failed"].told = runs[r].told
      BY ChangedRows DEF StartupTypes
    <3> QED BY <3>1, <3>2
  <2> QED BY <2>1, <2>2
<1>2. ASSUME NEW p \in Processes, ProcessEnds(p) PROVE RunRowsTrue'
  <2>1. ASSUME NEW r \in Runs
        PROVE  runs'[r] = runs[r] \/ runs'[r] = [runs[r] EXCEPT !.told = "nothing"]
    BY <1>2 DEF StartupTypes, ProcessEnds
  <2>2. ASSUME NEW r \in Runs PROVE runs'[r] = runs[r] \/ runs'[r].told = "nothing"
    <3>1. runs[r] \in RunRows
      BY DEF StartupTypes
    <3>2. [runs[r] EXCEPT !.told = "nothing"].told = "nothing"
      BY <3>1, ChangedRows
    <3> QED BY <2>1, <3>2
  <2> QED BY <2>2
<1>3. ASSUME NEW w \in 1 .. MaxWindows, LaunchJob(w) PROVE RunRowsTrue'
  BY <1>3 DEF StartupTypes, LaunchJob
<1>4. ASSUME NEW r \in Runs, NEW status \in {"completed", "failed"}, RunEnds(r, status)
      PROVE RunRowsTrue'
  <2>1. FinishedRow(runs[r], status).status = status /\ FinishedRow(runs[r], status).told = status
    <3>1. runs[r] \in RunRows
      BY DEF StartupTypes
    <3> QED BY <3>1, ChangedRows
  <2>2. runs' = [runs EXCEPT ![r] = FinishedRow(runs[r], status)]
    BY <1>4 DEF RunEnds
  <2> QED BY <2>1, <2>2 DEF StartupTypes
<1>5. ASSUME runs' = runs PROVE RunRowsTrue'
  BY <1>5
<1>6. ASSUME NEW p \in Processes,
             \/ StartProcess(p) \/ OpenStore(p) \/ MigrationBegins(p) \/ MigrationCommits(p)
             \/ PurgeReads(p) \/ PurgeWrites(p) \/ PurgeFails(p) \/ Activates(p) \/ OpenFails(p)
      PROVE RunRowsTrue'
  BY <1>5, <1>6 DEF StartProcess, OpenStore, OpenFails, MigrationBegins, MigrationCommits, PurgeReads,
                    PurgeWrites, PurgeFails, Activates
<1>7. ASSUME NEW w \in 1 .. MaxWindows, RemoveJob(w) \/ \E j \in QueueJobs : AddJob(w, j)
      PROVE RunRowsTrue'
  BY <1>5, <1>7 DEF RemoveJob, AddJob
<1>8. ASSUME NEW r \in Runs, FinishFails(r) PROVE RunRowsTrue'
  <2>1. [runs[r] EXCEPT !.told = "nothing"].told = "nothing"
    <3>1. runs[r] \in RunRows
      BY DEF StartupTypes
    <3> QED BY <3>1, ChangedRows
  <2>2. runs' = [runs EXCEPT ![r] = [runs[r] EXCEPT !.told = "nothing"]]
    BY <1>8 DEF FinishFails
  <2> QED BY <2>1, <2>2 DEF StartupTypes
<1> QED BY <1>1, <1>2, <1>3, <1>4, <1>6, <1>7, <1>8 DEF StartupNext

-----------------------------------------------------------------------------
(* The invariant holds in every reachable state.                           *)
LEMMA StartupInvariant == StartupSpec => []StartupIInv
<1>1. StartupInit => StartupIInv
  BY StartupInitIInv
<1>2. StartupIInv /\ [StartupNext]_startupVars => StartupIInv'
  <2>1. ASSUME StartupIInv, StartupNext PROVE StartupIInv'
    BY <2>1, StartupTypesStep, MeetingsStep, PurgesStep, RunRowsStep DEF StartupIInv
  <2>2. ASSUME StartupIInv, UNCHANGED startupVars PROVE StartupIInv'
    BY <2>2 DEF startupVars, StartupIInv, StartupTypes, Meetings, Purges, RunRowsTrue, Starting,
                LoneStartOpensStore
  <2> QED BY <2>1, <2>2
<1> QED BY <1>1, <1>2, PTL DEF StartupSpec

(* However often the program is started and killed, in the middle of a     *)
(* migration too, a start that met no other one and that the disk refused  *)
(* no access has the database file and not a store in memory               *)
(* (storage/mod.rs:24-92, ctx.rs:29-46).                                   *)
THEOREM LoneStartsOpenTheStore == StartupSpec => []LoneStartOpensStore
BY StartupInvariant, PTL DEF StartupIInv, Meetings

(* The row of a run whose end the program was told says that end, for any  *)
(* number of processes that call running rows interrupted meanwhile        *)
(* (repo.rs:117-144, ctx.rs:47).                                           *)
THEOREM RowsOfRunsAreTrue == StartupSpec => []RunRowsTrue
BY StartupInvariant, PTL DEF StartupIInv

(* A process shows no row with a credential of an earlier version, unless  *)
(* the file could not be written (repo.rs:149-306, ctx.rs:51-57).          *)
THEOREM OldSecretsAreNotServed == StartupSpec => []NoSecretsServed
<1>1. StartupIInv => NoSecretsServed
  BY DEF StartupIInv, StartupTypes, Purges, NoSecretsServed
<1> QED BY <1>1, StartupInvariant, PTL

-----------------------------------------------------------------------------
(* Parts implements each of its parts, whichever of them is looked at.     *)
LEMMA PartsImplementEachPart ==
  PartsSpec => Spec /\ FormSpec /\ MountsSpec /\ LogSpec /\ StartupSpec
<1>1. PartsInit => Init /\ FormInit /\ MountsInit /\ LogInit /\ StartupInit
  BY DEF PartsInit
<1>2. [PartsNext]_partsVars => [Next]_vars
  BY DEF PartsNext, partsVars, vars
<1>3. [PartsNext]_partsVars => [FormNext]_formVars
  BY DEF PartsNext, partsVars, formVars
<1>4. [PartsNext]_partsVars => [MountsNext]_mountVars
  BY DEF PartsNext, partsVars, mountVars
<1>5. [PartsNext]_partsVars => [LogNext]_logVars
  BY DEF PartsNext, partsVars, logVars
<1>6. [PartsNext]_partsVars => [StartupNext]_startupVars
  BY DEF PartsNext, partsVars, startupVars
<1> QED BY <1>1, <1>2, <1>3, <1>4, <1>5, <1>6, PTL
        DEF PartsSpec, Spec, FormSpec, MountsSpec, LogSpec, StartupSpec

(* What is proved of the five parts holds of the composition, whose model  *)
(* the checker explores: slots and order of starts, the command, dialogs   *)
(* and stored jobs of the form, rows of mounts and runs, the log of a run, *)
(* the store of a lone start and the credentials of earlier versions.      *)
THEOREM PartsKeepTheirPromises ==
  PartsSpec => /\ [](SlotsAccounted /\ NoDuplicates)
               /\ [](CommandMeansForm /\ ContainmentIsWarned)
               /\ [](StoredJobReturns /\ UnaskedIsHarmless)
               /\ []RunningHasRow
               /\ [](NoKeyMaterial /\ OnlyKeysSwallowed /\ LiveLogKept)
               /\ [](LoneStartOpensStore /\ RunRowsTrue /\ NoSecretsServed)
               /\ NoOvertaking /\ StartsFillSlots
<1>1. Spec => [](SlotsAccounted /\ NoDuplicates)
  BY SlotsNeverLeak, NeverHandedOutTwice, PTL
<1>2. FormSpec => [](CommandMeansForm /\ ContainmentIsWarned)
  BY CommandIsTheForm, ContainmentWasWarned, PTL
<1>3. FormSpec => [](StoredJobReturns /\ UnaskedIsHarmless)
  BY StoredJobsReturn, UnaskedRunsAreHarmless, PTL
<1>4. StartupSpec => [](LoneStartOpensStore /\ RunRowsTrue /\ NoSecretsServed)
  BY LoneStartsOpenTheStore, RowsOfRunsAreTrue, OldSecretsAreNotServed, PTL
<1>5. LogSpec => [](NoKeyMaterial /\ OnlyKeysSwallowed /\ LiveLogKept)
  BY SecretsStayInTheReader, OnlyLinesOfKeysAreLost, LiveLogsAreKept, PTL
<1> QED BY <1>1, <1>2, <1>3, <1>4, <1>5, PartsImplementEachPart, RunningMountsHaveRows,
           StartsInOrder, StartingFillsSlots, PTL
=============================================================================
