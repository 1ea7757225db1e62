---------------------------- MODULE JobForm_proofs ----------------------------
(***************************************************************************)
(* Proofs about JobForm for any endpoints, backup directories and custom   *)
(* flags the user may type, any number of edits, and any links before and  *)
(* after one is turned.  None of the four properties is inductive: that a  *)
(* run was warned of containment needs that the warnings shown, kept and   *)
(* judged again are those of the places it gets; that a stored job returns *)
(* needs that the places of a run stay where they are whatever link is     *)
(* turned; that a run that asked nothing removes nothing needs the flags   *)
(* its rows accepted and the risk it had when it was agreed to.            *)
(***************************************************************************)
EXTENDS JobForm, Lists_proofs

-----------------------------------------------------------------------------
(* The New Job form: places.                                               *)

LinkStates == {LinksBefore, LinksAfter}

(* The texts that occur, four of them the program's own; and what a        *)
(* component of a path may be, for a remote's name and the first component *)
(* of its path are one.                                                    *)
Texts == STRING \cup {"", "cwd", "src", "dst"}
NamedRoots == {h \o n : h \in Texts, n \in Texts}
Components == Texts \cup NamedRoots

EndpointKinds == {"local", "rclone", "ssh", "backend", "empty", "malformed"}

Endpoints == {e \in [kind : EndpointKinds, host : Texts, path : Seq(Components)] :
                e.kind # "local" => e.path \in Seq(Texts)}

LEMMA TextPaths ==
  ASSUME NEW p \in Seq(Texts)
  PROVE  p \in Seq(Components)
<1>1. Texts \subseteq Components
  BY DEF Components
<1> QED BY <1>1, WiderSeq

LEMMA StringPaths ==
  ASSUME NEW p \in Seq(STRING)
  PROVE  p \in Seq(Texts) /\ p \in Seq(Components)
<1>1. STRING \subseteq Texts
  BY DEF Texts
<1>2. p \in Seq(Texts)
  BY <1>1, WiderSeq
<1> QED BY <1>2, TextPaths

LEMMA TypedAreEndpoints == Sources \cup Destinations \cup Backups \subseteq Endpoints
<1> SUFFICES ASSUME NEW e \in Sources \cup Destinations \cup Backups PROVE e \in Endpoints
  OBVIOUS
<1>1. e \in [kind : EndpointKinds, host : STRING, path : Seq(STRING)]
  BY TypedAssumption DEF EndpointKinds
<1> DEFINE p == e.path
<1>2. p \in Seq(STRING)
  BY <1>1
<1>3. p \in Seq(Texts) /\ p \in Seq(Components)
  <2> HIDE DEF p
  <2> QED BY <1>2, StringPaths
<1>4. e.host \in Texts
  BY <1>1 DEF Texts
<1> QED BY <1>1, <1>3, <1>4 DEF Endpoints

(* A path is inside another when it begins with all of it.                 *)
LEMMA InsidePointwise ==
  ASSUME NEW S, NEW p \in Seq(S), NEW q \in Seq(S)
  PROVE  Inside(p, q) <=> Len(q) <= Len(p) /\ \A i \in 1 .. Len(q) : p[i] = q[i]
<1>1. Len(q) <= Len(p) => /\ SubSeq(q, 1, Len(q)) = q
                          /\ SubSeq(p, 1, Len(q)) \in Seq(S)
                          /\ Len(SubSeq(p, 1, Len(q))) = Len(q)
                          /\ \A i \in 1 .. Len(q) : SubSeq(p, 1, Len(q))[i] = p[i]
  OBVIOUS
<1>2. \A a, b \in Seq(S) : a = b <=> Len(a) = Len(b) /\ \A i \in 1 .. Len(a) : a[i] = b[i]
  OBVIOUS
<1> QED BY <1>1, <1>2 DEF Inside, IsPrefix

(* Where a link leads, no link stands.                                     *)
NoLinkOn(p) == \A k \in DOMAIN LinksBefore : ~Inside(p, k)

LEMMA ResolveUnlinked ==
  ASSUME NEW L \in LinkStates, NEW p, NoLinkOn(p)
  PROVE  Resolve(L, p) = p
BY LinksAssumption DEF Resolve, NoLinkOn, LinkStates

LEMMA ResolvedIsUnlinked ==
  ASSUME NEW L \in LinkStates, NEW p \in Seq(Components)
  PROVE  Resolve(L, p) \in Seq(Components) /\ NoLinkOn(Resolve(L, p))
<1>1. DOMAIN L = DOMAIN LinksBefore
  BY LinksAssumption DEF LinkStates
<1>2. CASE NoLinkOn(p)
  BY <1>2, ResolveUnlinked
<1>3. CASE ~NoLinkOn(p)
  <2> DEFINE l == CHOOSE k \in DOMAIN L : Inside(p, k)
             t == L[l]
             rest == SubSeq(p, Len(l) + 1, Len(p))
  <2>1. \E k \in DOMAIN L : Inside(p, k)
    BY <1>1, <1>3 DEF NoLinkOn
  <2>2. l \in DOMAIN LinksBefore /\ Inside(p, l)
    BY <1>1, <2>1
  <2>3. Resolve(L, p) = t \o rest
    BY <2>1 DEF Resolve
  <2> HIDE DEF l
  <2>4. l \in Seq(STRING) /\ t \in Seq(STRING)
        /\ \A k \in DOMAIN LinksBefore : ~Inside(t, k) /\ ~Inside(k, t)
    BY <2>2, LinksAssumption DEF LinkStates
  <2> HIDE DEF t
  <2>5. l \in Seq(Components) /\ t \in Seq(Components)
    BY <2>4, StringPaths
  <2>6. Len(l) <= Len(p)
    BY <2>2, <2>5, InsidePointwise
  <2>7. rest \in Seq(Components)
    BY <2>5, <2>6
  <2> HIDE DEF rest
  <2> DEFINE r == t \o rest
  <2>8. r \in Seq(Components) /\ Len(r) = Len(t) + Len(rest) /\ \A i \in 1 .. Len(t) : r[i] = t[i]
    BY <2>5, <2>7
  <2>8a. Len(t) \in Nat /\ Len(rest) \in Nat
    BY <2>5, <2>7
  <2> HIDE DEF r
  <2>9. ASSUME NEW k \in DOMAIN LinksBefore, Inside(r, k) PROVE FALSE
    <3>1. k \in Seq(Components)
      BY LinksAssumption, StringPaths
    <3>2. Len(k) <= Len(r) /\ \A i \in 1 .. Len(k) : r[i] = k[i]
      BY <2>8, <2>9, <3>1, InsidePointwise
    <3>3. CASE Len(k) <= Len(t)
      <4>1. \A i \in 1 .. Len(k) : t[i] = k[i]
        BY <2>8, <2>8a, <3>1, <3>2, <3>3
      <4>2. Inside(t, k)
        BY <2>5, <3>1, <3>3, <4>1, InsidePointwise
      <4> QED BY <2>4, <4>2
    <3>4. CASE Len(t) <= Len(k)
      <4>1. \A i \in 1 .. Len(t) : k[i] = t[i]
        BY <2>8, <2>8a, <3>1, <3>2, <3>4
      <4>2. Inside(k, t)
        BY <2>5, <3>1, <3>4, <4>1, InsidePointwise
      <4> QED BY <2>4, <4>2
    <3>5. Len(k) \in Nat
      BY <3>1
    <3> QED BY <2>8a, <3>3, <3>4, <3>5
  <2> QED BY <2>3, <2>8, <2>9 DEF r, NoLinkOn
<1> QED BY <1>2, <1>3

LEMMA PathTypes ==
  ASSUME NEW e \in Endpoints
  PROVE  TextPath(e) \in Seq(Components) /\ LocalPath(e) \in Seq(Components)
<1> DEFINE p == e.path
           h == e.host
<1>1. p \in Seq(Components) /\ h \in Texts /\ (e.kind # "local" => p \in Seq(Texts))
  BY DEF Endpoints
<1>2. h \in Components /\ "cwd" \in Components
  BY <1>1 DEF Components, Texts
<1> HIDE DEF p, h
<1>3. TextPath(e) \in Seq(Components)
  <2>1. CASE e.kind = "local"
    BY <1>1, <2>1 DEF TextPath, p
  <2>2. CASE e.kind # "local" /\ p = << >>
    <3>1. <<h>> \in Seq(Components)
      BY <1>2
    <3> QED BY <2>2, <3>1 DEF TextPath, p, h
  <2>3. CASE e.kind # "local" /\ p # << >>
    <3> DEFINE n == Head(p)
               t == Tail(p)
    <3>1. n \in Texts /\ t \in Seq(Texts)
      BY <1>1, <2>3
    <3> HIDE DEF n, t
    <3> DEFINE root == h \o n
    <3>2. root \in Components
      <4>1. root \in NamedRoots
        <5> DEFINE T == Texts
        <5>1. h \in T /\ n \in T
          BY <1>1, <3>1
        <5> HIDE DEF T
        <5>2. h \o n \in {a \o b : a \in T, b \in T}
          <6> DEFINE c == h \o n
          <6>1. \E a \in T, b \in T : c = a \o b
            BY <5>1
          <6> HIDE DEF c
          <6>2. c \in {a \o b : a \in T, b \in T}
            BY <6>1
          <6> QED BY <6>2 DEF c
        <5> QED BY <5>2 DEF NamedRoots, T
      <4> HIDE DEF root
      <4> QED BY <4>1 DEF Components
    <3>3. t \in Seq(Components)
      BY <3>1, TextPaths
    <3> HIDE DEF root
    <3>4. <<root>> \o t \in Seq(Components)
      BY <3>2, <3>3
    <3> QED BY <2>3, <3>4 DEF TextPath, p, h, root, n, t
  <2> QED BY <2>1, <2>2, <2>3
<1> DEFINE t == TextPath(e)
<1> HIDE DEF t
<1>4. t \in Seq(Components)
  BY <1>3 DEF t
<1>5. <<"cwd">> \o t \in Seq(Components) /\ << >> \o t = t
  BY <1>2, <1>4
<1>6. LocalPath(e) \in Seq(Components)
  BY <1>4, <1>5 DEF LocalPath, t
<1> QED BY <1>3, <1>6

(* The place a run gets is the place it would get again, however the links *)
(* are turned in between.                                                  *)
LEMMA ResolvedEndpoint ==
  ASSUME NEW tool, NEW L \in LinkStates, NEW e \in Endpoints
  PROVE  /\ EndpointForArgv(tool, L, e) \in Endpoints
         /\ \A K \in LinkStates : EndpointForArgv(tool, K, EndpointForArgv(tool, L, e))
                                     = EndpointForArgv(tool, L, e)
<1>1. CASE IsRemote(e) \/ IsBackend(tool, e)
  BY <1>1 DEF EndpointForArgv
<1>2. CASE ~IsRemote(e) /\ ~IsBackend(tool, e)
  <2> DEFINE p == Resolve(L, LocalPath(e))
             r == [kind |-> "local", host |-> "", path |-> p]
  <2>1. EndpointForArgv(tool, L, e) = r
    BY <1>2 DEF EndpointForArgv
  <2>2. p \in Seq(Components) /\ NoLinkOn(p)
    BY PathTypes, ResolvedIsUnlinked
  <2> HIDE DEF p
  <2>3. r \in Endpoints
    <3>1. "" \in Texts
      BY DEF Texts
    <3> QED BY <2>2, <3>1 DEF Endpoints, EndpointKinds
  <2>4. ASSUME NEW K \in LinkStates PROVE EndpointForArgv(tool, K, r) = r
    <3>1. LocalPath(r) = p
      <4>1. << >> \o p = p
        BY <2>2
      <4> QED BY <4>1 DEF LocalPath, TextPath
    <3>2. Resolve(K, p) = p
      BY <2>2, ResolveUnlinked
    <3>3. ~IsRemote(r) /\ ~IsBackend(tool, r)
      BY DEF IsRemote, IsBackend
    <3> QED BY <3>1, <3>2, <3>3 DEF EndpointForArgv
  <2> QED BY <2>1, <2>3, <2>4
<1> QED BY <1>1, <1>2

Jobs == [tool : Tools, op : OpKinds, source : Endpoints, destination : Endpoints,
         delete : BOOLEAN, dry : BOOLEAN, typed : SUBSET TypedOptions,
         backup : Endpoints \cup {NoBackup}, flags : Seq(QuotedFlags)]

LEMMA ResolvedJob ==
  ASSUME NEW A \in LinkStates, NEW B \in LinkStates, NEW C \in LinkStates, NEW s \in Jobs
  PROVE  /\ ResolvedBy(s, A, B, C) \in Jobs
         /\ \A K \in LinkStates : Resolved(ResolvedBy(s, A, B, C), K) = ResolvedBy(s, A, B, C)
<1> DEFINE a == EndpointForArgv(s.tool, A, s.source)
           b == EndpointForArgv(s.tool, B, s.destination)
           c == IF s.backup = NoBackup THEN NoBackup ELSE EndpointForArgv(s.tool, C, s.backup)
           r == [s EXCEPT !.source = a, !.destination = b, !.backup = c]
<1>1. ResolvedBy(s, A, B, C) = r
  BY DEF ResolvedBy
<1>2. s.source \in Endpoints /\ s.destination \in Endpoints
      /\ (s.backup # NoBackup => s.backup \in Endpoints)
  BY DEF Jobs
<1>3. /\ a \in Endpoints
      /\ \A K \in LinkStates : EndpointForArgv(s.tool, K, a) = a
  BY <1>2, ResolvedEndpoint
<1>4. /\ b \in Endpoints
      /\ \A K \in LinkStates : EndpointForArgv(s.tool, K, b) = b
  BY <1>2, ResolvedEndpoint
<1>5. /\ c \in Endpoints \cup {NoBackup}
      /\ c # NoBackup => \A K \in LinkStates : EndpointForArgv(s.tool, K, c) = c
  BY <1>2, ResolvedEndpoint
<1> HIDE DEF a, b, c, Endpoints
<1>6. r \in Jobs /\ r.tool = s.tool /\ r.source = a /\ r.destination = b /\ r.backup = c
  BY <1>3, <1>4, <1>5 DEF Jobs
<1>7. ASSUME NEW K \in LinkStates PROVE Resolved(r, K) = r
  <2>1. Resolved(r, K) = [r EXCEPT !.source = a, !.destination = b, !.backup = c]
    BY <1>3, <1>4, <1>5, <1>6 DEF Resolved, ResolvedBy
  <2> QED BY <1>6, <2>1 DEF Jobs
<1> QED BY <1>1, <1>6, <1>7

-----------------------------------------------------------------------------
(* Places of which one holds the other.                                    *)

LEMMA TextPathOf ==
  ASSUME NEW e \in Endpoints, e.kind # "local", e.path # << >>
  PROVE  /\ Len(TextPath(e)) = Len(e.path)
         /\ TextPath(e)[1] = e.host \o e.path[1]
         /\ \A i \in 2 .. Len(e.path) : TextPath(e)[i] = e.path[i]
<1> DEFINE p == e.path
           root == e.host \o Head(p)
           t == Tail(p)
<1>1. p \in Seq(Texts) /\ p # << >>
  BY DEF Endpoints
<1>2. TextPath(e) = <<root>> \o t
  BY DEF TextPath
<1>3. Head(p) = p[1]
  BY <1>1
<1>4. t \in Seq(Texts) /\ Len(t) = Len(p) - 1 /\ \A i \in 1 .. Len(p) - 1 : t[i] = p[i + 1]
  BY <1>1
<1>5. Len(p) \in Nat
  BY <1>1
<1> HIDE DEF p
<1>6. root = e.host \o p[1]
  BY <1>3
<1> HIDE DEF root, t
<1> DEFINE x == <<root>> \o t
<1>7. Len(x) = Len(p) /\ x[1] = root /\ \A i \in 2 .. Len(p) : x[i] = t[i - 1]
  BY <1>4, <1>5
<1> HIDE DEF x
<1>8. \A i \in 2 .. Len(p) : x[i] = p[i]
  BY <1>4, <1>5, <1>7
<1> QED BY <1>2, <1>6, <1>7, <1>8 DEF x, p

LEMMA TextPathsNest ==
  ASSUME NEW a \in Endpoints, NEW b \in Endpoints, a.kind # "local", b.kind # "local",
         a.host = b.host, a.path # << >>, b.path # << >>, Inside(a.path, b.path)
  PROVE  Inside(TextPath(a), TextPath(b))
<1> DEFINE p == a.path
           q == b.path
           x == TextPath(a)
           y == TextPath(b)
<1>1. /\ p \in Seq(Texts) /\ q \in Seq(Texts) /\ q # << >>
      /\ x \in Seq(Components) /\ y \in Seq(Components)
  BY PathTypes DEF Endpoints
<1>2. /\ Len(x) = Len(p) /\ x[1] = a.host \o p[1]
      /\ \A i \in 2 .. Len(p) : x[i] = p[i]
  BY TextPathOf
<1>3. /\ Len(y) = Len(q) /\ y[1] = b.host \o q[1]
      /\ \A i \in 2 .. Len(q) : y[i] = q[i]
  BY TextPathOf
<1>4. Inside(p, q)
  OBVIOUS
<1> HIDE DEF p, q, x, y
<1>5. Len(q) <= Len(p) /\ \A i \in 1 .. Len(q) : p[i] = q[i]
  BY <1>1, <1>4, InsidePointwise
<1>6. Len(q) \in Nat /\ Len(q) # 0 /\ Len(p) \in Nat
  BY <1>1
<1>7. x[1] = y[1]
  <2>1. p[1] = q[1]
    BY <1>5, <1>6
  <2> QED BY <1>2, <1>3, <2>1
<1>8. \A i \in 1 .. Len(q) : x[i] = y[i]
  <2> SUFFICES ASSUME NEW i \in 1 .. Len(q), i # 1 PROVE x[i] = y[i]
    BY <1>7
  <2>1. i \in 2 .. Len(q) /\ i \in 2 .. Len(p)
    BY <1>5, <1>6
  <2> QED BY <1>2, <1>3, <1>5, <2>1
<1>9. Inside(x, y)
  BY <1>1, <1>2, <1>3, <1>5, <1>8, InsidePointwise
<1> QED BY <1>9 DEF x, y

(* A text that only looks like a backend is below the current directory,   *)
(* where no link is.                                                       *)
LEMMA BackendIsUnlinked ==
  ASSUME NEW e \in Endpoints, e.kind = "backend", NEW L \in LinkStates
  PROVE  /\ Resolve(L, LocalPath(e)) = <<"cwd">> \o TextPath(e)
<1> DEFINE t == TextPath(e)
           p == <<"cwd">> \o t
<1>1. LocalPath(e) = p
  BY DEF LocalPath
<1>2. t \in Seq(Components) /\ p \in Seq(Components)
  BY <1>1, PathTypes
<1> HIDE DEF t
<1>3. p[1] = "cwd"
  BY <1>2
<1> HIDE DEF p
<1>4. ASSUME NEW k \in DOMAIN LinksBefore, Inside(p, k) PROVE FALSE
  <2>1. k \in Seq(STRING) /\ k # << >> /\ k[1] # "cwd"
    BY LinksAssumption
  <2>2. k \in Seq(Components) /\ Len(k) # 0 /\ Len(k) \in Nat
    BY <2>1, StringPaths
  <2>3. p[1] = k[1]
    BY <1>2, <1>4, <2>2, InsidePointwise
  <2> QED BY <1>3, <2>1, <2>3
<1>5. Resolve(L, p) = p
  BY <1>4, ResolveUnlinked DEF NoLinkOn
<1> QED BY <1>1, <1>5 DEF p, t

LEMMA CwdPathsNest ==
  ASSUME NEW x \in Seq(Components), NEW y \in Seq(Components), Inside(x, y)
  PROVE  Inside(<<"cwd">> \o x, <<"cwd">> \o y)
<1> DEFINE p == <<"cwd">> \o x
           q == <<"cwd">> \o y
<1>1. "cwd" \in Components
  BY DEF Components, Texts
<1>2. /\ p \in Seq(Components) /\ Len(p) = Len(x) + 1 /\ p[1] = "cwd"
      /\ \A i \in 2 .. Len(p) : p[i] = x[i - 1]
  BY <1>1
<1>3. /\ q \in Seq(Components) /\ Len(q) = Len(y) + 1 /\ q[1] = "cwd"
      /\ \A i \in 2 .. Len(q) : q[i] = y[i - 1]
  BY <1>1
<1> HIDE DEF p, q
<1>4. Len(y) <= Len(x) /\ \A i \in 1 .. Len(y) : x[i] = y[i]
  BY InsidePointwise
<1>5. Len(x) \in Nat /\ Len(y) \in Nat
  OBVIOUS
<1>6. ASSUME NEW i \in 1 .. Len(q) PROVE p[i] = q[i]
  <2>1. CASE i = 1
    BY <1>2, <1>3, <2>1
  <2>2. CASE i # 1
    <3>1. i \in 2 .. Len(q) /\ i \in 2 .. Len(p) /\ i - 1 \in 1 .. Len(y)
      BY <1>2, <1>3, <1>4, <1>5, <2>2
    <3>2. p[i] = x[i - 1] /\ q[i] = y[i - 1] /\ x[i - 1] = y[i - 1]
      BY <1>2, <1>3, <1>4, <3>1
    <3> QED BY <3>2
  <2> QED BY <2>1, <2>2
<1>7. Inside(p, q)
  BY <1>2, <1>3, <1>4, <1>5, <1>6, InsidePointwise
<1> QED BY <1>7 DEF p, q

(* What the run's places look like is what check_overlap compares.         *)
LEMMA NestedOverlaps ==
  ASSUME NEW tool, NEW L \in LinkStates, NEW a \in Endpoints, NEW b \in Endpoints,
         Nested(EndpointForArgv(tool, L, a), EndpointForArgv(tool, L, b)),
         ~BackendRoot(EndpointForArgv(tool, L, a)), ~BackendRoot(EndpointForArgv(tool, L, b)),
         IsRemote(a) => a.path # << >>, IsRemote(b) => b.path # << >>
  PROVE  Overlap(L, a, b) # "none"
<1> DEFINE x == EndpointForArgv(tool, L, a)
           y == EndpointForArgv(tool, L, b)
           Overlapping == /\ IsRemote(a) <=> IsRemote(b)
                          /\ \/ Inside(Normalized(L, a), Normalized(L, b))
                             \/ Inside(Normalized(L, b), Normalized(L, a))
<1>1. SUFFICES Overlapping
  BY DEF Overlap, IsRemote
<1>2. /\ x.kind = y.kind /\ x.host = y.host
      /\ Inside(x.path, y.path) \/ Inside(y.path, x.path)
  BY DEF Nested
<1>3. CASE IsRemote(a) \/ IsRemote(b)
  <2>1. x = a /\ y = b /\ IsRemote(a) /\ IsRemote(b)
    BY <1>2, <1>3 DEF EndpointForArgv, IsRemote, IsBackend
  <2>2. a.kind # "local" /\ b.kind # "local"
    BY <2>1 DEF IsRemote
  <2>3. Normalized(L, a) = TextPath(a) /\ Normalized(L, b) = TextPath(b)
    BY <2>1 DEF Normalized
  <2>4. a.host = b.host /\ a.path # << >> /\ b.path # << >>
        /\ (Inside(a.path, b.path) \/ Inside(b.path, a.path))
    BY <1>2, <2>1
  <2> QED BY <2>1, <2>2, <2>3, <2>4, TextPathsNest
<1>4. CASE ~IsRemote(a) /\ ~IsRemote(b) /\ (IsBackend(tool, a) \/ IsBackend(tool, b))
  <2>1. x = a /\ y = b /\ a.kind = "backend" /\ b.kind = "backend"
    BY <1>2, <1>4 DEF EndpointForArgv, IsBackend
  <2>2. a.path # << >> /\ b.path # << >>
    BY <2>1 DEF BackendRoot
  <2> DEFINE p == TextPath(a)
             q == TextPath(b)
  <2>3. Inside(p, q) \/ Inside(q, p)
    BY <1>2, <2>1, <2>2, TextPathsNest
  <2>4. p \in Seq(Components) /\ q \in Seq(Components)
    BY PathTypes
  <2>5. Normalized(L, a) = <<"cwd">> \o p /\ Normalized(L, b) = <<"cwd">> \o q
    BY <1>4, <2>1, BackendIsUnlinked DEF Normalized
  <2> HIDE DEF p, q
  <2>6. Inside(<<"cwd">> \o p, <<"cwd">> \o q) \/ Inside(<<"cwd">> \o q, <<"cwd">> \o p)
    BY <2>3, <2>4, CwdPathsNest
  <2> QED BY <1>4, <2>5, <2>6
<1>5. CASE ~IsRemote(a) /\ ~IsRemote(b) /\ ~IsBackend(tool, a) /\ ~IsBackend(tool, b)
  <2>1. x.path = Normalized(L, a) /\ y.path = Normalized(L, b)
    BY <1>5 DEF EndpointForArgv, Normalized
  <2> QED BY <1>2, <1>5, <2>1
<1> QED BY <1>3, <1>4, <1>5

LEMMA ContainmentSeen ==
  ASSUME NEW L \in LinkStates, NEW s \in Jobs,
         Nested(Resolved(s, L).source, Resolved(s, L).destination)
  PROVE  \/ \E w \in PathWarnings(s, L) : w.label = "overlap" \/ w.text.what = "root"
         \/ BackendRoot(Resolved(s, L).source) \/ BackendRoot(Resolved(s, L).destination)
<1> DEFINE a == s.source
           b == s.destination
           x == EndpointForArgv(s.tool, L, a)
           y == EndpointForArgv(s.tool, L, b)
           root == [what |-> "root", at |-> << >>]
           over == [what |-> Overlap(L, a, b), at |-> << >>]
<1>1. a \in Endpoints /\ b \in Endpoints
  BY DEF Jobs
<1>2. Resolved(s, L).source = x /\ Resolved(s, L).destination = y
  BY DEF Resolved, ResolvedBy, Jobs
<1>3. CASE IsRemote(a) /\ a.path = << >>
  <2>1. root \in EndpointWarnings(s.tool, L, a)
    BY <1>3 DEF EndpointWarnings
  <2>2. [label |-> "source", text |-> root] \in PathWarnings(s, L)
    BY <2>1 DEF PathWarnings
  <2> QED BY <2>2
<1>4. CASE IsRemote(b) /\ b.path = << >>
  <2>1. root \in EndpointWarnings(s.tool, L, b)
    BY <1>4 DEF EndpointWarnings
  <2>2. [label |-> "destination", text |-> root] \in PathWarnings(s, L)
    BY <2>1 DEF PathWarnings
  <2> QED BY <2>2
<1>5. CASE /\ ~(IsRemote(a) /\ a.path = << >>) /\ ~(IsRemote(b) /\ b.path = << >>)
           /\ ~BackendRoot(x) /\ ~BackendRoot(y)
  <2>1. Overlap(L, a, b) # "none"
    BY <1>1, <1>2, <1>5, NestedOverlaps
  <2>2. over \in OverlapWarnings(L, a, b)
    BY <2>1 DEF OverlapWarnings
  <2>3. [label |-> "overlap", text |-> over] \in PathWarnings(s, L)
    BY <2>2 DEF PathWarnings
  <2> QED BY <2>3
<1> QED BY <1>2, <1>3, <1>4, <1>5

-----------------------------------------------------------------------------
(* Commands.                                                               *)

RcloneKeys == {"dry-run", "transfers", "checkers", "checksum", "bwlimit", "retries",
               "max-delete", "backup-dir", "exclude", "include", "stats", "resync"}
RsyncKeys == {"archive", "compress", "checksum", "remove-source-files", "dry-run", "delete",
              "max-delete", "backup-dir", "info", "outbuf", "exclude", "include", "rsh"}

Words == STRING \cup RcloneKeys \cup RsyncKeys
TokenKinds == [no : BOOLEAN, key : Words]

(* Among the tokens about an option there is a last one.                   *)
LEMMA LastAbout ==
  ASSUME NEW ts \in Seq(TokenKinds), NEW k, NEW a \in 1 .. Len(ts), ts[a].key = k
  PROVE  \E i \in 1 .. Len(ts) : ts[i].key = k /\ \A j \in i + 1 .. Len(ts) : ts[j].key # k
<1> DEFINE n == Len(ts)
           about(i) == ts[i].key = k
           T == {d \in Nat : d < n /\ about(n - d)}
<1>1. n \in Nat /\ about(a)
  OBVIOUS
<1> HIDE DEF about
<1>2. n - a \in T
  <2>1. n - (n - a) = a /\ n - a \in Nat /\ n - a < n
    BY <1>1
  <2> HIDE DEF n
  <2> QED BY <1>1, <2>1
<1>3. PICK d \in T : \A e \in T : d <= e
  <2>1. T \in SUBSET Nat /\ T # {}
    BY <1>2
  <2> HIDE DEF T
  <2> QED BY <2>1, LeastElement
<1>4. ASSUME NEW j \in (n - d) + 1 .. n, about(j) PROVE FALSE
  <2>1. n - j \in Nat /\ n - j < d /\ n - j < n /\ n - (n - j) = j
    BY <1>1, <1>3, <1>4
  <2>2. n - j \in T
    BY <1>4, <2>1
  <2> QED BY <1>3, <2>1, <2>2
<1>5. n - d \in 1 .. n /\ about(n - d)
  BY <1>1, <1>3
<1> QED BY <1>4, <1>5 DEF about

(* An option that no token takes back holds exactly when it is there.      *)
LEMMA EffectiveOf ==
  ASSUME NEW ts \in Seq(TokenKinds), NEW k,
         \A i \in 1 .. Len(ts) : ts[i].key = k => ts[i] = Option(k)
  PROVE  k \in Effective(ts) <=> \E i \in 1 .. Len(ts) : ts[i].key = k
<1>1. DOMAIN ts = 1 .. Len(ts)
  OBVIOUS
<1>2. ASSUME NEW a \in 1 .. Len(ts), ts[a].key = k PROVE k \in Effective(ts)
  <2>1. PICK i \in 1 .. Len(ts) : ts[i].key = k /\ \A j \in i + 1 .. Len(ts) : ts[j].key # k
    BY <1>2, LastAbout
  <2>2. ts[i] = Option(k)
    BY <2>1
  <2> QED BY <1>1, <2>1, <2>2 DEF Effective
<1>3. k \in Effective(ts) => \E i \in 1 .. Len(ts) : ts[i].key = k
  BY <1>1 DEF Effective
<1> QED BY <1>2, <1>3

(* build_args pushes the options of its order that are set, each as such.  *)
LEMMA PushedTokens ==
  ASSUME NEW order \in Seq(Words), NEW keys
  PROVE  /\ Pushed(order, keys) \in Seq(TokenKinds)
         /\ \A i \in 1 .. Len(Pushed(order, keys)) :
              Pushed(order, keys)[i] = Option(Pushed(order, keys)[i].key)
         /\ \A k : (\E i \in 1 .. Len(Pushed(order, keys)) : Pushed(order, keys)[i].key = k)
                     <=> k \in keys /\ \E i \in 1 .. Len(order) : order[i] = k
<1>0. \A k : (\E i \in 1 .. Len(Kept(order, keys)) : Kept(order, keys)[i] = k)
               <=> k \in keys /\ \E i \in 1 .. Len(order) : order[i] = k
  BY KeptElements
<1> DEFINE kept == Kept(order, keys)
           ts == [i \in 1 .. Len(kept) |-> Option(kept[i])]
<1>1. Pushed(order, keys) = ts
  BY DEF Pushed
<1>2. kept \in Seq(Words)
  <2>1. kept \in Seq(Words \cap keys)
    BY KeptType
  <2>2. Words \cap keys \subseteq Words
    OBVIOUS
  <2> HIDE DEF kept
  <2> DEFINE W == Words \cap keys
  <2> HIDE DEF W, Words
  <2>3. kept \in Seq(W) /\ W \subseteq Words
    BY <2>1, <2>2 DEF W
  <2> QED BY <2>3, WiderSeq
<1>3. \A k : (\E i \in 1 .. Len(kept) : kept[i] = k)
               <=> k \in keys /\ \E i \in 1 .. Len(order) : order[i] = k
  BY <1>0
<1> HIDE DEF kept, Words
<1>4. \A w \in Words : Option(w) \in TokenKinds /\ Option(w).key = w
  BY DEF Option, TokenKinds
<1>5. \A i \in 1 .. Len(kept) : kept[i] \in Words
  BY <1>2
<1>6. Len(kept) \in Nat
  BY <1>2
<1>7. ts \in Seq(TokenKinds) /\ Len(ts) = Len(kept)
      /\ \A i \in 1 .. Len(kept) : ts[i] = Option(kept[i]) /\ ts[i].key = kept[i]
  <2> HIDE DEF TokenKinds, Option
  <2> QED BY <1>4, <1>5, <1>6
<1>8. \A k : (\E i \in 1 .. Len(ts) : ts[i].key = k) <=> \E i \in 1 .. Len(kept) : kept[i] = k
  BY <1>7
<1> HIDE DEF ts
<1>9. \A i \in 1 .. Len(ts) : ts[i] = Option(ts[i].key)
  BY <1>7
<1> QED BY <1>1, <1>3, <1>7, <1>8, <1>9

LEMMA RcloneOrdered ==
  /\ RcloneOrder \in Seq(Words)
  /\ \A k : (\E i \in 1 .. Len(RcloneOrder) : RcloneOrder[i] = k) <=> k \in RcloneKeys
<1>1. Len(RcloneOrder) = 12 /\ RcloneOrder \in Seq(RcloneKeys)
  BY DEF RcloneOrder, RcloneKeys
<1>2. RcloneKeys \subseteq Words
  BY DEF Words
<1>3. RcloneOrder \in Seq(Words)
  <2> HIDE DEF RcloneOrder, RcloneKeys, Words
  <2> QED BY <1>1, <1>2, WiderSeq
<1>4. ASSUME NEW k \in RcloneKeys PROVE \E i \in 1 .. 12 : RcloneOrder[i] = k
  <2>1. /\ RcloneOrder[1] = "dry-run" /\ RcloneOrder[2] = "transfers"
        /\ RcloneOrder[3] = "checkers" /\ RcloneOrder[4] = "checksum"
        /\ RcloneOrder[5] = "bwlimit" /\ RcloneOrder[6] = "retries"
        /\ RcloneOrder[7] = "max-delete" /\ RcloneOrder[8] = "backup-dir"
        /\ RcloneOrder[9] = "exclude" /\ RcloneOrder[10] = "include"
        /\ RcloneOrder[11] = "stats" /\ RcloneOrder[12] = "resync"
    BY DEF RcloneOrder
  <2> QED BY <2>1 DEF RcloneKeys
<1>5. \A i \in 1 .. Len(RcloneOrder) : RcloneOrder[i] \in RcloneKeys
  <2>1. RcloneOrder \in Seq(RcloneKeys)
    BY <1>1
  <2> QED BY <2>1, ElementOfSeq
<1> QED BY <1>1, <1>3, <1>4, <1>5

LEMMA RsyncOrdered ==
  /\ RsyncOrder \in Seq(Words)
  /\ \A k : (\E i \in 1 .. Len(RsyncOrder) : RsyncOrder[i] = k) <=> k \in RsyncKeys
<1>1. Len(RsyncOrder) = 13 /\ RsyncOrder \in Seq(RsyncKeys)
  BY DEF RsyncOrder, RsyncKeys
<1>2. RsyncKeys \subseteq Words
  BY DEF Words
<1>3. RsyncOrder \in Seq(Words)
  <2> HIDE DEF RsyncOrder, RsyncKeys, Words
  <2> QED BY <1>1, <1>2, WiderSeq
<1>4. ASSUME NEW k \in RsyncKeys PROVE \E i \in 1 .. 13 : RsyncOrder[i] = k
  <2>1. /\ RsyncOrder[1] = "archive" /\ RsyncOrder[2] = "compress"
        /\ RsyncOrder[3] = "checksum" /\ RsyncOrder[4] = "remove-source-files"
        /\ RsyncOrder[5] = "dry-run" /\ RsyncOrder[6] = "delete"
        /\ RsyncOrder[7] = "max-delete" /\ RsyncOrder[8] = "backup-dir"
        /\ RsyncOrder[9] = "info" /\ RsyncOrder[10] = "outbuf"
        /\ RsyncOrder[11] = "exclude" /\ RsyncOrder[12] = "include" /\ RsyncOrder[13] = "rsh"
    BY DEF RsyncOrder
  <2> QED BY <2>1 DEF RsyncKeys
<1>5. \A i \in 1 .. Len(RsyncOrder) : RsyncOrder[i] \in RsyncKeys
  <2>1. RsyncOrder \in Seq(RsyncKeys)
    BY <1>1
  <2> QED BY <2>1, ElementOfSeq
<1> QED BY <1>1, <1>3, <1>4, <1>5

LEMMA FlagTokensOf ==
  ASSUME NEW s \in Jobs
  PROVE  /\ FlagTokens(s) \in Seq(TokenKinds)
         /\ Len(FlagTokens(s)) = Len(s.flags)
         /\ \A i \in 1 .. Len(s.flags) : /\ FlagTokens(s)[i].key = Means(s.tool, s.flags[i].key)
                                         /\ FlagTokens(s)[i].no = s.flags[i].no
<1> DEFINE fs == s.flags
           meant(i) == Means(s.tool, fs[i].key)
<1>1. fs \in Seq(QuotedFlags)
  BY DEF Jobs
<1> HIDE DEF fs
<1>2. ASSUME NEW i \in 1 .. Len(fs) PROVE fs[i].no \in BOOLEAN /\ meant(i) \in Words
  <2> DEFINE f == fs[i]
  <2>1. f \in QuotedFlags
    BY <1>1
  <2> HIDE DEF f
  <2>2. f.no \in BOOLEAN /\ f.key \in STRING
    BY <2>1 DEF QuotedFlags
  <2>3. meant(i) \in {"checksum", "compress", f.key}
    BY DEF Means, f
  <2> QED BY <2>2, <2>3 DEF f, Words, RsyncKeys
<1> HIDE DEF meant
<1> DEFINE tok(i) == [no |-> fs[i].no, key |-> meant(i)]
           ts == [i \in 1 .. Len(fs) |-> tok(i)]
<1>3. ASSUME NEW i \in 1 .. Len(fs)
      PROVE  tok(i) \in TokenKinds /\ tok(i).key = meant(i) /\ tok(i).no = fs[i].no
  BY <1>2 DEF TokenKinds
<1> HIDE DEF tok, TokenKinds
<1>4. ts \in Seq(TokenKinds) /\ Len(ts) = Len(fs) /\ \A i \in 1 .. Len(fs) : ts[i] = tok(i)
  BY <1>1, <1>3
<1>5. FlagTokens(s) = ts
  BY DEF FlagTokens, fs, tok, meant
<1> QED BY <1>3, <1>4, <1>5 DEF fs, meant

(* The options a builder pushes of its own, beside the custom flags.       *)
OwnKeys(s) ==
  IF s.tool = "rclone" THEN (Asked(s) \cup {"stats"}) \cap RcloneKeys
  ELSE (Asked(s) \cup {"archive", "info", "outbuf"}
          \cup (IF s.op = "move" THEN {"remove-source-files"}
                ELSE IF DeleteEffective(s) THEN {"delete"} ELSE {})) \cap RsyncKeys

TypedFlag(s, t) ==
  \E j \in 1 .. Len(s.flags) : t.key = Means(s.tool, s.flags[j].key) /\ t.no = s.flags[j].no

LEMMA CommandTokens ==
  ASSUME NEW s \in Jobs
  PROVE  /\ Tokens(s) \in Seq(TokenKinds)
         /\ \A i \in 1 .. Len(Tokens(s)) :
              \/ Tokens(s)[i] = Option(Tokens(s)[i].key) /\ Tokens(s)[i].key \in OwnKeys(s)
              \/ TypedFlag(s, Tokens(s)[i])
         /\ \A k \in OwnKeys(s) : \E i \in 1 .. Len(Tokens(s)) : Tokens(s)[i].key = k
<1> DEFINE fl == FlagTokens(s)
           extra == Asked(s) \cup {"archive", "info", "outbuf"}
                      \cup (IF s.op = "move" THEN {"remove-source-files"}
                            ELSE IF DeleteEffective(s) THEN {"delete"} ELSE {})
           own == IF s.tool = "rclone" THEN Pushed(RcloneOrder, Asked(s) \cup {"stats"})
                  ELSE Pushed(RsyncOrder, extra)
<1>1. /\ fl \in Seq(TokenKinds)
      /\ \A i \in 1 .. Len(fl) : TypedFlag(s, fl[i])
  BY FlagTokensOf DEF TypedFlag
<1>2. /\ own \in Seq(TokenKinds)
      /\ \A i \in 1 .. Len(own) : own[i] = Option(own[i].key)
      /\ \A k : (\E i \in 1 .. Len(own) : own[i].key = k) <=> k \in OwnKeys(s)
  <2>1. CASE s.tool = "rclone"
    <3> DEFINE keys == Asked(s) \cup {"stats"}
    <3>1. OwnKeys(s) = keys \cap RcloneKeys
      BY <2>1 DEF OwnKeys
    <3>2. own = Pushed(RcloneOrder, keys)
      BY <2>1
    <3>3. /\ RcloneOrder \in Seq(Words)
          /\ \A k : (\E i \in 1 .. Len(RcloneOrder) : RcloneOrder[i] = k) <=> k \in RcloneKeys
      BY RcloneOrdered
    <3> HIDE DEF keys, own
    <3>4. own \in Seq(TokenKinds) /\ \A i \in 1 .. Len(own) : own[i] = Option(own[i].key)
      BY <3>2, <3>3, PushedTokens
    <3>5. \A k : (\E i \in 1 .. Len(own) : own[i].key = k)
                   <=> k \in keys /\ \E i \in 1 .. Len(RcloneOrder) : RcloneOrder[i] = k
      BY <3>2, <3>3, PushedTokens
    <3> QED BY <3>1, <3>3, <3>4, <3>5
  <2>2. CASE s.tool # "rclone"
    <3>1. OwnKeys(s) = extra \cap RsyncKeys
      BY <2>2 DEF OwnKeys
    <3>2. own = Pushed(RsyncOrder, extra)
      BY <2>2
    <3>3. /\ RsyncOrder \in Seq(Words)
          /\ \A k : (\E i \in 1 .. Len(RsyncOrder) : RsyncOrder[i] = k) <=> k \in RsyncKeys
      BY RsyncOrdered
    <3> HIDE DEF extra, own
    <3>4. own \in Seq(TokenKinds) /\ \A i \in 1 .. Len(own) : own[i] = Option(own[i].key)
      BY <3>2, <3>3, PushedTokens
    <3>5. \A k : (\E i \in 1 .. Len(own) : own[i].key = k)
                   <=> k \in extra /\ \E i \in 1 .. Len(RsyncOrder) : RsyncOrder[i] = k
      BY <3>2, <3>3, PushedTokens
    <3> QED BY <3>1, <3>3, <3>4, <3>5
  <2> QED BY <2>1, <2>2
<1>3. Tokens(s) = fl \o own \/ Tokens(s) = own \o fl
  BY DEF Tokens, RcloneTokens, RsyncTokens
<1> HIDE DEF fl, own
<1> DEFINE ts == Tokens(s)
<1>4. ts = fl \o own \/ ts = own \o fl
  BY <1>3
<1> HIDE DEF ts
<1>5. /\ ts \in Seq(TokenKinds)
      /\ \A i \in 1 .. Len(ts) : \/ \E j \in 1 .. Len(own) : ts[i] = own[j]
                                 \/ \E j \in 1 .. Len(fl) : ts[i] = fl[j]
      /\ \A j \in 1 .. Len(own) : \E i \in 1 .. Len(ts) : ts[i] = own[j]
  <2>1. CASE ts = fl \o own
    <3>1. fl \in Seq(TokenKinds) /\ own \in Seq(TokenKinds) /\ ts = fl \o own
      BY <1>1, <1>2, <2>1
    <3>2. ts \in Seq(TokenKinds)
      BY <3>1, ConcatElements, SMTT(30)
    <3>3. \A i \in 1 .. Len(ts) : \/ \E j \in 1 .. Len(fl) : ts[i] = fl[j]
                                \/ \E j \in 1 .. Len(own) : ts[i] = own[j]
      BY <3>1, ConcatElements, SMTT(30)
    <3>4. \A j \in 1 .. Len(own) : \E i \in 1 .. Len(ts) : ts[i] = own[j]
      BY <3>1, ConcatElements, SMTT(30)
    <3> QED BY <3>2, <3>3, <3>4
  <2>2. CASE ts = own \o fl
    <3>1. own \in Seq(TokenKinds) /\ fl \in Seq(TokenKinds) /\ ts = own \o fl
      BY <1>1, <1>2, <2>2
    <3>2. ts \in Seq(TokenKinds)
      BY <3>1, ConcatElements, SMTT(30)
    <3>3. \A i \in 1 .. Len(ts) : \/ \E j \in 1 .. Len(own) : ts[i] = own[j]
                                \/ \E j \in 1 .. Len(fl) : ts[i] = fl[j]
      BY <3>1, ConcatElements, SMTT(30)
    <3>4. \A j \in 1 .. Len(own) : \E i \in 1 .. Len(ts) : ts[i] = own[j]
      BY <3>1, ConcatElements, SMTT(30)
    <3> QED BY <3>2, <3>3, <3>4
  <2> QED BY <1>4, <2>1, <2>2
<1>6. ASSUME NEW i \in 1 .. Len(ts)
      PROVE  \/ ts[i] = Option(ts[i].key) /\ ts[i].key \in OwnKeys(s)
             \/ TypedFlag(s, ts[i])
  <2>1. CASE \E j \in 1 .. Len(own) : ts[i] = own[j]
    BY <1>2, <2>1
  <2>2. CASE \E j \in 1 .. Len(fl) : ts[i] = fl[j]
    BY <1>1, <2>2
  <2> QED BY <1>5, <2>1, <2>2
<1>7. ASSUME NEW k \in OwnKeys(s) PROVE \E i \in 1 .. Len(ts) : ts[i].key = k
  BY <1>2, <1>5
<1> QED BY <1>5, <1>6, <1>7 DEF ts

(* An accepted flag says nothing of what a row says, but for the names the *)
(* check does not know, which are of two rows of rsync.                    *)
LEMMA FlagsLeaveRows ==
  ASSUME NEW s \in Jobs, FlagsAccepted(s.tool, s.flags), NEW t, TypedFlag(s, t)
  PROVE  t.key \in Renamed(s) \/ t.key \notin Rows(s.tool)
<1>1. PICK j \in 1 .. Len(s.flags) : t.key = Means(s.tool, s.flags[j].key)
  BY DEF TypedFlag
<1>2. CASE t.key = s.flags[j].key
  <2>1. FlagAccepted(s.tool, s.flags[j])
    BY <1>1 DEF FlagsAccepted
  <2>2. s.flags[j].key \notin Controlled(s.tool)
    BY <2>1 DEF FlagAccepted
  <2>3. s.tool \in {"rclone", "rsync"}
    BY DEF Jobs, Tools
  <2>4. Rows(s.tool) \subseteq Controlled(s.tool)
    BY <2>3 DEF Rows, Supported, Controlled, CommonControlled
  <2> QED BY <1>2, <2>2, <2>4
<1>3. CASE t.key # s.flags[j].key
  <2>1. j \in DOMAIN s.flags
    BY DEF Jobs
  <2> QED BY <1>1, <1>3, <2>1 DEF Renamed
<1> QED BY <1>2, <1>3

LEMMA RenamedRows ==
  ASSUME NEW s
  PROVE  Renamed(s) \subseteq IF s.tool = "rsync" THEN {"checksum", "compress"} ELSE {}
<1> SUFFICES ASSUME NEW j \in DOMAIN s.flags, Means(s.tool, s.flags[j].key) # s.flags[j].key
             PROVE  s.tool = "rsync" /\ Means(s.tool, s.flags[j].key) \in {"checksum", "compress"}
  BY DEF Renamed
<1> DEFINE key == s.flags[j].key
<1> HIDE DEF key
<1>1. Means(s.tool, key) # key
  BY DEF key
<1>2. s.tool = "rsync" /\ Means(s.tool, key) \in {"checksum", "compress"}
  BY <1>1 DEF Means
<1> QED BY <1>2 DEF key

LEMMA AskedHasRow ==
  ASSUME NEW s \in Jobs
  PROVE  /\ Asked(s) \subseteq Rows(s.tool)
         /\ OwnKeys(s) \cap Rows(s.tool) = Asked(s)
<1>1. s.tool \in {"rclone", "rsync"}
  BY DEF Jobs, Tools
<1>2. Supported(s.tool, s.op) \subseteq Supported(s.tool, "bisync")
  BY DEF Supported
<1>3. Asked(s) \subseteq Rows(s.tool)
  BY <1>2 DEF Asked, Rows
<1>4. CASE s.tool = "rclone"
  <2>1. Rows(s.tool) \subseteq RcloneKeys /\ "stats" \notin Rows(s.tool)
    BY <1>4 DEF Rows, Supported, RcloneKeys
  <2>2. OwnKeys(s) = (Asked(s) \cup {"stats"}) \cap RcloneKeys
    BY <1>4 DEF OwnKeys
  <2> QED BY <1>3, <2>1, <2>2
<1>5. CASE s.tool = "rsync"
  <2>1. /\ Rows(s.tool) \subseteq RsyncKeys
        /\ Rows(s.tool) \cap {"archive", "info", "outbuf", "remove-source-files", "delete"} = {}
    BY <1>5 DEF Rows, Supported, RsyncKeys
  <2>2. \E X \in SUBSET {"archive", "info", "outbuf", "remove-source-files", "delete"} :
          OwnKeys(s) = (Asked(s) \cup X) \cap RsyncKeys
    <3> DEFINE x == {"archive", "info", "outbuf"}
                      \cup (IF s.op = "move" THEN {"remove-source-files"}
                            ELSE IF DeleteEffective(s) THEN {"delete"} ELSE {})
    <3>1. x \in SUBSET {"archive", "info", "outbuf", "remove-source-files", "delete"}
      OBVIOUS
    <3>2. OwnKeys(s) = (Asked(s) \cup x) \cap RsyncKeys
      BY <1>5 DEF OwnKeys
    <3> QED BY <3>1, <3>2
  <2> QED BY <1>3, <2>1, <2>2
<1> QED BY <1>1, <1>3, <1>4, <1>5

(* The command means the rows.                                             *)
LEMMA CommandMeansRows ==
  ASSUME NEW s \in Jobs, FlagsAccepted(s.tool, s.flags)
  PROVE  (Effective(Tokens(s)) \cap Rows(s.tool)) \ Renamed(s) = Asked(s) \ Renamed(s)
<1> DEFINE ts == Tokens(s)
<1>1. /\ ts \in Seq(TokenKinds)
      /\ \A i \in 1 .. Len(ts) : \/ ts[i] = Option(ts[i].key) /\ ts[i].key \in OwnKeys(s)
                                 \/ TypedFlag(s, ts[i])
      /\ \A k \in OwnKeys(s) : \E i \in 1 .. Len(ts) : ts[i].key = k
  BY CommandTokens
<1> HIDE DEF ts
<1>2. ASSUME NEW k \in Rows(s.tool), k \notin Renamed(s)
      PROVE  k \in Effective(ts) <=> k \in OwnKeys(s)
  <2>1. ASSUME NEW i \in 1 .. Len(ts), ts[i].key = k PROVE ts[i] = Option(k) /\ k \in OwnKeys(s)
    <3>1. ~TypedFlag(s, ts[i])
      BY <1>2, <2>1, FlagsLeaveRows
    <3> QED BY <1>1, <2>1, <3>1
  <2>2. k \in Effective(ts) <=> \E i \in 1 .. Len(ts) : ts[i].key = k
    BY <1>1, <2>1, EffectiveOf
  <2> QED BY <1>1, <2>1, <2>2
<1>3. (Effective(ts) \cap Rows(s.tool)) \ Renamed(s)
        = (OwnKeys(s) \cap Rows(s.tool)) \ Renamed(s)
  BY <1>2
<1> QED BY <1>3, AskedHasRow DEF ts

LEMMA PayloadMeansRows ==
  ASSUME NEW s \in Jobs, RcEligible(s)
  PROVE  RcOptions(s) = Asked(s)
<1>1. s.tool = "rclone" /\ s.op # "bisync"
  BY DEF RcEligible
<1>2. Supported(s.tool, s.op) = {"transfers", "checkers", "checksum", "bwlimit", "retries",
                                 "max-delete", "exclude", "include"}
  BY <1>1 DEF Supported
<1> QED BY <1>2 DEF RcOptions, Asked

(* A command that asks nothing removes nothing.                            *)
LEMMA HarmlessCommand ==
  ASSUME NEW s \in Jobs, FlagsAccepted(s.tool, s.flags), s.dry \/ Risk(s) # "destructive",
         ~RsyncCopyDeletes(s), ~RsyncForces(s)
  PROVE  ~MayRemove(s.tool, s.op, Effective(Tokens(s)))
<1> DEFINE ts == Tokens(s)
<1>1. CASE s.dry
  <2>1. "dry-run" \in Asked(s)
    BY <1>1 DEF Asked
  <2>2. "dry-run" \in Effective(Tokens(s))
    <3>1. "dry-run" \notin Renamed(s)
      BY RenamedRows
    <3> QED BY <2>1, <3>1, CommandMeansRows
  <2> QED BY <2>2 DEF MayRemove
<1>2. CASE Risk(s) # "destructive"
  <2>1. ~HasDangerousFlags(s) /\ Classify(s.op, DeleteEffective(s)) # "destructive"
    BY <1>2 DEF Risk
  <2>2. s.op = "copy"
    <3>1. s.op \in {"copy", "sync", "move", "bisync"}
      BY DEF Jobs, OpKinds
    <3> QED BY <2>1, <3>1 DEF Classify, DeleteEffective
  <2>3. ASSUME s.tool = "rsync", NEW k \in RemovingOptions, k \in Effective(ts) PROVE FALSE
    <3>1. /\ ts \in Seq(TokenKinds)
          /\ \A i \in 1 .. Len(ts) : \/ ts[i] = Option(ts[i].key) /\ ts[i].key \in OwnKeys(s)
                                     \/ TypedFlag(s, ts[i])
      BY CommandTokens
    <3> HIDE DEF ts
    <3>2. PICK i \in 1 .. Len(ts) : ts[i] = Option(k)
      BY <2>3, <3>1 DEF Effective
    <3>3. ts[i].key = k /\ ts[i].no = FALSE
      BY <3>2 DEF Option
    <3>4. k \notin OwnKeys(s)
      <4>1. s.op # "move" /\ ~DeleteEffective(s)
        BY <2>2, <2>3 DEF DeleteEffective, RsyncCopyDeletes
      <4>2. OwnKeys(s) = (Asked(s) \cup {"archive", "info", "outbuf"}) \cap RsyncKeys
        BY <2>3, <4>1 DEF OwnKeys
      <4>3. k \notin Asked(s)
        BY DEF Asked, Supported, RemovingOptions, DeleteFamily
      <4> QED BY <4>2, <4>3 DEF RemovingOptions, DeleteFamily
    <3>5. TypedFlag(s, ts[i])
      BY <3>1, <3>3, <3>4
    <3>6. PICK j \in 1 .. Len(s.flags) : k = Means(s.tool, s.flags[j].key)
                                          /\ s.flags[j].no = FALSE
      BY <3>3, <3>5 DEF TypedFlag
    <3>7. k = s.flags[j].key
      <4>1. k \notin {"checksum", "compress"}
        BY DEF RemovingOptions, DeleteFamily
      <4>2. k \in {"checksum", "compress", s.flags[j].key}
        BY <3>6 DEF Means
      <4> QED BY <4>1, <4>2
    <3>8. k # "force"
      <4>1. j \in DOMAIN s.flags
        BY DEF Jobs
      <4> QED BY <2>3, <3>7, <4>1 DEF RsyncForces
    <3>9. k \in DangerousFlags
      BY <3>8 DEF DangerousFlags, RemovingOptions, DeleteFamily
    <3> QED BY <2>1, <3>6, <3>7, <3>9 DEF HasDangerousFlags
  <2> HIDE DEF ts
  <2> QED BY <2>2, <2>3 DEF MayRemove, ts
<1> QED BY <1>1, <1>2

-----------------------------------------------------------------------------
(* Rejoining the custom flags.                                             *)

(* Flags are flags again, and those that needed no quotes are the same.    *)
LEMMA UnquotedType ==
  ASSUME NEW fs \in Seq(QuotedFlags)
  PROVE  Unquoted(fs) \in Seq(QuotedFlags)
<1> DEFINE piece(i) == <<[fs[i] EXCEPT !.tail = << >>]>> \o fs[i].tail
           ss == [i \in 1 .. Len(fs) |-> piece(i)]
<1>1. PlainFlags \subseteq QuotedFlags
  <2>1. << >> \in Seq(PlainFlags)
    OBVIOUS
  <2> QED BY <2>1 DEF PlainFlags, QuotedFlags
<1>2. ASSUME NEW i \in 1 .. Len(fs) PROVE piece(i) \in Seq(QuotedFlags)
  <2> DEFINE f == fs[i]
             tl == f.tail
             bare == [f EXCEPT !.tail = << >>]
  <2>1. f \in QuotedFlags
    OBVIOUS
  <2> HIDE DEF f
  <2>2. tl \in Seq(PlainFlags)
    BY <2>1 DEF QuotedFlags
  <2>3. bare \in PlainFlags
    BY <2>1 DEF QuotedFlags, PlainFlags
  <2> HIDE DEF tl, bare
  <2>4. tl \in Seq(QuotedFlags)
    BY <1>1, <2>2, WiderSeq
  <2>5. bare \in QuotedFlags
    BY <1>1, <2>3
  <2>6. <<bare>> \o tl \in Seq(QuotedFlags)
    BY <2>4, <2>5
  <2> QED BY <2>6 DEF bare, tl, f
<1> HIDE DEF piece
<1>3. ss \in Seq(Seq(QuotedFlags))
  <2>1. Len(fs) \in Nat
    OBVIOUS
  <2> DEFINE Q == Seq(QuotedFlags)
  <2>2. \A i \in 1 .. Len(fs) : piece(i) \in Q
    BY <1>2
  <2> HIDE DEF Q
  <2>3. ss \in Seq(Q)
    BY <2>1, <2>2
  <2> QED BY <2>3 DEF Q
<1>4. Unquoted(fs) = FlattenSeq(ss)
  BY DEF Unquoted, piece
<1> HIDE DEF ss
<1> QED BY <1>3, <1>4, FlattenType

LEMMA UnquotedPlain ==
  ASSUME NEW fs \in Seq(QuotedFlags), \A i \in 1 .. Len(fs) : fs[i].tail = << >>
  PROVE  Unquoted(fs) = fs
<1> DEFINE piece(i) == <<[fs[i] EXCEPT !.tail = << >>]>> \o fs[i].tail
           ss == [i \in 1 .. Len(fs) |-> piece(i)]
<1>1. ASSUME NEW i \in 1 .. Len(fs) PROVE piece(i) = <<fs[i]>>
  <2> DEFINE f == fs[i]
             bare == [f EXCEPT !.tail = << >>]
  <2>1. f \in QuotedFlags /\ f.tail = << >>
    OBVIOUS
  <2> HIDE DEF f
  <2>2. bare = f
    BY <2>1 DEF QuotedFlags
  <2> HIDE DEF bare
  <2>3. <<bare>> \o << >> = <<bare>>
    OBVIOUS
  <2>4. piece(i) = <<bare>> \o f.tail
    BY DEF bare, f
  <2> QED BY <2>1, <2>2, <2>3, <2>4 DEF f
<1>2. Len(fs) \in Nat /\ \A i \in 1 .. Len(fs) : fs[i] \in QuotedFlags
  OBVIOUS
<1>3. Unquoted(fs) = FlattenSeq(ss)
  BY DEF Unquoted, piece
<1> HIDE DEF piece
<1>4. Len(ss) = Len(fs) /\ \A i \in 1 .. Len(fs) : ss[i] = <<fs[i]>>
  BY <1>1, <1>2
<1>5. ss \in Seq(Seq(QuotedFlags))
  <2> DEFINE Q == Seq(QuotedFlags)
  <2>1. \A i \in 1 .. Len(fs) : <<fs[i]>> \in Q
    BY <1>2
  <2>2. \A i \in 1 .. Len(fs) : piece(i) \in Q
    BY <1>1, <2>1
  <2> HIDE DEF Q
  <2>3. ss \in Seq(Q)
    BY <1>2, <2>2
  <2> QED BY <2>3 DEF Q
<1> HIDE DEF ss
<1> QED BY <1>3, <1>4, <1>5, FlattenSingletons

-----------------------------------------------------------------------------
(* The form's invariant: what is a job stays one, the preview is of the    *)
(* rows, at most one thing is under way, what was loaded is what the rows  *)
(* say, and what waits or ran was agreed to.                               *)

FormTypes ==
  /\ form \in Jobs /\ links \in LinkStates
  /\ profile # NoJob => profile \in Jobs
  /\ loaded # NoJob => loaded \in Jobs

ShownFollows == links = LinksBefore => shown = View(form, LinksBefore)

OneAtATime ==
  /\ dialog # NoJob => queued = NoJob /\ ran = NoJob /\ profile = NoJob /\ loaded = NoJob
  /\ queued # NoJob => dialog = NoJob /\ ran = NoJob /\ profile = NoJob /\ loaded = NoJob
  /\ profile # NoJob => ran = NoJob

RowsAreLoaded ==
  loaded # NoJob => /\ form = ApplySpec(form, loaded)
                    /\ ran # NoJob => loaded = ran.spec

Agreed(s, warnings, asked, confirm) ==
  /\ s \in Jobs /\ asked \in BOOLEAN /\ confirm \in BOOLEAN
  /\ s.dry \/ (warnings # {} => asked)
  /\ s.dry \/ asked \/ ~confirm \/ Risk(s) # "destructive"

DialogSound == dialog # NoJob => dialog.spec \in Jobs

QueuedSound ==
  queued # NoJob => Agreed(queued.spec, queued.warnings, queued.asked, queued.confirm)

Seen(r) ==
  Nested(r.spec.source, r.spec.destination) /\ ~r.spec.dry /\ ~r.turned
    => \/ \E w \in r.agreed : w.label = "overlap" \/ w.text.what = "root"
       \/ BackendRoot(r.spec.source) \/ BackendRoot(r.spec.destination)

Sound(r) ==
  /\ Agreed(r.spec, r.agreed, r.asked, r.confirm)
  /\ FlagsAccepted(r.spec.tool, r.spec.flags)
  /\ \A L \in LinkStates : Resolved(r.spec, L) = r.spec
  /\ Seen(r)

RanSound == ran # NoJob => Sound(ran)

FormIInv ==
  /\ FormTypes /\ ShownFollows /\ OneAtATime /\ RowsAreLoaded
  /\ DialogSound /\ QueuedSound /\ RanSound

(* What comes into the rows is a job.                                      *)
LEMMA PrefillIsJob ==
  ASSUME NEW pathsReady \in BOOLEAN
  PROVE  Prefill(pathsReady) \in Jobs
<1>1. \A n \in {"src", "dst"} : DemoEndpoint(n) \in Endpoints
  <2> TAKE n \in {"src", "dst"}
  <2>1. n \in Texts /\ "" \in Texts
    BY DEF Texts
  <2>2. Demo \in Seq(Texts)
    BY JobFormAssumption, StringPaths
  <2> DEFINE p == Append(Demo, n)
             T == Texts
  <2> HIDE DEF T
  <2>3. p \in Seq(T)
    <3>1. Demo \in Seq(T) /\ n \in T
      BY <2>1, <2>2 DEF T
    <3> QED BY <3>1
  <2> HIDE DEF p
  <2>4. p \in Seq(Components)
    BY <2>3, TextPaths DEF T
  <2> QED BY <2>1, <2>4 DEF DemoEndpoint, Endpoints, EndpointKinds, p
<1>2. EmptyEndpoint \in Endpoints
  <2>1. "" \in Texts
    BY DEF Texts
  <2> DEFINE T == Texts
             C == Components
  <2> HIDE DEF T, C
  <2>2. << >> \in Seq(T) /\ << >> \in Seq(C)
    OBVIOUS
  <2>3. << >> \in Seq(Texts) /\ << >> \in Seq(Components)
    BY <2>2 DEF T, C
  <2> QED BY <2>1, <2>3 DEF EmptyEndpoint, Endpoints, EndpointKinds
<1>3. << >> \in Seq(QuotedFlags)
  OBVIOUS
<1> DEFINE src == IF pathsReady THEN DemoEndpoint("src") ELSE EmptyEndpoint
           dst == IF pathsReady THEN DemoEndpoint("dst") ELSE EmptyEndpoint
<1>4. src \in Endpoints /\ dst \in Endpoints
  BY <1>1, <1>2
<1>5. Prefill(pathsReady) =
        [tool |-> "rsync", op |-> "copy", source |-> src, destination |-> dst,
         delete |-> FALSE, dry |-> FALSE, typed |-> {}, backup |-> NoBackup, flags |-> << >>]
  BY DEF Prefill
<1> HIDE DEF src, dst
<1> QED BY <1>3, <1>4, <1>5 DEF Jobs, Tools, OpKinds

LEMMA AppliedIsJob ==
  ASSUME NEW s \in Jobs, NEW f
  PROVE  ApplySpec(f, s) \in Jobs
<1> DEFINE u == Unquoted(s.flags)
<1>1. s.flags \in Seq(QuotedFlags)
  BY DEF Jobs
<1>2. u \in Seq(QuotedFlags)
  BY <1>1, UnquotedType
<1>3. ApplySpec(f, s) = [s EXCEPT !.dry = FALSE, !.flags = u]
  BY DEF ApplySpec
<1> HIDE DEF u
<1> QED BY <1>2, <1>3 DEF Jobs

LEMMA ScenarioIsJob ==
  ASSUME NEW sc \in Scenarios, NEW src \in Sources, NEW dst \in Destinations
  PROVE  ToSpec(sc, src, dst) \in Jobs
<1>1. src \in Endpoints /\ dst \in Endpoints
  BY TypedAreEndpoints
<1>2. /\ sc.tool \in Tools /\ sc.op \in OpKinds /\ sc.delete \in BOOLEAN
      /\ sc.typed \in SUBSET TypedOptions
  <2>1. sc.typed = {} \/ sc.typed = {"exclude"}
    BY DEF Scenarios
  <2>2. "exclude" \in TypedOptions
    BY DEF TypedOptions
  <2>3. sc.typed \in SUBSET TypedOptions
    BY <2>1, <2>2
  <2>4. sc.tool \in Tools
    BY DEF Scenarios, Tools
  <2>5. sc.op \in OpKinds
    BY DEF Scenarios, OpKinds
  <2>6. sc.delete \in BOOLEAN
    <3>1. Scenarios \subseteq [tool : {"rsync", "rclone"}, op : {"copy", "sync"},
                              delete : BOOLEAN, typed : {{}, {"exclude"}}]
      BY DEF Scenarios
    <3> QED BY <3>1
  <2> QED BY <2>3, <2>4, <2>5, <2>6
<1>3. << >> \in Seq(QuotedFlags)
  OBVIOUS
<1> QED BY <1>1, <1>2, <1>3 DEF ToSpec, Jobs

(* Each of the user's edits puts a job into the rows.                      *)
LEMMA EditsAreJobs ==
  ASSUME form \in Jobs,
         \/ \E t \in Tools : ChooseTool(t)
         \/ \E op \in OpKinds : ChooseOp(op)
         \/ \E e \in Sources : TypeSource(e) \/ PickSource(e)
         \/ \E e \in Destinations : TypeDestination(e) \/ PickDestination(e)
         \/ SwitchDelete
         \/ \E o \in Toggled : ToggleOption(o)
         \/ \E b \in Backups : TypeBackup(b)
         \/ \E fs \in CustomFlags : TypeFlags(fs)
  PROVE  \E f \in Jobs : EditRows(f)
<1>1. ASSUME NEW t \in Tools, ChooseTool(t) PROVE \E f \in Jobs : EditRows(f)
  <2>1. [form EXCEPT !.tool = t] \in Jobs
    BY DEF Jobs
  <2> QED BY <1>1, <2>1 DEF ChooseTool
<1>2. ASSUME NEW op \in OpKinds, ChooseOp(op) PROVE \E f \in Jobs : EditRows(f)
  <2>1. [form EXCEPT !.op = op] \in Jobs
    BY DEF Jobs
  <2> QED BY <1>2, <2>1 DEF ChooseOp
<1>3. ASSUME NEW e \in Sources, TypeSource(e) \/ PickSource(e) PROVE \E f \in Jobs : EditRows(f)
  <2>1. e \in Endpoints
    BY TypedAreEndpoints
  <2>2. ToolFor(form.tool, e) \in Tools
    BY DEF Jobs, ToolFor, Tools
  <2>3. [form EXCEPT !.source = e] \in Jobs
    BY <2>1 DEF Jobs
  <2>4. [form EXCEPT !.source = e, !.tool = ToolFor(@, e)] \in Jobs
    BY <2>1, <2>2 DEF Jobs
  <2> QED BY <1>3, <2>3, <2>4 DEF TypeSource, PickSource
<1>4. ASSUME NEW e \in Destinations, TypeDestination(e) \/ PickDestination(e)
      PROVE  \E f \in Jobs : EditRows(f)
  <2>1. e \in Endpoints
    BY TypedAreEndpoints
  <2>2. ToolFor(form.tool, e) \in Tools
    BY DEF Jobs, ToolFor, Tools
  <2>3. [form EXCEPT !.destination = e] \in Jobs
    BY <2>1 DEF Jobs
  <2>4. [form EXCEPT !.destination = e, !.tool = ToolFor(@, e)] \in Jobs
    BY <2>1, <2>2 DEF Jobs
  <2> QED BY <1>4, <2>3, <2>4 DEF TypeDestination, PickDestination
<1>5. ASSUME SwitchDelete PROVE \E f \in Jobs : EditRows(f)
  <2>1. [form EXCEPT !.delete = ~@] \in Jobs
    BY DEF Jobs
  <2> QED BY <1>5, <2>1 DEF SwitchDelete
<1>6. ASSUME NEW o \in Toggled, ToggleOption(o) PROVE \E f \in Jobs : EditRows(f)
  <2>1. SymDiff(form.typed, {o}) \in SUBSET TypedOptions
    BY JobFormAssumption DEF SymDiff, Jobs
  <2>2. [form EXCEPT !.typed = SymDiff(@, {o})] \in Jobs
    BY <2>1 DEF Jobs
  <2> QED BY <1>6, <2>2 DEF ToggleOption
<1>7. ASSUME NEW b \in Backups, TypeBackup(b) PROVE \E f \in Jobs : EditRows(f)
  <2>1. [form EXCEPT !.backup = b] \in Jobs
    BY TypedAreEndpoints DEF Jobs
  <2> QED BY <1>7, <2>1 DEF TypeBackup
<1>8. ASSUME NEW fs \in CustomFlags, TypeFlags(fs) PROVE \E f \in Jobs : EditRows(f)
  <2>1. [form EXCEPT !.flags = fs] \in Jobs
    BY FlagsAssumption DEF Jobs
  <2> QED BY <1>8, <2>1 DEF TypeFlags
<1> QED BY <1>1, <1>2, <1>3, <1>4, <1>5, <1>6, <1>7, <1>8

(* A run that begins was agreed to, and its places are resolved for good.  *)
LEMMA ResolvedRisk ==
  ASSUME NEW s \in Jobs, NEW A, NEW B, NEW C
  PROVE  /\ ResolvedBy(s, A, B, C).tool = s.tool /\ ResolvedBy(s, A, B, C).flags = s.flags
         /\ ResolvedBy(s, A, B, C).dry = s.dry
         /\ Risk(ResolvedBy(s, A, B, C)) = Risk(s)
<1> DEFINE r == ResolvedBy(s, A, B, C)
<1>1. /\ r.tool = s.tool /\ r.op = s.op /\ r.delete = s.delete /\ r.dry = s.dry
      /\ r.flags = s.flags
  BY DEF ResolvedBy, Jobs
<1> HIDE DEF r
<1>2. Risk(r) = Risk(s)
  BY <1>1 DEF Risk, HasDangerousFlags, DeleteEffective
<1> QED BY <1>1, <1>2 DEF r

(* What the looks of a launch see: when no link is turned after the first, *)
(* all see the same.                                                       *)
LEMMA LooksSee ==
  ASSUME links \in LinkStates, NEW turn \in Turns, NEW i \in 1 .. 5
  PROVE  /\ Look(turn, i) \in LinkStates
         /\ Look(turn, i) = links \/ Look(turn, i) = LinksAfter
         /\ ~(turn \in 2 .. 5 /\ links # LinksAfter) => Look(turn, i) = Look(turn, 1)
<1>1. Look(turn, i) = links \/ Look(turn, i) = LinksAfter
  BY DEF Look
<1>2. Look(turn, i) \in LinkStates
  BY <1>1 DEF LinkStates
<1>3. ASSUME turn = 1 PROVE Look(turn, i) = Look(turn, 1)
  BY <1>3 DEF Look
<1>4. ASSUME turn = 6 PROVE Look(turn, i) = Look(turn, 1)
  BY <1>4 DEF Look
<1>5. turn \in 2 .. 5 \/ turn = 1 \/ turn = 6
  BY DEF Turns
<1>6. ASSUME links = LinksAfter PROVE Look(turn, i) = Look(turn, 1)
  BY <1>6 DEF Look
<1> QED BY <1>1, <1>2, <1>3, <1>4, <1>5, <1>6

LEMMA PreparedSound ==
  ASSUME links \in LinkStates, NEW s, NEW agreed, NEW asked, NEW confirm, NEW turn \in Turns,
         Agreed(s, agreed, asked, confirm),
         s.dry \/ WarningsOrNone(s, Look(turn, 1)) = agreed,
         Prepared(s, agreed, asked, confirm, turn) # NoJob
  PROVE  Sound(Prepared(s, agreed, asked, confirm, turn))
<1> DEFINE A == Look(turn, 3)
           B == Look(turn, 4)
           C == Look(turn, 5)
           spec == ResolvedBy(s, A, B, C)
           turned == turn \in 2 .. 5 /\ links # LinksAfter
           r == [spec |-> spec, agreed |-> agreed, asked |-> asked, confirm |-> confirm,
                 turned |-> turned]
<1>1. ~CannotPrepare(s, Look(turn, 2)) /\ Prepared(s, agreed, asked, confirm, turn) = r
  BY DEF Prepared
<1>2. s \in Jobs
  BY DEF Agreed
<1>3. A \in LinkStates /\ B \in LinkStates /\ C \in LinkStates
  BY LooksSee
<1>4. /\ spec \in Jobs
      /\ \A L \in LinkStates : Resolved(spec, L) = spec
  <2> HIDE DEF A, B, C
  <2> QED BY <1>2, <1>3, ResolvedJob
<1>5. spec.tool = s.tool /\ spec.flags = s.flags /\ spec.dry = s.dry /\ Risk(spec) = Risk(s)
  <2> HIDE DEF A, B, C
  <2> QED BY <1>2, ResolvedRisk
<1>6. FlagsAccepted(s.tool, s.flags)
  BY <1>1 DEF CannotPrepare
<1>7. ASSUME Nested(spec.source, spec.destination), ~s.dry, ~turned
      PROVE  \/ \E w \in agreed : w.label = "overlap" \/ w.text.what = "root"
             \/ BackendRoot(spec.source) \/ BackendRoot(spec.destination)
  <2> DEFINE L == Look(turn, 1)
  <2>1. L \in LinkStates /\ Look(turn, 2) = L /\ A = L /\ B = L /\ C = L
    BY <1>7, LooksSee
  <2> HIDE DEF L, A, B, C, turned
  <2>2. spec = Resolved(s, L)
    BY <2>1 DEF Resolved
  <2>3. ~PathsRefused(s, L)
    BY <1>1, <2>1 DEF CannotPrepare
  <2>4. agreed = PathWarnings(s, L)
    BY <1>7, <2>3 DEF WarningsOrNone, L
  <2> QED BY <1>2, <1>7, <2>1, <2>2, <2>4, ContainmentSeen
<1> HIDE DEF spec, turned
<1>8. Agreed(spec, agreed, asked, confirm)
  BY <1>4, <1>5 DEF Agreed
<1>9. Seen(r)
  BY <1>5, <1>7 DEF Seen
<1>10. Sound(r)
  BY <1>4, <1>5, <1>6, <1>8, <1>9 DEF Sound
<1> QED BY <1>1, <1>10

LEMMA LaunchedSound ==
  ASSUME links \in LinkStates, NEW s, NEW warnings, NEW asked, NEW confirm, NEW turn \in Turns,
         Agreed(s, warnings, asked, confirm),
         Launched(s, warnings, asked, confirm, turn) # NoJob
  PROVE  Sound(Launched(s, warnings, asked, confirm, turn))
<1>1. /\ WarningsOrNone(s, Look(turn, 1)) = warnings
      /\ Launched(s, warnings, asked, confirm, turn) = Prepared(s, warnings, asked, confirm, turn)
  BY DEF Launched
<1> QED BY <1>1, PreparedSound

LEMMA FormInitially == FormInit => FormIInv
<1> SUFFICES ASSUME FormInit PROVE FormIInv
  OBVIOUS
<1>1. form \in Jobs
  BY PrefillIsJob DEF FormInit
<1>2. FormTypes
  BY <1>1 DEF FormInit, FormTypes, LinkStates
<1> QED BY <1>2 DEF FormInit, FormIInv, ShownFollows, OneAtATime, RowsAreLoaded, DialogSound,
                    QueuedSound, RanSound

LEMMA EditKeeps ==
  ASSUME FormIInv, NEW f \in Jobs, EditRows(f)
  PROVE  FormIInv'
<1>1. /\ form' = f /\ shown' = View(f, links) /\ links' = links /\ loaded' = NoJob
      /\ dialog' = NoJob /\ queued' = NoJob /\ ran' = NoJob /\ profile' = NoJob
  BY DEF EditRows, Editing, SetRows
<1>2. FormTypes'
  BY <1>1 DEF FormIInv, FormTypes
<1>3. ShownFollows'
  BY <1>1 DEF ShownFollows
<1> QED BY <1>1, <1>2, <1>3 DEF FormIInv, OneAtATime, RowsAreLoaded, DialogSound, QueuedSound,
                                RanSound

(* A stored job comes back into the rows; the other things stay.           *)
LEMMA LoadKeeps ==
  ASSUME FormIInv, NEW s \in Jobs, LoadSpec(s), dialog = NoJob, queued = NoJob,
         ran # NoJob => s = ran.spec,
         UNCHANGED <<links, dialog, queued, ran, profile>>
  PROVE  FormIInv'
<1> DEFINE f == ApplySpec(form, s)
<1>1. f \in Jobs
  BY AppliedIsJob
<1>2. form' = f /\ shown' = View(f, links) /\ loaded' = s
  BY DEF LoadSpec, SetRows
<1>3. f = ApplySpec(f, s)
  BY DEF ApplySpec
<1> HIDE DEF f
<1>4. FormTypes'
  BY <1>1, <1>2 DEF FormIInv, FormTypes
<1>5. ShownFollows'
  BY <1>2 DEF ShownFollows
<1>6. OneAtATime'
  BY DEF FormIInv, OneAtATime
<1>7. RowsAreLoaded'
  BY <1>2, <1>3 DEF RowsAreLoaded
<1>8. DialogSound' /\ QueuedSound' /\ RanSound'
  BY DEF FormIInv, DialogSound, QueuedSound, RanSound
<1> QED BY <1>4, <1>5, <1>6, <1>7, <1>8 DEF FormIInv

LEMMA OpenScenarioKeeps ==
  ASSUME FormIInv, NEW sc \in Scenarios, NEW src \in Sources, NEW dst \in Destinations,
         OpenScenario(sc, src, dst)
  PROVE  FormIInv'
<1> DEFINE s == ToSpec(sc, src, dst)
<1>1. s \in Jobs
  BY ScenarioIsJob
<1>2. LoadSpec(s) /\ dialog = NoJob /\ queued = NoJob /\ ran = NoJob
      /\ UNCHANGED <<links, dialog, queued, ran, profile>>
  BY DEF OpenScenario, Editing
<1> HIDE DEF s
<1> QED BY <1>1, <1>2, LoadKeeps

LEMMA LoadProfileKeeps ==
  ASSUME FormIInv, LoadProfile
  PROVE  FormIInv'
<1>1. profile \in Jobs /\ dialog = NoJob /\ queued = NoJob /\ ran = NoJob
  BY DEF LoadProfile, FormIInv, FormTypes, OneAtATime
<1>2. LoadSpec(profile) /\ UNCHANGED <<links, dialog, queued, ran, profile>>
  BY DEF LoadProfile
<1> QED BY <1>1, <1>2, LoadKeeps

LEMMA RerunKeeps ==
  ASSUME FormIInv, Rerun
  PROVE  FormIInv'
<1>1. ran.spec \in Jobs /\ dialog = NoJob /\ queued = NoJob
  BY DEF Rerun, FormIInv, OneAtATime, RanSound, Sound, Agreed
<1>2. LoadSpec(ran.spec) /\ UNCHANGED <<links, dialog, queued, ran, profile>>
  BY DEF Rerun
<1> QED BY <1>1, <1>2, LoadKeeps

LEMMA ReopenKeeps ==
  ASSUME FormIInv, Reopen
  PROVE  FormIInv'
<1>1. PICK pathsReady \in BOOLEAN : SetRows(Prefill(pathsReady))
  BY DEF Reopen
<1> DEFINE f == Prefill(pathsReady)
<1>2. f \in Jobs
  BY PrefillIsJob
<1>3. form' = f /\ shown' = View(f, links)
  BY <1>1 DEF SetRows
<1> HIDE DEF f
<1>4. loaded' = NoJob /\ UNCHANGED <<links, dialog, queued, ran, profile>>
      /\ dialog = NoJob /\ queued = NoJob
  BY DEF Reopen
<1>5. FormTypes'
  BY <1>2, <1>3, <1>4 DEF FormIInv, FormTypes
<1>6. ShownFollows'
  BY <1>3, <1>4 DEF ShownFollows
<1>7. OneAtATime'
  BY <1>4 DEF FormIInv, OneAtATime
<1>8. RowsAreLoaded'
  BY <1>4 DEF RowsAreLoaded
<1>9. DialogSound' /\ QueuedSound' /\ RanSound'
  BY <1>4 DEF FormIInv, DialogSound, QueuedSound, RanSound
<1> QED BY <1>5, <1>6, <1>7, <1>8, <1>9 DEF FormIInv

LEMMA ProfileKeeps ==
  ASSUME FormIInv, SaveProfile \/ DeleteProfile
  PROVE  FormIInv'
<1>1. CASE SaveProfile
  <2>1. FormTypes'
    BY <1>1 DEF SaveProfile, FormIInv, FormTypes
  <2>2. ShownFollows' /\ RowsAreLoaded'
    BY <1>1 DEF SaveProfile, FormIInv, ShownFollows, RowsAreLoaded
  <2>3. OneAtATime' /\ DialogSound' /\ QueuedSound' /\ RanSound'
    BY <1>1 DEF SaveProfile, FormIInv, OneAtATime, DialogSound, QueuedSound, RanSound
  <2> QED BY <2>1, <2>2, <2>3 DEF FormIInv
<1>2. CASE DeleteProfile
  <2>1. FormTypes'
    BY <1>2 DEF DeleteProfile, FormIInv, FormTypes
  <2>2. ShownFollows' /\ RowsAreLoaded'
    BY <1>2 DEF DeleteProfile, FormIInv, ShownFollows, RowsAreLoaded
  <2>3. OneAtATime' /\ DialogSound' /\ QueuedSound' /\ RanSound'
    BY <1>2 DEF DeleteProfile, FormIInv, OneAtATime, DialogSound, QueuedSound, RanSound
  <2> QED BY <2>1, <2>2, <2>3 DEF FormIInv
<1> QED BY <1>1, <1>2

(* What needs no dialog is agreed to unasked.                              *)
LEMMA UnaskedAgreed ==
  ASSUME form \in Jobs, NEW confirm \in BOOLEAN, ~NeedsDialog(confirm)
  PROVE  Agreed(form, {}, FALSE, confirm)
<1>1. Risk(form) # "destructive" \/ ~confirm
  BY DEF NeedsDialog
<1>2. FALSE \in BOOLEAN
  OBVIOUS
<1> QED BY <1>1, <1>2 DEF Agreed

(* A launch: the run, the links and what is shown may change.              *)
LEMMA StartKeeps ==
  ASSUME FormIInv, dialog' = NoJob, queued' = NoJob, ran' # NoJob => Sound(ran'),
         profile = NoJob, profile' = NoJob, loaded' = NoJob, UNCHANGED form,
         NEW turn \in Turns, links' = Look(turn, 5), shown' = shown \/ shown' = View(form, links')
  PROVE  FormIInv'
<1>0. links \in LinkStates
  BY DEF FormIInv, FormTypes
<1>1. links' \in LinkStates /\ (links' = links \/ links' = LinksAfter)
  BY <1>0, LooksSee
<1>2. FormTypes'
  BY <1>1 DEF FormIInv, FormTypes
<1>3. ShownFollows'
  <2>1. links' = LinksBefore => links = LinksBefore
    BY <1>0, <1>1 DEF LinkStates
  <2> QED BY <2>1 DEF FormIInv, ShownFollows
<1>4. OneAtATime'
  BY DEF OneAtATime
<1>5. RowsAreLoaded' /\ DialogSound' /\ QueuedSound' /\ RanSound'
  BY DEF RowsAreLoaded, DialogSound, QueuedSound, RanSound
<1> QED BY <1>2, <1>3, <1>4, <1>5 DEF FormIInv

(* run: nothing starts that was not agreed to.                             *)
LEMMA RunSound ==
  ASSUME links \in LinkStates, NEW warnings, NEW asked, NEW confirm, NEW turn \in Turns,
         Agreed(form, warnings, asked, confirm), Run(warnings, asked, confirm, turn)
  PROVE  /\ ran' # NoJob => Sound(ran')
         /\ links' = Look(turn, 5)
         /\ shown' = shown \/ shown' = View(form, links')
<1> DEFINE r == Launched(form, warnings, asked, confirm, turn)
<1>1. r # NoJob => Sound(r)
  BY LaunchedSound
<1> HIDE DEF r
<1>2. ran' = IF Readable THEN r ELSE NoJob
  BY DEF Run, r
<1>3. ran' # NoJob => Sound(ran')
  BY <1>1, <1>2
<1>4. links' = Look(turn, 5)
  BY DEF Run
<1>5. shown' = shown \/ shown' = View(form, links')
  BY DEF Run
<1> QED BY <1>3, <1>4, <1>5

(* A dialog opens, or a job enters the queue.                              *)
LEMMA AskKeeps ==
  ASSUME FormIInv, dialog' # NoJob => dialog'.spec \in Jobs,
         queued' # NoJob => Agreed(queued'.spec, queued'.warnings, queued'.asked, queued'.confirm),
         dialog' = NoJob \/ queued' = NoJob,
         ran' = NoJob, profile = NoJob, profile' = NoJob, loaded' = NoJob,
         UNCHANGED <<form, links, shown>>
  PROVE  FormIInv'
<1>1. FormTypes'
  BY DEF FormIInv, FormTypes
<1>2. ShownFollows'
  BY DEF FormIInv, ShownFollows
<1>3. OneAtATime'
  BY DEF OneAtATime
<1>4. RowsAreLoaded' /\ DialogSound' /\ QueuedSound' /\ RanSound'
  BY DEF RowsAreLoaded, DialogSound, QueuedSound, RanSound
<1> QED BY <1>1, <1>2, <1>3, <1>4 DEF FormIInv

LEMMA OnStartKeeps ==
  ASSUME FormIInv, NEW confirm \in BOOLEAN, NEW turn \in Turns, OnStart(confirm, turn)
  PROVE  FormIInv'
<1>1. /\ dialog = NoJob /\ queued = NoJob /\ ran = NoJob /\ profile = NoJob
      /\ queued' = NoJob /\ profile' = NoJob /\ loaded' = NoJob
      /\ UNCHANGED form
  BY DEF OnStart, Ready
<1>2. form \in Jobs /\ links \in LinkStates
  BY DEF FormIInv, FormTypes
<1>3. CASE NeedsDialog(confirm)
  <2> DEFINE d == [of |-> "start", spec |-> form, warnings |-> PathWarnings(form, links)]
  <2>1. dialog' = d /\ UNCHANGED <<ran, shown, links>> /\ d.spec = form
    BY <1>3 DEF OnStart
  <2> HIDE DEF d
  <2> QED BY <1>1, <1>2, <2>1, AskKeeps
<1>4. CASE ~NeedsDialog(confirm)
  <2>1. Run({}, FALSE, confirm, turn) /\ dialog' = dialog
    BY <1>4 DEF OnStart
  <2>2. Agreed(form, {}, FALSE, confirm)
    BY <1>2, <1>4, UnaskedAgreed
  <2>3. /\ ran' # NoJob => Sound(ran')
        /\ links' = Look(turn, 5)
        /\ shown' = shown \/ shown' = View(form, links')
    BY <1>2, <2>1, <2>2, RunSound
  <2> QED BY <1>1, <2>1, <2>3, StartKeeps
<1> QED BY <1>3, <1>4

LEMMA AddToQueueKeeps ==
  ASSUME FormIInv, NEW confirm \in BOOLEAN, AddToQueue(confirm)
  PROVE  FormIInv'
<1>1. /\ dialog = NoJob /\ queued = NoJob /\ ran = NoJob /\ profile = NoJob
      /\ ran' = NoJob /\ profile' = NoJob /\ loaded' = NoJob
      /\ UNCHANGED <<form, links, shown>>
  BY DEF AddToQueue, Ready
<1>2. form \in Jobs
  BY DEF FormIInv, FormTypes
<1>3. CASE NeedsDialog(confirm)
  <2> DEFINE d == [of |-> "queue", spec |-> form, warnings |-> PathWarnings(form, links)]
  <2>1. dialog' = d /\ queued' = queued /\ d.spec = form
    BY <1>3 DEF AddToQueue
  <2> HIDE DEF d
  <2> QED BY <1>1, <1>2, <2>1, AskKeeps
<1>4. CASE ~NeedsDialog(confirm)
  <2> DEFINE q == [spec |-> form, warnings |-> {}, asked |-> FALSE, confirm |-> confirm]
  <2>1. queued' = q /\ dialog' = dialog
    BY <1>4 DEF AddToQueue
  <2>2. Agreed(form, {}, FALSE, confirm)
    BY <1>2, <1>4, UnaskedAgreed
  <2>3. Agreed(q.spec, q.warnings, q.asked, q.confirm)
    BY <2>2, Zenon
  <2> HIDE DEF q
  <2> QED BY <1>1, <2>1, <2>3, AskKeeps
<1> QED BY <1>3, <1>4

LEMMA AskedAgreed ==
  ASSUME NEW s \in Jobs, NEW warnings
  PROVE  Agreed(s, warnings, TRUE, TRUE)
BY Zenon DEF Agreed

LEMMA RunAnywayKeeps ==
  ASSUME FormIInv, NEW turn \in Turns, RunAnyway(turn)
  PROVE  FormIInv'
<1>1. form \in Jobs /\ links \in LinkStates
  BY DEF FormIInv, FormTypes
<1>2. queued = NoJob /\ ran = NoJob /\ profile = NoJob /\ loaded = NoJob
  BY DEF RunAnyway, FormIInv, OneAtATime
<1>3. /\ Run(dialog.warnings, TRUE, TRUE, turn)
      /\ dialog' = NoJob /\ UNCHANGED <<form, queued, profile, loaded>>
  BY DEF RunAnyway
<1>4. Agreed(form, dialog.warnings, TRUE, TRUE)
  BY <1>1, AskedAgreed
<1>5. /\ ran' # NoJob => Sound(ran')
      /\ links' = Look(turn, 5)
      /\ shown' = shown \/ shown' = View(form, links')
  BY <1>1, <1>3, <1>4, RunSound
<1> QED BY <1>2, <1>3, <1>5, StartKeeps

(* A dry run is agreed to whatever the dialog.                             *)
LEMMA DryLaunchedSound ==
  ASSUME FormIInv, NEW asked \in BOOLEAN, NEW turn \in Turns, DryLaunched(asked, turn) # NoJob
  PROVE  Sound(DryLaunched(asked, turn))
<1> DEFINE f == [form EXCEPT !.dry = TRUE]
<1>1. form \in Jobs /\ links \in LinkStates
  BY DEF FormIInv, FormTypes
<1>2. f \in Jobs /\ f.dry
  BY <1>1, Zenon DEF Jobs
<1>3. DryLaunched(asked, turn) = Prepared(f, {}, asked, TRUE, turn)
  BY DEF DryLaunched
<1> HIDE DEF f
<1>4. Agreed(f, {}, asked, TRUE)
  BY <1>2, Zenon DEF Agreed
<1> QED BY <1>1, <1>2, <1>3, <1>4, PreparedSound

LEMMA DryRunKeeps ==
  ASSUME FormIInv, NEW turn \in Turns, DryRunFirst(turn) \/ DryRun(turn)
  PROVE  FormIInv'
<1>1. PICK asked \in BOOLEAN : ran' = DryLaunched(asked, turn)
  BY DEF DryRunFirst, DryRun
<1>2. ran' # NoJob => Sound(ran')
  BY <1>1, DryLaunchedSound
<1>3. /\ queued = NoJob /\ profile = NoJob /\ dialog' = NoJob /\ loaded' = NoJob
      /\ links' = Look(turn, 5) /\ UNCHANGED <<form, shown, queued, profile>>
  BY DEF DryRunFirst, DryRun, Ready, FormIInv, OneAtATime
<1> QED BY <1>2, <1>3, StartKeeps

LEMMA AddAnywayKeeps ==
  ASSUME FormIInv, AddAnyway
  PROVE  FormIInv'
<1> DEFINE s == dialog.spec
           q == [spec |-> s, warnings |-> dialog.warnings, asked |-> TRUE, confirm |-> TRUE]
<1>1. s \in Jobs
  BY DEF AddAnyway, FormIInv, DialogSound
<1>2. ran = NoJob /\ profile = NoJob /\ loaded = NoJob
  BY DEF AddAnyway, FormIInv, OneAtATime
<1>3. /\ queued' = q /\ dialog' = NoJob
      /\ UNCHANGED <<form, links, shown, ran, profile, loaded>>
  BY DEF AddAnyway
<1> HIDE DEF s
<1>4. Agreed(s, dialog.warnings, TRUE, TRUE)
  BY <1>1, AskedAgreed
<1>5. Agreed(q.spec, q.warnings, q.asked, q.confirm)
  BY <1>4, Zenon
<1> HIDE DEF q
<1> QED BY <1>2, <1>3, <1>5, AskKeeps

LEMMA DismissKeeps ==
  ASSUME FormIInv, Dismiss
  PROVE  FormIInv'
<1>1. queued = NoJob /\ ran = NoJob /\ profile = NoJob /\ loaded = NoJob
  BY DEF Dismiss, FormIInv, OneAtATime
<1>2. dialog' = NoJob /\ UNCHANGED <<form, links, shown, queued, ran, profile, loaded>>
  BY DEF Dismiss
<1> QED BY <1>1, <1>2, AskKeeps

LEMMA LaunchQueuedKeeps ==
  ASSUME FormIInv, NEW turn \in Turns, LaunchQueued(turn)
  PROVE  FormIInv'
<1> DEFINE r == Launched(queued.spec, queued.warnings, queued.asked, queued.confirm, turn)
<1>1. /\ Agreed(queued.spec, queued.warnings, queued.asked, queued.confirm)
      /\ links \in LinkStates
      /\ dialog = NoJob /\ profile = NoJob /\ loaded = NoJob
  BY DEF LaunchQueued, FormIInv, FormTypes, OneAtATime, QueuedSound
<1>2. r # NoJob => Sound(r)
  BY <1>1, LaunchedSound
<1>3. /\ ran' = IF PathsRefused(queued.spec, Look(turn, 1)) THEN NoJob ELSE r
      /\ links' = Look(turn, 5)
      /\ queued' = NoJob /\ UNCHANGED <<form, shown, dialog, profile, loaded>>
  BY DEF LaunchQueued
<1> HIDE DEF r
<1>4. ran' # NoJob => Sound(ran')
  BY <1>2, <1>3
<1> QED BY <1>1, <1>3, <1>4, StartKeeps

LEMMA TurnLinkKeeps ==
  ASSUME FormIInv, TurnLink
  PROVE  FormIInv'
<1>1. FormTypes'
  BY DEF TurnLink, FormIInv, FormTypes, LinkStates
<1>2. ShownFollows' /\ RowsAreLoaded'
  BY DEF TurnLink, FormIInv, ShownFollows, RowsAreLoaded
<1>3. OneAtATime' /\ DialogSound' /\ QueuedSound' /\ RanSound'
  BY DEF TurnLink, FormIInv, OneAtATime, DialogSound, QueuedSound, RanSound
<1> QED BY <1>1, <1>2, <1>3 DEF FormIInv

(* FormIInv is an invariant of the form.                                   *)
THEOREM FormInvariant == FormSpec => []FormIInv
<1>1. FormIInv /\ [FormNext]_formVars => FormIInv'
  <2> SUFFICES ASSUME FormIInv, [FormNext]_formVars PROVE FormIInv'
    OBVIOUS
  <2>1. ASSUME \/ \E t \in Tools : ChooseTool(t)
               \/ \E op \in OpKinds : ChooseOp(op)
               \/ \E e \in Sources : TypeSource(e) \/ PickSource(e)
               \/ \E e \in Destinations : TypeDestination(e) \/ PickDestination(e)
               \/ SwitchDelete
               \/ \E o \in Toggled : ToggleOption(o)
               \/ \E b \in Backups : TypeBackup(b)
               \/ \E fs \in CustomFlags : TypeFlags(fs)
        PROVE  FormIInv'
    <3>1. form \in Jobs
      BY DEF FormIInv, FormTypes
    <3>2. PICK f \in Jobs : EditRows(f)
      BY <2>1, <3>1, EditsAreJobs
    <3> QED BY <3>2, EditKeeps
  <2>2. ASSUME NEW sc \in Scenarios, NEW src \in Sources, NEW dst \in Destinations,
               OpenScenario(sc, src, dst)
        PROVE  FormIInv'
    BY <2>2, OpenScenarioKeeps
  <2>3. CASE SaveProfile
    BY <2>3, ProfileKeeps
  <2>4. CASE LoadProfile
    BY <2>4, LoadProfileKeeps
  <2>5. CASE DeleteProfile
    BY <2>5, ProfileKeeps
  <2>6. CASE Rerun
    BY <2>6, RerunKeeps
  <2>7. CASE Reopen
    BY <2>7, ReopenKeeps
  <2>8. ASSUME NEW confirm \in BOOLEAN, NEW turn \in Turns, OnStart(confirm, turn) PROVE FormIInv'
    BY <2>8, OnStartKeeps
  <2>9. ASSUME NEW confirm \in BOOLEAN, AddToQueue(confirm) PROVE FormIInv'
    BY <2>9, AddToQueueKeeps
  <2>10. ASSUME NEW turn \in Turns, RunAnyway(turn) PROVE FormIInv'
    BY <2>10, RunAnywayKeeps
  <2>11. ASSUME NEW turn \in Turns, DryRunFirst(turn) \/ DryRun(turn) PROVE FormIInv'
    BY <2>11, DryRunKeeps
  <2>12. CASE AddAnyway
    BY <2>12, AddAnywayKeeps
  <2>13. CASE Dismiss
    BY <2>13, DismissKeeps
  <2>14. ASSUME NEW turn \in Turns, LaunchQueued(turn) PROVE FormIInv'
    BY <2>14, LaunchQueuedKeeps
  <2>15. CASE TurnLink
    BY <2>15, TurnLinkKeeps
  <2>16. CASE UNCHANGED formVars
    <3>1. FormTypes' /\ ShownFollows' /\ OneAtATime' /\ RowsAreLoaded'
      BY <2>16 DEF formVars, FormIInv, FormTypes, ShownFollows, OneAtATime, RowsAreLoaded
    <3>2. DialogSound' /\ QueuedSound' /\ RanSound'
      BY <2>16 DEF formVars, FormIInv, DialogSound, QueuedSound, RanSound
    <3> QED BY <3>1, <3>2 DEF FormIInv
  <2> QED BY <2>1, <2>2, <2>3, <2>4, <2>5, <2>6, <2>7, <2>8, <2>9, <2>10, <2>11, <2>12, <2>13,
             <2>14, <2>15, <2>16 DEF FormNext
<1> QED BY <1>1, FormInitially, PTL DEF FormSpec

(* The command and the payload mean the rows.  Whatever of the options is  *)
(* typed and whatever custom flags are accepted, what the tool makes of    *)
(* the command line is the rows' options and no other that has a row, but  *)
(* for rsync's Checksum and Compress when a flag gives their other names.  *)
THEOREM CommandIsTheForm == FormSpec => []CommandMeansForm
<1>1. FormIInv => CommandMeansForm
  <2> SUFFICES ASSUME FormIInv PROVE CommandMeansForm
    OBVIOUS
  <2>1. form \in Jobs
    BY DEF FormIInv, FormTypes
  <2>2. ASSUME Readable, NEW dry \in BOOLEAN
        PROVE  LET s == [form EXCEPT !.dry = dry]
               IN  /\ (Effective(Tokens(s)) \cap Rows(s.tool)) \ Renamed(s) = Asked(s) \ Renamed(s)
                   /\ Renamed(s) \subseteq IF s.tool = "rsync" THEN {"checksum", "compress"}
                                           ELSE {}
                   /\ RcEligible(s) => RcOptions(s) = Asked(s)
    <3> DEFINE s == [form EXCEPT !.dry = dry]
    <3>1. s \in Jobs
      BY <2>1, Zenon DEF Jobs
    <3>2. s.tool = form.tool /\ s.flags = form.flags
      BY <2>1 DEF Jobs
    <3>3. FlagsAccepted(s.tool, s.flags)
      BY <2>2, <3>2 DEF Readable, Unreadable
    <3> HIDE DEF s
    <3>4. /\ (Effective(Tokens(s)) \cap Rows(s.tool)) \ Renamed(s) = Asked(s) \ Renamed(s)
          /\ Renamed(s) \subseteq IF s.tool = "rsync" THEN {"checksum", "compress"} ELSE {}
          /\ RcEligible(s) => RcOptions(s) = Asked(s)
      BY <3>1, <3>3, CommandMeansRows, PayloadMeansRows, RenamedRows
    <3> QED BY <3>4 DEF s
  <2> QED BY <2>2 DEF FormIInv, ShownFollows, CommandMeansForm
<1> QED BY <1>1, FormInvariant, PTL

(* Two places of which one holds the other are never a run's without a     *)
(* dialog that warned of them, unless a link was turned while the launch   *)
(* itself was resolving them.                                              *)
THEOREM ContainmentWasWarned == FormSpec => []ContainmentIsWarned
<1>1. FormIInv => ContainmentIsWarned
  BY DEF FormIInv, RanSound, Sound, Agreed, Seen, ContainmentIsWarned
<1> QED BY <1>1, FormInvariant, PTL

(* A job that is stored and put into the rows again is the same job: its   *)
(* flags are joined and cut again, its places are where they were.         *)
LEMMA UndriedPlaces ==
  ASSUME NEW s \in Jobs, NEW L \in LinkStates
  PROVE  Resolved([s EXCEPT !.dry = FALSE], L) = [Resolved(s, L) EXCEPT !.dry = FALSE]
BY Zenon DEF Resolved, ResolvedBy, Jobs

THEOREM StoredJobsReturn == FormSpec => []StoredJobReturns
<1>1. FormIInv => StoredJobReturns
  <2> SUFFICES ASSUME FormIInv, loaded # NoJob,
                      \A i \in DOMAIN loaded.flags : loaded.flags[i].tail = << >>
               PROVE  LET s == [loaded EXCEPT !.dry = FALSE]
                      IN  /\ Tokens(form) = Tokens(s)
                          /\ Resolved(form, links) = Resolved(s, links)
                          /\ ran # NoJob => Resolved(form, links) = [ran.spec EXCEPT !.dry = FALSE]
    BY DEF StoredJobReturns
  <2>1. loaded \in Jobs /\ links \in LinkStates
    BY DEF FormIInv, FormTypes
  <2> DEFINE fs == loaded.flags
  <2>2. fs \in Seq(QuotedFlags)
    BY <2>1 DEF Jobs
  <2>3. \A i \in 1 .. Len(fs) : fs[i].tail = << >>
    BY <2>2
  <2>4. Unquoted(fs) = fs
    <3> HIDE DEF fs
    <3> QED BY <2>2, <2>3, UnquotedPlain
  <2>5. form = [loaded EXCEPT !.dry = FALSE]
    <3>1. form = [loaded EXCEPT !.dry = FALSE, !.flags = Unquoted(loaded.flags)]
      BY DEF FormIInv, RowsAreLoaded, ApplySpec
    <3> QED BY <2>1, <2>4, <3>1 DEF Jobs
  <2>6. ASSUME ran # NoJob PROVE Resolved(form, links) = [ran.spec EXCEPT !.dry = FALSE]
    <3>1. loaded = ran.spec
      BY <2>6 DEF FormIInv, RowsAreLoaded
    <3>2. Resolved(loaded, links) = loaded
      BY <2>1, <2>6, <3>1 DEF FormIInv, RanSound, Sound
    <3> QED BY <2>1, <2>5, <3>1, <3>2, UndriedPlaces
  <2> QED BY <2>5, <2>6
<1> QED BY <1>1, FormInvariant, PTL

(* A command that started unasked, with the confirmation switched on,      *)
(* removes nothing; rsync's copy with the delete switch and rsync's custom *)
(* flag --force are the exceptions.                                        *)
THEOREM UnaskedRunsAreHarmless == FormSpec => []UnaskedIsHarmless
<1>1. FormIInv => UnaskedIsHarmless
  <2> SUFFICES ASSUME FormIInv, ran # NoJob, ~ran.asked, ran.confirm,
                      ~RsyncCopyDeletes(ran.spec), ~RsyncForces(ran.spec)
               PROVE  ~Removes(ran)
    BY DEF UnaskedIsHarmless
  <2> DEFINE s == ran.spec
  <2>1. s \in Jobs /\ FlagsAccepted(s.tool, s.flags) /\ (s.dry \/ Risk(s) # "destructive")
    BY DEF FormIInv, RanSound, Sound, Agreed
  <2> HIDE DEF s
  <2>2. ~MayRemove(s.tool, s.op, Effective(Tokens(s)))
    BY <2>1, HarmlessCommand DEF s
  <2> QED BY <2>2 DEF Removes, s
<1> QED BY <1>1, FormInvariant, PTL
=============================================================================
