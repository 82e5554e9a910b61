-------------------------- MODULE DiagnosticsProofs --------------------------
(***************************************************************************)
(* Safety of the diagnostics, for any sessions, hosts and policy and any   *)
(* bounds: first of the files (DiagnosticStorage), then of the drain       *)
(* (DiagnosticDrain).                                                      *)
(*                                                                         *)
(* A death is reported wherever the sessions run.  That live files stay,   *)
(* archives are whole and the capacity is kept needs one lock: sessions of *)
(* two hosts share the primary directory and no lock, and TLC refutes all  *)
(* three.                                                                  *)
(*                                                                         *)
(* The capacity is decided in four steps, and sessions write and renew     *)
(* their markers between them.  The argument rests on what a marker        *)
(* promises: as long as its log was not rotated since, a session reserves  *)
(* at least what it may still write.  A decision reads the reservations    *)
(* before it counts the files, so what is written in between is counted    *)
(* once more, never once less; and only the holder of the lock adds a      *)
(* session or an archive.                                                  *)
(*                                                                         *)
(* The argument about the drain is about the game's rings: those of one    *)
(* run of the game are numbered in succession, and a snapshot read on a    *)
(* connection, an acknowledgement sent on it and the mark of the client    *)
(* are all of the present run.  A connection that ends before its hello is *)
(* answered breaks that.                                                   *)
(***************************************************************************)
EXTENDS Diagnostics, FiniteSetTheorems, WellFoundedInduction, TLAPS

-----------------------------------------------------------------------------
(* Who holds the lock, and what a marker says of its session.               *)

Held(h) == lock[h] # Free

JobTrue(h) ==
    Held(h) =>
        LET s == lock[h].owner IN
        /\ Alive(s)
        /\ lock[h].op = "admit" => pc[s] = "checking" /\ ~failing[s]
        /\ lock[h].op = "fallback" => failing[s] /\ pc[s] # "created"
        /\ lock[h].op = "export" => pc[s] = "running"

Jobs == \A h \in Hosts : JobTrue(h)

\* A session that has not started has left nothing; one that has not published
\* its marker has no file.
Blank(s) ==
    /\ \A f \in MarkerFiles : f[1] = s => marker[f] = NoMarker
    /\ s \notin admitted /\ s \notin lapsed
    /\ reports[s].unclean = 0

StartTrue(s) ==
    /\ pc[s] \in {"absent", "created"} => Blank(s) /\ ~console[s] /\ ~failing[s]
    /\ failing[s] => Alive(s)

Unstarted == \A s \in Sessions : StartTrue(s)

\* A marker that is there: clean once its session ended or gave its files up,
\* and fresh as long as the session renews it.
MarkerTrue(f) ==
    marker[f] # NoMarker =>
        /\ marker[f].active = ~marker[f].clean
        /\ f[2] # home[f[1]] => console[f[1]]
        /\ marker[f].clean => pc[f[1]] = "closed" \/ console[f[1]]
        /\ pc[f[1]] = "closed" => marker[f].clean \/ console[f[1]]
        /\ Alive(f[1]) => marker[f].fresh \/ f[1] \in lapsed

MarkersTrue == \A f \in MarkerFiles : MarkerTrue(f)

\* A marker is reported before it is removed, and is not that of a live session.
ClaimTrue(t) ==
    /\ \A f \in seen[t] : f[1] # t
    /\ claim[t] # NoFile =>
        LET s == claim[t][1] IN
        /\ s # t
        /\ pc[s] \in {"closed", "dead"} \/ s \in lapsed \/ console[s]
        /\ \/ console[t] \/ console[s]
           \/ reports[s].unclean > 0 \/ pc[s] = "closed"

ClaimsTrue == \A t \in Sessions : ClaimTrue(t)

\* A session that has published a marker is known by it, or was reported.
Known(s) ==
    \/ reports[s].unclean > 0
    \/ \E f \in MarkerFiles : f[1] = s /\ marker[f] # NoMarker
    \/ \E t \in Sessions : t # s /\ console[t]

Published(s) ==
    \/ s \in admitted /\ pc[s] # "closed"
    \/ Alive(s) /\ pc[s] # "created" /\ (~failing[s] \/ Holds(s, {"fallback"}))

KnownTrue(s) == Published(s) /\ ~console[s] => Known(s)

PublishedKnown == \A s \in Sessions : KnownTrue(s)

RInv ==
    /\ TypeOK
    /\ Jobs
    /\ Unstarted
    /\ MarkersTrue
    /\ ClaimsTrue
    /\ PublishedKnown
    /\ ReportedTrue

-----------------------------------------------------------------------------
(* One host: the sessions share the lock.                                   *)

OneLock == \A s, t \in Sessions : Host[s] = Host[t]

\* The marker keeps the files of its session.
Marked(s) ==
    \E dir \in Dirs :
        LET m == marker[<<s, dir>>] IN
        m # NoMarker /\ m.active /\ m.fresh

Empty(s) == \A a \in Files : a[1] = s => disk[a] = 0

KeptTrue(s) ==
    /\ pc[s] \in {"absent", "created"} => Empty(s)
    /\ s \notin lapsed /\ Alive(s) /\ ~console[s] =>
         \/ Marked(s)
         \/ pc[s] = "created" /\ Empty(s)
         \/ pc[s] = "published" /\ failing[s] /\ ~Holds(s, {"fallback"}) /\ Empty(s)

MarkedOrEmpty == \A s \in Sessions : KeptTrue(s)

\* The session renews a marker.
Renews(s) == s \notin lapsed /\ Alive(s) /\ ~console[s] /\ Marked(s)

\* What is about to be deleted is of no session that renews its marker.
SpareTrue(h) ==
    Held(h) /\ lock[h].step = "prune" =>
        /\ lock[h].owner \in lock[h].kept
        /\ \A s \in Sessions : Renews(s) => s \in lock[h].kept

Spares == \A h \in Hosts : SpareTrue(h)

\* An archive being written is that of the export that holds the lock.
ZipsHeld ==
    \A z \in zips :
        /\ pc[z[1]] # "absent"
        /\ Alive(z[1]) => Holds(z[1], {"export"})
        /\ \A y \in zips : y[1] = z[1] => y = z

KInv == RInv /\ MarkedOrEmpty /\ Spares /\ ZipsHeld /\ ExportedWhole

-----------------------------------------------------------------------------
(* Capacity.                                                                *)

Log(s) == <<s, home[s], "log">>
Rotates(a) == disk[a] > Quota - Segment

\* What the log may still grow, unless it was rotated since.
Needs(s) == IF Rotates(Log(s)) THEN 0 ELSE Growth(s)

Keeps(s) == Alive(s) /\ ~console[s] /\ ~failing[s] /\ pc[s] # "created"
Storing(s) == Keeps(s) \/ (Alive(s) /\ ~console[s] /\ Holds(s, {"fallback"}))

\* The marker reserves it.
ReservedTrue(s) ==
    Storing(s) =>
        LET m == marker[<<s, home[s]>>] IN
        m # NoMarker /\ m.active /\ m.fresh /\ Needs(s) <= m.reserved

Reserved == lapsed = {} => \A s \in Sessions : ReservedTrue(s)

Writer(s) == s \in admitted /\ Keeps(s)

\* Whose growth the decision under way must leave room for.
Counts(h, s) ==
    Writer(s) \/ (Storing(s) /\ Held(h) /\ lock[h].owner = s
                  /\ lock[h].op \in {"admit", "fallback"})
NeedOf(h) ==
    [f \in MarkerFiles |->
        IF Counts(h, f[1]) /\ f[2] = home[f[1]] THEN Needs(f[1]) ELSE 0]

Sum(f, S) == FoldFunctionOnSet(+, 0, f, S)

EnoughRead(h) ==
    Held(h) /\ lock[h].step # "reserve" =>
        Sum(NeedOf(h), MarkerFiles) + (IF lock[h].op = "export" THEN 1 ELSE 0)
            <= lock[h].reserved

ReadEnough == lapsed = {} => \A h \in Hosts : EnoughRead(h)

\* A file of an admitted session counts with what it may become, less what a
\* rotation may have freed.
Weight(a) ==
    LET full == IF a[3] = "log" /\ a[2] = home[a[1]] /\ Writer(a[1])
                THEN Quota ELSE disk[a]
        spare == IF a \in Rotating THEN Segment - 1 ELSE 0
    IN IF a[1] \notin admitted \/ full < spare THEN 0 ELSE full - spare

Weights == [a \in Files |-> Weight(a)]

Room == lapsed = {} => Sum(Weights, Files) <= Cap

CInv == KInv /\ Reserved /\ ReadEnough /\ Room

\* A set of bounded numbers that is not empty has a least one.
LEMMA Least ==
    ASSUME NEW L \in Nat, NEW T \in SUBSET (0 .. L), T # {}
    PROVE  \E m \in T : \A k \in T : m <= k
<1>1. PICK U, V : U = 0 .. L /\ V = {0 .. n : n \in T}
  OBVIOUS
<1>2. IsFiniteSet(U)
  BY <1>1, FS_Interval
<1>3. FiniteSubsetsOf(U) = SUBSET U
  BY <1>2, FS_FiniteSubsetsOfFinite
<1>4. IsWellFoundedOn(StrictSubsetOrdering(U), SUBSET U)
  BY <1>3, FS_StrictSubsetOrderingWellFounded
<1>5. V \subseteq SUBSET U
  <2>1. ASSUME NEW n \in T PROVE 0 .. n \subseteq 0 .. L
    <3>1. n \in 0 .. L
      OBVIOUS
    <3>2. QED
      BY <3>1, SMT
  <2>2. QED
    BY <1>1, <2>1
<1>6. V # {}
  BY <1>1
<1>7. PICK x \in V : \A y \in V : ~ (<<y, x>> \in StrictSubsetOrdering(U))
  BY <1>4, <1>5, <1>6, WFMin, Zenon
<1>8. PICK m \in T : x = 0 .. m
  BY <1>1, <1>7
<1>9. ASSUME NEW k \in T, k < m PROVE FALSE
  <2>1. 0 .. k \in V /\ 0 .. k \subseteq 0 .. m /\ 0 .. k # 0 .. m
    BY <1>1, <1>9
  <2>2. <<0 .. k, x>> \in StrictSubsetOrdering(U)
    BY <1>5, <1>8, <2>1 DEF StrictSubsetOrdering
  <2>3. QED
    BY <1>7, <2>1, <2>2
<1>10. QED
  BY <1>8, <1>9

-----------------------------------------------------------------------------
(* Sums over finite sets.                                                   *)

\* Among parts of a finite set there is a smallest.
LEMMA Smallest ==
    ASSUME NEW S, IsFiniteSet(S), NEW B \in SUBSET SUBSET S, B # {}
    PROVE  \E U \in B : \A V \in B : ~ (<<V, U>> \in StrictSubsetOrdering(S))
<1>1. FiniteSubsetsOf(S) = SUBSET S
  BY FS_FiniteSubsetsOfFinite
<1>2. IsWellFoundedOn(StrictSubsetOrdering(S), SUBSET S)
  BY <1>1, FS_StrictSubsetOrderingWellFounded
<1>3. B \subseteq SUBSET S
  OBVIOUS
<1>4. QED
  BY <1>2, <1>3, WFMin, Zenon

\* What holds of a set when it holds of its smaller parts holds of all of it.
LEMMA SetInduction ==
    ASSUME NEW S, IsFiniteSet(S), NEW T,
           \A U \in SUBSET S :
              (\A V \in SUBSET U : V # U => V \in T) => U \in T
    PROVE  S \in T
<1>1. SUFFICES ASSUME S \notin T PROVE FALSE
  OBVIOUS
<1>2. PICK B : B = {U \in SUBSET S : U \notin T}
  OBVIOUS
<1>3. B \subseteq SUBSET S
  BY <1>2
<1>4. B # {}
  BY <1>1, <1>2
<1>5. PICK U \in B : \A V \in B : ~ (<<V, U>> \in StrictSubsetOrdering(S))
  BY <1>3, <1>4, Smallest, Zenon
<1>6. ASSUME NEW V \in SUBSET U, V # U PROVE V \in T
  <2>1. <<V, U>> \in StrictSubsetOrdering(S)
    BY <1>3, <1>6 DEF StrictSubsetOrdering
  <2>2. V \in SUBSET S /\ V \notin B
    BY <1>3, <1>5, <2>1
  <2>3. QED
    BY <1>2, <2>2
<1>7. QED
  BY <1>2, <1>3, <1>5, <1>6

\* One number after the other.
LEMMA Counting ==
    ASSUME NEW n \in Nat, NEW T, 0 \in T,
           \A k \in 0 .. n - 1 : k \in T => k + 1 \in T
    PROVE  n \in T
<1>1. SUFFICES ASSUME n \notin T PROVE FALSE
  OBVIOUS
<1>2. PICK B : B = {k \in 0 .. n : k \notin T}
  OBVIOUS
<1>3. B \in SUBSET (0 .. n) /\ B # {}
  BY <1>1, <1>2
<1>4. PICK m \in B : \A k \in B : m <= k
  BY <1>3, Least
<1>5. m # 0 /\ m - 1 \in 0 .. n - 1 /\ m - 1 \notin B
  BY <1>2, <1>4
<1>6. m - 1 \in T
  BY <1>2, <1>5
<1>7. m \in T
  <2>1. (m - 1) + 1 = m
    BY <1>2
  <2>2. (m - 1) + 1 \in T
    BY <1>5, <1>6
  <2>3. QED
    BY <2>1, <2>2
<1>8. QED
  BY <1>2, <1>4, <1>7

Pick(S) == CHOOSE x \in S : TRUE

\* A function on the parts of S, computed as the fold computes it.
Folded(g, f, P) ==
    g = [V \in P |-> IF V = {} THEN 0 ELSE f[Pick(V)] + g[V \ {Pick(V)}]]

\* The recursion a fold is defined by has a solution.
LEMMA FoldExists ==
    ASSUME NEW S, IsFiniteSet(S), NEW f
    PROVE  \E g : Folded(g, f, SUBSET S)
<1> DEFINE P(k) == {V \in SUBSET S : Cardinality(V) <= k}
<1>1. PICK n : n = Cardinality(S) /\ n \in Nat
  BY FS_CardinalityType
<1>2. \A V \in SUBSET S : /\ IsFiniteSet(V)
                          /\ Cardinality(V) \in Nat /\ Cardinality(V) <= n
  BY <1>1, FS_Subset, FS_CardinalityType
<1>3. P(n) = SUBSET S
  BY <1>2
<1>4. PICK T : T = {k \in 0 .. n : \E g : Folded(g, f, P(k))}
  OBVIOUS
<1>5. 0 \in T
  <2>1. \A V \in P(0) : V = {}
    BY <1>2, FS_EmptySet
  <2>2. Folded([V \in P(0) |-> 0], f, P(0))
    BY <2>1 DEF Folded
  <2>3. 0 \in 0 .. n
    BY <1>1
  <2> HIDE DEF P
  <2>4. QED
    BY <1>4, <2>2, <2>3
<1>6. ASSUME NEW k \in 0 .. n - 1, k \in T PROVE k + 1 \in T
  <2>1. PICK g : Folded(g, f, P(k))
    BY <1>4, <1>6
  <2> DEFINE h == [V \in P(k + 1) |->
                     IF V = {} THEN 0 ELSE f[Pick(V)] + g[V \ {Pick(V)}]]
  <2>2. \A V \in P(k) : V \in P(k + 1) /\ h[V] = g[V]
    <3>1. TAKE V \in P(k)
    <3>2. V \in P(k + 1)
      BY <1>1, <1>2
    <3>3. g[V] = IF V = {} THEN 0 ELSE f[Pick(V)] + g[V \ {Pick(V)}]
      BY <2>1, Zenon DEF Folded
    <3>4. QED
      BY <3>2, <3>3
  <2>3. \A V \in P(k + 1) : V # {} => V \ {Pick(V)} \in P(k)
    <3>1. SUFFICES ASSUME NEW V \in P(k + 1), V # {}
                   PROVE  V \ {Pick(V)} \in P(k)
      OBVIOUS
    <3>2. Pick(V) \in V
      BY <3>1 DEF Pick
    <3>3. Cardinality(V \ {Pick(V)}) = Cardinality(V) - 1
      BY <1>2, <3>1, <3>2, FS_RemoveElement
    <3>4. QED
      BY <1>1, <1>2, <3>1, <3>3
  <2>4. Folded(h, f, P(k + 1))
    <3>1. \A V \in P(k + 1) :
            h[V] = IF V = {} THEN 0 ELSE f[Pick(V)] + h[V \ {Pick(V)}]
      BY <2>2, <2>3
    <3> HIDE DEF P
    <3>2. h = [V \in P(k + 1) |-> h[V]]
      OBVIOUS
    <3> HIDE DEF h
    <3>3. QED
      BY <3>1, <3>2 DEF Folded
  <2>5. k + 1 \in 0 .. n
    BY <1>1
  <2>6. QED
    BY <1>4, <2>4, <2>5
<1>7. n \in T
  BY <1>1, <1>5, <1>6, Counting
<1>8. QED
  BY <1>3, <1>4, <1>7

\* There is only one.
LEMMA FoldUnique ==
    ASSUME NEW S, IsFiniteSet(S), NEW R \in SUBSET S, NEW f, NEW g, NEW h,
           Folded(g, f, SUBSET S), Folded(h, f, SUBSET R)
    PROVE  g[R] = h[R]
<1>1. IsFiniteSet(R)
  BY FS_Subset
<1>2. PICK T : T = {V \in SUBSET R : g[V] = h[V]}
  OBVIOUS
<1>3. ASSUME NEW V \in SUBSET R, \A W \in SUBSET V : W # V => W \in T
      PROVE  V \in T
  <2>1. V \in SUBSET S
    OBVIOUS
  <2>2. /\ g[V] = IF V = {} THEN 0 ELSE f[Pick(V)] + g[V \ {Pick(V)}]
        /\ h[V] = IF V = {} THEN 0 ELSE f[Pick(V)] + h[V \ {Pick(V)}]
    BY <2>1, Zenon DEF Folded
  <2>3. V # {} => V \ {Pick(V)} \in T
    <3>1. V # {} => Pick(V) \in V
      BY DEF Pick
    <3>2. QED
      BY <1>3, <3>1
  <2>4. QED
    BY <1>2, <2>2, <2>3
<1>4. R \in T
  BY <1>1, <1>3, SetInduction
<1>5. QED
  BY <1>2, <1>4

\* Sum is that solution.
LEMMA SumIsFold ==
    ASSUME NEW S, IsFiniteSet(S), NEW f
    PROVE  \E g : Folded(g, f, SUBSET S) /\ Sum(f, S) = g[S]
<1>1. PICK g : g = CHOOSE h : Folded(h, f, SUBSET S)
  OBVIOUS
<1>2. Folded(g, f, SUBSET S)
  BY <1>1, FoldExists, Zenon
<1>3. Sum(f, S) = g[S]
  BY <1>1 DEF Sum, FoldFunctionOnSet, MapThenFoldSet, Folded, Pick
<1>4. QED
  BY <1>2, <1>3

LEMMA SumEmpty == ASSUME NEW f PROVE Sum(f, {}) = 0
<1>1. PICK g : Folded(g, f, SUBSET {}) /\ Sum(f, {}) = g[{}]
  BY SumIsFold, FS_EmptySet
<1>2. g[{}] = IF {} = {} THEN 0 ELSE f[Pick({})] + g[{} \ {Pick({})}]
  BY <1>1, Zenon DEF Folded
<1>3. QED
  BY <1>1, <1>2

\* A sum is one summand and the sum of the others.
LEMMA SumPick ==
    ASSUME NEW S, IsFiniteSet(S), S # {}, NEW f
    PROVE  Pick(S) \in S /\ Sum(f, S) = f[Pick(S)] + Sum(f, S \ {Pick(S)})
<1>1. PICK g : Folded(g, f, SUBSET S) /\ Sum(f, S) = g[S]
  BY SumIsFold
<1>2. Pick(S) \in S
  BY DEF Pick
<1>3. PICK R : R = S \ {Pick(S)}
  OBVIOUS
<1>4. R \in SUBSET S /\ IsFiniteSet(R)
  BY <1>3, FS_Subset
<1>5. PICK h : Folded(h, f, SUBSET R) /\ Sum(f, R) = h[R]
  BY <1>4, SumIsFold
<1>6. g[R] = h[R]
  BY <1>1, <1>4, <1>5, FoldUnique
<1>7. g[S] = IF S = {} THEN 0 ELSE f[Pick(S)] + g[S \ {Pick(S)}]
  BY <1>1, Zenon DEF Folded
<1>8. QED
  BY <1>1, <1>2, <1>3, <1>5, <1>6, <1>7

LEMMA SumType ==
    ASSUME NEW S, IsFiniteSet(S), NEW f, \A x \in S : f[x] \in Nat
    PROVE  Sum(f, S) \in Nat
<1>1. PICK T : T = {U \in SUBSET S : Sum(f, U) \in Nat}
  OBVIOUS
<1>2. ASSUME NEW U \in SUBSET S, \A V \in SUBSET U : V # U => V \in T
      PROVE  U \in T
  <2>1. CASE U = {}
    BY <1>1, <2>1, SumEmpty
  <2>2. CASE U # {}
    <3>1. Pick(U) \in U /\ Sum(f, U) = f[Pick(U)] + Sum(f, U \ {Pick(U)})
      BY <2>2, FS_Subset, SumPick
    <3>2. Sum(f, U \ {Pick(U)}) \in Nat
      BY <1>1, <1>2, <3>1
    <3>3. QED
      BY <1>1, <3>1, <3>2
  <2>3. QED
    BY <2>1, <2>2
<1>3. S \in T
  BY <1>2, SetInduction
<1>4. QED
  BY <1>1, <1>3

\* Any element may be taken out.
LEMMA SumTake ==
    ASSUME NEW S, IsFiniteSet(S), NEW f, \A x \in S : f[x] \in Nat, NEW a \in S
    PROVE  Sum(f, S) = f[a] + Sum(f, S \ {a})
<1>1. PICK T : T = {U \in SUBSET S :
                      \A x \in U : Sum(f, U) = f[x] + Sum(f, U \ {x})}
  OBVIOUS
<1>2. ASSUME NEW U \in SUBSET S, \A V \in SUBSET U : V # U => V \in T
      PROVE  U \in T
  <2>1. SUFFICES ASSUME NEW x \in U
                 PROVE  Sum(f, U) = f[x] + Sum(f, U \ {x})
    BY <1>1
  <2>2. PICK c : c = Pick(U)
    OBVIOUS
  <2>3. IsFiniteSet(U) /\ \A V \in SUBSET U : IsFiniteSet(V)
    BY FS_Subset
  <2>4. c \in U /\ Sum(f, U) = f[c] + Sum(f, U \ {c})
    BY <2>2, <2>3, SumPick
  <2>5. CASE x = c
    BY <2>4, <2>5
  <2>6. CASE x # c
    <3>1. x \in U \ {c} /\ c \in U \ {x}
      BY <2>4, <2>6
    <3>2. U \ {c} \in T /\ U \ {x} \in T
      BY <1>2, <2>4
    <3>3. Sum(f, U \ {c}) = f[x] + Sum(f, (U \ {c}) \ {x})
      BY <1>1, <3>1, <3>2
    <3>4. Sum(f, U \ {x}) = f[c] + Sum(f, (U \ {x}) \ {c})
      BY <1>1, <3>1, <3>2
    <3>5. (U \ {c}) \ {x} = (U \ {x}) \ {c}
      OBVIOUS
    <3>6. Sum(f, (U \ {c}) \ {x}) \in Nat
      <4>1. PICK V : V = (U \ {c}) \ {x}
        OBVIOUS
      <4>2. V \in SUBSET U /\ \A y \in V : f[y] \in Nat
        BY <4>1
      <4>3. QED
        BY <2>3, <4>1, <4>2, SumType
    <3>7. f[x] \in Nat /\ f[c] \in Nat
      BY <2>4
    <3>8. QED
      BY <2>4, <3>3, <3>4, <3>5, <3>6, <3>7
  <2>7. QED
    BY <2>5, <2>6
<1>3. S \in T
  BY <1>2, SetInduction
<1>4. QED
  BY <1>1, <1>3

LEMMA SumLeq ==
    ASSUME NEW S, IsFiniteSet(S), NEW f, NEW g,
           \A x \in S : f[x] \in Nat /\ g[x] \in Nat /\ f[x] <= g[x]
    PROVE  Sum(f, S) <= Sum(g, S)
<1>1. PICK T : T = {U \in SUBSET S : Sum(f, U) <= Sum(g, U)}
  OBVIOUS
<1>2. ASSUME NEW U \in SUBSET S, \A V \in SUBSET U : V # U => V \in T
      PROVE  U \in T
  <2>1. CASE U = {}
    BY <1>1, <2>1, SumEmpty
  <2>2. CASE U # {}
    <3>1. PICK c \in U : c = Pick(U)
      BY <2>2 DEF Pick
    <3>2. IsFiniteSet(U) /\ IsFiniteSet(U \ {c})
      BY FS_Subset
    <3>3. Sum(f, U) = f[c] + Sum(f, U \ {c}) /\ Sum(g, U) = g[c] + Sum(g, U \ {c})
      BY <2>2, <3>1, <3>2, SumPick
    <3>4. Sum(f, U \ {c}) <= Sum(g, U \ {c})
      BY <1>1, <1>2
    <3>5. \A x \in U \ {c} : f[x] \in Nat /\ g[x] \in Nat
      OBVIOUS
    <3>6. Sum(f, U \ {c}) \in Nat /\ Sum(g, U \ {c}) \in Nat
      BY <3>2, <3>5, SumType
    <3>7. f[c] \in Nat /\ g[c] \in Nat /\ f[c] <= g[c]
      OBVIOUS
    <3>8. Sum(f, U) <= Sum(g, U)
      BY <3>3, <3>4, <3>6, <3>7
    <3>9. QED
      BY <1>1, <3>8
  <2>3. QED
    BY <2>1, <2>2
<1>3. S \in T
  BY <1>2, SetInduction
<1>4. QED
  BY <1>1, <1>3

LEMMA SumSame ==
    ASSUME NEW S, IsFiniteSet(S), NEW f, NEW g,
           \A x \in S : f[x] \in Nat /\ f[x] = g[x]
    PROVE  Sum(f, S) = Sum(g, S)
<1>1. Sum(f, S) \in Nat /\ Sum(g, S) \in Nat
  BY SumType
<1>2. Sum(f, S) <= Sum(g, S) /\ Sum(g, S) <= Sum(f, S)
  <2>1. \A x \in S : f[x] \in Nat /\ g[x] \in Nat /\ f[x] <= g[x] /\ g[x] <= f[x]
    OBVIOUS
  <2>2. QED
    BY <2>1, SumLeq
<1>3. QED
  BY <1>1, <1>2

\* The sum of sums.
LEMMA SumPlus ==
    ASSUME NEW S, IsFiniteSet(S), NEW f, NEW g, NEW h,
           \A x \in S : f[x] \in Nat /\ g[x] \in Nat /\ h[x] = f[x] + g[x]
    PROVE  Sum(h, S) = Sum(f, S) + Sum(g, S)
<1>1. PICK T : T = {U \in SUBSET S : Sum(h, U) = Sum(f, U) + Sum(g, U)}
  OBVIOUS
<1>2. ASSUME NEW U \in SUBSET S, \A V \in SUBSET U : V # U => V \in T
      PROVE  U \in T
  <2>1. CASE U = {}
    <3>1. Sum(h, {}) = 0 /\ Sum(f, {}) = 0 /\ Sum(g, {}) = 0
      BY SumEmpty
    <3>2. QED
      BY <1>1, <2>1, <3>1
  <2>2. CASE U # {}
    <3>1. PICK c \in U : c = Pick(U)
      BY <2>2 DEF Pick
    <3>2. IsFiniteSet(U) /\ IsFiniteSet(U \ {c})
      BY FS_Subset
    <3>3. /\ Sum(f, U) = f[c] + Sum(f, U \ {c})
          /\ Sum(g, U) = g[c] + Sum(g, U \ {c})
          /\ Sum(h, U) = h[c] + Sum(h, U \ {c})
      BY <2>2, <3>1, <3>2, SumPick
    <3>4. Sum(h, U \ {c}) = Sum(f, U \ {c}) + Sum(g, U \ {c})
      BY <1>1, <1>2
    <3>5. \A x \in U \ {c} : f[x] \in Nat /\ g[x] \in Nat
      OBVIOUS
    <3>6. Sum(f, U \ {c}) \in Nat /\ Sum(g, U \ {c}) \in Nat
      BY <3>2, <3>5, SumType
    <3>7. f[c] \in Nat /\ g[c] \in Nat /\ h[c] = f[c] + g[c]
      OBVIOUS
    <3>8. Sum(h, U) = Sum(f, U) + Sum(g, U)
      BY <3>3, <3>4, <3>6, <3>7
    <3>9. QED
      BY <1>1, <3>8
  <2>3. QED
    BY <2>1, <2>2
<1>3. S \in T
  BY <1>2, SetInduction
<1>4. QED
  BY <1>1, <1>3

LEMMA SumZero ==
    ASSUME NEW S, IsFiniteSet(S), NEW f, \A x \in S : f[x] = 0
    PROVE  Sum(f, S) = 0
<1>1. PICK T : T = {U \in SUBSET S : Sum(f, U) = 0}
  OBVIOUS
<1>2. ASSUME NEW U \in SUBSET S, \A V \in SUBSET U : V # U => V \in T
      PROVE  U \in T
  <2>1. CASE U = {}
    BY <1>1, <2>1, SumEmpty
  <2>2. CASE U # {}
    <3>1. Pick(U) \in U /\ Sum(f, U) = f[Pick(U)] + Sum(f, U \ {Pick(U)})
      BY <2>2, FS_Subset, SumPick
    <3>2. Sum(f, U \ {Pick(U)}) = 0 /\ f[Pick(U)] = 0
      BY <1>1, <1>2, <3>1
    <3>3. QED
      BY <1>1, <3>1, <3>2
  <2>3. QED
    BY <2>1, <2>2
<1>3. S \in T
  BY <1>2, SetInduction
<1>4. QED
  BY <1>1, <1>3

\* Everything is at one place.
LEMMA SumOnly ==
    ASSUME NEW S, IsFiniteSet(S), NEW f, NEW a \in S, f[a] \in Nat,
           \A x \in S : x # a => f[x] = 0
    PROVE  Sum(f, S) = f[a]
<1>1. \A x \in S : f[x] \in Nat
  OBVIOUS
<1>2. Sum(f, S) = f[a] + Sum(f, S \ {a})
  BY <1>1, SumTake
<1>3. IsFiniteSet(S \ {a}) /\ \A x \in S \ {a} : f[x] = 0
  BY FS_Subset
<1>4. Sum(f, S \ {a}) = 0
  BY <1>3, SumZero
<1>5. QED
  BY <1>2, <1>4

\* A part of the set, with what is 0 outside it.
LEMMA SumPart ==
    ASSUME NEW S, IsFiniteSet(S), NEW R \in SUBSET S, NEW f, NEW g,
           \A x \in R : f[x] \in Nat /\ g[x] = f[x],
           \A x \in S \ R : g[x] = 0
    PROVE  Sum(f, R) = Sum(g, S)
<1>1. PICK T : T = {U \in SUBSET S : Sum(f, U \cap R) = Sum(g, U)}
  OBVIOUS
<1>2. ASSUME NEW U \in SUBSET S, \A V \in SUBSET U : V # U => V \in T
      PROVE  U \in T
  <2>1. CASE U = {}
    <3>1. U \cap R = {}
      BY <2>1
    <3>2. QED
      BY <1>1, <2>1, <3>1, SumEmpty
  <2>2. CASE U # {}
    <3>1. PICK c \in U : c = Pick(U)
      BY <2>2 DEF Pick
    <3>2. IsFiniteSet(U) /\ IsFiniteSet(U \ {c}) /\ IsFiniteSet(U \cap R)
          /\ IsFiniteSet((U \ {c}) \cap R)
      BY FS_Subset
    <3>3. Sum(g, U) = g[c] + Sum(g, U \ {c})
      BY <2>2, <3>1, <3>2, SumPick
    <3>4. Sum(f, (U \ {c}) \cap R) = Sum(g, U \ {c})
      BY <1>1, <1>2
    <3>5. CASE c \in R
      <4>1. (U \cap R) \ {c} = (U \ {c}) \cap R /\ c \in U \cap R
        BY <3>5
      <4>2. \A x \in U \cap R : f[x] \in Nat
        OBVIOUS
      <4>3. Sum(f, U \cap R) = f[c] + Sum(f, (U \cap R) \ {c})
        BY <3>2, <4>1, <4>2, SumTake
      <4>4. QED
        BY <1>1, <3>3, <3>4, <3>5, <4>1, <4>3
    <3>6. CASE c \notin R
      <4>1. U \cap R = (U \ {c}) \cap R
        BY <3>6
      <4>2. g[c] = 0 /\ Sum(f, (U \ {c}) \cap R) \in Nat
        <5>1. \A x \in (U \ {c}) \cap R : f[x] \in Nat
          OBVIOUS
        <5>2. QED
          BY <3>2, <3>6, <5>1, SumType
      <4>3. QED
        BY <1>1, <3>3, <3>4, <4>1, <4>2
    <3>7. QED
      BY <3>5, <3>6
  <2>3. QED
    BY <2>1, <2>2
<1>3. S \in T
  BY <1>2, SetInduction
<1>4. S \cap R = R
  OBVIOUS
<1>5. QED
  BY <1>1, <1>3, <1>4

\* Another index for the same values.
LEMMA SumIndex ==
    ASSUME NEW S, IsFiniteSet(S), NEW R, IsFiniteSet(R), NEW f, NEW g, NEW p,
           \A x \in S : p[x] \in R /\ g[x] \in Nat /\ g[x] = f[p[x]],
           \A x, y \in S : p[x] = p[y] => x = y
    PROVE  Sum(g, S) = Sum(f, {p[x] : x \in S})
<1> DEFINE I(U) == {p[x] : x \in U}
<1>1. PICK T : T = {U \in SUBSET S : Sum(g, U) = Sum(f, I(U))}
  OBVIOUS
<1>2. ASSUME NEW U \in SUBSET S, \A V \in SUBSET U : V # U => V \in T
      PROVE  U \in T
  <2>1. CASE U = {}
    <3>1. I(U) = {}
      BY <2>1
    <3>2. QED
      BY <1>1, <2>1, <3>1, SumEmpty
  <2>2. CASE U # {}
    <3>1. PICK c \in U : c = Pick(U)
      BY <2>2 DEF Pick
    <3>2. IsFiniteSet(U) /\ IsFiniteSet(I(U))
      <4>1. I(U) \in SUBSET R
        OBVIOUS
      <4>2. QED
        BY <4>1, FS_Subset, Zenon
    <3>3. Sum(g, U) = g[c] + Sum(g, U \ {c})
      BY <2>2, <3>1, <3>2, SumPick
    <3>4. Sum(g, U \ {c}) = Sum(f, I(U \ {c}))
      BY <1>1, <1>2
    <3>5. I(U \ {c}) = I(U) \ {p[c]} /\ p[c] \in I(U)
      OBVIOUS
    <3>6. \A y \in I(U) : f[y] \in Nat
      OBVIOUS
    <3>7. Sum(f, I(U)) = f[p[c]] + Sum(f, I(U) \ {p[c]})
      <4>1. PICK J : J = I(U)
        OBVIOUS
      <4>2. IsFiniteSet(J) /\ p[c] \in J /\ \A y \in J : f[y] \in Nat
        BY <3>2, <3>5, <3>6, <4>1, Zenon
      <4>3. QED
        BY <4>1, <4>2, SumTake
    <3>8. Sum(g, U) = Sum(f, I(U))
      BY <3>3, <3>4, <3>5, <3>7
    <3> HIDE DEF I
    <3>9. QED
      BY <1>1, <3>8
  <2>3. QED
    BY <2>1, <2>2
<1>3. S \in T
  BY <1>2, SetInduction
<1>4. QED
  BY <1>1, <1>3

\* As much for each.
LEMMA SumConstant ==
    ASSUME NEW S, IsFiniteSet(S), NEW f, NEW k \in Nat, \A x \in S : f[x] = k
    PROVE  Sum(f, S) = k * Cardinality(S)
<1>1. PICK T : T = {U \in SUBSET S : Sum(f, U) = k * Cardinality(U)}
  OBVIOUS
<1>2. ASSUME NEW U \in SUBSET S, \A V \in SUBSET U : V # U => V \in T
      PROVE  U \in T
  <2>1. CASE U = {}
    BY <1>1, <2>1, SumEmpty, FS_EmptySet
  <2>2. CASE U # {}
    <3>1. PICK c \in U : c = Pick(U)
      BY <2>2 DEF Pick
    <3>2. IsFiniteSet(U) /\ IsFiniteSet(U \ {c})
      BY FS_Subset
    <3>3. Sum(f, U) = f[c] + Sum(f, U \ {c})
      BY <2>2, <3>1, <3>2, SumPick
    <3>4. Sum(f, U \ {c}) = k * Cardinality(U \ {c})
      BY <1>1, <1>2
    <3>5. PICK n : n = Cardinality(U \ {c}) /\ n \in Nat /\ Cardinality(U) = n + 1
      BY <3>2, FS_RemoveElement, FS_CardinalityType
    <3>6. Sum(f, U) = k + k * n
      BY <3>3, <3>4, <3>5
    <3>7. k * (n + 1) = k + k * n
      BY <3>5
    <3>8. QED
      BY <1>1, <3>5, <3>6, <3>7
  <2>3. QED
    BY <2>1, <2>2
<1>3. S \in T
  BY <1>2, SetInduction
<1>4. QED
  BY <1>1, <1>3

-----------------------------------------------------------------------------
(* The constants, and what the helpers return.                              *)

LEMMA QuotaFacts ==
    /\ Quota \in Nat /\ Segment \in Nat /\ Segment >= 1 /\ Segment <= Quota
    /\ Cap \in Nat /\ MaxFaults \in Nat
<1>1. PICK m, n : m = Segment /\ n = Segments
  OBVIOUS
<1>2. m \in Nat /\ m >= 1 /\ n \in Nat /\ n >= 1 /\ Quota = n * m
  BY <1>1, PolicyAssumption DEF Quota
<1>3. n * m \in Nat /\ n * m >= m
  BY <1>2, SMT
<1>4. QED
  BY <1>1, <1>2, <1>3, PolicyAssumption

\* Files and markers can be summed up, as the sessions are finitely many.
LEMMA Finite ==
    IsFiniteSet(Files) /\ IsFiniteSet(MarkerFiles)
<1>1. IsFiniteSet({"primary"}) /\ IsFiniteSet({"log"})
  BY FS_Singleton
<1>2. IsFiniteSet({"primary"} \cup {"temporary"}) /\ IsFiniteSet({"log"} \cup {"bundle"})
  BY <1>1, FS_AddElement
<1>3. Dirs = {"primary"} \cup {"temporary"} /\ {"log", "bundle"} = {"log"} \cup {"bundle"}
  BY DEF Dirs
<1>4. IsFiniteSet(Dirs) /\ IsFiniteSet({"log", "bundle"})
  BY <1>2, <1>3
<1>5. IsFiniteSet(Sessions \X Dirs)
  BY <1>4, HostAssumption, FS_Product
<1>6. IsFiniteSet(Dirs \X {"log", "bundle"})
  BY <1>4, FS_Product
<1>7. IsFiniteSet((Sessions \X Dirs) \X {"log", "bundle"})
  BY <1>4, <1>5, FS_Product
<1>8. IsFiniteSet(Files)
  <2> DEFINE P == (Sessions \X Dirs) \X {"log", "bundle"}
             i == [x \in Files |-> <<<<x[1], x[2]>>, x[3]>>]
  <2>1. i \in Injection(Files, P)
    BY DEF Injection, IsInjective, Files
  <2>2. QED
    BY <1>7, <2>1, FS_Injection
<1>9. QED
  BY <1>5, <1>8 DEF MarkerFiles

DiskTyped ==
    /\ disk \in [Files -> 0 .. Quota]
    /\ marker \in [MarkerFiles -> Marker \cup {NoMarker}]
    /\ zips \subseteq MarkerFiles
LockTyped ==
    /\ lock \in [Hosts -> Job \cup {Free}]
    /\ \A h \in Hosts : lock[h] # Free => Host[lock[h].owner] = h
SessionTyped ==
    /\ pc \in [Sessions -> Gone \cup Steps]
    /\ home \in [Sessions -> Dirs]
    /\ console \in [Sessions -> BOOLEAN] /\ failing \in [Sessions -> BOOLEAN]
    /\ seen \in [Sessions -> SUBSET MarkerFiles]
    /\ claim \in [Sessions -> MarkerFiles \cup {NoFile}]
PastTyped ==
    /\ reports \in [Sessions -> [clean : Nat, unclean : Nat]]
    /\ \A S \in {admitted, lapsed, reused} : S \subseteq Sessions
    /\ faults \in 0 .. MaxFaults

\* TypeOK by parts, so that a step is looked at where it changes something.
LEMMA Parts == TypeOK <=> DiskTyped /\ LockTyped /\ SessionTyped /\ PastTyped
  BY DEF TypeOK, DiskTyped, LockTyped, SessionTyped, PastTyped

LEMMA PartsAfter ==
    TypeOK' <=> DiskTyped' /\ LockTyped' /\ SessionTyped' /\ PastTyped'
  BY DEF TypeOK, DiskTyped, LockTyped, SessionTyped, PastTyped

LEMMA Pairs ==
    \A f \in MarkerFiles : f = <<f[1], f[2]>> /\ f[1] \in Sessions /\ f[2] \in Dirs
  BY DEF MarkerFiles

LEMMA FileShape ==
    ASSUME NEW s \in Sessions
    PROVE  /\ \A dir \in Dirs : /\ <<s, dir>> \in MarkerFiles
                                /\ <<s, dir, "log">> \in Files
                                /\ <<s, dir, "bundle">> \in Files
           /\ Host[s] \in Hosts
  BY HostAssumption DEF MarkerFiles, Files

\* The marker of the session's own directory is written anew.
LEMMA WrittenFacts ==
    ASSUME TypeOK, NEW s \in Sessions, NEW c \in BOOLEAN, NEW a \in BOOLEAN
    PROVE  /\ Written(s, c, a) \in [MarkerFiles -> Marker \cup {NoMarker}]
           /\ <<s, home[s]>> \in MarkerFiles
           /\ \A f \in MarkerFiles : f # <<s, home[s]>> => Written(s, c, a)[f] = marker[f]
           /\ Written(s, c, a)[<<s, home[s]>>] # NoMarker
           /\ Written(s, c, a)[<<s, home[s]>>].clean = c
           /\ Written(s, c, a)[<<s, home[s]>>].active = a
           /\ Written(s, c, a)[<<s, home[s]>>].fresh = TRUE
           /\ Written(s, c, a)[<<s, home[s]>>].reserved = IF a THEN Growth(s) ELSE 0
           /\ Growth(s) \in Nat
<1>1. <<s, home[s]>> \in MarkerFiles /\ disk[<<s, home[s], "log">>] \in 0 .. Quota
  BY FileShape DEF TypeOK
<1>2. Growth(s) \in 0 .. Quota
  BY <1>1, QuotaFacts DEF Growth
<1>3. PICK m : m = [clean |-> c, active |-> a, fresh |-> TRUE,
                    reserved |-> IF a THEN Growth(s) ELSE 0]
  OBVIOUS
<1>4. m \in Marker
  BY <1>2, <1>3, QuotaFacts DEF Marker
<1>5. m # NoMarker
  BY <1>4, SentinelAssumption
<1>6. Written(s, c, a) = [marker EXCEPT ![<<s, home[s]>>] = m]
  BY <1>3 DEF Written
<1>7. /\ m.clean = c /\ m.active = a /\ m.fresh = TRUE
      /\ m.reserved = IF a THEN Growth(s) ELSE 0
  BY <1>3
<1>8. /\ Written(s, c, a) \in [MarkerFiles -> Marker \cup {NoMarker}]
      /\ Written(s, c, a)[<<s, home[s]>>] = m
      /\ \A f \in MarkerFiles : f # <<s, home[s]>> => Written(s, c, a)[f] = marker[f]
  BY <1>1, <1>4, <1>6 DEF TypeOK
<1>9. QED
  BY <1>1, <1>2, <1>5, <1>7, <1>8, QuotaFacts

\* Who holds a lock.
LEMMA HeldFacts ==
    ASSUME TypeOK, NEW h \in Hosts, lock[h] # Free
    PROVE  /\ lock[h] \in Job /\ lock[h].owner \in Sessions
           /\ Host[lock[h].owner] = h
           /\ lock[h].op \in {"admit", "fallback", "export"}
           /\ lock[h].step \in {"reserve", "protect", "prune", "check"}
           /\ lock[h].reserved \in Nat /\ lock[h].kept \subseteq Sessions
  BY DEF TypeOK, Job

\* Taking a lock, giving it back, and going on under it.
LEMMA TakeFacts ==
    ASSUME TypeOK, NEW s \in Sessions, NEW op \in {"admit", "fallback", "export"},
           Take(s, op)
    PROVE  /\ lock' \in [Hosts -> Job \cup {Free}]
           /\ \A h \in Hosts : lock'[h] # Free => Host[lock'[h].owner] = h
           /\ \A h \in Hosts : h # Host[s] => lock'[h] = lock[h]
           /\ lock'[Host[s]] # Free
           /\ lock'[Host[s]].owner = s /\ lock'[Host[s]].op = op
           /\ lock'[Host[s]].step = "reserve" /\ lock'[Host[s]].kept = {}
<1>1. PICK j : j = [owner |-> s, op |-> op, step |-> "reserve", reserved |-> 0,
                    kept |-> {}]
  OBVIOUS
<1>2. j \in Job
  BY <1>1 DEF Job
<1>3. j # Free
  BY <1>2, SentinelAssumption
<1>4. lock' = [lock EXCEPT ![Host[s]] = j]
  BY <1>1 DEF Take
<1>5. lock'[Host[s]] = j /\ \A h \in Hosts : h # Host[s] => lock'[h] = lock[h]
  BY <1>4, FileShape DEF TypeOK
<1>6. lock' \in [Hosts -> Job \cup {Free}]
  BY <1>2, <1>4, FileShape DEF TypeOK
<1>7. j.owner = s /\ j.op = op /\ j.step = "reserve" /\ j.kept = {}
  BY <1>1
<1>8. \A h \in Hosts : lock'[h] # Free => Host[lock'[h].owner] = h
  BY <1>5, <1>7 DEF TypeOK
<1>9. QED
  BY <1>3, <1>5, <1>6, <1>7, <1>8

LEMMA ReleasedFacts ==
    ASSUME TypeOK, NEW s \in Sessions
    PROVE  /\ Released(s) \in [Hosts -> Job \cup {Free}]
           /\ Released(s)[Host[s]] = Free
           /\ \A h \in Hosts : h # Host[s] => Released(s)[h] = lock[h]
  BY FileShape DEF TypeOK, Released

LEMMA AdvanceFacts ==
    ASSUME TypeOK, NEW s \in Sessions, lock[Host[s]] # Free,
           NEW step \in {"reserve", "protect", "prune", "check"},
           NEW r \in Nat, NEW k \in SUBSET Sessions, Advance(s, step, r, k)
    PROVE  /\ lock' \in [Hosts -> Job \cup {Free}]
           /\ \A h \in Hosts : h # Host[s] => lock'[h] = lock[h]
           /\ lock'[Host[s]] # Free
           /\ lock'[Host[s]].owner = lock[Host[s]].owner
           /\ lock'[Host[s]].op = lock[Host[s]].op
           /\ lock'[Host[s]].step = step
           /\ lock'[Host[s]].reserved = r
           /\ lock'[Host[s]].kept = k
<1>1. lock[Host[s]] \in Job /\ Host[s] \in Hosts
  BY FileShape, HeldFacts
<1>2. PICK j : j = [lock[Host[s]] EXCEPT !.step = step, !.reserved = r, !.kept = k]
  OBVIOUS
<1>3. /\ j \in Job /\ j.owner = lock[Host[s]].owner /\ j.op = lock[Host[s]].op
      /\ j.step = step /\ j.reserved = r /\ j.kept = k
  BY <1>1, <1>2 DEF Job
<1>4. lock' = [lock EXCEPT ![Host[s]] = j]
  BY <1>1, <1>2 DEF Advance, TypeOK
<1>5. /\ lock'[Host[s]] = j /\ \A h \in Hosts : h # Host[s] => lock'[h] = lock[h]
      /\ lock' \in [Hosts -> Job \cup {Free}]
  BY <1>1, <1>3, <1>4 DEF TypeOK
<1>6. j # Free
  BY <1>3, SentinelAssumption
<1>7. QED
  BY <1>3, <1>5, <1>6

\* What the model counts is a sum.
LEMMA BytesAre == ASSUME NEW A PROVE Bytes(A) = Sum(disk, A)
  BY DEF Bytes, Sum

LEMMA ReservationsAre ==
    ASSUME NEW s
    PROVE  Reservations(s) =
             Sum([f \in LiveMarkers(s) |-> marker[f].reserved], LiveMarkers(s))
             + IF <<s, home[s]>> \in LiveMarkers(s) \/ console[s] THEN 0 ELSE Growth(s)
  BY DEF Reservations, Sum

LEMMA ReservationsType ==
    ASSUME TypeOK, NEW s \in Sessions
    PROVE  Reservations(s) \in Nat
<1> DEFINE L == LiveMarkers(s)
           g == [f \in L |-> marker[f].reserved]
<1>1. L \in SUBSET MarkerFiles /\ \A f \in L : marker[f] # NoMarker
  BY DEF LiveMarkers, Live
<1>2. IsFiniteSet(L)
  BY <1>1, Finite, FS_Subset, Zenon
<1>3. \A f \in L : g[f] \in Nat
  BY <1>1, QuotaFacts DEF TypeOK, Marker
<1> HIDE DEF L, g
<1>4. Sum(g, L) \in Nat
  BY <1>2, <1>3, SumType
<1>5. Growth(s) \in Nat
  BY WrittenFacts
<1>6. Reservations(s) = Sum(g, L) + IF <<s, home[s]>> \in L \/ console[s] THEN 0 ELSE Growth(s)
  BY ReservationsAre DEF g, L
<1>7. QED
  BY <1>4, <1>5, <1>6

-----------------------------------------------------------------------------
(* A step of a session touches what is its own: its variables, its markers, *)
(* and the lock of its host when it is free or its own.  What it has given  *)
(* up or ended stays so.                                                    *)

Others(s) ==
    \A t \in Sessions : t # s =>
        /\ pc'[t] = pc[t] /\ home'[t] = home[t]
        /\ console'[t] = console[t] /\ failing'[t] = failing[t]
        /\ seen'[t] = seen[t] /\ claim'[t] = claim[t]
        /\ reports'[t] = reports[t]
        /\ (t \in admitted') = (t \in admitted) /\ (t \in lapsed') = (t \in lapsed)

OtherMarkers(s) == \A f \in MarkerFiles : f[1] # s => marker'[f] = marker[f]

Stays(s) ==
    /\ pc[s] \in {"closed", "dead"} => pc'[s] = pc[s]
    /\ console[s] => console'[s]
    /\ s \in lapsed => s \in lapsed'
    /\ reports'[s] = reports[s]
    /\ claim'[s] \in {claim[s], NoFile}
    /\ \A f \in seen'[s] : f[1] # s

OtherLocks(s) ==
    \A h \in Hosts : lock'[h] # lock[h] =>
        /\ h = Host[s]
        /\ lock[h] # Free => lock[h].owner = s
        /\ lock'[h] # Free => lock'[h].owner = s

Apart(s) == Others(s) /\ OtherMarkers(s) /\ Stays(s) /\ OtherLocks(s)

\* A step that leaves the others alone preserves the invariant if what is
\* said of its own session holds after it.
LEMMA Local ==
    ASSUME RInv, TypeOK', NEW s \in Sessions, Apart(s),
           JobTrue(Host[s])', StartTrue(s)', KnownTrue(s)',
           \A dir \in Dirs : MarkerTrue(<<s, dir>>)'
    PROVE  RInv'
<1>1. /\ DiskTyped /\ LockTyped /\ SessionTyped /\ PastTyped
      /\ Jobs /\ Unstarted /\ MarkersTrue /\ ClaimsTrue
      /\ PublishedKnown /\ ReportedTrue
  BY Parts DEF RInv
<1>2. DiskTyped' /\ LockTyped' /\ SessionTyped' /\ PastTyped'
  BY PartsAfter
<1>3. Others(s) /\ OtherMarkers(s) /\ Stays(s) /\ OtherLocks(s)
  BY DEF Apart
<1>4. \A t \in Sessions : t # s /\ Alive(t) => Alive(t)'
  BY <1>3 DEF Others, Alive
<1>5. \A t \in Sessions : t # s =>
         (Holds(t, {"fallback"})' <=> Holds(t, {"fallback"}))
  BY <1>3, FileShape DEF OtherLocks, Holds
<1>6. Jobs'
  <2>1. SUFFICES ASSUME NEW h \in Hosts PROVE JobTrue(h)'
    BY DEF Jobs
  <2>2. CASE h = Host[s]
    BY <2>2
  <2>3. CASE h # Host[s]
    <3>1. lock'[h] = lock[h]
      BY <1>3, <2>3 DEF OtherLocks
    <3>2. Held(h) => lock[h].owner \in Sessions /\ lock[h].owner # s
      BY <1>1, <2>3, HeldFacts, Parts DEF Held, RInv
    <3>3. JobTrue(h)
      BY <1>1 DEF Jobs
    <3>4. QED
      BY <1>3, <1>4, <3>1, <3>2, <3>3 DEF JobTrue, Held, Others
  <2>4. QED
    BY <2>2, <2>3
<1>7. Unstarted'
  <2>1. SUFFICES ASSUME NEW t \in Sessions, t # s PROVE StartTrue(t)'
    BY DEF Unstarted
  <2>2. StartTrue(t)
    BY <1>1 DEF Unstarted
  <2>3. Blank(t) => Blank(t)'
    BY <1>3, <2>1 DEF Blank, Others, OtherMarkers
  <2>4. QED
    BY <1>3, <1>4, <2>1, <2>2, <2>3 DEF StartTrue, Others
<1>8. MarkersTrue'
  <2>1. SUFFICES ASSUME NEW f \in MarkerFiles PROVE MarkerTrue(f)'
    BY DEF MarkersTrue
  <2>2. f = <<f[1], f[2]>> /\ f[1] \in Sessions /\ f[2] \in Dirs
    BY Pairs
  <2>3. CASE f[1] = s
    BY <2>2, <2>3
  <2>4. CASE f[1] # s
    <3>1. MarkerTrue(f)
      BY <1>1 DEF MarkersTrue
    <3>2. marker'[f] = marker[f]
      BY <1>3, <2>4 DEF OtherMarkers
    <3>3. QED
      BY <1>3, <2>2, <2>4, <3>1, <3>2 DEF MarkerTrue, Others, Alive
  <2>5. QED
    BY <2>3, <2>4
<1>9. ClaimsTrue'
  <2>1. SUFFICES ASSUME NEW t \in Sessions PROVE ClaimTrue(t)'
    BY DEF ClaimsTrue
  <2>2. ClaimTrue(t)
    BY <1>1 DEF ClaimsTrue
  <2>3. \A f \in seen'[t] : f[1] # t
    BY <1>3, <2>2 DEF ClaimTrue, Others, Stays
  <2>4. claim'[t] # NoFile => claim'[t] = claim[t]
    BY <1>3 DEF Others, Stays
  <2>5. console[t] => console'[t]
    BY <1>3 DEF Others, Stays
  <2>6. claim[t] # NoFile => claim[t][1] \in Sessions
    BY <1>1, Pairs DEF SessionTyped
  <2>7. \A o \in Sessions :
          /\ pc[o] \in {"closed", "dead"} => pc'[o] = pc[o]
          /\ o \in lapsed => o \in lapsed'
          /\ console[o] => console'[o]
          /\ reports'[o] = reports[o]
    BY <1>3 DEF Others, Stays
  <2>8. QED
    BY <2>2, <2>3, <2>4, <2>5, <2>6, <2>7 DEF ClaimTrue
<1>10. PublishedKnown'
  <2>1. SUFFICES ASSUME NEW t \in Sessions, t # s PROVE KnownTrue(t)'
    BY DEF PublishedKnown
  <2>2. KnownTrue(t)
    BY <1>1 DEF PublishedKnown
  <2>3. Published(t)' /\ ~console'[t] => Published(t) /\ ~console[t]
    BY <1>3, <1>5, <2>1 DEF Published, Others, Alive
  <2>4. Known(t) => Known(t)'
    BY <1>3, <2>1 DEF Known, Others, Stays, OtherMarkers
  <2>5. QED
    BY <2>2, <2>3, <2>4 DEF KnownTrue
<1>11. ReportedTrue'
  <2>1. \A o \in Sessions :
          /\ pc[o] = "dead" => pc'[o] = "dead"
          /\ o \in lapsed => o \in lapsed'
          /\ console[o] => console'[o]
          /\ reports'[o] = reports[o]
    BY <1>3 DEF Others, Stays
  <2>2. QED
    BY <1>1, <2>1 DEF ReportedTrue
<1>12. QED
  BY <1>6, <1>7, <1>8, <1>9, <1>10, <1>11 DEF RInv

\* What a step of s starts from.
OfSession(s) ==
    /\ TypeOK /\ DiskTyped /\ LockTyped /\ SessionTyped /\ PastTyped
    /\ JobTrue(Host[s]) /\ StartTrue(s) /\ KnownTrue(s) /\ ClaimTrue(s)
    /\ \A dir \in Dirs : MarkerTrue(<<s, dir>>)
    /\ Host[s] \in Hosts
    /\ Held(Host[s]) =>
         /\ lock[Host[s]].owner \in Sessions
         /\ lock[Host[s]].op \in {"admit", "fallback", "export"}
         /\ lock[Host[s]].reserved \in Nat /\ lock[Host[s]].kept \subseteq Sessions
    /\ home[s] \in Dirs
    /\ \A dir \in Dirs : /\ <<s, dir>> \in MarkerFiles
                         /\ <<s, dir, "log">> \in Files
    /\ \A f \in MarkerFiles : /\ f = <<f[1], f[2]>>
                              /\ f[1] \in Sessions /\ f[2] \in Dirs

\* What the invariant says of one session.
LEMMA Unpack ==
    ASSUME RInv, NEW s \in Sessions
    PROVE  OfSession(s)
<1>1. TypeOK /\ Host[s] \in Hosts
  BY FileShape DEF RInv
<1>2. Held(Host[s]) =>
         /\ lock[Host[s]].owner \in Sessions
         /\ lock[Host[s]].op \in {"admit", "fallback", "export"}
         /\ lock[Host[s]].reserved \in Nat /\ lock[Host[s]].kept \subseteq Sessions
  BY <1>1, HeldFacts DEF Held
<1>3. JobTrue(Host[s]) /\ StartTrue(s) /\ KnownTrue(s) /\ ClaimTrue(s)
  BY <1>1 DEF RInv, Jobs, Unstarted, PublishedKnown, ClaimsTrue
<1>4. \A dir \in Dirs : MarkerTrue(<<s, dir>>)
  BY FileShape DEF RInv, MarkersTrue
<1>5. home[s] \in Dirs
  BY <1>1 DEF TypeOK
<1>6. QED
  BY <1>1, <1>2, <1>3, <1>4, <1>5, FileShape, Pairs, Parts DEF OfSession

\* The steps that write a marker, take the lock or go on under it.
Marks(s, c, a) ==
    /\ marker' \in [MarkerFiles -> Marker \cup {NoMarker}]
    /\ \A f \in MarkerFiles : f # <<s, home[s]>> => marker'[f] = marker[f]
    /\ \A dir \in Dirs : dir # home[s] => marker'[<<s, dir>>] = marker[<<s, dir>>]
    /\ LET m == marker'[<<s, home[s]>>] IN
       /\ m # NoMarker /\ m.clean = c /\ m.active = a /\ m.fresh = TRUE
       /\ m.reserved = IF a THEN Growth(s) ELSE 0

\* A session that has written its marker is known by it.
LEMMA KnownByMarker ==
    ASSUME NEW s \in Sessions, NEW c, NEW a, OfSession(s), Marks(s, c, a)
    PROVE  KnownTrue(s)'
<1>1. <<s, home[s]>> \in MarkerFiles /\ marker'[<<s, home[s]>>] # NoMarker
  BY DEF OfSession, Marks
<1>2. PICK f \in MarkerFiles : f[1] = s /\ marker'[f] # NoMarker
  BY <1>1
<1>3. Known(s)'
  BY <1>2 DEF Known
<1>4. QED
  BY <1>3 DEF KnownTrue

LEMMA MarksIt ==
    ASSUME TypeOK, NEW s \in Sessions, NEW c \in BOOLEAN, NEW a \in BOOLEAN,
           marker' = Written(s, c, a)
    PROVE  Marks(s, c, a) /\ OtherMarkers(s)
<1>1. \A dir \in Dirs : <<s, dir>> \in MarkerFiles
  BY FileShape
<1>2. Marks(s, c, a)
  <2>1. <<s, home[s]>> \in MarkerFiles /\ Growth(s) \in 0 .. Quota
    <3>1. <<s, home[s]>> \in MarkerFiles /\ disk[<<s, home[s], "log">>] \in 0 .. Quota
      BY FileShape DEF TypeOK
    <3>2. QED
      BY <3>1, QuotaFacts DEF Growth
  <2>2. PICK m : m = [clean |-> c, active |-> a, fresh |-> TRUE,
                      reserved |-> IF a THEN Growth(s) ELSE 0]
    OBVIOUS
  <2>3. m \in Marker /\ m # NoMarker
    <3>1. m \in Marker
      BY <2>1, <2>2, QuotaFacts DEF Marker
    <3>2. QED
      BY <3>1, SentinelAssumption
  <2>4. marker' = [marker EXCEPT ![<<s, home[s]>>] = m]
    BY <2>2 DEF Written
  <2>5. /\ marker' \in [MarkerFiles -> Marker \cup {NoMarker}]
        /\ \A f \in MarkerFiles : f # <<s, home[s]>> => marker'[f] = marker[f]
        /\ marker'[<<s, home[s]>>] = m
    BY <2>1, <2>3, <2>4 DEF TypeOK
  <2>6. \A dir \in Dirs : dir # home[s] => <<s, dir>> # <<s, home[s]>>
    OBVIOUS
  <2>7. \A dir \in Dirs : dir # home[s] => marker'[<<s, dir>>] = marker[<<s, dir>>]
    BY <1>1, <2>5, <2>6
  <2>8. QED
    BY <2>2, <2>3, <2>5, <2>7 DEF Marks
<1>3. \A f \in MarkerFiles : f[1] # s => f # <<s, home[s]>>
  OBVIOUS
<1>4. OtherMarkers(s)
  BY <1>2, <1>3 DEF Marks, OtherMarkers
<1>5. QED
  BY <1>2, <1>4

Takes(s, op) ==
    /\ lock' \in [Hosts -> Job \cup {Free}]
    /\ \A h \in Hosts : lock'[h] # Free => Host[lock'[h].owner] = h
    /\ \A h \in Hosts : h # Host[s] => lock'[h] = lock[h]
    /\ lock'[Host[s]] # Free
    /\ lock'[Host[s]].owner = s /\ lock'[Host[s]].op = op
    /\ lock'[Host[s]].step = "reserve" /\ lock'[Host[s]].kept = {}

LEMMA TakesIt ==
    ASSUME TypeOK, NEW s \in Sessions, NEW op \in {"admit", "fallback", "export"},
           Take(s, op)
    PROVE  Takes(s, op)
  BY TakeFacts DEF Takes

Advances(s, step, r, k) ==
    /\ LockTyped'
    /\ \A h \in Hosts : h # Host[s] => lock'[h] = lock[h]
    /\ lock[Host[s]] # Free /\ lock[Host[s]].owner = s
    /\ lock'[Host[s]] # Free
    /\ lock'[Host[s]].owner = s
    /\ lock'[Host[s]].op = lock[Host[s]].op
    /\ lock'[Host[s]].step = step
    /\ lock'[Host[s]].reserved = r
    /\ lock'[Host[s]].kept = k

LEMMA AdvancesIt ==
    ASSUME TypeOK, NEW s \in Sessions, Holds(s, {"admit", "fallback", "export"}),
           NEW step \in {"reserve", "protect", "prune", "check"},
           NEW r \in Nat, NEW k \in SUBSET Sessions, Advance(s, step, r, k)
    PROVE  Advances(s, step, r, k)
<1>1. lock[Host[s]] # Free /\ lock[Host[s]].owner = s
  BY DEF Holds
<1>2. /\ lock' \in [Hosts -> Job \cup {Free}]
      /\ \A h \in Hosts : h # Host[s] => lock'[h] = lock[h]
      /\ lock'[Host[s]] # Free
      /\ lock'[Host[s]].owner = lock[Host[s]].owner
      /\ lock'[Host[s]].op = lock[Host[s]].op
      /\ lock'[Host[s]].step = step
      /\ lock'[Host[s]].reserved = r
      /\ lock'[Host[s]].kept = k
  BY <1>1, AdvanceFacts
<1>3. \A h \in Hosts : lock'[h] # Free => Host[lock'[h].owner] = h
  BY <1>1, <1>2 DEF TypeOK
<1>4. QED
  BY <1>1, <1>2, <1>3 DEF Advances, LockTyped

LEMMA ProtectedType ==
    ASSUME NEW s \in Sessions PROVE Protected(s) \in SUBSET Sessions
  BY DEF Protected, LiveMarkers, MarkerFiles

LEMMA GrownType ==
    ASSUME NEW n \in 0 .. Quota
    PROVE  Grown(n) \in 0 .. Quota
  BY QuotaFacts DEF Grown

LEMMA CreateStep ==
    ASSUME RInv, NEW s \in Sessions, Create(s)
    PROVE  RInv' /\ Apart(s)
<1>1. OfSession(s)
  BY Unpack
<1>2. DiskTyped'
  BY <1>1 DEF OfSession, Create, diskVars, sessionVars, pastVars, DiskTyped
<1>3. LockTyped'
  BY <1>1 DEF OfSession, Create, diskVars, sessionVars, pastVars, LockTyped
<1>4. SessionTyped'
  BY <1>1 DEF OfSession, Create, Fault, SessionTyped, Gone, Steps, Dirs, MarkerFiles,
     Holds, diskVars, sessionVars, pastVars
<1>5. PastTyped'
  BY <1>1, QuotaFacts DEF OfSession, Create, Fault, PastTyped, Holds, diskVars,
     sessionVars, pastVars
<1>6. Others(s) /\ Stays(s)
  BY <1>1 DEF OfSession, Create, Fault, Others, Stays, SessionTyped, Alive, Gone,
     PastTyped, Holds, diskVars, sessionVars, pastVars, ClaimTrue
<1>7. OtherMarkers(s)
  BY <1>1 DEF OfSession, Create, diskVars, sessionVars, pastVars, OtherMarkers
<1>8. OtherLocks(s)
  BY <1>1 DEF OfSession, Create, diskVars, sessionVars, pastVars, OtherLocks
<1>9. JobTrue(Host[s])'
  BY <1>1 DEF OfSession, Create, Fault, SessionTyped, JobTrue, StartTrue, Held, Alive,
     Gone, Steps, Holds, diskVars, sessionVars, pastVars
<1>10. StartTrue(s)'
  BY <1>1 DEF OfSession, Create, Fault, SessionTyped, PastTyped, StartTrue, Blank, Alive,
     Gone, Steps, JobTrue, Held, Holds, diskVars, sessionVars, pastVars
<1>11. KnownTrue(s)'
  BY <1>1 DEF OfSession, Create, Fault, SessionTyped, PastTyped, KnownTrue, Published,
     Known, Alive, Gone, Steps, Holds, diskVars, sessionVars, pastVars
<1>12. \A dir \in Dirs : MarkerTrue(<<s, dir>>)'
  BY <1>1 DEF OfSession, Create, Fault, SessionTyped, PastTyped, DiskTyped, MarkerTrue,
     StartTrue, Blank, Alive, Gone, Steps, Holds, diskVars, sessionVars, pastVars
<1>13. TypeOK' /\ Apart(s)
  BY <1>2, <1>3, <1>4, <1>5, <1>6, <1>7, <1>8, PartsAfter DEF Apart
<1>14. QED
  BY <1>9, <1>10, <1>11, <1>12, <1>13, Local

LEMMA PublishStep ==
    ASSUME RInv, NEW s \in Sessions, Publish(s)
    PROVE  RInv' /\ Apart(s)
<1>1. OfSession(s)
  BY Unpack
<1>2. Marks(s, FALSE, TRUE) /\ OtherMarkers(s)
  BY <1>1, MarksIt DEF Publish, OfSession
<1>3. DiskTyped'
  BY <1>1, WrittenFacts, QuotaFacts DEF OfSession, Publish, Runs, LockFree, DiskTyped,
     Holds, diskVars, sessionVars, pastVars
<1>4. LockTyped'
  BY <1>1 DEF OfSession, Publish, diskVars, sessionVars, pastVars, LockTyped
<1>5. SessionTyped'
  BY <1>1 DEF OfSession, Publish, Runs, LockFree, SessionTyped, Gone, Steps, Dirs,
     MarkerFiles, Holds, diskVars, sessionVars, pastVars
<1>6. PastTyped'
  BY <1>1 DEF OfSession, Publish, diskVars, sessionVars, pastVars, PastTyped
<1>7. Others(s) /\ Stays(s)
  BY <1>1 DEF OfSession, Publish, Runs, LockFree, Others, Stays, SessionTyped, Alive,
     Gone, PastTyped, Holds, diskVars, sessionVars, pastVars, ClaimTrue
<1>8. OtherMarkers(s)
  BY <1>2
<1>9. OtherLocks(s)
  BY <1>1 DEF OfSession, Publish, diskVars, sessionVars, pastVars, OtherLocks
<1>10. JobTrue(Host[s])'
  BY <1>1 DEF OfSession, Publish, Runs, LockFree, SessionTyped, JobTrue, StartTrue, Held,
     Alive, Gone, Steps, Holds, diskVars, sessionVars, pastVars
<1>11. StartTrue(s)'
  BY <1>1, WrittenFacts DEF OfSession, Publish, Runs, LockFree, SessionTyped, PastTyped,
     StartTrue, Blank, Alive, Gone, Steps, JobTrue, Held, Holds, diskVars, sessionVars,
     pastVars
<1>12. KnownTrue(s)'
  BY <1>1, <1>2, KnownByMarker
<1>13. \A dir \in Dirs : MarkerTrue(<<s, dir>>)'
  <2>1. /\ UNCHANGED <<home, console, lapsed>>
        /\ pc[s] = "created" /\ pc'[s] = "published"
    BY <1>1 DEF Publish, Runs, OfSession, SessionTyped, pastVars
  <2>2. SUFFICES ASSUME NEW dir \in Dirs PROVE MarkerTrue(<<s, dir>>)'
    OBVIOUS
  <2>3. MarkerTrue(<<s, dir>>)
    BY <1>1 DEF OfSession
  <2>4. marker[<<s, dir>>] = NoMarker
    BY <1>1, <2>1 DEF OfSession, StartTrue, Blank
  <2>5. CASE dir = home[s]
    BY <1>2, <2>1, <2>5 DEF Marks, MarkerTrue
  <2>6. CASE dir # home[s]
    BY <1>2, <2>4, <2>6 DEF Marks, MarkerTrue
  <2>7. QED
    BY <2>5, <2>6
<1>14. TypeOK' /\ Apart(s)
  BY <1>3, <1>4, <1>5, <1>6, <1>7, <1>8, <1>9, PartsAfter DEF Apart
<1>15. QED
  BY <1>10, <1>11, <1>12, <1>13, <1>14, Local

LEMMA PublishFailsStep ==
    ASSUME RInv, NEW s \in Sessions, PublishFails(s)
    PROVE  RInv' /\ Apart(s)
<1>1. OfSession(s)
  BY Unpack
<1>2. DiskTyped'
  BY <1>1 DEF OfSession, PublishFails, diskVars, sessionVars, pastVars, DiskTyped
<1>3. LockTyped'
  BY <1>1 DEF OfSession, PublishFails, diskVars, sessionVars, pastVars, LockTyped
<1>4. SessionTyped'
  BY <1>1 DEF OfSession, PublishFails, Runs, Fault, SessionTyped, Gone, Steps, Dirs,
     MarkerFiles, Holds, diskVars, sessionVars, pastVars
<1>5. PastTyped'
  BY <1>1, QuotaFacts DEF OfSession, PublishFails, Runs, Fault, PastTyped, Holds,
     diskVars, sessionVars, pastVars
<1>6. Others(s) /\ Stays(s)
  BY <1>1 DEF OfSession, PublishFails, Runs, Fault, Others, Stays, SessionTyped, Alive,
     Gone, PastTyped, Holds, diskVars, sessionVars, pastVars, ClaimTrue
<1>7. OtherMarkers(s)
  BY <1>1 DEF OfSession, PublishFails, diskVars, sessionVars, pastVars, OtherMarkers
<1>8. OtherLocks(s)
  BY <1>1 DEF OfSession, PublishFails, diskVars, sessionVars, pastVars, OtherLocks
<1>9. JobTrue(Host[s])'
  BY <1>1 DEF OfSession, PublishFails, Runs, Fault, SessionTyped, JobTrue, StartTrue,
     Held, Alive, Gone, Steps, Holds, diskVars, sessionVars, pastVars
<1>10. StartTrue(s)'
  BY <1>1 DEF OfSession, PublishFails, Runs, Fault, SessionTyped, PastTyped, StartTrue,
     Blank, Alive, Gone, Steps, JobTrue, Held, Holds, diskVars, sessionVars, pastVars
<1>11. KnownTrue(s)'
  BY <1>1 DEF OfSession, PublishFails, Runs, Fault, SessionTyped, PastTyped, KnownTrue,
     Published, Known, Alive, Gone, Steps, Holds, diskVars, sessionVars, pastVars
<1>12. \A dir \in Dirs : MarkerTrue(<<s, dir>>)'
  BY <1>1 DEF OfSession, PublishFails, Runs, Fault, SessionTyped, PastTyped, DiskTyped,
     MarkerTrue, StartTrue, Blank, Alive, Gone, Steps, Holds, diskVars, sessionVars,
     pastVars
<1>13. TypeOK' /\ Apart(s)
  BY <1>2, <1>3, <1>4, <1>5, <1>6, <1>7, <1>8, PartsAfter DEF Apart
<1>14. QED
  BY <1>9, <1>10, <1>11, <1>12, <1>13, Local

LEMMA ListMarkersStep ==
    ASSUME RInv, NEW s \in Sessions, ListMarkers(s)
    PROVE  RInv' /\ Apart(s)
<1>1. OfSession(s)
  BY Unpack
<1>2. DiskTyped'
  BY <1>1 DEF OfSession, ListMarkers, diskVars, sessionVars, pastVars, DiskTyped
<1>3. LockTyped'
  BY <1>1 DEF OfSession, ListMarkers, diskVars, sessionVars, pastVars, LockTyped
<1>4. SessionTyped'
  BY <1>1 DEF OfSession, ListMarkers, Runs, SessionTyped, Gone, Steps, Dirs, MarkerFiles,
     Holds, diskVars, sessionVars, pastVars
<1>5. PastTyped'
  BY <1>1 DEF OfSession, ListMarkers, diskVars, sessionVars, pastVars, PastTyped
<1>6. Others(s) /\ Stays(s)
  BY <1>1 DEF OfSession, ListMarkers, Runs, Others, Stays, SessionTyped, Alive, Gone,
     PastTyped, Holds, diskVars, sessionVars, pastVars, ClaimTrue
<1>7. OtherMarkers(s)
  BY <1>1 DEF OfSession, ListMarkers, diskVars, sessionVars, pastVars, OtherMarkers
<1>8. OtherLocks(s)
  BY <1>1 DEF OfSession, ListMarkers, diskVars, sessionVars, pastVars, OtherLocks
<1>9. JobTrue(Host[s])'
  BY <1>1 DEF OfSession, ListMarkers, Runs, SessionTyped, JobTrue, StartTrue, Held,
     Alive, Gone, Steps, Holds, diskVars, sessionVars, pastVars
<1>10. StartTrue(s)'
  BY <1>1 DEF OfSession, ListMarkers, Runs, SessionTyped, PastTyped, StartTrue, Blank,
     Alive, Gone, Steps, JobTrue, Held, Holds, diskVars, sessionVars, pastVars
<1>11. KnownTrue(s)'
  BY <1>1 DEF OfSession, ListMarkers, Runs, SessionTyped, PastTyped, KnownTrue,
     Published, Known, Alive, Gone, Steps, Holds, diskVars, sessionVars, pastVars
<1>12. \A dir \in Dirs : MarkerTrue(<<s, dir>>)'
  BY <1>1 DEF OfSession, ListMarkers, Runs, SessionTyped, PastTyped, DiskTyped,
     MarkerTrue, StartTrue, Blank, Alive, Gone, Steps, Holds, diskVars, sessionVars,
     pastVars
<1>13. TypeOK' /\ Apart(s)
  BY <1>2, <1>3, <1>4, <1>5, <1>6, <1>7, <1>8, PartsAfter DEF Apart
<1>14. QED
  BY <1>9, <1>10, <1>11, <1>12, <1>13, Local

LEMMA EndReportsStep ==
    ASSUME RInv, NEW s \in Sessions, EndReports(s)
    PROVE  RInv' /\ Apart(s)
<1>1. OfSession(s)
  BY Unpack
<1>2. DiskTyped'
  BY <1>1 DEF OfSession, EndReports, diskVars, sessionVars, pastVars, DiskTyped
<1>3. LockTyped'
  BY <1>1 DEF OfSession, EndReports, diskVars, sessionVars, pastVars, LockTyped
<1>4. SessionTyped'
  BY <1>1 DEF OfSession, EndReports, Runs, SessionTyped, Gone, Steps, Dirs, MarkerFiles,
     Holds, diskVars, sessionVars, pastVars
<1>5. PastTyped'
  BY <1>1 DEF OfSession, EndReports, diskVars, sessionVars, pastVars, PastTyped
<1>6. Others(s) /\ Stays(s)
  BY <1>1 DEF OfSession, EndReports, Runs, Others, Stays, SessionTyped, Alive, Gone,
     PastTyped, Holds, diskVars, sessionVars, pastVars, ClaimTrue
<1>7. OtherMarkers(s)
  BY <1>1 DEF OfSession, EndReports, diskVars, sessionVars, pastVars, OtherMarkers
<1>8. OtherLocks(s)
  BY <1>1 DEF OfSession, EndReports, diskVars, sessionVars, pastVars, OtherLocks
<1>9. JobTrue(Host[s])'
  BY <1>1 DEF OfSession, EndReports, Runs, SessionTyped, JobTrue, StartTrue, Held, Alive,
     Gone, Steps, Holds, diskVars, sessionVars, pastVars
<1>10. StartTrue(s)'
  BY <1>1 DEF OfSession, EndReports, Runs, SessionTyped, PastTyped, StartTrue, Blank,
     Alive, Gone, Steps, JobTrue, Held, Holds, diskVars, sessionVars, pastVars
<1>11. KnownTrue(s)'
  BY <1>1 DEF OfSession, EndReports, Runs, SessionTyped, PastTyped, KnownTrue, Published,
     Known, Alive, Gone, Steps, Holds, diskVars, sessionVars, pastVars
<1>12. \A dir \in Dirs : MarkerTrue(<<s, dir>>)'
  BY <1>1 DEF OfSession, EndReports, Runs, SessionTyped, PastTyped, DiskTyped,
     MarkerTrue, StartTrue, Blank, Alive, Gone, Steps, Holds, diskVars, sessionVars,
     pastVars
<1>13. TypeOK' /\ Apart(s)
  BY <1>2, <1>3, <1>4, <1>5, <1>6, <1>7, <1>8, PartsAfter DEF Apart
<1>14. QED
  BY <1>9, <1>10, <1>11, <1>12, <1>13, Local

LEMMA CleanStep ==
    ASSUME RInv, NEW s \in Sessions, Clean(s)
    PROVE  RInv' /\ Apart(s)
<1>1. OfSession(s)
  BY Unpack
<1>2. DiskTyped'
  BY <1>1, QuotaFacts DEF OfSession, Clean, Runs, LockFree, DiskTyped, Holds, diskVars,
     sessionVars, pastVars
<1>3. LockTyped'
  BY <1>1 DEF OfSession, Clean, diskVars, sessionVars, pastVars, LockTyped
<1>4. SessionTyped'
  BY <1>1 DEF OfSession, Clean, Runs, LockFree, SessionTyped, Gone, Steps, Dirs,
     MarkerFiles, Holds, diskVars, sessionVars, pastVars
<1>5. PastTyped'
  BY <1>1 DEF OfSession, Clean, diskVars, sessionVars, pastVars, PastTyped
<1>6. Others(s) /\ Stays(s)
  BY <1>1 DEF OfSession, Clean, Runs, LockFree, Others, Stays, SessionTyped, Alive, Gone,
     PastTyped, Holds, diskVars, sessionVars, pastVars, ClaimTrue
<1>7. OtherMarkers(s)
  BY <1>1 DEF OfSession, Clean, diskVars, sessionVars, pastVars, OtherMarkers
<1>8. OtherLocks(s)
  BY <1>1 DEF OfSession, Clean, diskVars, sessionVars, pastVars, OtherLocks
<1>9. JobTrue(Host[s])'
  BY <1>1 DEF OfSession, Clean, Runs, LockFree, SessionTyped, JobTrue, StartTrue, Held,
     Alive, Gone, Steps, Holds, diskVars, sessionVars, pastVars
<1>10. StartTrue(s)'
  BY <1>1 DEF OfSession, Clean, Runs, LockFree, SessionTyped, PastTyped, StartTrue,
     Blank, Alive, Gone, Steps, JobTrue, Held, Holds, diskVars, sessionVars, pastVars
<1>11. KnownTrue(s)'
  BY <1>1 DEF OfSession, Clean, Runs, LockFree, SessionTyped, PastTyped, KnownTrue,
     Published, Known, Alive, Gone, Steps, Holds, diskVars, sessionVars, pastVars
<1>12. \A dir \in Dirs : MarkerTrue(<<s, dir>>)'
  BY <1>1 DEF OfSession, Clean, Runs, LockFree, SessionTyped, PastTyped, DiskTyped,
     MarkerTrue, StartTrue, Blank, Alive, Gone, Steps, Holds, diskVars, sessionVars,
     pastVars
<1>13. TypeOK' /\ Apart(s)
  BY <1>2, <1>3, <1>4, <1>5, <1>6, <1>7, <1>8, PartsAfter DEF Apart
<1>14. QED
  BY <1>9, <1>10, <1>11, <1>12, <1>13, Local

LEMMA BeginAdmissionStep ==
    ASSUME RInv, NEW s \in Sessions, BeginAdmission(s)
    PROVE  RInv' /\ Apart(s)
<1>1. OfSession(s)
  BY Unpack
<1>2. Marks(s, FALSE, TRUE) /\ OtherMarkers(s)
  BY <1>1, MarksIt DEF BeginAdmission, OfSession, Renewed
<1>3. Takes(s, "admit")
  BY <1>1, TakesIt DEF BeginAdmission, OfSession
<1>4. DiskTyped'
  BY <1>1, WrittenFacts, QuotaFacts DEF OfSession, BeginAdmission, Runs, LockFree,
     Renewed, DiskTyped, Holds, diskVars, sessionVars, pastVars
<1>5. LockTyped'
  BY <1>1, TakeFacts DEF OfSession, BeginAdmission, Runs, LockFree, Renewed, LockTyped,
     Holds, diskVars, sessionVars, pastVars
<1>6. SessionTyped'
  BY <1>1 DEF OfSession, BeginAdmission, diskVars, sessionVars, pastVars, SessionTyped
<1>7. PastTyped'
  BY <1>1 DEF OfSession, BeginAdmission, diskVars, sessionVars, pastVars, PastTyped
<1>8. Others(s) /\ Stays(s)
  BY <1>1 DEF OfSession, BeginAdmission, diskVars, sessionVars, pastVars, Others, Stays,
     ClaimTrue
<1>9. OtherMarkers(s)
  BY <1>2
<1>10. OtherLocks(s)
  BY <1>1, TakeFacts DEF OfSession, BeginAdmission, Runs, LockFree, Renewed, OtherLocks,
     LockTyped, Holds, diskVars, sessionVars, pastVars
<1>11. JobTrue(Host[s])'
  BY <1>1, TakeFacts DEF OfSession, BeginAdmission, Runs, LockFree, Renewed,
     SessionTyped, JobTrue, StartTrue, Held, Alive, Gone, Steps, Holds, diskVars,
     sessionVars, pastVars
<1>12. StartTrue(s)'
  BY <1>1, WrittenFacts DEF OfSession, BeginAdmission, Runs, LockFree, Renewed,
     SessionTyped, PastTyped, StartTrue, Blank, Alive, Gone, Steps, JobTrue, Held, Holds,
     diskVars, sessionVars, pastVars
<1>13. KnownTrue(s)'
  BY <1>1, <1>2, <1>3 DEF OfSession, BeginAdmission, Runs, Marks, Takes, KnownTrue,
     Known
<1>14. \A dir \in Dirs : MarkerTrue(<<s, dir>>)'
  BY <1>1, <1>2 DEF OfSession, BeginAdmission, Runs, Marks, MarkerTrue, StartTrue, Alive,
     Gone, Steps, JobTrue, Held, Holds, SessionTyped, Blank, diskVars, sessionVars,
     pastVars
<1>15. TypeOK' /\ Apart(s)
  BY <1>4, <1>5, <1>6, <1>7, <1>8, <1>9, <1>10, PartsAfter DEF Apart
<1>16. QED
  BY <1>11, <1>12, <1>13, <1>14, <1>15, Local

LEMMA StartOnConsoleStep ==
    ASSUME RInv, NEW s \in Sessions, StartOnConsole(s)
    PROVE  RInv' /\ Apart(s)
<1>1. OfSession(s)
  BY Unpack
<1>2. DiskTyped'
  BY <1>1 DEF OfSession, StartOnConsole, diskVars, sessionVars, pastVars, DiskTyped
<1>3. LockTyped'
  BY <1>1 DEF OfSession, StartOnConsole, diskVars, sessionVars, pastVars, LockTyped
<1>4. SessionTyped'
  BY <1>1 DEF OfSession, StartOnConsole, Runs, SessionTyped, Gone, Steps, Dirs,
     MarkerFiles, Holds, diskVars, sessionVars, pastVars
<1>5. PastTyped'
  BY <1>1 DEF OfSession, StartOnConsole, diskVars, sessionVars, pastVars, PastTyped
<1>6. Others(s) /\ Stays(s)
  BY <1>1 DEF OfSession, StartOnConsole, Runs, Others, Stays, SessionTyped, Alive, Gone,
     PastTyped, Holds, diskVars, sessionVars, pastVars, ClaimTrue
<1>7. OtherMarkers(s)
  BY <1>1 DEF OfSession, StartOnConsole, diskVars, sessionVars, pastVars, OtherMarkers
<1>8. OtherLocks(s)
  BY <1>1 DEF OfSession, StartOnConsole, diskVars, sessionVars, pastVars, OtherLocks
<1>9. JobTrue(Host[s])'
  BY <1>1 DEF OfSession, StartOnConsole, Runs, SessionTyped, JobTrue, StartTrue, Held,
     Alive, Gone, Steps, Holds, diskVars, sessionVars, pastVars
<1>10. StartTrue(s)'
  BY <1>1 DEF OfSession, StartOnConsole, Runs, SessionTyped, PastTyped, StartTrue, Blank,
     Alive, Gone, Steps, JobTrue, Held, Holds, diskVars, sessionVars, pastVars
<1>11. KnownTrue(s)'
  BY <1>1 DEF OfSession, StartOnConsole, Runs, SessionTyped, PastTyped, KnownTrue,
     Published, Known, Alive, Gone, Steps, Holds, diskVars, sessionVars, pastVars
<1>12. \A dir \in Dirs : MarkerTrue(<<s, dir>>)'
  BY <1>1 DEF OfSession, StartOnConsole, Runs, SessionTyped, PastTyped, DiskTyped,
     MarkerTrue, StartTrue, Blank, Alive, Gone, Steps, Holds, diskVars, sessionVars,
     pastVars
<1>13. TypeOK' /\ Apart(s)
  BY <1>2, <1>3, <1>4, <1>5, <1>6, <1>7, <1>8, PartsAfter DEF Apart
<1>14. QED
  BY <1>9, <1>10, <1>11, <1>12, <1>13, Local

LEMMA AdmissionTimesOutStep ==
    ASSUME RInv, NEW s \in Sessions, AdmissionTimesOut(s)
    PROVE  RInv' /\ Apart(s)
<1>1. OfSession(s)
  BY Unpack
<1>2. Marks(s, TRUE, FALSE) /\ OtherMarkers(s)
  BY <1>1, MarksIt DEF AdmissionTimesOut, OfSession
<1>3. DiskTyped'
  BY <1>1, WrittenFacts, QuotaFacts DEF OfSession, AdmissionTimesOut, Runs, LockFree,
     Fault, DiskTyped, Holds, diskVars, sessionVars, pastVars
<1>4. LockTyped'
  BY <1>1 DEF OfSession, AdmissionTimesOut, diskVars, sessionVars, pastVars, LockTyped
<1>5. SessionTyped'
  BY <1>1 DEF OfSession, AdmissionTimesOut, Runs, LockFree, Fault, SessionTyped, Gone,
     Steps, Dirs, MarkerFiles, Holds, diskVars, sessionVars, pastVars
<1>6. PastTyped'
  BY <1>1, QuotaFacts DEF OfSession, AdmissionTimesOut, Runs, LockFree, Fault, PastTyped,
     Holds, diskVars, sessionVars, pastVars
<1>7. Others(s) /\ Stays(s)
  BY <1>1 DEF OfSession, AdmissionTimesOut, Runs, LockFree, Fault, Others, Stays,
     SessionTyped, Alive, Gone, PastTyped, Holds, diskVars, sessionVars, pastVars,
     ClaimTrue
<1>8. OtherMarkers(s)
  BY <1>2
<1>9. OtherLocks(s)
  BY <1>1 DEF OfSession, AdmissionTimesOut, diskVars, sessionVars, pastVars, OtherLocks
<1>10. JobTrue(Host[s])'
  BY <1>1 DEF OfSession, AdmissionTimesOut, Runs, LockFree, Fault, SessionTyped, JobTrue,
     StartTrue, Held, Alive, Gone, Steps, Holds, diskVars, sessionVars, pastVars
<1>11. StartTrue(s)'
  BY <1>1, WrittenFacts DEF OfSession, AdmissionTimesOut, Runs, LockFree, Fault,
     SessionTyped, PastTyped, StartTrue, Blank, Alive, Gone, Steps, JobTrue, Held, Holds,
     diskVars, sessionVars, pastVars
<1>12. KnownTrue(s)'
  BY <1>1, <1>2, KnownByMarker
<1>13. \A dir \in Dirs : MarkerTrue(<<s, dir>>)'
  <2>1. /\ UNCHANGED <<home, lapsed>> /\ console'[s]
        /\ pc[s] = "checking" /\ pc'[s] = "running"
    BY <1>1 DEF AdmissionTimesOut, Runs, OfSession, SessionTyped, pastVars
  <2>2. SUFFICES ASSUME NEW dir \in Dirs PROVE MarkerTrue(<<s, dir>>)'
    OBVIOUS
  <2>3. MarkerTrue(<<s, dir>>)
    BY <1>1 DEF OfSession
  <2>4. CASE dir = home[s]
    BY <1>2, <2>1, <2>4 DEF Marks, MarkerTrue
  <2>5. CASE dir # home[s]
    BY <1>2, <2>1, <2>3, <2>5 DEF Marks, MarkerTrue, Alive, Gone
  <2>6. QED
    BY <2>4, <2>5
<1>14. TypeOK' /\ Apart(s)
  BY <1>3, <1>4, <1>5, <1>6, <1>7, <1>8, <1>9, PartsAfter DEF Apart
<1>15. QED
  BY <1>10, <1>11, <1>12, <1>13, <1>14, Local

LEMMA AppendStep ==
    ASSUME RInv, NEW s \in Sessions, Append(s)
    PROVE  RInv' /\ Apart(s)
<1>1. OfSession(s)
  BY Unpack
<1>2. DiskTyped'
  <2>1. disk[<<s, home[s], "log">>] \in 0 .. Quota
    BY <1>1 DEF OfSession, DiskTyped
  <2>2. QED
    BY <1>1, <2>1, GrownType DEF OfSession, Append, DiskTyped
<1>3. LockTyped'
  BY <1>1 DEF OfSession, Append, diskVars, sessionVars, pastVars, LockTyped
<1>4. SessionTyped'
  BY <1>1 DEF OfSession, Append, diskVars, sessionVars, pastVars, SessionTyped
<1>5. PastTyped'
  BY <1>1 DEF OfSession, Append, diskVars, sessionVars, pastVars, PastTyped
<1>6. Others(s) /\ Stays(s)
  BY <1>1 DEF OfSession, Append, diskVars, sessionVars, pastVars, Others, Stays,
     ClaimTrue
<1>7. OtherMarkers(s)
  BY <1>1 DEF OfSession, Append, diskVars, sessionVars, pastVars, OtherMarkers
<1>8. OtherLocks(s)
  BY <1>1 DEF OfSession, Append, diskVars, sessionVars, pastVars, OtherLocks
<1>9. JobTrue(Host[s])'
  BY <1>1 DEF OfSession, Append, diskVars, sessionVars, pastVars, JobTrue, Held, Alive
<1>10. StartTrue(s)'
  BY <1>1 DEF OfSession, Append, diskVars, sessionVars, pastVars, StartTrue, Blank,
     Alive
<1>11. KnownTrue(s)'
  BY <1>1 DEF OfSession, Append, diskVars, sessionVars, pastVars, KnownTrue, Published,
     Known, Alive, Holds
<1>12. \A dir \in Dirs : MarkerTrue(<<s, dir>>)'
  BY <1>1 DEF OfSession, Append, diskVars, sessionVars, pastVars, MarkerTrue, Alive
<1>13. TypeOK' /\ Apart(s)
  BY <1>2, <1>3, <1>4, <1>5, <1>6, <1>7, <1>8, PartsAfter DEF Apart
<1>14. QED
  BY <1>9, <1>10, <1>11, <1>12, <1>13, Local

LEMMA RefreshStep ==
    ASSUME RInv, NEW s \in Sessions, Refresh(s)
    PROVE  RInv' /\ Apart(s)
<1>1. OfSession(s)
  BY Unpack
<1>2. Marks(s, FALSE, TRUE) /\ OtherMarkers(s)
  BY <1>1, MarksIt DEF Refresh, OfSession, Renewed, Writes
<1>3. DiskTyped'
  BY <1>1, WrittenFacts, QuotaFacts DEF OfSession, Refresh, Writes, Renewed, DiskTyped,
     Holds, diskVars, sessionVars, pastVars
<1>4. LockTyped'
  BY <1>1 DEF OfSession, Refresh, diskVars, sessionVars, pastVars, LockTyped
<1>5. SessionTyped'
  BY <1>1 DEF OfSession, Refresh, diskVars, sessionVars, pastVars, SessionTyped
<1>6. PastTyped'
  BY <1>1 DEF OfSession, Refresh, diskVars, sessionVars, pastVars, PastTyped
<1>7. Others(s) /\ Stays(s)
  BY <1>1 DEF OfSession, Refresh, diskVars, sessionVars, pastVars, Others, Stays,
     ClaimTrue
<1>8. OtherMarkers(s)
  BY <1>2
<1>9. OtherLocks(s)
  BY <1>1 DEF OfSession, Refresh, diskVars, sessionVars, pastVars, OtherLocks
<1>10. JobTrue(Host[s])'
  BY <1>1 DEF OfSession, Refresh, diskVars, sessionVars, pastVars, JobTrue, Held, Alive
<1>11. StartTrue(s)'
  BY <1>1, WrittenFacts DEF OfSession, Refresh, Writes, Renewed, SessionTyped, PastTyped,
     StartTrue, Blank, Alive, Gone, Steps, JobTrue, Held, Holds, diskVars, sessionVars,
     pastVars
<1>12. KnownTrue(s)'
  BY <1>1, WrittenFacts DEF OfSession, Refresh, Writes, Renewed, SessionTyped, PastTyped,
     KnownTrue, Published, Known, Alive, Gone, Steps, Holds, diskVars, sessionVars,
     pastVars
<1>13. \A dir \in Dirs : MarkerTrue(<<s, dir>>)'
  BY <1>1, <1>2 DEF OfSession, Refresh, Writes, Marks, MarkerTrue, StartTrue, Alive,
     Gone, Steps, JobTrue, Held, Holds, SessionTyped, Blank, diskVars, sessionVars,
     pastVars
<1>14. TypeOK' /\ Apart(s)
  BY <1>3, <1>4, <1>5, <1>6, <1>7, <1>8, <1>9, PartsAfter DEF Apart
<1>15. QED
  BY <1>10, <1>11, <1>12, <1>13, <1>14, Local

LEMMA WriteFailsStep ==
    ASSUME RInv, NEW s \in Sessions, WriteFails(s)
    PROVE  RInv' /\ Apart(s)
<1>1. OfSession(s)
  BY Unpack
<1>2. DiskTyped'
  BY <1>1 DEF OfSession, WriteFails, diskVars, sessionVars, pastVars, DiskTyped
<1>3. LockTyped'
  BY <1>1 DEF OfSession, WriteFails, diskVars, sessionVars, pastVars, LockTyped
<1>4. SessionTyped'
  BY <1>1 DEF OfSession, WriteFails, Writes, Fault, SessionTyped, Gone, Steps, Dirs,
     MarkerFiles, Holds, diskVars, sessionVars, pastVars
<1>5. PastTyped'
  BY <1>1, QuotaFacts DEF OfSession, WriteFails, Writes, Fault, PastTyped, Holds,
     diskVars, sessionVars, pastVars
<1>6. Others(s) /\ Stays(s)
  BY <1>1 DEF OfSession, WriteFails, Writes, Fault, Others, Stays, SessionTyped, Alive,
     Gone, PastTyped, Holds, diskVars, sessionVars, pastVars, ClaimTrue
<1>7. OtherMarkers(s)
  BY <1>1 DEF OfSession, WriteFails, diskVars, sessionVars, pastVars, OtherMarkers
<1>8. OtherLocks(s)
  BY <1>1 DEF OfSession, WriteFails, diskVars, sessionVars, pastVars, OtherLocks
<1>9. JobTrue(Host[s])'
  BY <1>1 DEF OfSession, WriteFails, Writes, Fault, SessionTyped, JobTrue, StartTrue,
     Held, Alive, Gone, Steps, Holds, diskVars, sessionVars, pastVars
<1>10. StartTrue(s)'
  BY <1>1 DEF OfSession, WriteFails, Writes, Fault, SessionTyped, PastTyped, StartTrue,
     Blank, Alive, Gone, Steps, JobTrue, Held, Holds, diskVars, sessionVars, pastVars
<1>11. KnownTrue(s)'
  BY <1>1 DEF OfSession, WriteFails, Writes, Fault, SessionTyped, PastTyped, KnownTrue,
     Published, Known, Alive, Gone, Steps, Holds, diskVars, sessionVars, pastVars
<1>12. \A dir \in Dirs : MarkerTrue(<<s, dir>>)'
  BY <1>1 DEF OfSession, WriteFails, Writes, Fault, SessionTyped, PastTyped, DiskTyped,
     MarkerTrue, StartTrue, Blank, Alive, Gone, Steps, Holds, diskVars, sessionVars,
     pastVars
<1>13. TypeOK' /\ Apart(s)
  BY <1>2, <1>3, <1>4, <1>5, <1>6, <1>7, <1>8, PartsAfter DEF Apart
<1>14. QED
  BY <1>9, <1>10, <1>11, <1>12, <1>13, Local

LEMMA BeginFallbackStep ==
    ASSUME RInv, NEW s \in Sessions, BeginFallback(s)
    PROVE  RInv' /\ Apart(s)
<1>1. OfSession(s)
  BY Unpack
<1>2. Takes(s, "fallback")
  BY <1>1, TakesIt DEF BeginFallback, OfSession
<1>3. PICK m : m = [clean |-> FALSE, active |-> TRUE, fresh |-> TRUE,
                    reserved |-> Quota - disk[<<s, "temporary", "log">>]]
  OBVIOUS
<1>4. m \in Marker /\ m # NoMarker /\ m.clean = FALSE /\ m.active = TRUE /\ m.fresh = TRUE
  <2>1. disk[<<s, "temporary", "log">>] \in 0 .. Quota
    BY <1>1 DEF OfSession, DiskTyped, Dirs
  <2>2. Quota - disk[<<s, "temporary", "log">>] \in 0 .. Quota
    BY <2>1, QuotaFacts
  <2>3. m \in Marker
    BY <1>3, <2>2 DEF Marker
  <2>4. QED
    BY <1>3, <2>3, SentinelAssumption
<1>5. marker' = [marker EXCEPT ![<<s, "primary">>] = NoMarker,
                               ![<<s, "temporary">>] = m]
  BY <1>3 DEF BeginFallback
<1>6. marker'[<<s, "primary">>] = NoMarker /\ marker'[<<s, "temporary">>] = m
  BY <1>1, <1>5 DEF OfSession, DiskTyped, Dirs
<1>7. home'[s] = "temporary"
  BY <1>1 DEF OfSession, SessionTyped, BeginFallback
<1>8. DiskTyped'
  BY <1>1, <1>4, <1>5 DEF OfSession, DiskTyped, BeginFallback
<1>9. LockTyped'
  BY <1>1, TakeFacts DEF OfSession, BeginFallback, LockFree, LockTyped, Holds, diskVars,
     sessionVars, pastVars
<1>10. SessionTyped'
  BY <1>1 DEF OfSession, BeginFallback, LockFree, SessionTyped, Gone, Steps, Dirs,
     MarkerFiles, Holds, diskVars, sessionVars, pastVars
<1>11. PastTyped'
  BY <1>1 DEF OfSession, BeginFallback, diskVars, sessionVars, pastVars, PastTyped
<1>12. Others(s) /\ Stays(s)
  BY <1>1 DEF OfSession, BeginFallback, LockFree, Others, Stays, SessionTyped, Alive,
     Gone, PastTyped, Holds, diskVars, sessionVars, pastVars, ClaimTrue
<1>13. OtherMarkers(s)
  BY <1>1 DEF OfSession, BeginFallback, LockFree, OtherMarkers, DiskTyped, Holds,
     diskVars, sessionVars, pastVars
<1>14. OtherLocks(s)
  BY <1>1, TakeFacts DEF OfSession, BeginFallback, LockFree, OtherLocks, LockTyped,
     Holds, diskVars, sessionVars, pastVars
<1>15. JobTrue(Host[s])'
  BY <1>1, TakeFacts DEF OfSession, BeginFallback, LockFree, SessionTyped, JobTrue,
     StartTrue, Held, Alive, Gone, Steps, Holds, diskVars, sessionVars, pastVars
<1>16. StartTrue(s)'
  BY <1>1 DEF OfSession, BeginFallback, LockFree, SessionTyped, PastTyped, StartTrue,
     Blank, Alive, Gone, Steps, JobTrue, Held, Holds, diskVars, sessionVars, pastVars
<1>17. KnownTrue(s)'
  <2>1. <<s, "temporary">> \in MarkerFiles /\ <<s, "temporary">>[1] = s
    BY <1>1 DEF OfSession, Dirs
  <2>2. QED
    BY <1>4, <1>6, <2>1 DEF KnownTrue, Known
<1>18. \A dir \in Dirs : MarkerTrue(<<s, dir>>)'
  BY <1>1, <1>4, <1>6, <1>7 DEF MarkerTrue, Dirs, OfSession, SessionTyped, BeginFallback,
     Alive, Gone
<1>19. TypeOK' /\ Apart(s)
  BY <1>8, <1>9, <1>10, <1>11, <1>12, <1>13, <1>14, PartsAfter DEF Apart
<1>20. QED
  BY <1>15, <1>16, <1>17, <1>18, <1>19, Local

LEMMA FallbackFailsStep ==
    ASSUME RInv, NEW s \in Sessions, FallbackFails(s)
    PROVE  RInv' /\ Apart(s)
<1>1. OfSession(s)
  BY Unpack
<1>2. DiskTyped'
  BY <1>1 DEF OfSession, FallbackFails, diskVars, sessionVars, pastVars, DiskTyped
<1>3. LockTyped'
  BY <1>1 DEF OfSession, FallbackFails, diskVars, sessionVars, pastVars, LockTyped
<1>4. SessionTyped'
  BY <1>1 DEF OfSession, FallbackFails, LockFree, SessionTyped, Gone, Steps, Dirs,
     MarkerFiles, Holds, diskVars, sessionVars, pastVars
<1>5. PastTyped'
  BY <1>1 DEF OfSession, FallbackFails, diskVars, sessionVars, pastVars, PastTyped
<1>6. Others(s) /\ Stays(s)
  BY <1>1 DEF OfSession, FallbackFails, LockFree, Others, Stays, SessionTyped, Alive,
     Gone, PastTyped, Holds, diskVars, sessionVars, pastVars, ClaimTrue
<1>7. OtherMarkers(s)
  BY <1>1 DEF OfSession, FallbackFails, diskVars, sessionVars, pastVars, OtherMarkers
<1>8. OtherLocks(s)
  BY <1>1 DEF OfSession, FallbackFails, diskVars, sessionVars, pastVars, OtherLocks
<1>9. JobTrue(Host[s])'
  BY <1>1 DEF OfSession, FallbackFails, LockFree, SessionTyped, JobTrue, StartTrue, Held,
     Alive, Gone, Steps, Holds, diskVars, sessionVars, pastVars
<1>10. StartTrue(s)'
  BY <1>1 DEF OfSession, FallbackFails, LockFree, SessionTyped, PastTyped, StartTrue,
     Blank, Alive, Gone, Steps, JobTrue, Held, Holds, diskVars, sessionVars, pastVars
<1>11. KnownTrue(s)'
  BY <1>1 DEF OfSession, FallbackFails, LockFree, SessionTyped, PastTyped, KnownTrue,
     Published, Known, Alive, Gone, Steps, Holds, diskVars, sessionVars, pastVars
<1>12. \A dir \in Dirs : MarkerTrue(<<s, dir>>)'
  BY <1>1 DEF OfSession, FallbackFails, LockFree, SessionTyped, PastTyped, DiskTyped,
     MarkerTrue, StartTrue, Blank, Alive, Gone, Steps, Holds, diskVars, sessionVars,
     pastVars
<1>13. TypeOK' /\ Apart(s)
  BY <1>2, <1>3, <1>4, <1>5, <1>6, <1>7, <1>8, PartsAfter DEF Apart
<1>14. QED
  BY <1>9, <1>10, <1>11, <1>12, <1>13, Local

LEMMA BeginExportStep ==
    ASSUME RInv, NEW s \in Sessions, BeginExport(s)
    PROVE  RInv' /\ Apart(s)
<1>1. OfSession(s)
  BY Unpack
<1>2. \/ Marks(s, FALSE, TRUE) /\ OtherMarkers(s)
      \/ console[s] /\ marker' = marker
  <2>1. CASE console[s]
    <3>1. marker' = marker
      BY <2>1 DEF BeginExport, Renewed
    <3>2. QED
      BY <2>1, <3>1
  <2>2. CASE ~console[s]
    <3>1. marker' = Written(s, FALSE, TRUE)
      BY <2>2 DEF BeginExport, Renewed
    <3>2. Marks(s, FALSE, TRUE) /\ OtherMarkers(s)
      BY <1>1, <3>1, MarksIt DEF OfSession
    <3>3. QED
      BY <3>2
  <2>3. QED
    BY <2>1, <2>2
<1>3. DiskTyped'
  <2>1. marker' \in [MarkerFiles -> Marker \cup {NoMarker}]
    BY <1>1, <1>2 DEF Marks, OfSession, DiskTyped
  <2>2. disk' = disk /\ zips' = zips \cup {<<s, home[s]>>}
    BY DEF BeginExport
  <2>3. <<s, home[s]>> \in MarkerFiles
    BY <1>1 DEF OfSession
  <2>4. QED
    BY <1>1, <2>1, <2>2, <2>3 DEF OfSession, DiskTyped
<1>4. LockTyped'
  BY <1>1, TakeFacts DEF OfSession, BeginExport, LockFree, Renewed, LockTyped, Holds,
     diskVars, sessionVars, pastVars
<1>5. SessionTyped'
  BY <1>1 DEF OfSession, BeginExport, diskVars, sessionVars, pastVars, SessionTyped
<1>6. PastTyped'
  BY <1>1 DEF OfSession, BeginExport, diskVars, sessionVars, pastVars, PastTyped
<1>7. Others(s) /\ Stays(s)
  BY <1>1 DEF OfSession, BeginExport, diskVars, sessionVars, pastVars, Others, Stays,
     ClaimTrue
<1>8. OtherMarkers(s)
  BY <1>2 DEF OtherMarkers
<1>9. OtherLocks(s)
  BY <1>1, TakeFacts DEF OfSession, BeginExport, LockFree, Renewed, OtherLocks,
     LockTyped, Holds, diskVars, sessionVars, pastVars
<1>10. JobTrue(Host[s])'
  BY <1>1, TakeFacts DEF OfSession, BeginExport, LockFree, Renewed, SessionTyped,
     JobTrue, StartTrue, Held, Alive, Gone, Steps, Holds, diskVars, sessionVars,
     pastVars
<1>11. StartTrue(s)'
  BY <1>1, WrittenFacts DEF OfSession, BeginExport, LockFree, Renewed, SessionTyped,
     PastTyped, StartTrue, Blank, Alive, Gone, Steps, JobTrue, Held, Holds, diskVars,
     sessionVars, pastVars
<1>12. KnownTrue(s)'
  <2>1. CASE Marks(s, FALSE, TRUE)
    BY <1>1, <2>1, KnownByMarker
  <2>2. CASE console[s]
    <3>1. console'[s]
      BY <2>2 DEF BeginExport, sessionVars
    <3>2. QED
      BY <3>1 DEF KnownTrue
  <2>3. QED
    BY <1>2, <2>1, <2>2
<1>13. \A dir \in Dirs : MarkerTrue(<<s, dir>>)'
  <2>1. /\ UNCHANGED <<pc, home, console, lapsed>>
        /\ pc[s] = "running"
    BY DEF BeginExport, sessionVars, pastVars
  <2>2. SUFFICES ASSUME NEW dir \in Dirs PROVE MarkerTrue(<<s, dir>>)'
    OBVIOUS
  <2>3. MarkerTrue(<<s, dir>>)
    BY <1>1 DEF OfSession
  <2>4. CASE marker'[<<s, dir>>] = marker[<<s, dir>>]
    BY <2>1, <2>3, <2>4 DEF MarkerTrue, Alive
  <2>5. CASE Marks(s, FALSE, TRUE) /\ dir = home[s]
    BY <2>1, <2>5 DEF Marks, MarkerTrue, Alive
  <2>6. QED
    BY <1>2, <2>4, <2>5 DEF Marks
<1>14. TypeOK' /\ Apart(s)
  BY <1>3, <1>4, <1>5, <1>6, <1>7, <1>8, <1>9, PartsAfter DEF Apart
<1>15. QED
  BY <1>10, <1>11, <1>12, <1>13, <1>14, Local

LEMMA ExportFailsStep ==
    ASSUME RInv, NEW s \in Sessions, ExportFails(s)
    PROVE  RInv' /\ Apart(s)
<1>1. OfSession(s)
  BY Unpack
<1>2. DiskTyped'
  BY <1>1, QuotaFacts DEF OfSession, ExportFails, Fault, LockFree, DiskTyped, Holds,
     diskVars, sessionVars, pastVars
<1>3. LockTyped'
  BY <1>1, ReleasedFacts DEF OfSession, ExportFails, Fault, LockFree, LockTyped, Holds,
     diskVars, sessionVars, pastVars
<1>4. SessionTyped'
  BY <1>1 DEF OfSession, ExportFails, Fault, LockFree, SessionTyped, Gone, Steps, Dirs,
     MarkerFiles, Holds, diskVars, sessionVars, pastVars
<1>5. PastTyped'
  BY <1>1, QuotaFacts DEF OfSession, ExportFails, Fault, LockFree, PastTyped, Holds,
     diskVars, sessionVars, pastVars
<1>6. Others(s) /\ Stays(s)
  BY <1>1 DEF OfSession, ExportFails, Fault, LockFree, Others, Stays, SessionTyped,
     Alive, Gone, PastTyped, Holds, diskVars, sessionVars, pastVars, ClaimTrue
<1>7. OtherMarkers(s)
  BY <1>1 DEF OfSession, ExportFails, diskVars, sessionVars, pastVars, OtherMarkers
<1>8. OtherLocks(s)
  BY <1>1, ReleasedFacts DEF OfSession, ExportFails, Fault, LockFree, OtherLocks,
     LockTyped, Holds, diskVars, sessionVars, pastVars
<1>9. JobTrue(Host[s])'
  BY <1>1, ReleasedFacts DEF OfSession, ExportFails, Fault, LockFree, SessionTyped,
     JobTrue, StartTrue, Held, Alive, Gone, Steps, Holds, diskVars, sessionVars,
     pastVars
<1>10. StartTrue(s)'
  BY <1>1 DEF OfSession, ExportFails, Fault, LockFree, SessionTyped, PastTyped,
     StartTrue, Blank, Alive, Gone, Steps, JobTrue, Held, Holds, diskVars, sessionVars,
     pastVars
<1>11. KnownTrue(s)'
  BY <1>1, ReleasedFacts DEF OfSession, ExportFails, Fault, LockFree, SessionTyped,
     PastTyped, KnownTrue, Published, Known, Alive, Gone, Steps, Holds, diskVars,
     sessionVars, pastVars
<1>12. \A dir \in Dirs : MarkerTrue(<<s, dir>>)'
  BY <1>1 DEF OfSession, ExportFails, diskVars, sessionVars, pastVars, MarkerTrue, Alive
<1>13. TypeOK' /\ Apart(s)
  BY <1>2, <1>3, <1>4, <1>5, <1>6, <1>7, <1>8, PartsAfter DEF Apart
<1>14. QED
  BY <1>9, <1>10, <1>11, <1>12, <1>13, Local

LEMMA ReadReservationsStep ==
    ASSUME RInv, NEW s \in Sessions, ReadReservations(s)
    PROVE  RInv' /\ Apart(s)
<1>1. OfSession(s)
  BY Unpack
<1>2. Holds(s, {"admit", "fallback", "export"}) /\ Archive(s) + Reservations(s) \in Nat
      /\ {} \in SUBSET Sessions
  BY <1>1, ReservationsType, ProtectedType DEF ReadReservations, JobAt, OfSession, Holds,
     Held, Archive
<1>3. Advances(s, "protect", Archive(s) + Reservations(s), {})
  BY <1>1, <1>2, AdvancesIt DEF ReadReservations, OfSession
<1>4. DiskTyped'
  BY <1>1 DEF OfSession, ReadReservations, diskVars, sessionVars, pastVars, DiskTyped
<1>5. LockTyped'
  BY <1>3 DEF Advances
<1>6. SessionTyped'
  BY <1>1 DEF OfSession, ReadReservations, diskVars, sessionVars, pastVars, SessionTyped
<1>7. PastTyped'
  BY <1>1 DEF OfSession, ReadReservations, diskVars, sessionVars, pastVars, PastTyped
<1>8. Others(s) /\ Stays(s)
  BY <1>1 DEF OfSession, ReadReservations, diskVars, sessionVars, pastVars, Others,
     Stays, ClaimTrue
<1>9. OtherMarkers(s)
  BY <1>1 DEF OfSession, ReadReservations, diskVars, sessionVars, pastVars, OtherMarkers
<1>10. OtherLocks(s)
  BY <1>3 DEF Advances, OtherLocks
<1>11. JobTrue(Host[s])'
  BY <1>1, <1>3 DEF Advances, ReadReservations, OfSession, JobTrue, Held, Alive,
     diskVars, sessionVars, pastVars
<1>12. StartTrue(s)'
  BY <1>1 DEF OfSession, ReadReservations, diskVars, sessionVars, pastVars, StartTrue,
     Blank, Alive
<1>13. KnownTrue(s)'
  BY <1>1, <1>3 DEF Advances, ReadReservations, OfSession, KnownTrue, Published, Known,
     Holds, Alive, diskVars, sessionVars, pastVars
<1>14. \A dir \in Dirs : MarkerTrue(<<s, dir>>)'
  BY <1>1 DEF OfSession, ReadReservations, diskVars, sessionVars, pastVars, MarkerTrue,
     Alive
<1>15. TypeOK' /\ Apart(s)
  BY <1>4, <1>5, <1>6, <1>7, <1>8, <1>9, <1>10, PartsAfter DEF Apart
<1>16. QED
  BY <1>11, <1>12, <1>13, <1>14, <1>15, Local

LEMMA ProtectStep ==
    ASSUME RInv, NEW s \in Sessions, Protect(s)
    PROVE  RInv' /\ Apart(s)
<1>1. OfSession(s)
  BY Unpack
<1>2. Holds(s, {"admit", "fallback", "export"}) /\ lock[Host[s]].reserved \in Nat
      /\ Protected(s) \in SUBSET Sessions
  BY <1>1, ReservationsType, ProtectedType DEF Protect, JobAt, OfSession, Holds, Held,
     Archive
<1>3. Advances(s, "prune", lock[Host[s]].reserved, Protected(s))
  BY <1>1, <1>2, AdvancesIt DEF Protect, OfSession
<1>4. DiskTyped'
  BY <1>1 DEF OfSession, Protect, diskVars, sessionVars, pastVars, DiskTyped
<1>5. LockTyped'
  BY <1>3 DEF Advances
<1>6. SessionTyped'
  BY <1>1 DEF OfSession, Protect, diskVars, sessionVars, pastVars, SessionTyped
<1>7. PastTyped'
  BY <1>1 DEF OfSession, Protect, diskVars, sessionVars, pastVars, PastTyped
<1>8. Others(s) /\ Stays(s)
  BY <1>1 DEF OfSession, Protect, diskVars, sessionVars, pastVars, Others, Stays,
     ClaimTrue
<1>9. OtherMarkers(s)
  BY <1>1 DEF OfSession, Protect, diskVars, sessionVars, pastVars, OtherMarkers
<1>10. OtherLocks(s)
  BY <1>3 DEF Advances, OtherLocks
<1>11. JobTrue(Host[s])'
  BY <1>1, <1>3 DEF Advances, Protect, OfSession, JobTrue, Held, Alive, diskVars,
     sessionVars, pastVars
<1>12. StartTrue(s)'
  BY <1>1 DEF OfSession, Protect, diskVars, sessionVars, pastVars, StartTrue, Blank,
     Alive
<1>13. KnownTrue(s)'
  BY <1>1, <1>3 DEF Advances, Protect, OfSession, KnownTrue, Published, Known, Holds,
     Alive, diskVars, sessionVars, pastVars
<1>14. \A dir \in Dirs : MarkerTrue(<<s, dir>>)'
  BY <1>1 DEF OfSession, Protect, diskVars, sessionVars, pastVars, MarkerTrue, Alive
<1>15. TypeOK' /\ Apart(s)
  BY <1>4, <1>5, <1>6, <1>7, <1>8, <1>9, <1>10, PartsAfter DEF Apart
<1>16. QED
  BY <1>11, <1>12, <1>13, <1>14, <1>15, Local

LEMMA PruneStep ==
    ASSUME RInv, NEW s \in Sessions, Prune(s)
    PROVE  RInv' /\ Apart(s)
<1>1. OfSession(s)
  BY Unpack
<1>2. Holds(s, {"admit", "fallback", "export"}) /\ lock[Host[s]].reserved \in Nat
      /\ {} \in SUBSET Sessions
  BY <1>1, ReservationsType, ProtectedType DEF Prune, JobAt, OfSession, Holds, Held,
     Archive
<1>3. Advances(s, "check", lock[Host[s]].reserved, {})
  BY <1>1, <1>2, AdvancesIt DEF Prune, OfSession
<1>4. DiskTyped'
  BY <1>1, QuotaFacts DEF OfSession, Prune, JobAt, Fault, DiskTyped, Holds, diskVars,
     sessionVars, pastVars
<1>5. LockTyped'
  BY <1>3 DEF Advances
<1>6. SessionTyped'
  BY <1>1 DEF OfSession, Prune, JobAt, Fault, SessionTyped, Gone, Steps, Dirs,
     MarkerFiles, Holds, diskVars, sessionVars, pastVars
<1>7. PastTyped'
  BY <1>1, QuotaFacts DEF OfSession, Prune, JobAt, Fault, PastTyped, Holds, diskVars,
     sessionVars, pastVars
<1>8. Others(s) /\ Stays(s)
  BY <1>1 DEF OfSession, Prune, JobAt, Fault, Others, Stays, SessionTyped, Alive, Gone,
     PastTyped, Holds, diskVars, sessionVars, pastVars, ClaimTrue
<1>9. OtherMarkers(s)
  BY <1>1 DEF OfSession, Prune, diskVars, sessionVars, pastVars, OtherMarkers
<1>10. OtherLocks(s)
  BY <1>3 DEF Advances, OtherLocks
<1>11. JobTrue(Host[s])'
  BY <1>1, <1>3 DEF Advances, Prune, OfSession, JobTrue, Held, Alive, diskVars,
     sessionVars, pastVars
<1>12. StartTrue(s)'
  BY <1>1 DEF OfSession, Prune, JobAt, Fault, SessionTyped, PastTyped, StartTrue, Blank,
     Alive, Gone, Steps, JobTrue, Held, Holds, diskVars, sessionVars, pastVars
<1>13. KnownTrue(s)'
  <2>1. console[s] => console'[s]
    BY <1>8 DEF Stays
  <2>2. \A t \in Sessions : console[t] => console'[t]
    BY <1>8 DEF Others, Stays
  <2>3. Published(s)' => Published(s)
    BY <1>1, <1>3 DEF Advances, Prune, Published, Holds, Alive, pastVars
  <2>4. Known(s) => Known(s)'
    BY <2>2 DEF Prune, Known, pastVars
  <2>5. QED
    BY <1>1, <2>1, <2>3, <2>4 DEF OfSession, KnownTrue
<1>14. \A dir \in Dirs : MarkerTrue(<<s, dir>>)'
  BY <1>1 DEF OfSession, Prune, JobAt, Fault, SessionTyped, PastTyped, DiskTyped,
     MarkerTrue, StartTrue, Blank, Alive, Gone, Steps, Holds, diskVars, sessionVars,
     pastVars
<1>15. TypeOK' /\ Apart(s)
  BY <1>4, <1>5, <1>6, <1>7, <1>8, <1>9, <1>10, PartsAfter DEF Apart
<1>16. QED
  BY <1>11, <1>12, <1>13, <1>14, <1>15, Local

LEMMA DecideStep ==
    ASSUME RInv, NEW s \in Sessions, Decide(s)
    PROVE  RInv' /\ Apart(s)
<1>1. OfSession(s)
  BY Unpack
<1>2. \/ Marks(s, TRUE, FALSE) /\ OtherMarkers(s)
      \/ (console[s] \/ Fits(s)) /\ marker' = marker
  <2>1. CASE (console[s] \/ Fits(s))
    <3>1. marker' = marker
      BY <2>1 DEF Decide
    <3>2. QED
      BY <2>1, <3>1
  <2>2. CASE ~(console[s] \/ Fits(s))
    <3>1. marker' = Written(s, TRUE, FALSE)
      BY <2>2 DEF Decide
    <3>2. Marks(s, TRUE, FALSE) /\ OtherMarkers(s)
      BY <1>1, <3>1, MarksIt DEF OfSession
    <3>3. QED
      BY <3>2
  <2>3. QED
    BY <2>1, <2>2
<1>3. DiskTyped'
  BY <1>1, WrittenFacts, QuotaFacts DEF OfSession, Decide, JobAt, DiskTyped, Holds,
     diskVars, sessionVars, pastVars
<1>4. LockTyped'
  BY <1>1, ReleasedFacts DEF OfSession, Decide, JobAt, LockTyped, Holds, diskVars,
     sessionVars, pastVars
<1>5. SessionTyped'
  BY <1>1 DEF OfSession, Decide, JobAt, SessionTyped, Gone, Steps, Dirs, MarkerFiles,
     Holds, diskVars, sessionVars, pastVars
<1>6. PastTyped'
  BY <1>1, QuotaFacts DEF OfSession, Decide, JobAt, PastTyped, Holds, diskVars,
     sessionVars, pastVars
<1>7. Others(s) /\ Stays(s)
  <2>1. pc[s] \notin Gone
    BY DEF Decide, JobAt, Alive
  <2>2. Others(s)
    <3>1. \A t \in Sessions : t # s =>
             /\ pc'[t] = pc[t] /\ console'[t] = console[t] /\ failing'[t] = failing[t]
      BY <1>1 DEF OfSession, Decide, SessionTyped
    <3>2. admitted' = admitted \/ admitted' = admitted \cup {s}
      BY DEF Decide
    <3>3. \A t \in Sessions : t # s => (t \in admitted') = (t \in admitted)
      BY <3>2
    <3>4. UNCHANGED <<home, seen, claim, reports, lapsed>>
      BY DEF Decide
    <3>5. QED
      BY <3>1, <3>3, <3>4 DEF Others
  <2>3. Stays(s)
    BY <1>1, <2>1 DEF OfSession, Decide, Stays, SessionTyped, Gone, ClaimTrue
  <2>4. QED
    BY <2>2, <2>3
<1>8. OtherMarkers(s)
  BY <1>2 DEF OtherMarkers
<1>9. OtherLocks(s)
  BY <1>1, ReleasedFacts DEF OfSession, Decide, JobAt, OtherLocks, LockTyped, Holds,
     diskVars, sessionVars, pastVars
<1>10. JobTrue(Host[s])'
  BY <1>1, ReleasedFacts DEF OfSession, Decide, JobAt, SessionTyped, JobTrue, StartTrue,
     Held, Alive, Gone, Steps, Holds, diskVars, sessionVars, pastVars
<1>11. StartTrue(s)'
  BY <1>1, WrittenFacts DEF OfSession, Decide, JobAt, SessionTyped, PastTyped, StartTrue,
     Blank, Alive, Gone, Steps, JobTrue, Held, Holds, diskVars, sessionVars, pastVars
<1>12. KnownTrue(s)'
  <2>1. Alive(s) /\ Holds(s, {"admit", "fallback"})
    BY <1>1 DEF OfSession, Decide, JobAt, Holds
  <2>2. Published(s) /\ (Known(s) => Known(s)')
    <3>1. Published(s)
      BY <1>1, <2>1 DEF OfSession, JobTrue, Held, Holds, Published
    <3>2. ASSUME NEW f \in MarkerFiles, marker[f] # NoMarker PROVE marker'[f] # NoMarker
      BY <1>1, <1>2, <3>2 DEF OfSession, Marks
    <3>3. \A t \in Sessions : console[t] => console'[t]
      BY <1>1 DEF OfSession, Decide, SessionTyped
    <3>4. reports' = reports
      BY DEF Decide
    <3>5. QED
      BY <3>1, <3>2, <3>3, <3>4 DEF Known
  <2>3. console[s] => console'[s]
    BY <1>7 DEF Stays
  <2>4. QED
    BY <1>1, <2>2, <2>3 DEF OfSession, KnownTrue
<1>13. \A dir \in Dirs : MarkerTrue(<<s, dir>>)'
  BY <1>1, <1>2 DEF OfSession, Decide, JobAt, Marks, MarkerTrue, StartTrue, Alive, Gone,
     Steps, JobTrue, Held, Holds, SessionTyped, Blank, diskVars, sessionVars, pastVars
<1>14. TypeOK' /\ Apart(s)
  BY <1>3, <1>4, <1>5, <1>6, <1>7, <1>8, <1>9, PartsAfter DEF Apart
<1>15. QED
  BY <1>10, <1>11, <1>12, <1>13, <1>14, Local

LEMMA DecideExportStep ==
    ASSUME RInv, NEW s \in Sessions, DecideExport(s)
    PROVE  RInv' /\ Apart(s)
<1>1. OfSession(s)
  BY Unpack
<1>2. DiskTyped'
  BY <1>1, QuotaFacts DEF OfSession, DecideExport, JobAt, DiskTyped, Holds, diskVars,
     sessionVars, pastVars
<1>3. LockTyped'
  BY <1>1, ReleasedFacts DEF OfSession, DecideExport, JobAt, LockTyped, Holds, diskVars,
     sessionVars, pastVars
<1>4. SessionTyped'
  BY <1>1 DEF OfSession, DecideExport, diskVars, sessionVars, pastVars, SessionTyped
<1>5. PastTyped'
  BY <1>1 DEF OfSession, DecideExport, diskVars, sessionVars, pastVars, PastTyped
<1>6. Others(s) /\ Stays(s)
  BY <1>1 DEF OfSession, DecideExport, diskVars, sessionVars, pastVars, Others, Stays,
     ClaimTrue
<1>7. OtherMarkers(s)
  BY <1>1 DEF OfSession, DecideExport, diskVars, sessionVars, pastVars, OtherMarkers
<1>8. OtherLocks(s)
  BY <1>1, ReleasedFacts DEF OfSession, DecideExport, JobAt, OtherLocks, LockTyped,
     Holds, diskVars, sessionVars, pastVars
<1>9. JobTrue(Host[s])'
  BY <1>1, ReleasedFacts DEF OfSession, DecideExport, JobAt, SessionTyped, JobTrue,
     StartTrue, Held, Alive, Gone, Steps, Holds, diskVars, sessionVars, pastVars
<1>10. StartTrue(s)'
  BY <1>1 DEF OfSession, DecideExport, diskVars, sessionVars, pastVars, StartTrue, Blank,
     Alive
<1>11. KnownTrue(s)'
  BY <1>1, ReleasedFacts DEF OfSession, DecideExport, JobAt, SessionTyped, PastTyped,
     KnownTrue, Published, Known, Alive, Gone, Steps, Holds, diskVars, sessionVars,
     pastVars
<1>12. \A dir \in Dirs : MarkerTrue(<<s, dir>>)'
  BY <1>1 DEF OfSession, DecideExport, diskVars, sessionVars, pastVars, MarkerTrue,
     Alive
<1>13. TypeOK' /\ Apart(s)
  BY <1>2, <1>3, <1>4, <1>5, <1>6, <1>7, <1>8, PartsAfter DEF Apart
<1>14. QED
  BY <1>9, <1>10, <1>11, <1>12, <1>13, Local

LEMMA CloseStep ==
    ASSUME RInv, NEW s \in Sessions, Close(s)
    PROVE  RInv' /\ Apart(s)
<1>1. OfSession(s)
  BY Unpack
<1>2. \/ Marks(s, TRUE, FALSE) /\ OtherMarkers(s)
      \/ console[s] /\ marker' = marker
  <2>1. CASE console[s]
    <3>1. marker' = marker
      BY <2>1 DEF Close
    <3>2. QED
      BY <2>1, <3>1
  <2>2. CASE ~console[s]
    <3>1. marker' = Written(s, TRUE, FALSE)
      BY <2>2 DEF Close
    <3>2. Marks(s, TRUE, FALSE) /\ OtherMarkers(s)
      BY <1>1, <3>1, MarksIt DEF OfSession
    <3>3. QED
      BY <3>2
  <2>3. QED
    BY <2>1, <2>2
<1>3. DiskTyped'
  BY <1>1, WrittenFacts, QuotaFacts DEF OfSession, Close, Runs, DiskTyped, Holds,
     diskVars, sessionVars, pastVars
<1>4. LockTyped'
  BY <1>1 DEF OfSession, Close, diskVars, sessionVars, pastVars, LockTyped
<1>5. SessionTyped'
  BY <1>1 DEF OfSession, Close, Runs, SessionTyped, Gone, Steps, Dirs, MarkerFiles,
     Holds, diskVars, sessionVars, pastVars
<1>6. PastTyped'
  BY <1>1 DEF OfSession, Close, diskVars, sessionVars, pastVars, PastTyped
<1>7. Others(s) /\ Stays(s)
  BY <1>1 DEF OfSession, Close, Runs, Others, Stays, SessionTyped, Alive, Gone,
     PastTyped, Holds, diskVars, sessionVars, pastVars, ClaimTrue
<1>8. OtherMarkers(s)
  BY <1>2 DEF OtherMarkers
<1>9. OtherLocks(s)
  BY <1>1 DEF OfSession, Close, diskVars, sessionVars, pastVars, OtherLocks
<1>10. JobTrue(Host[s])'
  BY <1>1 DEF OfSession, Close, Runs, SessionTyped, JobTrue, StartTrue, Held, Alive,
     Gone, Steps, Holds, diskVars, sessionVars, pastVars
<1>11. StartTrue(s)'
  BY <1>1, WrittenFacts DEF OfSession, Close, Runs, SessionTyped, PastTyped, StartTrue,
     Blank, Alive, Gone, Steps, JobTrue, Held, Holds, diskVars, sessionVars, pastVars
<1>12. KnownTrue(s)'
  <2>1. CASE Marks(s, TRUE, FALSE)
    BY <1>1, <2>1, KnownByMarker
  <2>2. CASE console[s]
    <3>1. console'[s]
      BY <2>2 DEF Close, sessionVars
    <3>2. QED
      BY <3>1 DEF KnownTrue
  <2>3. QED
    BY <1>2, <2>1, <2>2
<1>13. \A dir \in Dirs : MarkerTrue(<<s, dir>>)'
  <2>1. /\ UNCHANGED <<home, console, lapsed>>
        /\ pc[s] = "running" /\ pc'[s] = "closed"
    BY <1>1 DEF Close, Runs, OfSession, SessionTyped, pastVars
  <2>2. SUFFICES ASSUME NEW dir \in Dirs PROVE MarkerTrue(<<s, dir>>)'
    OBVIOUS
  <2>3. MarkerTrue(<<s, dir>>)
    BY <1>1 DEF OfSession
  <2>4. CASE Marks(s, TRUE, FALSE) /\ dir = home[s]
    BY <2>1, <2>4 DEF Marks, MarkerTrue
  <2>5. CASE marker'[<<s, dir>>] = marker[<<s, dir>>] /\ (console[s] \/ dir # home[s])
    BY <2>1, <2>3, <2>5 DEF MarkerTrue, Alive, Gone
  <2>6. QED
    BY <1>2, <2>4, <2>5 DEF Marks
<1>14. TypeOK' /\ Apart(s)
  BY <1>3, <1>4, <1>5, <1>6, <1>7, <1>8, <1>9, PartsAfter DEF Apart
<1>15. QED
  BY <1>10, <1>11, <1>12, <1>13, <1>14, Local

LEMMA CrashStep ==
    ASSUME RInv, NEW s \in Sessions, Crash(s)
    PROVE  RInv' /\ Apart(s)
<1>1. OfSession(s)
  BY Unpack
<1>2. DiskTyped'
  BY <1>1 DEF OfSession, Crash, diskVars, sessionVars, pastVars, DiskTyped
<1>3. LockTyped'
  BY <1>1, ReleasedFacts DEF OfSession, Crash, LockTyped, Holds, diskVars, sessionVars,
     pastVars
<1>4. SessionTyped'
  BY <1>1 DEF OfSession, Crash, SessionTyped, Gone, Steps, Dirs, MarkerFiles, Holds,
     diskVars, sessionVars, pastVars
<1>5. PastTyped'
  BY <1>1 DEF OfSession, Crash, diskVars, sessionVars, pastVars, PastTyped
<1>6. Others(s) /\ Stays(s)
  BY <1>1 DEF OfSession, Crash, Others, Stays, SessionTyped, Alive, Gone, PastTyped,
     Holds, diskVars, sessionVars, pastVars, ClaimTrue
<1>7. OtherMarkers(s)
  BY <1>1 DEF OfSession, Crash, diskVars, sessionVars, pastVars, OtherMarkers
<1>8. OtherLocks(s)
  BY <1>1, ReleasedFacts DEF OfSession, Crash, OtherLocks, LockTyped, Holds, diskVars,
     sessionVars, pastVars
<1>9. JobTrue(Host[s])'
  BY <1>1, ReleasedFacts DEF OfSession, Crash, SessionTyped, JobTrue, StartTrue, Held,
     Alive, Gone, Steps, Holds, diskVars, sessionVars, pastVars
<1>10. StartTrue(s)'
  BY <1>1 DEF OfSession, Crash, SessionTyped, PastTyped, StartTrue, Blank, Alive, Gone,
     Steps, JobTrue, Held, Holds, diskVars, sessionVars, pastVars
<1>11. KnownTrue(s)'
  BY <1>1, ReleasedFacts DEF OfSession, Crash, SessionTyped, PastTyped, KnownTrue,
     Published, Known, Alive, Gone, Steps, Holds, diskVars, sessionVars, pastVars
<1>12. \A dir \in Dirs : MarkerTrue(<<s, dir>>)'
  BY <1>1 DEF OfSession, Crash, SessionTyped, PastTyped, DiskTyped, MarkerTrue,
     StartTrue, Blank, Alive, Gone, Steps, Holds, diskVars, sessionVars, pastVars
<1>13. TypeOK' /\ Apart(s)
  BY <1>2, <1>3, <1>4, <1>5, <1>6, <1>7, <1>8, PartsAfter DEF Apart
<1>14. QED
  BY <1>9, <1>10, <1>11, <1>12, <1>13, Local

LEMMA ExpireStep ==
    ASSUME RInv, NEW s \in Sessions, Expire(s)
    PROVE  RInv' /\ Apart(s)
<1>1. OfSession(s)
  BY Unpack
<1>2. PICK d \in Dirs :
        /\ marker[<<s, d>>] # NoMarker
        /\ marker' = [marker EXCEPT ![<<s, d>>].fresh = FALSE]
  BY DEF Expire
<1>3. PICK m : m = [marker[<<s, d>>] EXCEPT !.fresh = FALSE]
  OBVIOUS
<1>4. /\ marker' = [marker EXCEPT ![<<s, d>>] = m]
      /\ m \in Marker /\ m # NoMarker
  <2>1. marker[<<s, d>>] \in Marker
    BY <1>1, <1>2 DEF OfSession, DiskTyped
  <2>2. m \in Marker
    BY <1>3, <2>1 DEF Marker
  <2>3. QED
    BY <1>2, <1>3, <2>2, SentinelAssumption
<1>5. DiskTyped'
  BY <1>1, <1>4 DEF OfSession, DiskTyped, Expire
<1>6. LockTyped'
  BY <1>1 DEF OfSession, Expire, diskVars, sessionVars, pastVars, LockTyped
<1>7. SessionTyped'
  BY <1>1 DEF OfSession, Expire, diskVars, sessionVars, pastVars, SessionTyped
<1>8. PastTyped'
  BY <1>1 DEF OfSession, Expire, diskVars, sessionVars, pastVars, PastTyped
<1>9. Others(s) /\ Stays(s)
  BY <1>1 DEF OfSession, Expire, diskVars, sessionVars, pastVars, Others, Stays,
     ClaimTrue
<1>10. OtherMarkers(s)
  BY <1>1 DEF OfSession, Expire, OtherMarkers, DiskTyped, Holds, diskVars, sessionVars,
     pastVars
<1>11. OtherLocks(s)
  BY <1>1 DEF OfSession, Expire, diskVars, sessionVars, pastVars, OtherLocks
<1>12. JobTrue(Host[s])'
  BY <1>1 DEF OfSession, Expire, diskVars, sessionVars, pastVars, JobTrue, Held, Alive
<1>13. StartTrue(s)'
  BY <1>1 DEF OfSession, Expire, SessionTyped, PastTyped, StartTrue, Blank, Alive, Gone,
     Steps, JobTrue, Held, Holds, diskVars, sessionVars, pastVars
<1>14. KnownTrue(s)'
  <2>1. \A f \in MarkerFiles : marker[f] # NoMarker => marker'[f] # NoMarker
    BY <1>1, <1>4 DEF OfSession, DiskTyped
  <2>2. Known(s) => Known(s)'
    BY <2>1 DEF Expire, Known, diskVars, sessionVars, pastVars
  <2>3. Published(s)' => Published(s)
    BY DEF Expire, Published, Holds, Alive, diskVars, sessionVars, pastVars
  <2>4. QED
    BY <1>1, <2>2, <2>3 DEF OfSession, KnownTrue, Expire, sessionVars
<1>15. \A dir \in Dirs : MarkerTrue(<<s, dir>>)'
  BY <1>1 DEF OfSession, Expire, SessionTyped, PastTyped, DiskTyped, MarkerTrue,
     StartTrue, Blank, Alive, Gone, Steps, Holds, diskVars, sessionVars, pastVars
<1>16. TypeOK' /\ Apart(s)
  BY <1>5, <1>6, <1>7, <1>8, <1>9, <1>10, <1>11, PartsAfter DEF Apart
<1>17. QED
  BY <1>12, <1>13, <1>14, <1>15, <1>16, Local

LEMMA LapseStep ==
    ASSUME RInv, NEW s \in Sessions, Lapse(s)
    PROVE  RInv' /\ Apart(s)
<1>1. OfSession(s)
  BY Unpack
<1>2. PICK d \in Dirs :
        /\ d = home[s] /\ marker[<<s, d>>] # NoMarker
        /\ marker' = [marker EXCEPT ![<<s, d>>].fresh = FALSE]
  BY <1>1 DEF Lapse, OfSession
<1>3. PICK m : m = [marker[<<s, d>>] EXCEPT !.fresh = FALSE]
  OBVIOUS
<1>4. /\ marker' = [marker EXCEPT ![<<s, d>>] = m]
      /\ m \in Marker /\ m # NoMarker
  <2>1. marker[<<s, d>>] \in Marker
    BY <1>1, <1>2 DEF OfSession, DiskTyped
  <2>2. m \in Marker
    BY <1>3, <2>1 DEF Marker
  <2>3. QED
    BY <1>2, <1>3, <2>2, SentinelAssumption
<1>5. DiskTyped'
  BY <1>1, <1>4 DEF OfSession, DiskTyped, Lapse
<1>6. LockTyped'
  BY <1>1 DEF OfSession, Lapse, diskVars, sessionVars, pastVars, LockTyped
<1>7. SessionTyped'
  BY <1>1 DEF OfSession, Lapse, diskVars, sessionVars, pastVars, SessionTyped
<1>8. PastTyped'
  BY <1>1, QuotaFacts DEF OfSession, Lapse, Fault, PastTyped, Holds, diskVars,
     sessionVars, pastVars
<1>9. Others(s) /\ Stays(s)
  BY <1>1 DEF OfSession, Lapse, Fault, Others, Stays, SessionTyped, Alive, Gone,
     PastTyped, Holds, diskVars, sessionVars, pastVars, ClaimTrue
<1>10. OtherMarkers(s)
  BY <1>1 DEF OfSession, Lapse, Fault, OtherMarkers, DiskTyped, Holds, diskVars,
     sessionVars, pastVars
<1>11. OtherLocks(s)
  BY <1>1 DEF OfSession, Lapse, diskVars, sessionVars, pastVars, OtherLocks
<1>12. JobTrue(Host[s])'
  BY <1>1 DEF OfSession, Lapse, diskVars, sessionVars, pastVars, JobTrue, Held, Alive
<1>13. StartTrue(s)'
  BY <1>1 DEF OfSession, Lapse, Fault, SessionTyped, PastTyped, StartTrue, Blank, Alive,
     Gone, Steps, JobTrue, Held, Holds, diskVars, sessionVars, pastVars
<1>14. KnownTrue(s)'
  <2>1. \A f \in MarkerFiles : marker[f] # NoMarker => marker'[f] # NoMarker
    BY <1>1, <1>4 DEF OfSession, DiskTyped
  <2>2. Known(s) => Known(s)'
    BY <2>1 DEF Lapse, Known, diskVars, sessionVars, pastVars
  <2>3. Published(s)' => Published(s)
    BY DEF Lapse, Published, Holds, Alive, diskVars, sessionVars, pastVars
  <2>4. QED
    BY <1>1, <2>2, <2>3 DEF OfSession, KnownTrue, Lapse, sessionVars
<1>15. \A dir \in Dirs : MarkerTrue(<<s, dir>>)'
  BY <1>1 DEF OfSession, Lapse, Fault, SessionTyped, PastTyped, DiskTyped, MarkerTrue,
     StartTrue, Blank, Alive, Gone, Steps, Holds, diskVars, sessionVars, pastVars
<1>16. TypeOK' /\ Apart(s)
  BY <1>5, <1>6, <1>7, <1>8, <1>9, <1>10, <1>11, PartsAfter DEF Apart
<1>17. QED
  BY <1>12, <1>13, <1>14, <1>15, <1>16, Local

LEMMA ReuseStep ==
    ASSUME RInv, NEW s \in Sessions, Reuse(s)
    PROVE  RInv' /\ Apart(s)
<1>1. OfSession(s)
  BY Unpack
<1>2. DiskTyped'
  BY <1>1 DEF OfSession, Reuse, diskVars, sessionVars, pastVars, DiskTyped
<1>3. LockTyped'
  BY <1>1 DEF OfSession, Reuse, diskVars, sessionVars, pastVars, LockTyped
<1>4. SessionTyped'
  BY <1>1 DEF OfSession, Reuse, diskVars, sessionVars, pastVars, SessionTyped
<1>5. PastTyped'
  BY <1>1, QuotaFacts DEF OfSession, Reuse, Fault, PastTyped, Holds, diskVars,
     sessionVars, pastVars
<1>6. Others(s) /\ Stays(s)
  BY <1>1 DEF OfSession, Reuse, diskVars, sessionVars, pastVars, Others, Stays,
     ClaimTrue
<1>7. OtherMarkers(s)
  BY <1>1 DEF OfSession, Reuse, diskVars, sessionVars, pastVars, OtherMarkers
<1>8. OtherLocks(s)
  BY <1>1 DEF OfSession, Reuse, diskVars, sessionVars, pastVars, OtherLocks
<1>9. JobTrue(Host[s])'
  BY <1>1 DEF OfSession, Reuse, diskVars, sessionVars, pastVars, JobTrue, Held, Alive
<1>10. StartTrue(s)'
  BY <1>1 DEF OfSession, Reuse, diskVars, sessionVars, pastVars, StartTrue, Blank, Alive
<1>11. KnownTrue(s)'
  BY <1>1 DEF OfSession, Reuse, diskVars, sessionVars, pastVars, KnownTrue, Published,
     Known, Alive, Holds
<1>12. \A dir \in Dirs : MarkerTrue(<<s, dir>>)'
  BY <1>1 DEF OfSession, Reuse, diskVars, sessionVars, pastVars, MarkerTrue, Alive
<1>13. TypeOK' /\ Apart(s)
  BY <1>2, <1>3, <1>4, <1>5, <1>6, <1>7, <1>8, PartsAfter DEF Apart
<1>14. QED
  BY <1>9, <1>10, <1>11, <1>12, <1>13, Local

\* A report is of another session, and true of it.
LEMMA ReportStep ==
    ASSUME RInv, NEW s \in Sessions, Report(s)
    PROVE  RInv'
<1>1. OfSession(s) /\ Jobs /\ Unstarted /\ MarkersTrue /\ ClaimsTrue
      /\ PublishedKnown /\ ReportedTrue
  BY Unpack DEF RInv
<1>2. PICK f \in seen[s] :
        /\ claim[s] = NoFile
        /\ seen' = [seen EXCEPT ![s] = @ \ {f}]
        /\ IF marker[f] = NoMarker \/ Live(s, f)
           THEN UNCHANGED <<claim, reports>>
           ELSE /\ claim' = [claim EXCEPT ![s] = f]
                /\ reports' =
                    IF console[s] THEN reports
                    ELSE IF marker[f].clean
                    THEN [reports EXCEPT ![f[1]].clean = @ + 1]
                    ELSE [reports EXCEPT ![f[1]].unclean = @ + 1]
  BY DEF Report
<1>3. UNCHANGED <<diskVars, pc, home, console, failing, admitted, lapsed, reused, faults>>
  BY DEF Report
<1>4. f \in MarkerFiles /\ f[1] \in Sessions /\ f[1] # s
  BY <1>1, <1>2 DEF OfSession, SessionTyped, ClaimTrue
<1>5. PICK o : o = f[1]
  OBVIOUS
<1>6. \A t \in Sessions :
        /\ t # o => reports'[t] = reports[t]
        /\ reports'[t] \in [clean : Nat, unclean : Nat]
        /\ reports[t].unclean > 0 => reports'[t].unclean > 0
  <2>1. \A t \in Sessions : reports[t] \in [clean : Nat, unclean : Nat]
    BY <1>1 DEF OfSession, PastTyped
  <2>2. CASE reports' = reports
    BY <2>1, <2>2
  <2>3. CASE reports' = [reports EXCEPT ![o].clean = @ + 1]
    BY <1>1, <2>1, <2>3 DEF OfSession, PastTyped
  <2>4. CASE reports' = [reports EXCEPT ![o].unclean = @ + 1]
    BY <1>1, <2>1, <2>4 DEF OfSession, PastTyped
  <2>5. QED
    BY <1>2, <1>5, <2>2, <2>3, <2>4
<1>7. reports' \in [Sessions -> [clean : Nat, unclean : Nat]]
  <2>1. reports \in [Sessions -> [clean : Nat, unclean : Nat]]
    BY <1>1 DEF OfSession, PastTyped
  <2>2. DOMAIN reports' = Sessions /\ reports' = [t \in Sessions |-> reports'[t]]
    BY <1>2, <2>1
  <2>3. QED
    BY <1>6, <2>2
<1>8. TypeOK'
  <2>1. DiskTyped' /\ LockTyped'
    BY <1>1, <1>3 DEF OfSession, DiskTyped, LockTyped, diskVars
  <2>2. SessionTyped'
    <3>1. seen' \in [Sessions -> SUBSET MarkerFiles]
      BY <1>1, <1>2 DEF OfSession, SessionTyped
    <3>2. claim' \in [Sessions -> MarkerFiles \cup {NoFile}]
      BY <1>1, <1>2, <1>4 DEF OfSession, SessionTyped
    <3>3. QED
      BY <1>1, <1>3, <3>1, <3>2 DEF OfSession, SessionTyped
  <2>3. PastTyped'
    BY <1>1, <1>3, <1>7 DEF OfSession, PastTyped
  <2>4. QED
    BY <2>1, <2>2, <2>3, PartsAfter
\* Who is reported as having died has died, slept, or gave up its files.
<1>9. marker[f] # NoMarker /\ ~Live(s, f) =>
        \/ marker[f].clean /\ (pc[o] = "closed" \/ console[o])
        \/ ~marker[f].clean /\ (pc[o] = "dead" \/ o \in lapsed \/ console[o])
  <2>1. SUFFICES ASSUME marker[f] # NoMarker, ~Live(s, f)
                 PROVE  \/ marker[f].clean /\ (pc[o] = "closed" \/ console[o])
                        \/ ~marker[f].clean /\ (pc[o] = "dead" \/ o \in lapsed \/ console[o])
    OBVIOUS
  <2>2. MarkerTrue(f)
    BY <1>1, <1>4 DEF MarkersTrue
  <2>3. marker[f] \in Marker
    BY <1>1, <1>4, <2>1 DEF OfSession, DiskTyped
  <2>4. marker[f].clean \in BOOLEAN /\ marker[f].active \in BOOLEAN
        /\ marker[f].fresh \in BOOLEAN
    BY <2>3 DEF Marker
  <2>5. CASE marker[f].clean
    BY <1>5, <2>1, <2>2, <2>5 DEF MarkerTrue
  <2>6. CASE ~marker[f].clean
    <3>1. marker[f].active
      BY <2>1, <2>2, <2>4, <2>6 DEF MarkerTrue
    <3>2. ~marker[f].fresh \/ ~Alive(o)
      BY <1>5, <2>1, <2>6, <3>1 DEF Live
    <3>3. Alive(o) => o \in lapsed
      BY <1>5, <2>1, <2>2, <3>2 DEF MarkerTrue
    <3>4. pc[o] # "absent"
      BY <1>1, <1>4, <1>5, <2>1 DEF Unstarted, StartTrue, Blank
    <3>5. pc[o] = "closed" => console[o]
      BY <1>5, <2>1, <2>2, <2>6 DEF MarkerTrue
    <3>6. QED
      BY <2>6, <3>3, <3>4, <3>5 DEF Alive, Gone
  <2>7. QED
    BY <2>5, <2>6
<1>10. Jobs'
  BY <1>1, <1>3 DEF Jobs, JobTrue, Held, Alive, diskVars
<1>11. Unstarted'
  <2>1. SUFFICES ASSUME NEW t \in Sessions PROVE StartTrue(t)'
    BY DEF Unstarted
  <2>2. StartTrue(t)
    BY <1>1 DEF Unstarted
  <2>3. pc[t] \in {"absent", "created"} => reports'[t] = reports[t] \/ reports'[t].unclean = reports[t].unclean
    <3>1. CASE t # o
      BY <1>6, <3>1
    <3>2. CASE t = o /\ pc[t] \in {"absent", "created"}
      <4>1. marker[f] = NoMarker
        BY <1>4, <1>5, <2>2, <3>2 DEF StartTrue, Blank
      <4>2. QED
        BY <1>2, <4>1
    <3>3. QED
      BY <3>1, <3>2
  <2>4. QED
    BY <1>3, <2>2, <2>3 DEF StartTrue, Blank, Alive, diskVars
<1>12. MarkersTrue'
  BY <1>1, <1>3 DEF MarkersTrue, MarkerTrue, Alive, diskVars
<1>13. ClaimsTrue'
  <2>1. SUFFICES ASSUME NEW t \in Sessions PROVE ClaimTrue(t)'
    BY DEF ClaimsTrue
  <2>2. ClaimTrue(t)
    BY <1>1 DEF ClaimsTrue
  <2>3. \A g \in seen'[t] : g[1] # t
    BY <1>1, <1>2, <2>2 DEF OfSession, SessionTyped, ClaimTrue
  <2>4. claim[t] # NoFile => claim[t][1] \in Sessions
    BY <1>1, Pairs DEF OfSession, SessionTyped
  <2>5. CASE claim'[t] = claim[t]
    BY <1>3, <1>6, <2>2, <2>3, <2>4, <2>5 DEF ClaimTrue
  <2>6. CASE claim'[t] # claim[t]
    <3>1. t = s /\ claim'[t] = f /\ marker[f] # NoMarker /\ ~Live(s, f)
      BY <1>1, <1>2, <2>6 DEF OfSession, SessionTyped
    <3>2. pc[o] \in {"closed", "dead"} \/ o \in lapsed \/ console[o]
      BY <1>9, <3>1
    <3>3. console[s] \/ console[o] \/ reports'[o].unclean > 0 \/ pc[o] = "closed"
      <4>1. CASE marker[f].clean
        BY <1>9, <3>1, <4>1
      <4>2. CASE ~marker[f].clean /\ ~console[s]
        <5>1. reports' = [reports EXCEPT ![o].unclean = @ + 1]
          BY <1>2, <1>5, <3>1, <4>2
        <5>2. reports[o] \in [clean : Nat, unclean : Nat] /\ reports'[o].unclean = reports[o].unclean + 1
          BY <1>1, <1>4, <1>5, <5>1 DEF OfSession, PastTyped
        <5>3. QED
          BY <5>2
      <4>3. QED
        BY <4>1, <4>2
    <3>4. QED
      BY <1>3, <1>4, <1>5, <2>3, <3>1, <3>2, <3>3 DEF ClaimTrue
  <2>7. QED
    BY <2>5, <2>6
<1>14. PublishedKnown'
  <2>1. SUFFICES ASSUME NEW t \in Sessions PROVE KnownTrue(t)'
    BY DEF PublishedKnown
  <2>2. KnownTrue(t)
    BY <1>1 DEF PublishedKnown
  <2>3. Known(t) => Known(t)'
    BY <1>3, <1>6 DEF Known, diskVars
  <2>4. QED
    BY <1>3, <2>2, <2>3 DEF KnownTrue, Published, Holds, Alive, diskVars
<1>15. ReportedTrue'
  <2>1. SUFFICES ASSUME NEW t \in Sessions, reports'[t].unclean > 0
                 PROVE  pc[t] = "dead" \/ t \in lapsed \/ console[t]
    BY <1>3 DEF ReportedTrue
  <2>2. CASE reports[t].unclean > 0
    BY <1>1, <2>2 DEF ReportedTrue
  <2>3. CASE ~(reports[t].unclean > 0)
    <3>1. t = o
      BY <1>6, <2>1, <2>3
    <3>2. marker[f] # NoMarker /\ ~Live(s, f) /\ ~marker[f].clean
      BY <1>1, <1>2, <1>4, <1>5, <2>1, <2>3, <3>1 DEF OfSession, PastTyped
    <3>3. QED
      BY <1>9, <3>1, <3>2
  <2>4. QED
    BY <2>2, <2>3
<1>16. QED
  BY <1>8, <1>10, <1>11, <1>12, <1>13, <1>14, <1>15 DEF RInv

\* A marker that is removed has been reported, or the report was lost.
LEMMA RemoveMarkerStep ==
    ASSUME RInv, NEW s \in Sessions, RemoveMarker(s)
    PROVE  RInv'
<1>1. OfSession(s) /\ Jobs /\ Unstarted /\ MarkersTrue /\ ClaimsTrue
      /\ PublishedKnown /\ ReportedTrue
  BY Unpack DEF RInv
<1>2. PICK f : f = claim[s]
  OBVIOUS
<1>3. f # NoFile /\ f \in MarkerFiles
  BY <1>1, <1>2 DEF OfSession, SessionTyped, RemoveMarker
<1>4. PICK o : o = f[1] /\ o \in Sessions /\ f = <<f[1], f[2]>>
  BY <1>3, Pairs
<1>5. /\ marker' = [marker EXCEPT ![f] = NoMarker]
      /\ claim' = [claim EXCEPT ![s] = NoFile]
      /\ UNCHANGED <<disk, zips, lock, pc, home, console, failing, seen, pastVars, faults>>
  BY <1>2 DEF RemoveMarker
<1>6. /\ o # s
      /\ \/ console[s] \/ console[o]
         \/ reports[o].unclean > 0 \/ pc[o] = "closed"
  BY <1>1, <1>2, <1>3, <1>4 DEF OfSession, ClaimTrue
<1>7. \A g \in MarkerFiles : marker'[g] = IF g = f THEN NoMarker ELSE marker[g]
  BY <1>1, <1>3, <1>5 DEF OfSession, DiskTyped
<1>8. TypeOK'
  <2>1. DiskTyped' /\ LockTyped'
    BY <1>1, <1>3, <1>5 DEF OfSession, DiskTyped, LockTyped
  <2>2. SessionTyped' /\ PastTyped'
    BY <1>1, <1>5 DEF OfSession, SessionTyped, PastTyped, pastVars
  <2>3. QED
    BY <2>1, <2>2, PartsAfter
<1>9. Jobs'
  BY <1>1, <1>5 DEF Jobs, JobTrue, Held, Alive
<1>10. Unstarted'
  BY <1>1, <1>5, <1>7 DEF Unstarted, StartTrue, Blank, Alive, pastVars
<1>11. MarkersTrue'
  BY <1>1, <1>5, <1>7 DEF MarkersTrue, MarkerTrue, Alive, pastVars
<1>12. ClaimsTrue'
  <2>1. \A t \in Sessions : claim'[t] = claim[t] \/ claim'[t] = NoFile
    BY <1>1, <1>5 DEF OfSession, SessionTyped
  <2>2. QED
    BY <1>1, <1>5, <2>1 DEF ClaimsTrue, ClaimTrue, pastVars
<1>13. PublishedKnown'
  <2>1. SUFFICES ASSUME NEW t \in Sessions, Published(t)', ~console'[t]
                 PROVE  Known(t)'
    BY DEF PublishedKnown, KnownTrue
  <2>2. Published(t) /\ ~console[t]
    BY <1>5, <2>1 DEF Published, Holds, Alive, pastVars
  <2>3. Known(t)
    BY <1>1, <2>2 DEF PublishedKnown, KnownTrue
  <2>4. CASE t = o
    <3>1. pc[t] # "closed"
      BY <2>2 DEF Published, Alive, Gone
    <3>2. console[s] \/ reports[t].unclean > 0
      BY <1>6, <2>2, <2>4, <3>1
    <3>3. QED
      BY <1>5, <1>6, <2>4, <3>2 DEF Known, pastVars
  <2>5. CASE t # o
    BY <1>4, <1>5, <1>7, <2>3, <2>5 DEF Known, pastVars
  <2>6. QED
    BY <2>4, <2>5
<1>14. ReportedTrue'
  BY <1>1, <1>5 DEF ReportedTrue, pastVars
<1>15. QED
  BY <1>8, <1>9, <1>10, <1>11, <1>12, <1>13, <1>14 DEF RInv

LEMMA RInit == Init => RInv
<1>1. SUFFICES ASSUME Init PROVE RInv
  OBVIOUS
<1>2. DiskTyped /\ LockTyped
  BY <1>1, QuotaFacts DEF Init, DiskTyped, LockTyped
<1>3. SessionTyped /\ PastTyped
  BY <1>1, QuotaFacts DEF Init, SessionTyped, PastTyped, Gone, Steps, Dirs
<1>4. Jobs /\ Unstarted /\ MarkersTrue /\ ClaimsTrue
  BY <1>1 DEF Init, Jobs, JobTrue, Held, Unstarted, StartTrue, Blank, MarkersTrue,
     MarkerTrue, ClaimsTrue, ClaimTrue
<1>5. PublishedKnown
  BY <1>1 DEF Init, PublishedKnown, KnownTrue, Published, Alive, Gone
<1>6. ReportedTrue
  BY <1>1 DEF Init, ReportedTrue
<1>7. QED
  BY <1>2, <1>3, <1>4, <1>5, <1>6, Parts DEF RInv

LEMMA RStep == RInv /\ [Next]_vars => RInv'
<1>1. SUFFICES ASSUME RInv, [Next]_vars PROVE RInv'
  OBVIOUS
<1>2. CASE UNCHANGED vars
  <2>1. UNCHANGED <<disk, marker, zips, lock, pc, home, console, failing, seen, claim,
                    reports, admitted, lapsed, reused, faults>>
    BY <1>2 DEF vars, diskVars, sessionVars, pastVars
  <2>2. TypeOK'
    BY <1>1, <2>1 DEF RInv, TypeOK
  <2>3. Jobs' /\ Unstarted' /\ MarkersTrue'
    BY <1>1, <2>1 DEF RInv, Jobs, JobTrue, Held, Alive, Unstarted, StartTrue, Blank,
       MarkersTrue, MarkerTrue
  <2>4. ClaimsTrue' /\ ReportedTrue'
    BY <1>1, <2>1 DEF RInv, ClaimsTrue, ClaimTrue, ReportedTrue
  <2>5. PublishedKnown'
    BY <1>1, <2>1 DEF RInv, PublishedKnown, KnownTrue, Published, Known, Holds, Alive
  <2>6. QED
    BY <2>2, <2>3, <2>4, <2>5 DEF RInv
<1>3. CASE Next
  <2>1. PICK s \in Sessions : Acquires(s) \/ Proceeds(s) \/ Happens(s)
    BY <1>3 DEF Next
  <2>2. CASE Acquires(s)
    BY <1>1, <2>2, PublishStep, CleanStep, BeginAdmissionStep, BeginFallbackStep
    DEF Acquires
  <2>3. CASE Proceeds(s)
    BY <1>1, <2>3, ListMarkersStep, ReportStep, RemoveMarkerStep, EndReportsStep,
       StartOnConsoleStep, ReadReservationsStep, ProtectStep, PruneStep, DecideStep,
       DecideExportStep
    DEF Proceeds
  <2>4. CASE Happens(s)
    BY <1>1, <2>4, CreateStep, PublishFailsStep, AdmissionTimesOutStep, AppendStep,
       RefreshStep, WriteFailsStep, FallbackFailsStep, BeginExportStep, ExportFailsStep,
       CloseStep, CrashStep, ExpireStep, LapseStep, ReuseStep
    DEF Happens
  <2>5. QED
    BY <2>1, <2>2, <2>3, <2>4
<1>4. QED
  BY <1>1, <1>2, <1>3

\* The inductive invariant of the files: what a marker says of its session, who
\* holds the lock, and that a reported session was gone, had slept over its
\* lease or had given its files up.
THEOREM StorageInvariant == Spec => []RInv
<1>1. QED
  BY RInit, RStep, PTL DEF Spec

\* Sizes, markers, locks and sessions keep their types; a lock is held by a
\* session of its host.
THEOREM StorageTypes == Spec => []TypeOK
<1>1. RInv => TypeOK
  BY DEF RInv
<1>2. QED
  BY <1>1, StorageInvariant, PTL

\* What is reported of a session is true, and a death is known by a marker until
\* it is reported (_report_prior_markers).
THEOREM DeathsAreReported == Spec => []DeathsReported
<1>1. RInv => DeathsReported
  <2>1. SUFFICES ASSUME RInv PROVE ReportedTrue /\ DeathKnown
    BY DEF DeathsReported
  <2>2. DeathKnown
    <3>1. SUFFICES ASSUME NEW s \in Sessions, pc[s] = "dead", ~console[s], s \in admitted
                   PROVE  \/ reports[s].unclean > 0
                          \/ \E dir \in Dirs : marker[<<s, dir>>] # NoMarker
                          \/ \E t \in Sessions : t # s /\ console[t]
      BY DEF DeathKnown
    <3>2. Known(s)
      BY <2>1, <3>1 DEF RInv, PublishedKnown, KnownTrue, Published
    <3>3. QED
      BY <3>2, Pairs DEF Known
  <2>3. QED
    BY <2>1, <2>2 DEF RInv
<1>2. QED
  BY <1>1, StorageInvariant, PTL

-----------------------------------------------------------------------------
(* Under one lock.                                                          *)

\* One session of all holds the lock, and everybody sees every file.
LEMMA OneHolder ==
    ASSUME OneLock, TypeOK, NEW s \in Sessions
    PROVE  /\ \A h \in Hosts : Held(h) => h = Host[s]
           /\ \A t \in Sessions : Host[t] = Host[s]
           /\ \A t \in Sessions : \A o, p : Holds(s, o) /\ Holds(t, p) => t = s
           /\ \A t \in Sessions : \A p : LockFree(s) => ~Holds(t, p)
           /\ \A t \in Sessions : \A dir : Visible(s, t, dir)
<1>1. \A t \in Sessions : Host[t] = Host[s]
  BY DEF OneLock
<1>2. \A h \in Hosts : Held(h) => lock[h].owner \in Sessions /\ Host[lock[h].owner] = h
  BY HeldFacts DEF Held
<1>3. QED
  BY <1>1, <1>2 DEF Holds, LockFree, Visible

\* Nothing of another session's is written; it may be deleted.
Shrinks(s) ==
    \A a \in Files : a[1] # s => disk'[a] = disk[a] \/ disk'[a] = 0

\* The others keep what keeps their files.
LEMMA OthersKept ==
    ASSUME KInv, TypeOK', NEW s \in Sessions, Apart(s), Shrinks(s), KeptTrue(s)'
    PROVE  MarkedOrEmpty'
<1>1. SUFFICES ASSUME NEW t \in Sessions, t # s PROVE KeptTrue(t)'
  BY DEF MarkedOrEmpty
<1>2. KeptTrue(t) /\ Others(s) /\ OtherMarkers(s) /\ OtherLocks(s)
  BY DEF KInv, MarkedOrEmpty, Apart
<1>3. Empty(t) => Empty(t)'
  BY <1>1 DEF Empty, Shrinks
<1>4. Marked(t) => Marked(t)'
  <2>1. \A dir \in Dirs : marker'[<<t, dir>>] = marker[<<t, dir>>]
    BY <1>1, <1>2, FileShape DEF OtherMarkers
  <2>2. QED
    BY <2>1 DEF Marked
<1>5. Holds(t, {"fallback"})' => Holds(t, {"fallback"})
  BY <1>1, <1>2, FileShape DEF OtherLocks, Holds
<1>6. QED
  BY <1>1, <1>2, <1>3, <1>4, <1>5 DEF KeptTrue, Others, Alive

\* Nobody begins to renew a marker while something is about to be deleted.
LEMMA OthersSpared ==
    ASSUME KInv, NEW s \in Sessions, Apart(s),
           \A h \in Hosts : Held(h) => (Renews(s)' => Renews(s)),
           \A h \in Hosts : \/ lock'[h] = lock[h]
                            \/ lock'[h] = Free \/ lock'[h].step # "prune"
    PROVE  Spares'
<1>1. SUFFICES ASSUME NEW h \in Hosts, Held(h)', lock'[h].step = "prune"
               PROVE  SpareTrue(h)'
  BY DEF Spares, SpareTrue
<1>2. lock'[h] = lock[h] /\ Held(h) /\ SpareTrue(h)
  BY <1>1 DEF KInv, Spares, Held
<1>3. \A t \in Sessions : Renews(t)' => Renews(t)
  <2>1. SUFFICES ASSUME NEW t \in Sessions, t # s, Renews(t)' PROVE Renews(t)
    BY <1>2
  <2>2. \A dir \in Dirs : marker'[<<t, dir>>] = marker[<<t, dir>>]
    BY <2>1, FileShape DEF Apart, OtherMarkers
  <2>3. Marked(t)' => Marked(t)
    BY <2>2 DEF Marked
  <2>4. QED
    BY <2>1, <2>3 DEF Renews, Apart, Others, Alive
<1>4. QED
  BY <1>1, <1>2, <1>3 DEF SpareTrue, Held

\* The archives that are there stay, and so does who writes them.
LEMMA ZipsStay ==
    ASSUME KInv, RInv', NEW s \in Sessions, Apart(s), zips' = zips,
           Holds(s, {"export"})' <=> Holds(s, {"export"}),
           Alive(s)' => Alive(s) \/ pc[s] = "absent",
           pc[s] # "absent" => pc'[s] # "absent"
    PROVE  ZipsHeld' /\ ExportedWhole'
<1>1. ZipsHeld /\ ExportedWhole /\ Others(s) /\ OtherLocks(s) /\ zips \subseteq MarkerFiles
  BY DEF KInv, RInv, TypeOK, Apart
<1>2. \A t \in Sessions : Holds(t, {"export"})' <=> Holds(t, {"export"})
  <2>1. SUFFICES ASSUME NEW t \in Sessions, t # s
                 PROVE  Holds(t, {"export"})' <=> Holds(t, {"export"})
    OBVIOUS
  <2>2. QED
    BY <1>1, <2>1, FileShape DEF OtherLocks, Holds
<1>3. \A t \in Sessions : /\ pc[t] # "absent" => pc'[t] # "absent"
                          /\ Alive(t)' => Alive(t) \/ pc[t] = "absent"
  BY <1>1 DEF Others, Alive
<1>4. \A z \in zips : z[1] \in Sessions
  BY <1>1, Pairs
<1>5. ZipsHeld'
  BY <1>1, <1>2, <1>3, <1>4 DEF ZipsHeld
<1>6. ExportedWhole'
  BY <1>1, <1>2 DEF ExportedWhole
<1>7. QED
  BY <1>5, <1>6

\* What a step of s starts from.
UnderLock(s) ==
    /\ OfSession(s) /\ KeptTrue(s) /\ ZipsHeld /\ ExportedWhole
    /\ \A t \in Sessions : Host[t] = Host[s]
    /\ \A h \in Hosts : Held(h) => h = Host[s]
    /\ \A t \in Sessions : \A o, p : Holds(s, o) /\ Holds(t, p) => t = s
    /\ \A t \in Sessions : \A p : LockFree(s) => ~Holds(t, p)
    /\ \A t \in Sessions : \A dir : Visible(s, t, dir)
    /\ \A z \in zips : z[1] \in Sessions /\ z[2] \in Dirs /\ z = <<z[1], z[2]>>

\* What the invariant says of one session, under one lock.
LEMMA UnpackKept ==
    ASSUME OneLock, KInv, NEW s \in Sessions
    PROVE  UnderLock(s)
<1>1. RInv /\ TypeOK
  BY DEF KInv, RInv
<1>2. OfSession(s)
  BY <1>1, Unpack
<1>3. KeptTrue(s) /\ ZipsHeld /\ ExportedWhole
  BY DEF KInv, MarkedOrEmpty
<1>4. \A z \in zips : z[1] \in Sessions /\ z[2] \in Dirs /\ z = <<z[1], z[2]>>
  BY <1>1, Pairs DEF TypeOK
<1>5. /\ \A h \in Hosts : Held(h) => h = Host[s]
      /\ \A t \in Sessions : Host[t] = Host[s]
      /\ \A t \in Sessions : \A o, p : Holds(s, o) /\ Holds(t, p) => t = s
      /\ \A t \in Sessions : \A p : LockFree(s) => ~Holds(t, p)
      /\ \A t \in Sessions : \A dir : Visible(s, t, dir)
  BY <1>1, OneHolder
<1>6. QED
  BY <1>2, <1>3, <1>4, <1>5 DEF UnderLock

LEMMA KeptStill ==
    ASSUME KInv, RInv',
           UNCHANGED <<disk, marker, zips, lock, pc, home, console, failing, lapsed>>
    PROVE  KInv'
<1>1. MarkedOrEmpty'
  BY DEF KInv, MarkedOrEmpty, KeptTrue, Marked, Empty, Holds, Alive
<1>2. Spares'
  BY DEF KInv, Spares, SpareTrue, Held, Renews, Marked, Alive
<1>3. ZipsHeld' /\ ExportedWhole'
  BY DEF KInv, ZipsHeld, ExportedWhole, Holds, Alive
<1>4. QED
  BY <1>1, <1>2, <1>3 DEF KInv

\* The holder of the lock reads, protects and prunes, in this order.
LEMMA ReadAdvances ==
    ASSUME RInv, NEW s \in Sessions, ReadReservations(s)
    PROVE  /\ Advances(s, "protect", Archive(s) + Reservations(s), {})
           /\ lock[Host[s]].step = "reserve"
<1>1. OfSession(s)
  BY Unpack
<1>2. Holds(s, {"admit", "fallback", "export"}) /\ Archive(s) + Reservations(s) \in Nat
      /\ {} \in SUBSET Sessions /\ lock[Host[s]].step = "reserve"
  BY <1>1, ReservationsType DEF ReadReservations, JobAt, OfSession, Archive
<1>3. QED
  BY <1>1, <1>2, AdvancesIt DEF ReadReservations, OfSession

LEMMA ProtectAdvances ==
    ASSUME RInv, NEW s \in Sessions, Protect(s)
    PROVE  /\ Advances(s, "prune", lock[Host[s]].reserved, Protected(s))
           /\ lock[Host[s]].step = "protect"
<1>1. OfSession(s)
  BY Unpack
<1>2. Holds(s, {"admit", "fallback", "export"}) /\ lock[Host[s]].reserved \in Nat
      /\ Protected(s) \in SUBSET Sessions /\ lock[Host[s]].step = "protect"
  BY <1>1, ProtectedType DEF Protect, JobAt, OfSession, Holds, Held
<1>3. QED
  BY <1>1, <1>2, AdvancesIt DEF Protect, OfSession

LEMMA PruneAdvances ==
    ASSUME RInv, NEW s \in Sessions, Prune(s)
    PROVE  /\ Advances(s, "check", lock[Host[s]].reserved, {})
           /\ lock[Host[s]].step = "prune"
<1>1. OfSession(s)
  BY Unpack
<1>2. Holds(s, {"admit", "fallback", "export"}) /\ lock[Host[s]].reserved \in Nat
      /\ {} \in SUBSET Sessions /\ lock[Host[s]].step = "prune"
  BY <1>1 DEF Prune, JobAt, OfSession, Holds, Held
<1>3. QED
  BY <1>1, <1>2, AdvancesIt DEF Prune, OfSession

LEMMA CreateKeeps ==
    ASSUME OneLock, KInv, NEW s \in Sessions, Create(s)
    PROVE  KInv'
<1>1. UnderLock(s) /\ OfSession(s) /\ DiskTyped /\ SessionTyped /\ LockTyped
  BY UnpackKept DEF UnderLock, OfSession
<1>2. RInv' /\ TypeOK' /\ Apart(s)
  BY CreateStep DEF KInv, RInv
<1>3. Shrinks(s)
  BY <1>1 DEF Create, Shrinks, DiskTyped, diskVars, sessionVars, pastVars
<1>4. KeptTrue(s)'
  BY <1>1 DEF UnderLock, OfSession, Create, Fault, KeptTrue, Marked, Empty, Holds, Alive,
     Gone, Steps, SessionTyped, diskVars, sessionVars, pastVars
<1>5. \A h \in Hosts : Held(h) => (Renews(s)' => Renews(s))
  BY <1>1 DEF UnderLock, OfSession, Create, Fault, Renews, KeptTrue, StartTrue, Blank,
     Marked, Alive, Gone, Steps, SessionTyped, Holds, diskVars, sessionVars, pastVars
<1>6. \A h \in Hosts : \/ lock'[h] = lock[h]
                         \/ lock'[h] = Free \/ lock'[h].step # "prune"
  BY DEF Create, diskVars, sessionVars, pastVars
<1>7. MarkedOrEmpty' /\ Spares'
  BY <1>2, <1>3, <1>4, <1>5, <1>6, OthersKept, OthersSpared
<1>8. ZipsHeld' /\ ExportedWhole'
  <2>1. /\ zips' = zips
        /\ Holds(s, {"export"})' <=> Holds(s, {"export"})
        /\ Alive(s)' => Alive(s) \/ pc[s] = "absent"
        /\ pc[s] # "absent" => pc'[s] # "absent"
    BY <1>1 DEF OfSession, Create, Fault, Holds, Alive, Gone, Steps, SessionTyped,
       diskVars, sessionVars, pastVars
  <2>2. QED
    BY <1>2, <2>1, ZipsStay
<1>9. QED
  BY <1>2, <1>7, <1>8 DEF KInv

LEMMA PublishKeeps ==
    ASSUME OneLock, KInv, NEW s \in Sessions, Publish(s)
    PROVE  KInv'
<1>1. UnderLock(s) /\ OfSession(s) /\ DiskTyped /\ SessionTyped /\ LockTyped
  BY UnpackKept DEF UnderLock, OfSession
<1>2. RInv' /\ TypeOK' /\ Apart(s)
  BY PublishStep DEF KInv, RInv
<1>3. Marks(s, FALSE, TRUE)
  BY <1>1, MarksIt DEF Publish, OfSession
<1>4. Shrinks(s)
  BY <1>1 DEF Publish, Shrinks, DiskTyped, diskVars, sessionVars, pastVars
<1>5. KeptTrue(s)'
  <2>1. Marked(s)' /\ pc'[s] \notin {"absent", "created"}
    BY <1>1, <1>3 DEF OfSession, Publish, Runs, Writes, Marks, Marked, Steps,
       SessionTyped, diskVars, sessionVars, pastVars
  <2>2. QED
    BY <2>1 DEF KeptTrue
<1>6. \A h \in Hosts : Held(h) => (Renews(s)' => Renews(s))
  BY <1>1 DEF UnderLock, Publish, LockFree, Held
<1>7. \A h \in Hosts : \/ lock'[h] = lock[h]
                         \/ lock'[h] = Free \/ lock'[h].step # "prune"
  BY DEF Publish, diskVars, sessionVars, pastVars
<1>8. MarkedOrEmpty' /\ Spares'
  BY <1>2, <1>4, <1>5, <1>6, <1>7, OthersKept, OthersSpared
<1>9. ZipsHeld' /\ ExportedWhole'
  <2>1. /\ zips' = zips
        /\ Holds(s, {"export"})' <=> Holds(s, {"export"})
        /\ Alive(s)' => Alive(s) \/ pc[s] = "absent"
        /\ pc[s] # "absent" => pc'[s] # "absent"
    BY <1>1 DEF OfSession, Publish, Runs, LockFree, Holds, Alive, Gone, Steps,
       SessionTyped, diskVars, sessionVars, pastVars
  <2>2. QED
    BY <1>2, <2>1, ZipsStay
<1>10. QED
  BY <1>2, <1>8, <1>9 DEF KInv

LEMMA PublishFailsKeeps ==
    ASSUME OneLock, KInv, NEW s \in Sessions, PublishFails(s)
    PROVE  KInv'
<1>1. UnderLock(s) /\ OfSession(s) /\ DiskTyped /\ SessionTyped /\ LockTyped
  BY UnpackKept DEF UnderLock, OfSession
<1>2. RInv' /\ TypeOK' /\ Apart(s)
  BY PublishFailsStep DEF KInv, RInv
<1>3. Shrinks(s)
  BY <1>1 DEF PublishFails, Shrinks, DiskTyped, diskVars, sessionVars, pastVars
<1>4. KeptTrue(s)'
  BY <1>1 DEF UnderLock, OfSession, PublishFails, Runs, Fault, KeptTrue, Marked, Empty,
     Holds, Alive, Gone, Steps, SessionTyped, diskVars, sessionVars, pastVars
<1>5. \A h \in Hosts : Held(h) => (Renews(s)' => Renews(s))
  BY <1>1 DEF UnderLock, OfSession, PublishFails, Runs, Fault, Renews, KeptTrue,
     StartTrue, Blank, Marked, Alive, Gone, Steps, SessionTyped, Holds, diskVars,
     sessionVars, pastVars
<1>6. \A h \in Hosts : \/ lock'[h] = lock[h]
                         \/ lock'[h] = Free \/ lock'[h].step # "prune"
  BY DEF PublishFails, diskVars, sessionVars, pastVars
<1>7. MarkedOrEmpty' /\ Spares'
  BY <1>2, <1>3, <1>4, <1>5, <1>6, OthersKept, OthersSpared
<1>8. ZipsHeld' /\ ExportedWhole'
  <2>1. /\ zips' = zips
        /\ Holds(s, {"export"})' <=> Holds(s, {"export"})
        /\ Alive(s)' => Alive(s) \/ pc[s] = "absent"
        /\ pc[s] # "absent" => pc'[s] # "absent"
    BY <1>1 DEF OfSession, PublishFails, Runs, Fault, Holds, Alive, Gone, Steps,
       SessionTyped, diskVars, sessionVars, pastVars
  <2>2. QED
    BY <1>2, <2>1, ZipsStay
<1>9. QED
  BY <1>2, <1>7, <1>8 DEF KInv

LEMMA ListMarkersKeeps ==
    ASSUME OneLock, KInv, NEW s \in Sessions, ListMarkers(s)
    PROVE  KInv'
<1>1. UnderLock(s) /\ OfSession(s) /\ DiskTyped /\ SessionTyped /\ LockTyped
  BY UnpackKept DEF UnderLock, OfSession
<1>2. RInv' /\ TypeOK' /\ Apart(s)
  BY ListMarkersStep DEF KInv, RInv
<1>3. Shrinks(s)
  BY <1>1 DEF ListMarkers, Shrinks, DiskTyped, diskVars, sessionVars, pastVars
<1>4. KeptTrue(s)'
  BY <1>1 DEF UnderLock, OfSession, ListMarkers, Runs, KeptTrue, Marked, Empty, Holds,
     Alive, Gone, Steps, SessionTyped, diskVars, sessionVars, pastVars
<1>5. \A h \in Hosts : Held(h) => (Renews(s)' => Renews(s))
  BY <1>1 DEF UnderLock, OfSession, ListMarkers, Runs, Renews, KeptTrue, StartTrue,
     Blank, Marked, Alive, Gone, Steps, SessionTyped, Holds, diskVars, sessionVars,
     pastVars
<1>6. \A h \in Hosts : \/ lock'[h] = lock[h]
                         \/ lock'[h] = Free \/ lock'[h].step # "prune"
  BY DEF ListMarkers, diskVars, sessionVars, pastVars
<1>7. MarkedOrEmpty' /\ Spares'
  BY <1>2, <1>3, <1>4, <1>5, <1>6, OthersKept, OthersSpared
<1>8. ZipsHeld' /\ ExportedWhole'
  <2>1. /\ zips' = zips
        /\ Holds(s, {"export"})' <=> Holds(s, {"export"})
        /\ Alive(s)' => Alive(s) \/ pc[s] = "absent"
        /\ pc[s] # "absent" => pc'[s] # "absent"
    BY <1>1 DEF OfSession, ListMarkers, Runs, Holds, Alive, Gone, Steps, SessionTyped,
       diskVars, sessionVars, pastVars
  <2>2. QED
    BY <1>2, <2>1, ZipsStay
<1>9. QED
  BY <1>2, <1>7, <1>8 DEF KInv

LEMMA EndReportsKeeps ==
    ASSUME OneLock, KInv, NEW s \in Sessions, EndReports(s)
    PROVE  KInv'
<1>1. UnderLock(s) /\ OfSession(s) /\ DiskTyped /\ SessionTyped /\ LockTyped
  BY UnpackKept DEF UnderLock, OfSession
<1>2. RInv' /\ TypeOK' /\ Apart(s)
  BY EndReportsStep DEF KInv, RInv
<1>3. Shrinks(s)
  BY <1>1 DEF EndReports, Shrinks, DiskTyped, diskVars, sessionVars, pastVars
<1>4. KeptTrue(s)'
  BY <1>1 DEF UnderLock, OfSession, EndReports, Runs, KeptTrue, Marked, Empty, Holds,
     Alive, Gone, Steps, SessionTyped, diskVars, sessionVars, pastVars
<1>5. \A h \in Hosts : Held(h) => (Renews(s)' => Renews(s))
  BY <1>1 DEF UnderLock, OfSession, EndReports, Runs, Renews, KeptTrue, StartTrue, Blank,
     Marked, Alive, Gone, Steps, SessionTyped, Holds, diskVars, sessionVars, pastVars
<1>6. \A h \in Hosts : \/ lock'[h] = lock[h]
                         \/ lock'[h] = Free \/ lock'[h].step # "prune"
  BY DEF EndReports, diskVars, sessionVars, pastVars
<1>7. MarkedOrEmpty' /\ Spares'
  BY <1>2, <1>3, <1>4, <1>5, <1>6, OthersKept, OthersSpared
<1>8. ZipsHeld' /\ ExportedWhole'
  <2>1. /\ zips' = zips
        /\ Holds(s, {"export"})' <=> Holds(s, {"export"})
        /\ Alive(s)' => Alive(s) \/ pc[s] = "absent"
        /\ pc[s] # "absent" => pc'[s] # "absent"
    BY <1>1 DEF OfSession, EndReports, Runs, Holds, Alive, Gone, Steps, SessionTyped,
       diskVars, sessionVars, pastVars
  <2>2. QED
    BY <1>2, <2>1, ZipsStay
<1>9. QED
  BY <1>2, <1>7, <1>8 DEF KInv

LEMMA CleanKeeps ==
    ASSUME OneLock, KInv, NEW s \in Sessions, Clean(s)
    PROVE  KInv'
<1>1. UnderLock(s) /\ OfSession(s) /\ DiskTyped /\ SessionTyped /\ LockTyped
  BY UnpackKept DEF UnderLock, OfSession
<1>2. RInv' /\ TypeOK' /\ Apart(s)
  BY CleanStep DEF KInv, RInv
<1>3. Shrinks(s)
  BY <1>1 DEF Clean, Shrinks, DiskTyped, diskVars, sessionVars, pastVars
<1>4. KeptTrue(s)'
  BY <1>1 DEF UnderLock, OfSession, Clean, Runs, LockFree, KeptTrue, Marked, Empty,
     Holds, Alive, Gone, Steps, SessionTyped, diskVars, sessionVars, pastVars
<1>5. \A h \in Hosts : Held(h) => (Renews(s)' => Renews(s))
  BY <1>1 DEF UnderLock, OfSession, Clean, Runs, LockFree, Renews, KeptTrue, StartTrue,
     Blank, Marked, Alive, Gone, Steps, SessionTyped, Holds, diskVars, sessionVars,
     pastVars
<1>6. \A h \in Hosts : \/ lock'[h] = lock[h]
                         \/ lock'[h] = Free \/ lock'[h].step # "prune"
  BY DEF Clean, diskVars, sessionVars, pastVars
<1>7. MarkedOrEmpty' /\ Spares'
  BY <1>2, <1>3, <1>4, <1>5, <1>6, OthersKept, OthersSpared
<1>8. ZipsHeld' /\ ExportedWhole'
  <2>1. CASE console[s]
    <3>1. /\ zips' = zips
          /\ Holds(s, {"export"})' <=> Holds(s, {"export"})
          /\ Alive(s)' => Alive(s) \/ pc[s] = "absent"
          /\ pc[s] # "absent" => pc'[s] # "absent"
      BY <1>1, <2>1 DEF OfSession, Clean, Runs, Holds, Alive, Gone, Steps, SessionTyped
    <3>2. QED
      BY <1>2, <3>1, ZipsStay
  <2>2. CASE ~console[s]
    <3>1. zips' = {} /\ lock' = lock
      BY <1>1, <2>2 DEF UnderLock, Clean
    <3>2. \A t \in Sessions : ~Holds(t, {"export"})'
      BY <1>1, <2>2, <3>1 DEF UnderLock, Clean, Holds
    <3>3. QED
      BY <3>1, <3>2 DEF ZipsHeld, ExportedWhole
  <2>3. QED
    BY <2>1, <2>2
<1>9. QED
  BY <1>2, <1>7, <1>8 DEF KInv

LEMMA BeginAdmissionKeeps ==
    ASSUME OneLock, KInv, NEW s \in Sessions, BeginAdmission(s)
    PROVE  KInv'
<1>1. UnderLock(s) /\ OfSession(s) /\ DiskTyped /\ SessionTyped /\ LockTyped
  BY UnpackKept DEF UnderLock, OfSession
<1>2. RInv' /\ TypeOK' /\ Apart(s)
  BY BeginAdmissionStep DEF KInv, RInv
<1>3. Marks(s, FALSE, TRUE)
  BY <1>1, MarksIt DEF BeginAdmission, OfSession, Renewed
<1>4. Shrinks(s)
  BY <1>1 DEF BeginAdmission, Shrinks, DiskTyped, diskVars, sessionVars, pastVars
<1>5. KeptTrue(s)'
  <2>1. Marked(s)' /\ pc'[s] \notin {"absent", "created"}
    BY <1>1, <1>3 DEF OfSession, BeginAdmission, Runs, Writes, Marks, Marked, Steps,
       SessionTyped, diskVars, sessionVars, pastVars
  <2>2. QED
    BY <2>1 DEF KeptTrue
<1>6. \A h \in Hosts : Held(h) => (Renews(s)' => Renews(s))
  BY <1>1 DEF UnderLock, BeginAdmission, LockFree, Held
<1>7. \A h \in Hosts : \/ lock'[h] = lock[h]
                         \/ lock'[h] = Free \/ lock'[h].step # "prune"
  BY <1>1, TakesIt DEF OfSession, BeginAdmission, Takes
<1>8. MarkedOrEmpty' /\ Spares'
  BY <1>2, <1>4, <1>5, <1>6, <1>7, OthersKept, OthersSpared
<1>9. ZipsHeld' /\ ExportedWhole'
  <2>1. Takes(s, "admit")
    BY <1>1, TakesIt DEF BeginAdmission, OfSession
  <2>2. \A t \in Sessions : ~Holds(t, {"export"})
    BY <1>1 DEF UnderLock, BeginAdmission
  <2>3. zips' = zips /\ UNCHANGED <<pc>>
    BY DEF BeginAdmission, diskVars, sessionVars, pastVars
  <2>4. \A z \in zips : ~Alive(z[1])
    BY <1>1, <2>2 DEF UnderLock, ZipsHeld
  <2>5. ZipsHeld'
    BY <1>1, <2>3, <2>4 DEF UnderLock, ZipsHeld, Alive
  <2>6. \A t \in Sessions : ~Holds(t, {"export"})'
    BY <1>1, <2>1, <2>2 DEF UnderLock, Takes, Holds
  <2>7. QED
    BY <2>5, <2>6 DEF ExportedWhole
<1>10. QED
  BY <1>2, <1>8, <1>9 DEF KInv

LEMMA StartOnConsoleKeeps ==
    ASSUME OneLock, KInv, NEW s \in Sessions, StartOnConsole(s)
    PROVE  KInv'
<1>1. UnderLock(s) /\ OfSession(s) /\ DiskTyped /\ SessionTyped /\ LockTyped
  BY UnpackKept DEF UnderLock, OfSession
<1>2. RInv' /\ TypeOK' /\ Apart(s)
  BY StartOnConsoleStep DEF KInv, RInv
<1>3. Shrinks(s)
  BY <1>1 DEF StartOnConsole, Shrinks, DiskTyped, diskVars, sessionVars, pastVars
<1>4. KeptTrue(s)'
  BY <1>1 DEF UnderLock, OfSession, StartOnConsole, Runs, KeptTrue, Marked, Empty, Holds,
     Alive, Gone, Steps, SessionTyped, diskVars, sessionVars, pastVars
<1>5. \A h \in Hosts : Held(h) => (Renews(s)' => Renews(s))
  BY <1>1 DEF UnderLock, OfSession, StartOnConsole, Runs, Renews, KeptTrue, StartTrue,
     Blank, Marked, Alive, Gone, Steps, SessionTyped, Holds, diskVars, sessionVars,
     pastVars
<1>6. \A h \in Hosts : \/ lock'[h] = lock[h]
                         \/ lock'[h] = Free \/ lock'[h].step # "prune"
  BY DEF StartOnConsole, diskVars, sessionVars, pastVars
<1>7. MarkedOrEmpty' /\ Spares'
  BY <1>2, <1>3, <1>4, <1>5, <1>6, OthersKept, OthersSpared
<1>8. ZipsHeld' /\ ExportedWhole'
  <2>1. /\ zips' = zips
        /\ Holds(s, {"export"})' <=> Holds(s, {"export"})
        /\ Alive(s)' => Alive(s) \/ pc[s] = "absent"
        /\ pc[s] # "absent" => pc'[s] # "absent"
    BY <1>1 DEF OfSession, StartOnConsole, Runs, Holds, Alive, Gone, Steps, SessionTyped,
       diskVars, sessionVars, pastVars
  <2>2. QED
    BY <1>2, <2>1, ZipsStay
<1>9. QED
  BY <1>2, <1>7, <1>8 DEF KInv

LEMMA AdmissionTimesOutKeeps ==
    ASSUME OneLock, KInv, NEW s \in Sessions, AdmissionTimesOut(s)
    PROVE  KInv'
<1>1. UnderLock(s) /\ OfSession(s) /\ DiskTyped /\ SessionTyped /\ LockTyped
  BY UnpackKept DEF UnderLock, OfSession
<1>2. RInv' /\ TypeOK' /\ Apart(s)
  BY AdmissionTimesOutStep DEF KInv, RInv
<1>3. Marks(s, TRUE, FALSE)
  BY <1>1, MarksIt DEF AdmissionTimesOut, OfSession
<1>4. Shrinks(s)
  BY <1>1 DEF AdmissionTimesOut, Shrinks, DiskTyped, diskVars, sessionVars, pastVars
<1>5. KeptTrue(s)'
  BY <1>1 DEF UnderLock, OfSession, AdmissionTimesOut, Runs, LockFree, Fault, KeptTrue,
     Marked, Empty, Holds, Alive, Gone, Steps, SessionTyped, diskVars, sessionVars,
     pastVars
<1>6. \A h \in Hosts : Held(h) => (Renews(s)' => Renews(s))
  BY <1>1 DEF UnderLock, OfSession, AdmissionTimesOut, Runs, LockFree, Fault, Renews,
     KeptTrue, StartTrue, Blank, Marked, Alive, Gone, Steps, SessionTyped, Holds,
     diskVars, sessionVars, pastVars
<1>7. \A h \in Hosts : \/ lock'[h] = lock[h]
                         \/ lock'[h] = Free \/ lock'[h].step # "prune"
  BY DEF AdmissionTimesOut, diskVars, sessionVars, pastVars
<1>8. MarkedOrEmpty' /\ Spares'
  BY <1>2, <1>4, <1>5, <1>6, <1>7, OthersKept, OthersSpared
<1>9. ZipsHeld' /\ ExportedWhole'
  <2>1. /\ zips' = zips
        /\ Holds(s, {"export"})' <=> Holds(s, {"export"})
        /\ Alive(s)' => Alive(s) \/ pc[s] = "absent"
        /\ pc[s] # "absent" => pc'[s] # "absent"
    BY <1>1 DEF OfSession, AdmissionTimesOut, Runs, LockFree, Fault, Holds, Alive, Gone,
       Steps, SessionTyped, diskVars, sessionVars, pastVars
  <2>2. QED
    BY <1>2, <2>1, ZipsStay
<1>10. QED
  BY <1>2, <1>8, <1>9 DEF KInv

LEMMA AppendKeeps ==
    ASSUME OneLock, KInv, NEW s \in Sessions, Append(s)
    PROVE  KInv'
<1>1. UnderLock(s) /\ OfSession(s) /\ DiskTyped /\ SessionTyped /\ LockTyped
  BY UnpackKept DEF UnderLock, OfSession
<1>2. RInv' /\ TypeOK' /\ Apart(s)
  BY AppendStep DEF KInv, RInv
<1>3. Shrinks(s)
  BY <1>1 DEF UnderLock, OfSession, Append, Writes, Grown, Shrinks, DiskTyped, diskVars,
     sessionVars, pastVars
<1>4. KeptTrue(s)'
  BY <1>1 DEF UnderLock, OfSession, Append, Writes, Grown, KeptTrue, Marked, Empty,
     Holds, Alive, Gone, Steps, SessionTyped, diskVars, sessionVars, pastVars
<1>5. \A h \in Hosts : Held(h) => (Renews(s)' => Renews(s))
  BY <1>1 DEF Append, Renews, Marked, Alive, diskVars, sessionVars, pastVars
<1>6. \A h \in Hosts : \/ lock'[h] = lock[h]
                         \/ lock'[h] = Free \/ lock'[h].step # "prune"
  BY DEF Append, diskVars, sessionVars, pastVars
<1>7. MarkedOrEmpty' /\ Spares'
  BY <1>2, <1>3, <1>4, <1>5, <1>6, OthersKept, OthersSpared
<1>8. ZipsHeld' /\ ExportedWhole'
  <2>1. /\ zips' = zips
        /\ Holds(s, {"export"})' <=> Holds(s, {"export"})
        /\ Alive(s)' => Alive(s) \/ pc[s] = "absent"
        /\ pc[s] # "absent" => pc'[s] # "absent"
    BY <1>1 DEF OfSession, Append, Writes, Grown, Holds, Alive, Gone, Steps,
       SessionTyped, diskVars, sessionVars, pastVars
  <2>2. QED
    BY <1>2, <2>1, ZipsStay
<1>9. QED
  BY <1>2, <1>7, <1>8 DEF KInv

LEMMA RefreshKeeps ==
    ASSUME OneLock, KInv, NEW s \in Sessions, Refresh(s)
    PROVE  KInv'
<1>1. UnderLock(s) /\ OfSession(s) /\ DiskTyped /\ SessionTyped /\ LockTyped
  BY UnpackKept DEF UnderLock, OfSession
<1>2. RInv' /\ TypeOK' /\ Apart(s)
  BY RefreshStep DEF KInv, RInv
<1>3. Marks(s, FALSE, TRUE)
  BY <1>1, MarksIt DEF Refresh, OfSession, Renewed, Writes
<1>4. Shrinks(s)
  BY <1>1 DEF Refresh, Shrinks, DiskTyped, diskVars, sessionVars, pastVars
<1>5. KeptTrue(s)'
  <2>1. Marked(s)' /\ pc'[s] \notin {"absent", "created"}
    BY <1>1, <1>3 DEF OfSession, Refresh, Runs, Writes, Marks, Marked, Steps,
       SessionTyped, diskVars, sessionVars, pastVars
  <2>2. QED
    BY <2>1 DEF KeptTrue
<1>6. \A h \in Hosts : Held(h) => (Renews(s)' => Renews(s))
  BY <1>1 DEF UnderLock, OfSession, Refresh, Writes, Renewed, Renews, KeptTrue,
     StartTrue, Blank, Marked, Alive, Gone, Steps, SessionTyped, Holds, diskVars,
     sessionVars, pastVars
<1>7. \A h \in Hosts : \/ lock'[h] = lock[h]
                         \/ lock'[h] = Free \/ lock'[h].step # "prune"
  BY DEF Refresh, diskVars, sessionVars, pastVars
<1>8. MarkedOrEmpty' /\ Spares'
  BY <1>2, <1>4, <1>5, <1>6, <1>7, OthersKept, OthersSpared
<1>9. ZipsHeld' /\ ExportedWhole'
  <2>1. /\ zips' = zips
        /\ Holds(s, {"export"})' <=> Holds(s, {"export"})
        /\ Alive(s)' => Alive(s) \/ pc[s] = "absent"
        /\ pc[s] # "absent" => pc'[s] # "absent"
    BY <1>1 DEF OfSession, Refresh, Writes, Renewed, Holds, Alive, Gone, Steps,
       SessionTyped, diskVars, sessionVars, pastVars
  <2>2. QED
    BY <1>2, <2>1, ZipsStay
<1>10. QED
  BY <1>2, <1>8, <1>9 DEF KInv

LEMMA WriteFailsKeeps ==
    ASSUME OneLock, KInv, NEW s \in Sessions, WriteFails(s)
    PROVE  KInv'
<1>1. UnderLock(s) /\ OfSession(s) /\ DiskTyped /\ SessionTyped /\ LockTyped
  BY UnpackKept DEF UnderLock, OfSession
<1>2. RInv' /\ TypeOK' /\ Apart(s)
  BY WriteFailsStep DEF KInv, RInv
<1>3. Shrinks(s)
  BY <1>1 DEF WriteFails, Shrinks, DiskTyped, diskVars, sessionVars, pastVars
<1>4. KeptTrue(s)'
  BY <1>1 DEF UnderLock, OfSession, WriteFails, Writes, Fault, KeptTrue, Marked, Empty,
     Holds, Alive, Gone, Steps, SessionTyped, diskVars, sessionVars, pastVars
<1>5. \A h \in Hosts : Held(h) => (Renews(s)' => Renews(s))
  BY <1>1 DEF UnderLock, OfSession, WriteFails, Writes, Fault, Renews, KeptTrue,
     StartTrue, Blank, Marked, Alive, Gone, Steps, SessionTyped, Holds, diskVars,
     sessionVars, pastVars
<1>6. \A h \in Hosts : \/ lock'[h] = lock[h]
                         \/ lock'[h] = Free \/ lock'[h].step # "prune"
  BY DEF WriteFails, diskVars, sessionVars, pastVars
<1>7. MarkedOrEmpty' /\ Spares'
  BY <1>2, <1>3, <1>4, <1>5, <1>6, OthersKept, OthersSpared
<1>8. ZipsHeld' /\ ExportedWhole'
  <2>1. /\ zips' = zips
        /\ Holds(s, {"export"})' <=> Holds(s, {"export"})
        /\ Alive(s)' => Alive(s) \/ pc[s] = "absent"
        /\ pc[s] # "absent" => pc'[s] # "absent"
    BY <1>1 DEF OfSession, WriteFails, Writes, Fault, Holds, Alive, Gone, Steps,
       SessionTyped, diskVars, sessionVars, pastVars
  <2>2. QED
    BY <1>2, <2>1, ZipsStay
<1>9. QED
  BY <1>2, <1>7, <1>8 DEF KInv

LEMMA BeginFallbackKeeps ==
    ASSUME OneLock, KInv, NEW s \in Sessions, BeginFallback(s)
    PROVE  KInv'
<1>1. UnderLock(s) /\ OfSession(s) /\ DiskTyped /\ SessionTyped /\ LockTyped
  BY UnpackKept DEF UnderLock, OfSession
<1>2. RInv' /\ TypeOK' /\ Apart(s)
  BY BeginFallbackStep DEF KInv, RInv
<1>3. Shrinks(s)
  BY <1>1 DEF BeginFallback, Shrinks, DiskTyped, diskVars, sessionVars, pastVars
<1>4. KeptTrue(s)'
  <2>1. marker'[<<s, "temporary">>] # NoMarker
        /\ marker'[<<s, "temporary">>].active /\ marker'[<<s, "temporary">>].fresh
    <3>1. PICK m : m = [clean |-> FALSE, active |-> TRUE, fresh |-> TRUE,
                        reserved |-> Quota - disk[<<s, "temporary", "log">>]]
      OBVIOUS
    <3>2. m \in Marker
      <4>1. disk[<<s, "temporary", "log">>] \in 0 .. Quota
        BY <1>1 DEF OfSession, DiskTyped, Dirs
      <4>2. Quota - disk[<<s, "temporary", "log">>] \in 0 .. Quota
        BY <4>1, QuotaFacts
      <4>3. QED
        BY <3>1, <4>2 DEF Marker
    <3>3. m # NoMarker /\ m.active /\ m.fresh
      BY <3>1, <3>2, SentinelAssumption
    <3>4. marker'[<<s, "temporary">>] = m
      BY <1>1, <3>1 DEF OfSession, DiskTyped, Dirs, BeginFallback
    <3>5. QED
      BY <3>3, <3>4
  <2>2. Marked(s)'
    BY <2>1 DEF Marked, Dirs
  <2>3. pc'[s] \notin {"absent", "created"}
    BY <1>1 DEF OfSession, BeginFallback, StartTrue
  <2>4. QED
    BY <2>2, <2>3 DEF KeptTrue
<1>5. \A h \in Hosts : Held(h) => (Renews(s)' => Renews(s))
  BY <1>1 DEF UnderLock, BeginFallback, LockFree, Held
<1>6. \A h \in Hosts : \/ lock'[h] = lock[h]
                         \/ lock'[h] = Free \/ lock'[h].step # "prune"
  BY <1>1, TakesIt DEF OfSession, BeginFallback, Takes
<1>7. MarkedOrEmpty' /\ Spares'
  BY <1>2, <1>3, <1>4, <1>5, <1>6, OthersKept, OthersSpared
<1>8. ZipsHeld' /\ ExportedWhole'
  <2>1. Takes(s, "fallback")
    BY <1>1, TakesIt DEF BeginFallback, OfSession
  <2>2. \A t \in Sessions : ~Holds(t, {"export"})
    BY <1>1 DEF UnderLock, BeginFallback
  <2>3. zips' = zips /\ UNCHANGED <<pc>>
    BY DEF BeginFallback, diskVars, sessionVars, pastVars
  <2>4. \A z \in zips : ~Alive(z[1])
    BY <1>1, <2>2 DEF UnderLock, ZipsHeld
  <2>5. ZipsHeld'
    BY <1>1, <2>3, <2>4 DEF UnderLock, ZipsHeld, Alive
  <2>6. \A t \in Sessions : ~Holds(t, {"export"})'
    BY <1>1, <2>1, <2>2 DEF UnderLock, Takes, Holds
  <2>7. QED
    BY <2>5, <2>6 DEF ExportedWhole
<1>9. QED
  BY <1>2, <1>7, <1>8 DEF KInv

LEMMA FallbackFailsKeeps ==
    ASSUME OneLock, KInv, NEW s \in Sessions, FallbackFails(s)
    PROVE  KInv'
<1>1. UnderLock(s) /\ OfSession(s) /\ DiskTyped /\ SessionTyped /\ LockTyped
  BY UnpackKept DEF UnderLock, OfSession
<1>2. RInv' /\ TypeOK' /\ Apart(s)
  BY FallbackFailsStep DEF KInv, RInv
<1>3. Shrinks(s)
  BY <1>1 DEF FallbackFails, Shrinks, DiskTyped, diskVars, sessionVars, pastVars
<1>4. KeptTrue(s)'
  BY <1>1 DEF UnderLock, OfSession, FallbackFails, LockFree, KeptTrue, Marked, Empty,
     Holds, Alive, Gone, Steps, SessionTyped, diskVars, sessionVars, pastVars
<1>5. \A h \in Hosts : Held(h) => (Renews(s)' => Renews(s))
  BY <1>1 DEF UnderLock, OfSession, FallbackFails, LockFree, Renews, KeptTrue, StartTrue,
     Blank, Marked, Alive, Gone, Steps, SessionTyped, Holds, diskVars, sessionVars,
     pastVars
<1>6. \A h \in Hosts : \/ lock'[h] = lock[h]
                         \/ lock'[h] = Free \/ lock'[h].step # "prune"
  BY DEF FallbackFails, diskVars, sessionVars, pastVars
<1>7. MarkedOrEmpty' /\ Spares'
  BY <1>2, <1>3, <1>4, <1>5, <1>6, OthersKept, OthersSpared
<1>8. ZipsHeld' /\ ExportedWhole'
  <2>1. /\ zips' = zips
        /\ Holds(s, {"export"})' <=> Holds(s, {"export"})
        /\ Alive(s)' => Alive(s) \/ pc[s] = "absent"
        /\ pc[s] # "absent" => pc'[s] # "absent"
    BY <1>1 DEF OfSession, FallbackFails, LockFree, Holds, Alive, Gone, Steps,
       SessionTyped, diskVars, sessionVars, pastVars
  <2>2. QED
    BY <1>2, <2>1, ZipsStay
<1>9. QED
  BY <1>2, <1>7, <1>8 DEF KInv

LEMMA BeginExportKeeps ==
    ASSUME OneLock, KInv, NEW s \in Sessions, BeginExport(s)
    PROVE  KInv'
<1>1. UnderLock(s) /\ OfSession(s) /\ DiskTyped /\ SessionTyped /\ LockTyped
  BY UnpackKept DEF UnderLock, OfSession
<1>2. RInv' /\ TypeOK' /\ Apart(s)
  BY BeginExportStep DEF KInv, RInv
<1>3. Marks(s, FALSE, TRUE) \/ (console[s] /\ marker' = marker)
  <2>1. CASE console[s]
    BY <2>1 DEF BeginExport, Renewed
  <2>2. CASE ~console[s]
    BY <1>1, <2>2, MarksIt DEF BeginExport, OfSession, Renewed
  <2>3. QED
    BY <2>1, <2>2
<1>4. Shrinks(s)
  BY <1>1 DEF BeginExport, Shrinks, DiskTyped, diskVars, sessionVars, pastVars
<1>5. KeptTrue(s)'
  <2>1. Marked(s)' \/ console'[s]
    BY <1>1, <1>3 DEF OfSession, BeginExport, Marks, Marked, sessionVars
  <2>2. pc'[s] = "running"
    BY DEF BeginExport, sessionVars
  <2>3. QED
    BY <2>1, <2>2 DEF KeptTrue
<1>6. \A h \in Hosts : Held(h) => (Renews(s)' => Renews(s))
  BY <1>1 DEF UnderLock, BeginExport, LockFree, Held
<1>7. \A h \in Hosts : \/ lock'[h] = lock[h]
                         \/ lock'[h] = Free \/ lock'[h].step # "prune"
  BY <1>1, TakesIt DEF OfSession, BeginExport, Takes
<1>8. MarkedOrEmpty' /\ Spares'
  BY <1>2, <1>4, <1>5, <1>6, <1>7, OthersKept, OthersSpared
<1>9. ZipsHeld' /\ ExportedWhole'
  <2>1. Takes(s, "export")
    BY <1>1, TakesIt DEF BeginExport, OfSession
  <2>2. \A t \in Sessions : ~Holds(t, {"export"})
    BY <1>1 DEF UnderLock, BeginExport
  <2>3. zips' = zips \cup {<<s, home[s]>>} /\ pc' = pc /\ pc[s] = "running"
    BY DEF BeginExport, sessionVars
  <2>4. \A z \in zips : ~Alive(z[1])
    BY <1>1, <2>2 DEF UnderLock, ZipsHeld
  <2>5. Alive(s)
    BY <2>3 DEF Alive, Gone
  <2>6. Holds(s, {"export"})'
    BY <2>1 DEF Takes, Holds
  <2>7. ZipsHeld'
    <3>1. SUFFICES ASSUME NEW z \in zips'
                   PROVE  /\ pc'[z[1]] # "absent"
                          /\ Alive(z[1])' => Holds(z[1], {"export"})'
                          /\ \A y \in zips' : y[1] = z[1] => y = z
      BY DEF ZipsHeld
    <3>2. CASE z \in zips
      BY <1>1, <2>3, <2>4, <2>5, <3>2 DEF UnderLock, ZipsHeld, Alive
    <3>3. CASE z = <<s, home[s]>>
      BY <2>3, <2>4, <2>5, <2>6, <3>3
    <3>4. QED
      BY <2>3, <3>2, <3>3
  <2>8. ExportedWhole'
    <3>1. \A t \in Sessions : Holds(t, {"export"})' => t = s
      BY <1>1, <2>1, <2>2 DEF UnderLock, Takes, Holds
    <3>2. QED
      BY <1>1, <2>3, <3>1 DEF OfSession, ExportedWhole
  <2>9. QED
    BY <2>7, <2>8
<1>10. QED
  BY <1>2, <1>8, <1>9 DEF KInv

LEMMA ExportFailsKeeps ==
    ASSUME OneLock, KInv, NEW s \in Sessions, ExportFails(s)
    PROVE  KInv'
<1>1. UnderLock(s) /\ OfSession(s) /\ DiskTyped /\ SessionTyped /\ LockTyped
  BY UnpackKept DEF UnderLock, OfSession
<1>2. RInv' /\ TypeOK' /\ Apart(s)
  BY ExportFailsStep DEF KInv, RInv
<1>3. Shrinks(s)
  BY <1>1 DEF ExportFails, Shrinks, DiskTyped, diskVars, sessionVars, pastVars
<1>4. KeptTrue(s)'
  BY <1>1 DEF UnderLock, OfSession, ExportFails, Fault, LockFree, KeptTrue, Marked,
     Empty, Holds, Alive, Gone, Steps, SessionTyped, diskVars, sessionVars, pastVars
<1>5. \A h \in Hosts : Held(h) => (Renews(s)' => Renews(s))
  BY <1>1 DEF ExportFails, Renews, Marked, Alive, diskVars, sessionVars, pastVars
<1>6. \A h \in Hosts : \/ lock'[h] = lock[h]
                         \/ lock'[h] = Free \/ lock'[h].step # "prune"
  BY <1>1, ReleasedFacts DEF OfSession, ExportFails
<1>7. MarkedOrEmpty' /\ Spares'
  BY <1>2, <1>3, <1>4, <1>5, <1>6, OthersKept, OthersSpared
<1>8. ZipsHeld' /\ ExportedWhole'
  <2>1. CASE /\ Holds(s, {"export"}) /\ lock' = Released(s)
             /\ zips' = {z \in zips : z[1] # s}
    <3>1. \A t \in Sessions : Holds(t, {"export"}) => t = s
      BY <1>1, <2>1 DEF UnderLock
    <3>2. \A t \in Sessions : ~Holds(t, {"export"})'
      BY <1>1, <2>1, ReleasedFacts DEF UnderLock, OfSession, Holds
    <3>3. \A z \in zips' : ~Alive(z[1])
      BY <1>1, <2>1, <3>1 DEF UnderLock, ZipsHeld
    <3>4. pc' = pc
      BY DEF ExportFails
    <3>5. ZipsHeld'
      BY <1>1, <2>1, <3>3, <3>4 DEF UnderLock, ZipsHeld, Alive
    <3>6. QED
      BY <3>2, <3>5 DEF ExportedWhole
  <2>2. CASE UNCHANGED <<lock, zips>>
    <3>1. /\ zips' = zips
          /\ Holds(s, {"export"})' <=> Holds(s, {"export"})
          /\ Alive(s)' => Alive(s) \/ pc[s] = "absent"
          /\ pc[s] # "absent" => pc'[s] # "absent"
      BY <2>2 DEF ExportFails, Holds, Alive
    <3>2. QED
      BY <1>2, <3>1, ZipsStay
  <2>3. QED
    BY <2>1, <2>2 DEF ExportFails
<1>9. QED
  BY <1>2, <1>7, <1>8 DEF KInv

LEMMA ReadReservationsKeeps ==
    ASSUME OneLock, KInv, NEW s \in Sessions, ReadReservations(s)
    PROVE  KInv'
<1>1. UnderLock(s) /\ OfSession(s) /\ DiskTyped /\ SessionTyped /\ LockTyped
  BY UnpackKept DEF UnderLock, OfSession
<1>2. RInv' /\ TypeOK' /\ Apart(s)
  BY ReadReservationsStep DEF KInv, RInv
<1>3. Advances(s, "protect", Archive(s) + Reservations(s), {})
  BY ReadAdvances DEF KInv
<1>4. Shrinks(s)
  BY <1>1 DEF ReadReservations, Shrinks, DiskTyped, diskVars, sessionVars, pastVars
<1>5. KeptTrue(s)'
  <2>1. Holds(s, {"fallback"})' <=> Holds(s, {"fallback"})
    BY <1>3 DEF Advances, Holds
  <2>2. QED
    BY <1>1, <2>1 DEF UnderLock, KeptTrue, ReadReservations, Marked, Empty, Alive,
       diskVars, sessionVars, pastVars
<1>6. \A h \in Hosts : Held(h) => (Renews(s)' => Renews(s))
  BY <1>1 DEF ReadReservations, Renews, Marked, Alive, diskVars, sessionVars, pastVars
<1>7. \A h \in Hosts : \/ lock'[h] = lock[h]
                         \/ lock'[h] = Free \/ lock'[h].step # "prune"
  BY <1>1, <1>3 DEF Advances, OfSession
<1>8. MarkedOrEmpty' /\ Spares'
  BY <1>2, <1>4, <1>5, <1>6, <1>7, OthersKept, OthersSpared
<1>9. ZipsHeld' /\ ExportedWhole'
  <2>1. /\ zips' = zips
        /\ Holds(s, {"export"})' <=> Holds(s, {"export"})
        /\ Alive(s)' => Alive(s) \/ pc[s] = "absent"
        /\ pc[s] # "absent" => pc'[s] # "absent"
    BY <1>1, <1>3 DEF ReadReservations, Advances, Holds, Alive, diskVars, sessionVars,
       pastVars
  <2>2. QED
    BY <1>2, <2>1, ZipsStay
<1>10. QED
  BY <1>2, <1>8, <1>9 DEF KInv

LEMMA PruneKeeps ==
    ASSUME OneLock, KInv, NEW s \in Sessions, Prune(s)
    PROVE  KInv'
<1>1. UnderLock(s) /\ OfSession(s) /\ DiskTyped /\ SessionTyped /\ LockTyped
  BY UnpackKept DEF UnderLock, OfSession
<1>2. RInv' /\ TypeOK' /\ Apart(s)
  BY PruneStep DEF KInv, RInv
<1>3. Advances(s, "check", lock[Host[s]].reserved, {})
  BY PruneAdvances DEF KInv
<1>4. Shrinks(s)
  BY <1>1 DEF UnderLock, OfSession, Prune, JobAt, Fault, Shrinks, DiskTyped, diskVars,
     sessionVars, pastVars
<1>5. KeptTrue(s)'
  <2>1. Holds(s, {"fallback"})' <=> Holds(s, {"fallback"})
    BY <1>3 DEF Advances, Holds
  <2>2. Empty(s) => Empty(s)'
    BY <1>1 DEF Prune, Empty, OfSession, DiskTyped
  <2>3. console[s] => console'[s]
    BY <1>2 DEF Apart, Stays
  <2>4. UNCHANGED <<marker, pc, failing, lapsed>>
    BY DEF Prune, pastVars
  <2>5. QED
    BY <1>1, <2>1, <2>2, <2>3, <2>4 DEF UnderLock, KeptTrue, Marked, Alive
<1>6. \A h \in Hosts : Held(h) => (Renews(s)' => Renews(s))
  BY <1>1 DEF UnderLock, OfSession, Prune, JobAt, Fault, Renews, KeptTrue, StartTrue,
     Blank, Marked, Alive, Gone, Steps, SessionTyped, Holds, diskVars, sessionVars,
     pastVars
<1>7. \A h \in Hosts : \/ lock'[h] = lock[h]
                         \/ lock'[h] = Free \/ lock'[h].step # "prune"
  BY <1>1, <1>3 DEF Advances, OfSession
<1>8. MarkedOrEmpty' /\ Spares'
  BY <1>2, <1>4, <1>5, <1>6, <1>7, OthersKept, OthersSpared
<1>9. ZipsHeld' /\ ExportedWhole'
  <2>1. /\ zips' = zips
        /\ Holds(s, {"export"})' <=> Holds(s, {"export"})
        /\ Alive(s)' => Alive(s) \/ pc[s] = "absent"
        /\ pc[s] # "absent" => pc'[s] # "absent"
    BY <1>1, <1>3 DEF Prune, Advances, Holds, Alive, diskVars, sessionVars, pastVars
  <2>2. QED
    BY <1>2, <2>1, ZipsStay
<1>10. QED
  BY <1>2, <1>8, <1>9 DEF KInv

LEMMA DecideKeeps ==
    ASSUME OneLock, KInv, NEW s \in Sessions, Decide(s)
    PROVE  KInv'
<1>1. UnderLock(s) /\ OfSession(s) /\ DiskTyped /\ SessionTyped /\ LockTyped
  BY UnpackKept DEF UnderLock, OfSession
<1>2. RInv' /\ TypeOK' /\ Apart(s)
  BY DecideStep DEF KInv, RInv
<1>3. /\ Alive(s) /\ Held(Host[s]) /\ lock[Host[s]].owner = s
      /\ lock[Host[s]].op = "admit" \/ Holds(s, {"fallback"})
  BY <1>1 DEF OfSession, Decide, JobAt, Holds, Held
<1>4. Shrinks(s)
  BY <1>1 DEF Decide, Shrinks, DiskTyped, diskVars, sessionVars, pastVars
<1>5. KeptTrue(s)'
  <2>1. pc[s] \notin {"absent", "created"} /\ pc'[s] \notin {"absent", "created"}
    BY <1>1, <1>3 DEF OfSession, JobTrue, Holds, Decide, SessionTyped, Alive, Gone
  <2>2. CASE Fits(s)
    <3>1. s \notin lapsed /\ ~console[s] => Marked(s)
      BY <1>1, <1>3, <2>1 DEF UnderLock, OfSession, KeptTrue, JobTrue
    <3>2. UNCHANGED <<marker, console, lapsed>>
      BY <2>2 DEF Decide
    <3>3. QED
      BY <2>1, <3>1, <3>2 DEF KeptTrue, Marked
  <2>3. CASE ~Fits(s)
    <3>1. console'[s]
      BY <1>1, <2>3 DEF Decide, OfSession, SessionTyped
    <3>2. QED
      BY <2>1, <3>1 DEF KeptTrue
  <2>4. QED
    BY <2>2, <2>3
<1>6. \A h \in Hosts : Held(h) => (Renews(s)' => Renews(s))
  <2>1. CASE Fits(s)
    <3>1. UNCHANGED <<marker, console, lapsed>>
      BY <2>1 DEF Decide
    <3>2. Marked(s)' <=> Marked(s)
      BY <3>1 DEF Marked
    <3>3. QED
      BY <1>3, <3>1, <3>2 DEF Renews
  <2>2. CASE ~Fits(s)
    <3>1. console'[s]
      BY <1>1, <2>2 DEF Decide, OfSession, SessionTyped
    <3>2. QED
      BY <3>1 DEF Renews
  <2>3. QED
    BY <2>1, <2>2
<1>7. \A h \in Hosts : \/ lock'[h] = lock[h]
                         \/ lock'[h] = Free \/ lock'[h].step # "prune"
  BY <1>1, ReleasedFacts DEF OfSession, Decide
<1>8. MarkedOrEmpty' /\ Spares'
  BY <1>2, <1>4, <1>5, <1>6, <1>7, OthersKept, OthersSpared
<1>9. ZipsHeld' /\ ExportedWhole'
  <2>1. /\ zips' = zips /\ ~Holds(s, {"export"})
        /\ ~Holds(s, {"export"})'
    BY <1>1, ReleasedFacts DEF OfSession, Decide, Holds
  <2>2. pc[s] # "absent" => pc'[s] # "absent"
    BY <1>1 DEF Decide, OfSession, SessionTyped
  <2>3. QED
    BY <1>2, <1>3, <2>1, <2>2, ZipsStay
<1>10. QED
  BY <1>2, <1>8, <1>9 DEF KInv

LEMMA DecideExportKeeps ==
    ASSUME OneLock, KInv, NEW s \in Sessions, DecideExport(s)
    PROVE  KInv'
<1>1. UnderLock(s) /\ OfSession(s) /\ DiskTyped /\ SessionTyped /\ LockTyped
  BY UnpackKept DEF UnderLock, OfSession
<1>2. RInv' /\ TypeOK' /\ Apart(s)
  BY DecideExportStep DEF KInv, RInv
<1>3. /\ Alive(s) /\ Held(Host[s]) /\ lock[Host[s]].owner = s
      /\ pc[s] = "running"
  BY <1>1 DEF OfSession, DecideExport, JobAt, Holds, Held, JobTrue
<1>4. Shrinks(s)
  BY <1>1 DEF UnderLock, OfSession, DecideExport, JobAt, Shrinks, DiskTyped, diskVars,
     sessionVars, pastVars
<1>5. KeptTrue(s)'
  <2>1. UNCHANGED <<marker, pc, console, failing, lapsed>>
    BY DEF DecideExport, sessionVars, pastVars
  <2>2. QED
    BY <1>1, <1>3, <2>1 DEF UnderLock, KeptTrue, Marked, Alive
<1>6. \A h \in Hosts : Held(h) => (Renews(s)' => Renews(s))
  BY <1>1 DEF DecideExport, Renews, Marked, Alive, diskVars, sessionVars, pastVars
<1>7. \A h \in Hosts : \/ lock'[h] = lock[h]
                         \/ lock'[h] = Free \/ lock'[h].step # "prune"
  BY <1>1, ReleasedFacts DEF OfSession, DecideExport
<1>8. MarkedOrEmpty' /\ Spares'
  BY <1>2, <1>4, <1>5, <1>6, <1>7, OthersKept, OthersSpared
<1>9. ZipsHeld' /\ ExportedWhole'
  <2>1. /\ Holds(s, {"export"}) /\ lock' = Released(s)
        /\ zips' = {z \in zips : z[1] # s} /\ pc' = pc
    BY DEF DecideExport, sessionVars
  <2>2. \A t \in Sessions : Holds(t, {"export"}) => t = s
    BY <1>1, <2>1 DEF UnderLock
  <2>3. \A t \in Sessions : ~Holds(t, {"export"})'
    BY <1>1, <2>1, ReleasedFacts DEF UnderLock, OfSession, Holds
  <2>4. \A z \in zips' : ~Alive(z[1])
    BY <1>1, <2>1, <2>2 DEF UnderLock, ZipsHeld
  <2>5. ZipsHeld'
    BY <1>1, <2>1, <2>4 DEF UnderLock, ZipsHeld, Alive
  <2>6. QED
    BY <2>3, <2>5 DEF ExportedWhole
<1>10. QED
  BY <1>2, <1>8, <1>9 DEF KInv

LEMMA CloseKeeps ==
    ASSUME OneLock, KInv, NEW s \in Sessions, Close(s)
    PROVE  KInv'
<1>1. UnderLock(s) /\ OfSession(s) /\ DiskTyped /\ SessionTyped /\ LockTyped
  BY UnpackKept DEF UnderLock, OfSession
<1>2. RInv' /\ TypeOK' /\ Apart(s)
  BY CloseStep DEF KInv, RInv
<1>3. Shrinks(s)
  BY <1>1 DEF Close, Shrinks, DiskTyped, diskVars, sessionVars, pastVars
<1>4. KeptTrue(s)'
  BY <1>1 DEF UnderLock, OfSession, Close, Runs, KeptTrue, Marked, Empty, Holds, Alive,
     Gone, Steps, SessionTyped, diskVars, sessionVars, pastVars
<1>5. \A h \in Hosts : Held(h) => (Renews(s)' => Renews(s))
  BY <1>1 DEF UnderLock, OfSession, Close, Runs, Renews, KeptTrue, StartTrue, Blank,
     Marked, Alive, Gone, Steps, SessionTyped, Holds, diskVars, sessionVars, pastVars
<1>6. \A h \in Hosts : \/ lock'[h] = lock[h]
                         \/ lock'[h] = Free \/ lock'[h].step # "prune"
  BY DEF Close, diskVars, sessionVars, pastVars
<1>7. MarkedOrEmpty' /\ Spares'
  BY <1>2, <1>3, <1>4, <1>5, <1>6, OthersKept, OthersSpared
<1>8. ZipsHeld' /\ ExportedWhole'
  <2>1. /\ zips' = zips
        /\ Holds(s, {"export"})' <=> Holds(s, {"export"})
        /\ Alive(s)' => Alive(s) \/ pc[s] = "absent"
        /\ pc[s] # "absent" => pc'[s] # "absent"
    BY <1>1 DEF OfSession, Close, Runs, Holds, Alive, Gone, Steps, SessionTyped,
       diskVars, sessionVars, pastVars
  <2>2. QED
    BY <1>2, <2>1, ZipsStay
<1>9. QED
  BY <1>2, <1>7, <1>8 DEF KInv

LEMMA CrashKeeps ==
    ASSUME OneLock, KInv, NEW s \in Sessions, Crash(s)
    PROVE  KInv'
<1>1. UnderLock(s) /\ OfSession(s) /\ DiskTyped /\ SessionTyped /\ LockTyped
  BY UnpackKept DEF UnderLock, OfSession
<1>2. RInv' /\ TypeOK' /\ Apart(s)
  BY CrashStep DEF KInv, RInv
<1>3. Shrinks(s)
  BY <1>1 DEF Crash, Shrinks, DiskTyped, diskVars, sessionVars, pastVars
<1>4. KeptTrue(s)'
  BY <1>1 DEF UnderLock, OfSession, Crash, KeptTrue, Marked, Empty, Holds, Alive, Gone,
     Steps, SessionTyped, diskVars, sessionVars, pastVars
<1>5. \A h \in Hosts : Held(h) => (Renews(s)' => Renews(s))
  BY <1>1 DEF UnderLock, OfSession, Crash, Renews, KeptTrue, StartTrue, Blank, Marked,
     Alive, Gone, Steps, SessionTyped, Holds, diskVars, sessionVars, pastVars
<1>6. \A h \in Hosts : \/ lock'[h] = lock[h]
                         \/ lock'[h] = Free \/ lock'[h].step # "prune"
  BY <1>1, ReleasedFacts DEF OfSession, Crash
<1>7. MarkedOrEmpty' /\ Spares'
  BY <1>2, <1>3, <1>4, <1>5, <1>6, OthersKept, OthersSpared
<1>8. ZipsHeld' /\ ExportedWhole'
  <2>1. zips' = zips /\ ~Alive(s)' /\ pc'[s] = "dead"
        /\ \A t \in Sessions : t # s => pc'[t] = pc[t]
    BY <1>1 DEF OfSession, SessionTyped, Crash, Alive, Gone
  <2>2. \A t \in Sessions : t # s => (Holds(t, {"export"})' <=> Holds(t, {"export"}))
    BY <1>2, FileShape DEF Apart, OtherLocks, Holds
  <2>3. ~Holds(s, {"export"})'
    BY <1>1, ReleasedFacts DEF OfSession, Crash, Holds
  <2>4. ZipsHeld'
    BY <1>1, <2>1, <2>2 DEF UnderLock, ZipsHeld, Alive
  <2>5. ExportedWhole'
    BY <1>1, <2>1, <2>2, <2>3 DEF UnderLock, ExportedWhole
  <2>6. QED
    BY <2>4, <2>5
<1>9. QED
  BY <1>2, <1>7, <1>8 DEF KInv

LEMMA ExpireKeeps ==
    ASSUME OneLock, KInv, NEW s \in Sessions, Expire(s)
    PROVE  KInv'
<1>1. UnderLock(s) /\ OfSession(s) /\ DiskTyped /\ SessionTyped /\ LockTyped
  BY UnpackKept DEF UnderLock, OfSession
<1>2. RInv' /\ TypeOK' /\ Apart(s)
  BY ExpireStep DEF KInv, RInv
<1>3. Shrinks(s)
  BY <1>1 DEF Expire, Shrinks, DiskTyped, diskVars, sessionVars, pastVars
<1>4. KeptTrue(s)'
  BY <1>1 DEF UnderLock, OfSession, Expire, KeptTrue, Marked, Empty, Holds, Alive, Gone,
     Steps, SessionTyped, diskVars, sessionVars, pastVars
<1>5. \A h \in Hosts : Held(h) => (Renews(s)' => Renews(s))
  BY <1>1 DEF UnderLock, OfSession, Expire, Renews, KeptTrue, StartTrue, Blank, Marked,
     Alive, Gone, Steps, SessionTyped, Holds, diskVars, sessionVars, pastVars
<1>6. \A h \in Hosts : \/ lock'[h] = lock[h]
                         \/ lock'[h] = Free \/ lock'[h].step # "prune"
  BY DEF Expire, diskVars, sessionVars, pastVars
<1>7. MarkedOrEmpty' /\ Spares'
  BY <1>2, <1>3, <1>4, <1>5, <1>6, OthersKept, OthersSpared
<1>8. ZipsHeld' /\ ExportedWhole'
  <2>1. /\ zips' = zips
        /\ Holds(s, {"export"})' <=> Holds(s, {"export"})
        /\ Alive(s)' => Alive(s) \/ pc[s] = "absent"
        /\ pc[s] # "absent" => pc'[s] # "absent"
    BY <1>1 DEF OfSession, Expire, Holds, Alive, Gone, Steps, SessionTyped, diskVars,
       sessionVars, pastVars
  <2>2. QED
    BY <1>2, <2>1, ZipsStay
<1>9. QED
  BY <1>2, <1>7, <1>8 DEF KInv

LEMMA LapseKeeps ==
    ASSUME OneLock, KInv, NEW s \in Sessions, Lapse(s)
    PROVE  KInv'
<1>1. UnderLock(s) /\ OfSession(s) /\ DiskTyped /\ SessionTyped /\ LockTyped
  BY UnpackKept DEF UnderLock, OfSession
<1>2. RInv' /\ TypeOK' /\ Apart(s)
  BY LapseStep DEF KInv, RInv
<1>3. Shrinks(s)
  BY <1>1 DEF Lapse, Shrinks, DiskTyped, diskVars, sessionVars, pastVars
<1>4. KeptTrue(s)'
  BY <1>1 DEF UnderLock, OfSession, Lapse, Fault, KeptTrue, Marked, Empty, Holds, Alive,
     Gone, Steps, SessionTyped, diskVars, sessionVars, pastVars
<1>5. \A h \in Hosts : Held(h) => (Renews(s)' => Renews(s))
  BY <1>1 DEF UnderLock, OfSession, Lapse, Fault, Renews, KeptTrue, StartTrue, Blank,
     Marked, Alive, Gone, Steps, SessionTyped, Holds, diskVars, sessionVars, pastVars
<1>6. \A h \in Hosts : \/ lock'[h] = lock[h]
                         \/ lock'[h] = Free \/ lock'[h].step # "prune"
  BY DEF Lapse, diskVars, sessionVars, pastVars
<1>7. MarkedOrEmpty' /\ Spares'
  BY <1>2, <1>3, <1>4, <1>5, <1>6, OthersKept, OthersSpared
<1>8. ZipsHeld' /\ ExportedWhole'
  <2>1. /\ zips' = zips
        /\ Holds(s, {"export"})' <=> Holds(s, {"export"})
        /\ Alive(s)' => Alive(s) \/ pc[s] = "absent"
        /\ pc[s] # "absent" => pc'[s] # "absent"
    BY <1>1 DEF OfSession, Lapse, Fault, Holds, Alive, Gone, Steps, SessionTyped,
       diskVars, sessionVars, pastVars
  <2>2. QED
    BY <1>2, <2>1, ZipsStay
<1>9. QED
  BY <1>2, <1>7, <1>8 DEF KInv

LEMMA ProtectKeeps ==
    ASSUME OneLock, KInv, NEW s \in Sessions, Protect(s)
    PROVE  KInv'
<1>1. UnderLock(s) /\ OfSession(s) /\ RInv
  BY UnpackKept DEF UnderLock, KInv
<1>2. RInv' /\ Apart(s)
  BY <1>1, ProtectStep
<1>3. Advances(s, "prune", lock[Host[s]].reserved, Protected(s))
  BY <1>1, ProtectAdvances
<1>4. UNCHANGED <<disk, marker, zips, pc, home, console, failing, lapsed>>
  BY DEF Protect, sessionVars, pastVars
<1>5. \A t \in Sessions : \A o : Holds(t, o)' <=> Holds(t, o)
  BY <1>1, <1>3 DEF UnderLock, Advances, Holds
<1>6. MarkedOrEmpty'
  BY <1>4, <1>5 DEF KInv, MarkedOrEmpty, KeptTrue, Marked, Empty, Alive
<1>7. ZipsHeld' /\ ExportedWhole'
  <2>1. \A z \in zips : z[1] \in Sessions
    BY <1>1 DEF UnderLock
  <2>2. QED
    BY <1>1, <1>4, <1>5, <2>1 DEF UnderLock, ZipsHeld, ExportedWhole, Alive
\* Every session that renews its marker is seen to.
<1>8. \A t \in Sessions : Renews(t) => t \in Protected(s)
  <2>1. SUFFICES ASSUME NEW t \in Sessions, Renews(t) PROVE t \in Protected(s)
    OBVIOUS
  <2>2. PICK dir \in Dirs : /\ marker[<<t, dir>>] # NoMarker
                            /\ marker[<<t, dir>>].active /\ marker[<<t, dir>>].fresh
    BY <2>1 DEF Renews, Marked
  <2>3. PICK f : f = <<t, dir>>
    OBVIOUS
  <2>4. f \in MarkerFiles /\ f[1] = t /\ f[2] = dir
    BY <2>3, FileShape
  <2>5. marker[f].clean = FALSE
    <3>1. marker[f] \in Marker /\ MarkerTrue(f)
      BY <1>1, <2>2, <2>3, <2>4 DEF OfSession, DiskTyped, RInv, MarkersTrue
    <3>2. marker[f].clean \in BOOLEAN
      BY <3>1 DEF Marker
    <3>3. QED
      BY <2>2, <2>3, <3>1, <3>2 DEF MarkerTrue
  <2>6. Alive(t) /\ Visible(s, t, dir)
    BY <1>1, <2>1 DEF Renews, UnderLock
  <2>7. f \in LiveMarkers(s)
    BY <2>2, <2>3, <2>4, <2>5, <2>6 DEF LiveMarkers, Live
  <2>8. QED
    BY <2>4, <2>7 DEF Protected
<1>9. Spares'
  <2>1. SUFFICES ASSUME NEW h \in Hosts, Held(h)'
                 PROVE  SpareTrue(h)'
    BY DEF Spares, SpareTrue
  <2>2. h = Host[s]
    BY <1>1, <1>3, <2>1 DEF UnderLock, Advances, Held
  <2>3. \A t \in Sessions : Renews(t)' => Renews(t)
    BY <1>4 DEF Renews, Marked, Alive
  <2>4. s \in Protected(s)
    BY DEF Protected
  <2>5. QED
    BY <1>3, <1>8, <2>2, <2>3, <2>4 DEF SpareTrue, Advances
<1>10. QED
  BY <1>2, <1>6, <1>7, <1>9 DEF KInv

LEMMA RemoveMarkerKeeps ==
    ASSUME OneLock, KInv, NEW s \in Sessions, RemoveMarker(s)
    PROVE  KInv'
<1>1. RInv /\ RInv' /\ OfSession(s)
  BY RemoveMarkerStep, Unpack DEF KInv
<1>2. PICK f \in MarkerFiles :
        /\ f = claim[s] /\ f # NoFile
        /\ marker' = [marker EXCEPT ![f] = NoMarker]
  BY <1>1 DEF OfSession, SessionTyped, RemoveMarker
<1>3. PICK o : o = f[1] /\ o \in Sessions /\ f = <<f[1], f[2]>>
  BY Pairs
<1>4. o \in lapsed \/ console[o] \/ ~Alive(o)
  <2>1. pc[o] \in {"closed", "dead"} \/ o \in lapsed \/ console[o]
    BY <1>1, <1>2, <1>3 DEF OfSession, ClaimTrue
  <2>2. QED
    BY <2>1 DEF Alive, Gone
<1>5. UNCHANGED <<disk, zips, lock, pc, home, console, failing, lapsed>>
  BY DEF RemoveMarker, pastVars
<1>6. \A t \in Sessions : t # o => (Marked(t)' <=> Marked(t))
  <2>1. SUFFICES ASSUME NEW t \in Sessions, t # o PROVE Marked(t)' <=> Marked(t)
    OBVIOUS
  <2>2. \A dir \in Dirs : <<t, dir>> \in MarkerFiles /\ <<t, dir>> # f
    <3>1. \A dir \in Dirs : <<t, dir>>[1] = t
      OBVIOUS
    <3>2. QED
      BY <1>3, <2>1, <3>1, FileShape
  <2>3. \A dir \in Dirs : marker'[<<t, dir>>] = marker[<<t, dir>>]
    BY <1>1, <1>2, <2>2 DEF OfSession, DiskTyped
  <2>4. QED
    BY <2>3 DEF Marked
<1>7. MarkedOrEmpty'
  <2>1. SUFFICES ASSUME NEW t \in Sessions PROVE KeptTrue(t)'
    BY DEF MarkedOrEmpty
  <2>2. KeptTrue(t)
    BY DEF KInv, MarkedOrEmpty
  <2>3. QED
    BY <1>3, <1>4, <1>5, <1>6, <2>2 DEF KeptTrue, Empty, Holds, Alive
<1>8. \A t \in Sessions : Renews(t)' => Renews(t)
  BY <1>4, <1>5, <1>6 DEF Renews, Alive
<1>9. Spares'
  BY <1>5, <1>8 DEF KInv, Spares, SpareTrue, Held
<1>10. ZipsHeld' /\ ExportedWhole'
  BY <1>5 DEF KInv, ZipsHeld, ExportedWhole, Holds, Alive
<1>11. QED
  BY <1>1, <1>7, <1>9, <1>10 DEF KInv

LEMMA KInit == Init => KInv
<1>1. SUFFICES ASSUME Init PROVE KInv
  OBVIOUS
<1>2. RInv
  BY <1>1, RInit
<1>3. MarkedOrEmpty
  BY <1>1 DEF Init, MarkedOrEmpty, KeptTrue, Empty, Alive, Gone
<1>4. Spares /\ ZipsHeld /\ ExportedWhole
  BY <1>1, HostAssumption DEF Init, Spares, SpareTrue, Held, ZipsHeld, ExportedWhole,
     Holds
<1>5. QED
  BY <1>2, <1>3, <1>4 DEF KInv

LEMMA KStep == OneLock /\ KInv /\ [Next]_vars => KInv'
<1> SUFFICES ASSUME OneLock, KInv, [Next]_vars PROVE KInv'
  OBVIOUS
<1>1. RInv /\ RInv'
  BY RStep DEF KInv
<1>2. CASE UNCHANGED vars
  BY <1>1, <1>2, KeptStill DEF vars, diskVars, sessionVars, pastVars
<1>3. CASE Next
  <2>1. PICK s \in Sessions : Acquires(s) \/ Proceeds(s) \/ Happens(s)
    BY <1>3 DEF Next
  <2>2. CASE Acquires(s)
    BY <2>2, PublishKeeps, CleanKeeps, BeginAdmissionKeeps, BeginFallbackKeeps
    DEF Acquires
  <2>3. CASE Report(s)
    BY <1>1, <2>3, KeptStill DEF Report, diskVars
  <2>4. CASE Proceeds(s) /\ ~Report(s)
    BY <2>4, ListMarkersKeeps, RemoveMarkerKeeps, EndReportsKeeps,
       StartOnConsoleKeeps, ReadReservationsKeeps, ProtectKeeps, PruneKeeps, DecideKeeps,
       DecideExportKeeps
    DEF Proceeds
  <2>5. CASE Reuse(s)
    BY <1>1, <2>5, KeptStill DEF Reuse, diskVars, sessionVars
  <2>6. CASE Happens(s) /\ ~Reuse(s)
    BY <2>6, CreateKeeps, PublishFailsKeeps, AdmissionTimesOutKeeps, AppendKeeps,
       RefreshKeeps, WriteFailsKeeps, FallbackFailsKeeps, BeginExportKeeps, ExportFailsKeeps,
       CloseKeeps, CrashKeeps, ExpireKeeps, LapseKeeps
    DEF Happens
  <2>7. QED
    BY <2>1, <2>2, <2>3, <2>4, <2>5, <2>6
<1>4. QED
  BY <1>2, <1>3

\* The archive of a running export is not cleaned up before it is published
\* (_cleanup_orphaned_support_temps, export_bundle).
THEOREM ExportsAreWhole == OneLock /\ Spec => []ExportedWhole
<1>1. SUFFICES ASSUME OneLock PROVE Spec => []ExportedWhole
  OBVIOUS
<1>2. KInv /\ [Next]_vars => KInv'
  BY <1>1, KStep
<1>3. KInv => ExportedWhole
  BY DEF KInv
<1>4. QED
  BY <1>2, <1>3, KInit, PTL DEF Spec

\* A file is deleted only by a pruning that does not keep its session.
LEMMA KeepsLive ==
    ASSUME OneLock, KInv, [Next]_vars, NEW a \in Files, disk'[a] = 0, disk[a] > 0
    PROVE  a[1] \in lapsed \/ console[a[1]] \/ ~Alive(a[1])
<1>1. disk \in [Files -> 0 .. Quota] /\ a[1] \in Sessions /\ disk'[a] # disk[a]
  BY DEF KInv, RInv, TypeOK, Files
<1>2. PICK s \in Sessions : Acquires(s) \/ Proceeds(s) \/ Happens(s)
  BY <1>1 DEF Next, vars, diskVars
<1>3. CASE Prune(s)
  <2>1. /\ lock[Host[s]].step = "prune" /\ Held(Host[s])
        /\ a[1] \notin lock[Host[s]].kept
    BY <1>1, <1>3 DEF Prune, JobAt, Holds, Held
  <2>2. ~Renews(a[1])
    BY <1>1, <2>1, FileShape DEF KInv, Spares, SpareTrue
  <2>3. KeptTrue(a[1]) /\ ~Empty(a[1])
    BY <1>1 DEF KInv, MarkedOrEmpty, Empty
  <2>4. QED
    BY <2>2, <2>3 DEF KeptTrue, Renews
<1>4. CASE Append(s)
  <2>1. <<s, home[s], "log">> \in Files
    BY <1>1, FileShape DEF KInv, RInv, TypeOK
  <2>2. a = <<s, home[s], "log">> /\ disk'[a] = Grown(disk[a])
    BY <1>1, <1>4, <2>1 DEF Append
  <2>3. disk[a] \in 0 .. Quota
    BY <1>1
  <2>4. Grown(disk[a]) > 0
    BY <2>3, QuotaFacts DEF Grown
  <2>5. QED
    BY <2>2, <2>4
<1>5. CASE DecideExport(s)
  BY <1>1, <1>5 DEF DecideExport
<1>6. CASE ~Prune(s) /\ ~Append(s) /\ ~DecideExport(s)
  <2>1. disk' = disk
    <3>1. CASE Acquires(s)
      BY <3>1 DEF Acquires, Publish, Clean, BeginAdmission, BeginFallback
    <3>2. CASE Proceeds(s)
      BY <1>6, <3>2 DEF Proceeds, ListMarkers, Report, RemoveMarker, EndReports,
         StartOnConsole, ReadReservations, Protect, Decide, diskVars
    <3>3. CASE Happens(s)
      BY <1>6, <3>3 DEF Happens, Create, PublishFails, AdmissionTimesOut, Refresh,
         WriteFails, FallbackFails, BeginExport, ExportFails, Close, Crash, Expire,
         Lapse, Reuse, diskVars
    <3>4. QED
      BY <1>2, <3>1, <3>2, <3>3
  <2>2. QED
    BY <1>1, <2>1
<1>7. QED
  BY <1>3, <1>4, <1>5, <1>6

\* No step deletes a file of a running session that renews its lease and has not
\* gone to the console (_protected_artifacts, initialize).
THEOREM LiveFilesKept == OneLock /\ Spec => LiveKept
<1>1. SUFFICES ASSUME OneLock PROVE Spec => LiveKept
  OBVIOUS
<1>2. KInv /\ [Next]_vars => KInv'
  BY <1>1, KStep
<1>3. ASSUME KInv, [Next]_vars
      PROVE  [\A a \in Files :
                 disk'[a] = 0 /\ disk[a] > 0
                 => \/ a[1] \in lapsed \/ console[a[1]] \/ ~Alive(a[1])]_vars
  BY <1>1, <1>3, KeepsLive
<1>4. QED
  BY <1>2, <1>3, KInit, PTL DEF Spec, LiveKept

-----------------------------------------------------------------------------
(* Capacity.                                                                *)

\* Sums in the next state.
LEMMA NeedsAfter ==
    ASSUME NEW h
    PROVE  Sum(NeedOf(h), MarkerFiles)' = Sum(NeedOf(h)', MarkerFiles)
  BY DEF Sum, FoldFunctionOnSet, MapThenFoldSet

LEMMA WeightsAfter == Sum(Weights, Files)' = Sum(Weights', Files)
  BY DEF Sum, FoldFunctionOnSet, MapThenFoldSet

\* What a session needs is no more than what its log may grow.
LEMMA NeedsFacts ==
    ASSUME TypeOK, NEW s \in Sessions
    PROVE  /\ Log(s) \in Files /\ disk[Log(s)] \in 0 .. Quota
           /\ Growth(s) = Quota - disk[Log(s)] /\ Growth(s) \in Nat
           /\ Needs(s) = (IF Rotates(Log(s)) THEN 0 ELSE Growth(s))
           /\ Needs(s) \in Nat /\ Needs(s) <= Growth(s)
<1>1. Log(s) \in Files /\ disk[Log(s)] \in 0 .. Quota
  BY FileShape DEF TypeOK, Log
<1>2. Growth(s) = Quota - disk[Log(s)] /\ Growth(s) \in Nat
  BY <1>1, QuotaFacts DEF Growth, Log
<1>3. QED
  BY <1>1, <1>2 DEF Needs

LEMMA NeedOfType ==
    ASSUME TypeOK, NEW h
    PROVE  \A f \in MarkerFiles : NeedOf(h)[f] \in Nat
<1>1. TAKE f \in MarkerFiles
<1>2. f[1] \in Sessions
  BY Pairs
<1>3. Needs(f[1]) \in Nat
  BY <1>2, NeedsFacts
<1>4. QED
  BY <1>3 DEF NeedOf

LEMMA NeedsTypeAfter ==
    ASSUME TypeOK', NEW s \in Sessions
    PROVE  Needs(s)' \in Nat
<1>1. Log(s)' \in Files /\ disk'[Log(s)'] \in 0 .. Quota
  BY FileShape DEF TypeOK, Log
<1>2. QED
  BY <1>1, QuotaFacts DEF Needs, Growth, Log

LEMMA NeedOfTypeAfter ==
    ASSUME TypeOK', NEW h
    PROVE  \A f \in MarkerFiles : NeedOf(h)'[f] \in Nat
<1>1. TAKE f \in MarkerFiles
<1>2. f[1] \in Sessions
  BY Pairs
<1>3. Needs(f[1])' \in Nat
  BY <1>2, NeedsTypeAfter
<1>4. QED
  BY <1>3 DEF NeedOf

LEMMA FileParts ==
    \A a \in Files : /\ a[1] \in Sessions /\ a[2] \in Dirs
                     /\ a[3] \in {"log", "bundle"} /\ a = <<a[1], a[2], a[3]>>
  BY DEF Files

\* The log a writer writes to.
Writing(a) == a[3] = "log" /\ a[2] = home[a[1]] /\ Writer(a[1])

Full(a) == IF Writing(a) THEN Quota ELSE disk[a]
Spare(a) == IF a[3] = "log" /\ Rotates(a) THEN Segment - 1 ELSE 0

\* What a file counts, now and in the next state.
LEMMA WeightIs ==
    ASSUME TypeOK, NEW a \in Files
    PROVE  /\ Weight(a) = (IF a[1] \notin admitted \/ Full(a) < Spare(a) THEN 0
                           ELSE Full(a) - Spare(a))
           /\ Full(a) \in Nat /\ Spare(a) \in Nat /\ Weight(a) \in Nat
           /\ disk[a] \in 0 .. Quota /\ disk[a] <= Full(a)
<1>1. disk[a] \in 0 .. Quota
  BY DEF TypeOK
<1>2. a \in Rotating <=> a[3] = "log" /\ Rotates(a)
  BY DEF Rotating, Rotates
<1>3. Full(a) \in Nat /\ Spare(a) \in Nat /\ disk[a] <= Full(a)
  BY <1>1, QuotaFacts DEF Full, Spare
<1>4. Weight(a) = (IF a[1] \notin admitted \/ Full(a) < Spare(a) THEN 0
                   ELSE Full(a) - Spare(a))
  BY <1>2 DEF Weight, Full, Spare, Writing
<1>5. QED
  BY <1>1, <1>3, <1>4

LEMMA WeightAfter ==
    ASSUME TypeOK', NEW a \in Files
    PROVE  /\ Weight(a)' = (IF a[1] \notin admitted' \/ Full(a)' < Spare(a)' THEN 0
                            ELSE Full(a)' - Spare(a)')
           /\ Full(a)' \in Nat /\ Spare(a)' \in Nat /\ Weight(a)' \in Nat
           /\ disk'[a] \in 0 .. Quota /\ disk'[a] <= Full(a)'
<1>1. disk'[a] \in 0 .. Quota
  BY DEF TypeOK
<1>2. (a \in Rotating)' <=> a[3] = "log" /\ Rotates(a)'
  BY DEF Rotating, Rotates
<1>3. Full(a)' \in Nat /\ Spare(a)' \in Nat /\ disk'[a] <= Full(a)'
  BY <1>1, QuotaFacts DEF Full, Spare
<1>4. Weight(a)' = (IF a[1] \notin admitted' \/ Full(a)' < Spare(a)' THEN 0
                    ELSE Full(a)' - Spare(a)')
  BY <1>2 DEF Weight, Full, Spare, Writing
<1>5. QED
  BY <1>1, <1>3, <1>4

\* A lock is taken anew, released, or goes on with what was read.
LockGoes ==
    \A h \in Hosts :
        lock'[h] # Free /\ lock'[h].step # "reserve" =>
            /\ lock[h] # Free /\ lock[h].step # "reserve"
            /\ lock'[h].owner = lock[h].owner /\ lock'[h].op = lock[h].op
            /\ lock'[h].reserved = lock[h].reserved

\* What was read stays enough as long as nobody comes to need more.
LEMMA EnoughStays ==
    ASSUME TypeOK, TypeOK', ReadEnough, lapsed = {}, LockGoes,
           \A t \in Sessions : Writer(t)' => Writer(t),
           \A h \in Hosts, t \in Sessions :
              Held(h)' /\ lock'[h].step # "reserve" /\ Storing(t)' =>
                Storing(t) /\ home'[t] = home[t] /\ Needs(t)' <= Needs(t)
    PROVE  ReadEnough'
<1>1. SUFFICES ASSUME NEW h \in Hosts, Held(h)', lock'[h].step # "reserve"
               PROVE  Sum(NeedOf(h), MarkerFiles)'
                        + (IF lock'[h].op = "export" THEN 1 ELSE 0) <= lock'[h].reserved
  BY DEF ReadEnough, EnoughRead
<1>2. /\ Held(h) /\ lock[h].step # "reserve"
      /\ lock'[h].owner = lock[h].owner /\ lock'[h].op = lock[h].op
      /\ lock'[h].reserved = lock[h].reserved
  BY <1>1 DEF LockGoes, Held
<1>3. Sum(NeedOf(h), MarkerFiles) + (IF lock[h].op = "export" THEN 1 ELSE 0)
        <= lock[h].reserved
  BY <1>2 DEF ReadEnough, EnoughRead
<1>4. \A t \in Sessions : Writer(t)' => Storing(t)'
  BY DEF Writer, Storing
<1>5. \A t \in Sessions : Counts(h, t)' => Counts(h, t) /\ Storing(t)'
  BY <1>1, <1>2, <1>4 DEF Counts
<1>6. \A f \in MarkerFiles : NeedOf(h)'[f] <= NeedOf(h)[f]
  <2>1. TAKE f \in MarkerFiles
  <2>2. f[1] \in Sessions
    BY Pairs
  <2>3. NeedOf(h)[f] \in Nat
    BY NeedOfType
  <2>4. CASE Counts(h, f[1])' /\ f[2] = home'[f[1]]
    <3>1. Counts(h, f[1]) /\ home'[f[1]] = home[f[1]] /\ Needs(f[1])' <= Needs(f[1])
      BY <1>1, <1>5, <2>2, <2>4
    <3>2. NeedOf(h)'[f] = Needs(f[1])' /\ NeedOf(h)[f] = Needs(f[1])
      BY <2>4, <3>1 DEF NeedOf
    <3>3. QED
      BY <3>1, <3>2
  <2>5. CASE ~(Counts(h, f[1])' /\ f[2] = home'[f[1]])
    <3>1. NeedOf(h)'[f] = 0
      BY <2>5 DEF NeedOf
    <3>2. QED
      BY <2>3, <3>1
  <2>6. QED
    BY <2>4, <2>5
<1>7. \A f \in MarkerFiles : NeedOf(h)[f] \in Nat /\ NeedOf(h)'[f] \in Nat
  BY NeedOfType, NeedOfTypeAfter
<1>8. Sum(NeedOf(h)', MarkerFiles) <= Sum(NeedOf(h), MarkerFiles)
  BY <1>6, <1>7, Finite, SumLeq
<1>9. Sum(NeedOf(h), MarkerFiles) \in Nat /\ Sum(NeedOf(h)', MarkerFiles) \in Nat
  BY <1>7, Finite, SumType
<1>10. Sum(NeedOf(h), MarkerFiles)' = Sum(NeedOf(h)', MarkerFiles)
  BY NeedsAfter
<1>11. lock[h].reserved \in Nat
  BY <1>2, HeldFacts DEF Held
<1>12. QED
  BY <1>2, <1>3, <1>8, <1>9, <1>10, <1>11

\* How a step of s may change the files when nothing is decided: it deletes
\* files of sessions that no longer store any, or writes to its own log.
DiskGoes(s) ==
    \A a \in Files :
        \/ disk'[a] = disk[a]
        \/ disk'[a] = 0 /\ ~Storing(a[1])'
        \/ /\ a = Log(s) /\ disk'[a] = Grown(disk[a])
           /\ home'[s] = home[s] /\ (s \in admitted => Writer(s)')

\* A log that grows needs less, or was rotated.
LEMMA GrownFacts ==
    ASSUME TypeOK, NEW a \in Files, disk'[a] = Grown(disk[a])
    PROVE  /\ Rotates(a) => Rotates(a)'
           /\ disk'[a] <= disk[a] + 1
           /\ ~Rotates(a)' => Quota - disk'[a] <= Quota - disk[a]
           /\ disk[a] \in 0 .. Quota /\ disk'[a] \in 0 .. Quota
<1>1. disk[a] \in 0 .. Quota
  BY DEF TypeOK
<1>2. disk'[a] \in 0 .. Quota
  BY <1>1, GrownType
<1>3. QED
  BY <1>1, <1>2, QuotaFacts DEF Grown, Rotates

\* Where only the own files grow and others shrink, nobody needs more,
LEMMA NeedsShrink ==
    ASSUME TypeOK, TypeOK', NEW s, DiskGoes(s),
           NEW t \in Sessions, Storing(t)', home'[t] = home[t]
    PROVE  Needs(t)' <= Needs(t)
<1>1. Log(t) \in Files /\ Log(t)' = Log(t) /\ Log(t)[1] = t
  BY NeedsFacts DEF Log
<1>2. /\ Needs(t) = (IF disk[Log(t)] > Quota - Segment THEN 0 ELSE Quota - disk[Log(t)])
      /\ Needs(t)' = (IF disk'[Log(t)] > Quota - Segment THEN 0 ELSE Quota - disk'[Log(t)])
  BY <1>1 DEF Needs, Growth, Rotates, Log
<1>3. disk[Log(t)] \in 0 .. Quota /\ disk'[Log(t)] \in 0 .. Quota
  BY <1>1 DEF TypeOK
<1>4. CASE disk'[Log(t)] = disk[Log(t)]
  BY <1>2, <1>3, <1>4, QuotaFacts
<1>5. CASE disk'[Log(t)] = Grown(disk[Log(t)])
  BY <1>1, <1>2, <1>3, <1>5, GrownFacts, QuotaFacts DEF Rotates
<1>6. QED
  BY <1>1, <1>4, <1>5 DEF DiskGoes

\* and no file comes to count more.
LEMMA RoomStays ==
    ASSUME TypeOK, TypeOK', NEW s, DiskGoes(s), admitted' = admitted,
           \A t \in Sessions : Writer(t)' => Writer(t) /\ home'[t] = home[t],
           Sum(Weights, Files) <= Cap
    PROVE  Sum(Weights, Files)' <= Cap
<1>1. \A a \in Files : Weights[a] \in Nat /\ Weights'[a] \in Nat /\ Weights'[a] <= Weights[a]
  <2>1. TAKE a \in Files
  <2>2. /\ Weight(a) = (IF a[1] \notin admitted \/ Full(a) < Spare(a) THEN 0
                        ELSE Full(a) - Spare(a))
        /\ Full(a) \in Nat /\ Spare(a) \in Nat /\ Weight(a) \in Nat
        /\ disk[a] \in 0 .. Quota /\ disk[a] <= Full(a)
    BY WeightIs
  <2>3. /\ Weight(a)' = (IF a[1] \notin admitted' \/ Full(a)' < Spare(a)' THEN 0
                         ELSE Full(a)' - Spare(a)')
        /\ Full(a)' \in Nat /\ Spare(a)' \in Nat /\ Weight(a)' \in Nat
        /\ disk'[a] \in 0 .. Quota /\ disk'[a] <= Full(a)'
    BY WeightAfter
  <2>4. a[1] \in Sessions
    BY FileParts
  <2> SUFFICES Weight(a)' <= Weight(a)
    BY <2>2, <2>3 DEF Weights
  <2>5. CASE a[1] \notin admitted
    BY <2>2, <2>3, <2>5
  <2>6. CASE a[1] \in admitted /\ disk'[a] = 0 /\ ~Storing(a[1])'
    <3>1. ~Writing(a)'
      BY <2>6 DEF Writing, Writer, Storing
    <3>2. Full(a)' = 0
      BY <2>6, <3>1 DEF Full
    <3>3. QED
      BY <2>2, <2>3, <3>2
  <2>7. CASE a[1] \in admitted /\ disk'[a] = disk[a]
    <3>1. Spare(a)' = Spare(a)
      BY <2>7 DEF Spare, Rotates
    <3>2. Writing(a)' => Writing(a)
      BY <2>4 DEF Writing
    <3>3. Full(a)' <= Full(a)
      BY <2>2, <2>3, <2>7, <3>2, QuotaFacts DEF Full
    <3>4. QED
      BY <2>2, <2>3, <2>7, <3>1, <3>3
  <2>8. CASE /\ a[1] \in admitted /\ a = Log(s) /\ disk'[a] = Grown(disk[a])
             /\ home'[s] = home[s] /\ (s \in admitted => Writer(s)')
    <3>1. Writing(a)' /\ Writing(a)
      BY <2>4, <2>8 DEF Writing, Log
    <3>2. Full(a)' = Full(a)
      BY <3>1 DEF Full
    <3>3. Spare(a) <= Spare(a)'
      BY <2>2, <2>3, <2>8, GrownFacts, QuotaFacts DEF Spare
    <3>4. QED
      BY <2>2, <2>3, <2>8, <3>2, <3>3
  <2>9. QED
    BY <2>5, <2>6, <2>7, <2>8 DEF DiskGoes
<1>2. Sum(Weights', Files) <= Sum(Weights, Files)
  BY <1>1, Finite, SumLeq
<1>3. Sum(Weights', Files) \in Nat /\ Sum(Weights, Files) \in Nat
  BY <1>1, Finite, SumType
<1>4. QED
  BY <1>2, <1>3, WeightsAfter, QuotaFacts

LEMMA NotLapsed ==
    ASSUME TypeOK, NEW s \in Sessions, Apart(s), lapsed' = {}
    PROVE  lapsed = {}
<1>1. \A x \in Sessions : x \in lapsed => x \in lapsed'
  BY DEF Apart, Others, Stays
<1>2. QED
  BY <1>1 DEF TypeOK

\* The reservations of the others stand.
LEMMA OthersReserved ==
    ASSUME TypeOK, TypeOK', Reserved, NEW s \in Sessions, Apart(s), DiskGoes(s),
           lapsed' = {}, ReservedTrue(s)'
    PROVE  \A t \in Sessions : ReservedTrue(t)'
<1>1. SUFFICES ASSUME NEW t \in Sessions, t # s, Storing(t)' PROVE ReservedTrue(t)'
  BY DEF ReservedTrue
<1>2. /\ pc'[t] = pc[t] /\ home'[t] = home[t] /\ console'[t] = console[t]
      /\ failing'[t] = failing[t]
  BY <1>1 DEF Apart, Others
<1>3. Holds(t, {"fallback"})' => Holds(t, {"fallback"})
  BY <1>1, FileShape DEF Apart, OtherLocks, Holds
<1>4. Storing(t)
  BY <1>1, <1>2, <1>3 DEF Storing, Keeps, Alive
<1>5. home[t] \in Dirs /\ <<t, home[t]>> \in MarkerFiles
  BY FileShape DEF TypeOK
<1>6. marker'[<<t, home'[t]>>] = marker[<<t, home[t]>>]
  BY <1>1, <1>2, <1>5 DEF Apart, OtherMarkers
<1>7. Needs(t)' <= Needs(t) /\ Needs(t) \in Nat /\ Needs(t)' \in Nat
  <2>1. Needs(t)' <= Needs(t)
    BY <1>1, <1>2, NeedsShrink
  <2>2. Needs(t)' \in Nat
    BY NeedsTypeAfter
  <2>3. QED
    BY <2>1, <2>2, NeedsFacts
<1>8. lapsed = {}
  BY NotLapsed
<1>9. ReservedTrue(t)
  BY <1>8 DEF Reserved
<1>10. LET m == marker[<<t, home[t]>>] IN
       m # NoMarker /\ m.active /\ m.fresh /\ Needs(t) <= m.reserved /\ m.reserved \in Nat
  BY <1>4, <1>5, <1>9, QuotaFacts DEF ReservedTrue, TypeOK, Marker
<1>11. QED
  BY <1>6, <1>7, <1>10 DEF ReservedTrue

\* A step that decides nothing.
LEMMA CalmStep ==
    ASSUME CInv, KInv', NEW s \in Sessions, Apart(s),
           admitted' = admitted, LockGoes,
           lapsed' = {} => DiskGoes(s) /\ ReservedTrue(s)',
           \A h \in Hosts : Held(h)' /\ lock'[h].step # "reserve" /\ Storing(s)' =>
              Storing(s) /\ home'[s] = home[s],
           Writer(s)' => Writer(s) /\ home'[s] = home[s]
    PROVE  CInv'
<1>1. TypeOK /\ TypeOK'
  BY DEF CInv, KInv, RInv
<1>2. SUFFICES ASSUME lapsed' = {}
               PROVE  /\ \A t \in Sessions : ReservedTrue(t)'
                      /\ ReadEnough' /\ Sum(Weights, Files)' <= Cap
  BY DEF CInv, Reserved, ReadEnough, Room
<1>3. lapsed = {}
  BY <1>1, <1>2, NotLapsed
<1>4. \A t \in Sessions : ReservedTrue(t)'
  BY <1>1, <1>2, OthersReserved DEF CInv
<1>5. \A t \in Sessions : t # s =>
        /\ Storing(t)' => Storing(t)
        /\ Writer(t)' => Writer(t)
        /\ home'[t] = home[t]
  <2>1. SUFFICES ASSUME NEW t \in Sessions, t # s
                 PROVE  /\ Storing(t)' => Storing(t)
                        /\ Writer(t)' => Writer(t)
                        /\ home'[t] = home[t]
    OBVIOUS
  <2>2. Holds(t, {"fallback"})' => Holds(t, {"fallback"})
    BY <2>1, FileShape DEF Apart, OtherLocks, Holds
  <2>3. QED
    BY <2>1, <2>2 DEF Apart, Others, Storing, Writer, Keeps, Alive
<1>6. \A t \in Sessions : Writer(t)' => Writer(t) /\ home'[t] = home[t]
  BY <1>5
<1>7. \A h \in Hosts, t \in Sessions :
         Held(h)' /\ lock'[h].step # "reserve" /\ Storing(t)' =>
            Storing(t) /\ home'[t] = home[t] /\ Needs(t)' <= Needs(t)
  BY <1>1, <1>2, <1>5, NeedsShrink
<1>8. ReadEnough'
  BY <1>1, <1>3, <1>6, <1>7, EnoughStays DEF CInv
<1>9. Sum(Weights, Files)' <= Cap
  BY <1>1, <1>2, <1>3, <1>6, RoomStays DEF CInv, Room
<1>10. QED
  BY <1>4, <1>8, <1>9

\* Who stores files renews its marker.
LEMMA StoringRenews ==
    ASSUME TypeOK, Reserved, lapsed = {}, NEW t \in Sessions, Storing(t)
    PROVE  Renews(t)
<1>1. ReservedTrue(t) /\ home[t] \in Dirs
  BY DEF Reserved, TypeOK
<1>2. Marked(t)
  BY <1>1 DEF ReservedTrue, Marked
<1>3. QED
  BY <1>2 DEF Renews, Storing, Keeps

LEMMA CreateCalm ==
    ASSUME OneLock, CInv, NEW s \in Sessions, Create(s)
    PROVE  CInv'
<1>1. UnderLock(s) /\ OfSession(s) /\ DiskTyped /\ SessionTyped /\ LockTyped /\ PastTyped
  BY UnpackKept DEF UnderLock, OfSession, CInv
<1>2. KInv' /\ TypeOK' /\ Apart(s)
  BY CreateKeeps, CreateStep DEF CInv, KInv, RInv
<1>3. lapsed' = {} => ReservedTrue(s)
  BY <1>1, <1>2, NotLapsed DEF CInv, Reserved, OfSession
<1>4. lapsed' = {} => ReservedTrue(s)'
  <2>1. ~Storing(s)'
    BY <1>1 DEF OfSession, Create, Storing, Keeps, Alive, Gone, Steps, Holds, JobTrue,
       Held, SessionTyped, diskVars
  <2>2. QED
    BY <2>1 DEF ReservedTrue
<1>5. \A h \in Hosts : Held(h)' /\ lock'[h].step # "reserve" /\ Storing(s)' =>
            Storing(s) /\ home'[s] = home[s]
  BY <1>1 DEF UnderLock, OfSession, Create, Fault, diskVars, sessionVars, pastVars,
     Storing, Keeps, Alive, Gone, Steps, Holds, SessionTyped, StartTrue, JobTrue, Held
<1>6. Writer(s)' => Writer(s) /\ home'[s] = home[s]
  BY <1>1 DEF UnderLock, OfSession, Create, Fault, diskVars, sessionVars, pastVars,
     Writer, Storing, Keeps, Alive, Gone, Steps, Holds, SessionTyped, StartTrue, JobTrue,
     Held
<1>7. LockGoes
  BY DEF Create, LockGoes, diskVars, sessionVars, pastVars
<1>8. DiskGoes(s)
  BY DEF Create, DiskGoes, diskVars, sessionVars, pastVars
<1>9. admitted' = admitted
  BY DEF Create, diskVars, sessionVars, pastVars
<1>10. QED
  BY <1>2, <1>4, <1>5, <1>6, <1>7, <1>8, <1>9, CalmStep

LEMMA PublishCalm ==
    ASSUME OneLock, CInv, NEW s \in Sessions, Publish(s)
    PROVE  CInv'
<1>1. UnderLock(s) /\ OfSession(s) /\ DiskTyped /\ SessionTyped /\ LockTyped /\ PastTyped
  BY UnpackKept DEF UnderLock, OfSession, CInv
<1>2. KInv' /\ TypeOK' /\ Apart(s)
  BY PublishKeeps, PublishStep DEF CInv, KInv, RInv
<1>3. Marks(s, FALSE, TRUE)
  BY <1>1, MarksIt DEF Publish, OfSession
<1>4. lapsed' = {} => ReservedTrue(s)
  BY <1>1, <1>2, NotLapsed DEF CInv, Reserved, OfSession
<1>5. lapsed' = {} => ReservedTrue(s)'
  <2>1. home' = home /\ Needs(s)' = Needs(s)
    BY DEF Publish, Needs, Growth, Rotates, Log, sessionVars
  <2>2. Needs(s) <= Growth(s)
    BY <1>1, NeedsFacts DEF OfSession
  <2>3. Storing(s)' => ~console'[s]
    BY DEF Storing, Keeps
  <2>4. Storing(s)' => Marks(s, FALSE, TRUE)
    BY <1>3, <2>3 DEF Publish, sessionVars
  <2>5. QED
    BY <2>1, <2>2, <2>4 DEF ReservedTrue, Marks
<1>6. \A h \in Hosts : Held(h)' /\ lock'[h].step # "reserve" /\ Storing(s)' =>
            Storing(s) /\ home'[s] = home[s]
  BY <1>1 DEF UnderLock, OfSession, Publish, Runs, LockFree, diskVars, sessionVars,
     pastVars, Storing, Keeps, Alive, Gone, Steps, Holds, SessionTyped, StartTrue,
     JobTrue, Held
<1>7. Writer(s)' => Writer(s) /\ home'[s] = home[s]
  <2>1. s \notin admitted'
    BY <1>1 DEF OfSession, Publish, Runs, StartTrue, Blank, pastVars
  <2>2. QED
    BY <2>1 DEF Writer
<1>8. LockGoes
  BY DEF Publish, LockGoes, diskVars, sessionVars, pastVars
<1>9. DiskGoes(s)
  BY DEF Publish, DiskGoes, diskVars, sessionVars, pastVars
<1>10. admitted' = admitted
  BY DEF Publish, diskVars, sessionVars, pastVars
<1>11. QED
  BY <1>2, <1>5, <1>6, <1>7, <1>8, <1>9, <1>10, CalmStep

LEMMA PublishFailsCalm ==
    ASSUME OneLock, CInv, NEW s \in Sessions, PublishFails(s)
    PROVE  CInv'
<1>1. UnderLock(s) /\ OfSession(s) /\ DiskTyped /\ SessionTyped /\ LockTyped /\ PastTyped
  BY UnpackKept DEF UnderLock, OfSession, CInv
<1>2. KInv' /\ TypeOK' /\ Apart(s)
  BY PublishFailsKeeps, PublishFailsStep DEF CInv, KInv, RInv
<1>3. lapsed' = {} => ReservedTrue(s)
  BY <1>1, <1>2, NotLapsed DEF CInv, Reserved, OfSession
<1>4. lapsed' = {} => ReservedTrue(s)'
  <2>1. Storing(s)' => Storing(s)
    BY <1>1 DEF UnderLock, OfSession, PublishFails, Runs, Fault, diskVars, sessionVars,
       pastVars, Storing, Keeps, Alive, Gone, Steps, Holds, SessionTyped, StartTrue,
       JobTrue, Held
  <2>2. Needs(s)' = Needs(s) /\ marker'[<<s, home'[s]>>] = marker[<<s, home[s]>>]
    BY DEF PublishFails, Needs, Growth, Rotates, Log, diskVars, sessionVars, pastVars
  <2>3. QED
    BY <1>3, <2>1, <2>2 DEF ReservedTrue
<1>5. \A h \in Hosts : Held(h)' /\ lock'[h].step # "reserve" /\ Storing(s)' =>
            Storing(s) /\ home'[s] = home[s]
  <2>1. lock' = lock /\ ~Holds(s, {"fallback"})
    BY DEF PublishFails, Runs, Holds, diskVars
  <2>2. failing'[s] \/ console'[s]
    BY <1>1 DEF PublishFails, SessionTyped
  <2>3. ~Storing(s)'
    BY <2>1, <2>2 DEF Storing, Keeps, Holds
  <2>4. QED
    BY <2>3
<1>6. Writer(s)' => Writer(s) /\ home'[s] = home[s]
  BY <1>1 DEF UnderLock, OfSession, PublishFails, Runs, Fault, diskVars, sessionVars,
     pastVars, Writer, Storing, Keeps, Alive, Gone, Steps, Holds, SessionTyped,
     StartTrue, JobTrue, Held
<1>7. LockGoes
  BY DEF PublishFails, LockGoes, diskVars, sessionVars, pastVars
<1>8. DiskGoes(s)
  BY DEF PublishFails, DiskGoes, diskVars, sessionVars, pastVars
<1>9. admitted' = admitted
  BY DEF PublishFails, diskVars, sessionVars, pastVars
<1>10. QED
  BY <1>2, <1>4, <1>5, <1>6, <1>7, <1>8, <1>9, CalmStep

LEMMA ListMarkersCalm ==
    ASSUME OneLock, CInv, NEW s \in Sessions, ListMarkers(s)
    PROVE  CInv'
<1>1. UnderLock(s) /\ OfSession(s) /\ DiskTyped /\ SessionTyped /\ LockTyped /\ PastTyped
  BY UnpackKept DEF UnderLock, OfSession, CInv
<1>2. KInv' /\ TypeOK' /\ Apart(s)
  BY ListMarkersKeeps, ListMarkersStep DEF CInv, KInv, RInv
<1>3. lapsed' = {} => ReservedTrue(s)
  BY <1>1, <1>2, NotLapsed DEF CInv, Reserved, OfSession
<1>4. lapsed' = {} => ReservedTrue(s)'
  <2>1. Storing(s)' => Storing(s)
    BY <1>1 DEF UnderLock, OfSession, ListMarkers, Runs, diskVars, sessionVars, pastVars,
       Storing, Keeps, Alive, Gone, Steps, Holds, SessionTyped, StartTrue, JobTrue, Held
  <2>2. Needs(s)' = Needs(s) /\ marker'[<<s, home'[s]>>] = marker[<<s, home[s]>>]
    BY DEF ListMarkers, Needs, Growth, Rotates, Log, diskVars, sessionVars, pastVars
  <2>3. QED
    BY <1>3, <2>1, <2>2 DEF ReservedTrue
<1>5. \A h \in Hosts : Held(h)' /\ lock'[h].step # "reserve" /\ Storing(s)' =>
            Storing(s) /\ home'[s] = home[s]
  BY <1>1 DEF UnderLock, OfSession, ListMarkers, Runs, diskVars, sessionVars, pastVars,
     Storing, Keeps, Alive, Gone, Steps, Holds, SessionTyped, StartTrue, JobTrue, Held
<1>6. Writer(s)' => Writer(s) /\ home'[s] = home[s]
  BY <1>1 DEF UnderLock, OfSession, ListMarkers, Runs, diskVars, sessionVars, pastVars,
     Writer, Storing, Keeps, Alive, Gone, Steps, Holds, SessionTyped, StartTrue, JobTrue,
     Held
<1>7. LockGoes
  BY DEF ListMarkers, LockGoes, diskVars, sessionVars, pastVars
<1>8. DiskGoes(s)
  BY DEF ListMarkers, DiskGoes, diskVars, sessionVars, pastVars
<1>9. admitted' = admitted
  BY DEF ListMarkers, diskVars, sessionVars, pastVars
<1>10. QED
  BY <1>2, <1>4, <1>5, <1>6, <1>7, <1>8, <1>9, CalmStep

LEMMA EndReportsCalm ==
    ASSUME OneLock, CInv, NEW s \in Sessions, EndReports(s)
    PROVE  CInv'
<1>1. UnderLock(s) /\ OfSession(s) /\ DiskTyped /\ SessionTyped /\ LockTyped /\ PastTyped
  BY UnpackKept DEF UnderLock, OfSession, CInv
<1>2. KInv' /\ TypeOK' /\ Apart(s)
  BY EndReportsKeeps, EndReportsStep DEF CInv, KInv, RInv
<1>3. lapsed' = {} => ReservedTrue(s)
  BY <1>1, <1>2, NotLapsed DEF CInv, Reserved, OfSession
<1>4. lapsed' = {} => ReservedTrue(s)'
  <2>1. Storing(s)' => Storing(s)
    BY <1>1 DEF UnderLock, OfSession, EndReports, Runs, diskVars, sessionVars, pastVars,
       Storing, Keeps, Alive, Gone, Steps, Holds, SessionTyped, StartTrue, JobTrue, Held
  <2>2. Needs(s)' = Needs(s) /\ marker'[<<s, home'[s]>>] = marker[<<s, home[s]>>]
    BY DEF EndReports, Needs, Growth, Rotates, Log, diskVars, sessionVars, pastVars
  <2>3. QED
    BY <1>3, <2>1, <2>2 DEF ReservedTrue
<1>5. \A h \in Hosts : Held(h)' /\ lock'[h].step # "reserve" /\ Storing(s)' =>
            Storing(s) /\ home'[s] = home[s]
  BY <1>1 DEF UnderLock, OfSession, EndReports, Runs, diskVars, sessionVars, pastVars,
     Storing, Keeps, Alive, Gone, Steps, Holds, SessionTyped, StartTrue, JobTrue, Held
<1>6. Writer(s)' => Writer(s) /\ home'[s] = home[s]
  BY <1>1 DEF UnderLock, OfSession, EndReports, Runs, diskVars, sessionVars, pastVars,
     Writer, Storing, Keeps, Alive, Gone, Steps, Holds, SessionTyped, StartTrue, JobTrue,
     Held
<1>7. LockGoes
  BY DEF EndReports, LockGoes, diskVars, sessionVars, pastVars
<1>8. DiskGoes(s)
  BY DEF EndReports, DiskGoes, diskVars, sessionVars, pastVars
<1>9. admitted' = admitted
  BY DEF EndReports, diskVars, sessionVars, pastVars
<1>10. QED
  BY <1>2, <1>4, <1>5, <1>6, <1>7, <1>8, <1>9, CalmStep

LEMMA CleanCalm ==
    ASSUME OneLock, CInv, NEW s \in Sessions, Clean(s)
    PROVE  CInv'
<1>1. UnderLock(s) /\ OfSession(s) /\ DiskTyped /\ SessionTyped /\ LockTyped /\ PastTyped
  BY UnpackKept DEF UnderLock, OfSession, CInv
<1>2. KInv' /\ TypeOK' /\ Apart(s)
  BY CleanKeeps, CleanStep DEF CInv, KInv, RInv
<1>3. lapsed' = {} => ReservedTrue(s)
  BY <1>1, <1>2, NotLapsed DEF CInv, Reserved, OfSession
<1>4. lapsed' = {} => ReservedTrue(s)'
  <2>1. Storing(s)' => Storing(s)
    BY <1>1 DEF UnderLock, OfSession, Clean, Runs, LockFree, diskVars, sessionVars,
       pastVars, Storing, Keeps, Alive, Gone, Steps, Holds, SessionTyped, StartTrue,
       JobTrue, Held
  <2>2. Needs(s)' = Needs(s) /\ marker'[<<s, home'[s]>>] = marker[<<s, home[s]>>]
    BY DEF Clean, Needs, Growth, Rotates, Log, diskVars, sessionVars, pastVars
  <2>3. QED
    BY <1>3, <2>1, <2>2 DEF ReservedTrue
<1>5. \A h \in Hosts : Held(h)' /\ lock'[h].step # "reserve" /\ Storing(s)' =>
            Storing(s) /\ home'[s] = home[s]
  BY <1>1 DEF UnderLock, OfSession, Clean, Runs, LockFree, diskVars, sessionVars,
     pastVars, Storing, Keeps, Alive, Gone, Steps, Holds, SessionTyped, StartTrue,
     JobTrue, Held
<1>6. Writer(s)' => Writer(s) /\ home'[s] = home[s]
  BY <1>1 DEF UnderLock, OfSession, Clean, Runs, LockFree, diskVars, sessionVars,
     pastVars, Writer, Storing, Keeps, Alive, Gone, Steps, Holds, SessionTyped,
     StartTrue, JobTrue, Held
<1>7. LockGoes
  BY DEF Clean, LockGoes, diskVars, sessionVars, pastVars
<1>8. DiskGoes(s)
  BY DEF Clean, DiskGoes, diskVars, sessionVars, pastVars
<1>9. admitted' = admitted
  BY DEF Clean, diskVars, sessionVars, pastVars
<1>10. QED
  BY <1>2, <1>4, <1>5, <1>6, <1>7, <1>8, <1>9, CalmStep

LEMMA BeginAdmissionCalm ==
    ASSUME OneLock, CInv, NEW s \in Sessions, BeginAdmission(s)
    PROVE  CInv'
<1>1. UnderLock(s) /\ OfSession(s) /\ DiskTyped /\ SessionTyped /\ LockTyped /\ PastTyped
  BY UnpackKept DEF UnderLock, OfSession, CInv
<1>2. KInv' /\ TypeOK' /\ Apart(s)
  BY BeginAdmissionKeeps, BeginAdmissionStep DEF CInv, KInv, RInv
<1>3. Marks(s, FALSE, TRUE)
  BY <1>1, MarksIt DEF BeginAdmission, OfSession, Renewed
<1>4. lapsed' = {} => ReservedTrue(s)
  BY <1>1, <1>2, NotLapsed DEF CInv, Reserved, OfSession
<1>5. lapsed' = {} => ReservedTrue(s)'
  <2>1. home' = home /\ Needs(s)' = Needs(s)
    BY DEF BeginAdmission, Needs, Growth, Rotates, Log, sessionVars
  <2>2. Needs(s) <= Growth(s)
    BY <1>1, NeedsFacts DEF OfSession
  <2>3. Storing(s)' => ~console'[s]
    BY DEF Storing, Keeps
  <2>4. Storing(s)' => Marks(s, FALSE, TRUE)
    BY <1>3, <2>3 DEF BeginAdmission, sessionVars
  <2>5. QED
    BY <2>1, <2>2, <2>4 DEF ReservedTrue, Marks
<1>6. \A h \in Hosts : Held(h)' /\ lock'[h].step # "reserve" /\ Storing(s)' =>
            Storing(s) /\ home'[s] = home[s]
  BY <1>1 DEF UnderLock, OfSession, BeginAdmission, Runs, LockFree, Renewed, diskVars,
     sessionVars, pastVars, Storing, Keeps, Alive, Gone, Steps, Holds, SessionTyped,
     StartTrue, JobTrue, Held
<1>7. Writer(s)' => Writer(s) /\ home'[s] = home[s]
  BY <1>1 DEF UnderLock, OfSession, BeginAdmission, Runs, LockFree, Renewed, diskVars,
     sessionVars, pastVars, Writer, Storing, Keeps, Alive, Gone, Steps, Holds,
     SessionTyped, StartTrue, JobTrue, Held
<1>8. LockGoes
  BY <1>1, TakesIt DEF OfSession, LockGoes, BeginAdmission, Takes
<1>9. DiskGoes(s)
  BY DEF BeginAdmission, DiskGoes, diskVars, sessionVars, pastVars
<1>10. admitted' = admitted
  BY DEF BeginAdmission, diskVars, sessionVars, pastVars
<1>11. QED
  BY <1>2, <1>5, <1>6, <1>7, <1>8, <1>9, <1>10, CalmStep

LEMMA StartOnConsoleCalm ==
    ASSUME OneLock, CInv, NEW s \in Sessions, StartOnConsole(s)
    PROVE  CInv'
<1>1. UnderLock(s) /\ OfSession(s) /\ DiskTyped /\ SessionTyped /\ LockTyped /\ PastTyped
  BY UnpackKept DEF UnderLock, OfSession, CInv
<1>2. KInv' /\ TypeOK' /\ Apart(s)
  BY StartOnConsoleKeeps, StartOnConsoleStep DEF CInv, KInv, RInv
<1>3. lapsed' = {} => ReservedTrue(s)
  BY <1>1, <1>2, NotLapsed DEF CInv, Reserved, OfSession
<1>4. lapsed' = {} => ReservedTrue(s)'
  <2>1. Storing(s)' => Storing(s)
    BY <1>1 DEF UnderLock, OfSession, StartOnConsole, Runs, diskVars, sessionVars,
       pastVars, Storing, Keeps, Alive, Gone, Steps, Holds, SessionTyped, StartTrue,
       JobTrue, Held
  <2>2. Needs(s)' = Needs(s) /\ marker'[<<s, home'[s]>>] = marker[<<s, home[s]>>]
    BY DEF StartOnConsole, Needs, Growth, Rotates, Log, diskVars, sessionVars, pastVars
  <2>3. QED
    BY <1>3, <2>1, <2>2 DEF ReservedTrue
<1>5. \A h \in Hosts : Held(h)' /\ lock'[h].step # "reserve" /\ Storing(s)' =>
            Storing(s) /\ home'[s] = home[s]
  BY <1>1 DEF UnderLock, OfSession, StartOnConsole, Runs, diskVars, sessionVars,
     pastVars, Storing, Keeps, Alive, Gone, Steps, Holds, SessionTyped, StartTrue,
     JobTrue, Held
<1>6. Writer(s)' => Writer(s) /\ home'[s] = home[s]
  BY <1>1 DEF UnderLock, OfSession, StartOnConsole, Runs, diskVars, sessionVars,
     pastVars, Writer, Storing, Keeps, Alive, Gone, Steps, Holds, SessionTyped,
     StartTrue, JobTrue, Held
<1>7. LockGoes
  BY DEF StartOnConsole, LockGoes, diskVars, sessionVars, pastVars
<1>8. DiskGoes(s)
  BY DEF StartOnConsole, DiskGoes, diskVars, sessionVars, pastVars
<1>9. admitted' = admitted
  BY DEF StartOnConsole, diskVars, sessionVars, pastVars
<1>10. QED
  BY <1>2, <1>4, <1>5, <1>6, <1>7, <1>8, <1>9, CalmStep

LEMMA AdmissionTimesOutCalm ==
    ASSUME OneLock, CInv, NEW s \in Sessions, AdmissionTimesOut(s)
    PROVE  CInv'
<1>1. UnderLock(s) /\ OfSession(s) /\ DiskTyped /\ SessionTyped /\ LockTyped /\ PastTyped
  BY UnpackKept DEF UnderLock, OfSession, CInv
<1>2. KInv' /\ TypeOK' /\ Apart(s)
  BY AdmissionTimesOutKeeps, AdmissionTimesOutStep DEF CInv, KInv, RInv
<1>3. Marks(s, TRUE, FALSE)
  BY <1>1, MarksIt DEF AdmissionTimesOut, OfSession
<1>4. lapsed' = {} => ReservedTrue(s)
  BY <1>1, <1>2, NotLapsed DEF CInv, Reserved, OfSession
<1>5. lapsed' = {} => ReservedTrue(s)'
  <2>1. ~Storing(s)'
    BY <1>1 DEF OfSession, AdmissionTimesOut, Storing, Keeps, Alive, Gone, Steps, Holds,
       JobTrue, Held, SessionTyped, diskVars
  <2>2. QED
    BY <2>1 DEF ReservedTrue
<1>6. \A h \in Hosts : Held(h)' /\ lock'[h].step # "reserve" /\ Storing(s)' =>
            Storing(s) /\ home'[s] = home[s]
  BY <1>1 DEF UnderLock, OfSession, AdmissionTimesOut, Runs, LockFree, Fault, diskVars,
     sessionVars, pastVars, Storing, Keeps, Alive, Gone, Steps, Holds, SessionTyped,
     StartTrue, JobTrue, Held
<1>7. Writer(s)' => Writer(s) /\ home'[s] = home[s]
  BY <1>1 DEF UnderLock, OfSession, AdmissionTimesOut, Runs, LockFree, Fault, diskVars,
     sessionVars, pastVars, Writer, Storing, Keeps, Alive, Gone, Steps, Holds,
     SessionTyped, StartTrue, JobTrue, Held
<1>8. LockGoes
  BY DEF AdmissionTimesOut, LockGoes, diskVars, sessionVars, pastVars
<1>9. DiskGoes(s)
  BY DEF AdmissionTimesOut, DiskGoes, diskVars, sessionVars, pastVars
<1>10. admitted' = admitted
  BY DEF AdmissionTimesOut, diskVars, sessionVars, pastVars
<1>11. QED
  BY <1>2, <1>5, <1>6, <1>7, <1>8, <1>9, <1>10, CalmStep

LEMMA AppendCalm ==
    ASSUME OneLock, CInv, NEW s \in Sessions, Append(s)
    PROVE  CInv'
<1>1. UnderLock(s) /\ OfSession(s) /\ DiskTyped /\ SessionTyped /\ LockTyped /\ PastTyped
  BY UnpackKept DEF UnderLock, OfSession, CInv
<1>2. KInv' /\ TypeOK' /\ Apart(s)
  BY AppendKeeps, AppendStep DEF CInv, KInv, RInv
<1>3. lapsed' = {} => ReservedTrue(s)
  BY <1>1, <1>2, NotLapsed DEF CInv, Reserved, OfSession
<1>4. lapsed' = {} => DiskGoes(s)
  <2>1. Log(s) = <<s, home[s], "log">> /\ home' = home
    BY DEF Append, Log, sessionVars
  <2>2. s \in admitted => Writer(s)'
    BY <1>1 DEF Append, Writes, Writer, Keeps, Alive, Gone, Steps, SessionTyped,
       sessionVars, pastVars
  <2>3. \A a \in Files : disk'[a] = disk[a] \/ (a = Log(s) /\ disk'[a] = Grown(disk[a]))
    <3>1. disk' = [disk EXCEPT ![Log(s)] = Grown(disk[Log(s)])] /\ Log(s) \in Files
      BY <1>1, <2>1, NeedsFacts DEF Append, OfSession
    <3>2. disk \in [Files -> 0 .. Quota]
      BY <1>1 DEF DiskTyped
    <3>3. QED
      BY <3>1, <3>2, Zenon
  <2>4. QED
    BY <2>1, <2>2, <2>3 DEF DiskGoes
<1>5. lapsed' = {} => ReservedTrue(s)'
  <2>1. SUFFICES ASSUME lapsed' = {}, Storing(s)' PROVE ReservedTrue(s)'
    BY DEF ReservedTrue
  <2>2. Storing(s) /\ home' = home /\ marker' = marker
    BY <2>1 DEF Append, sessionVars, Storing, Keeps, Holds, Alive
  <2>3. Needs(s)' <= Needs(s) /\ Needs(s)' \in Nat /\ Needs(s) \in Nat
    BY <1>1, <1>2, <1>4, <2>1, <2>2, NeedsShrink, NeedsFacts, NeedsTypeAfter
       DEF OfSession
  <2>4. marker[<<s, home[s]>>] # NoMarker => marker[<<s, home[s]>>].reserved \in Nat
    <3>1. marker[<<s, home[s]>>] \in Marker \cup {NoMarker}
      BY <1>1 DEF OfSession, DiskTyped
    <3>2. QED
      BY <3>1, QuotaFacts DEF Marker
  <2>5. QED
    BY <1>3, <2>1, <2>2, <2>3, <2>4 DEF ReservedTrue
<1>6. \A h \in Hosts : Held(h)' /\ lock'[h].step # "reserve" /\ Storing(s)' =>
            Storing(s) /\ home'[s] = home[s]
  BY <1>1 DEF UnderLock, OfSession, Append, Writes, Grown, diskVars, sessionVars,
     pastVars, Storing, Keeps, Alive, Gone, Steps, Holds, SessionTyped, StartTrue,
     JobTrue, Held
<1>7. Writer(s)' => Writer(s) /\ home'[s] = home[s]
  BY <1>1 DEF UnderLock, OfSession, Append, Writes, Grown, diskVars, sessionVars,
     pastVars, Writer, Storing, Keeps, Alive, Gone, Steps, Holds, SessionTyped,
     StartTrue, JobTrue, Held
<1>8. LockGoes
  BY DEF Append, LockGoes, diskVars, sessionVars, pastVars
<1>9. admitted' = admitted
  BY DEF Append, diskVars, sessionVars, pastVars
<1>10. QED
  BY <1>2, <1>5, <1>6, <1>7, <1>8, <1>4, <1>9, CalmStep

LEMMA RefreshCalm ==
    ASSUME OneLock, CInv, NEW s \in Sessions, Refresh(s)
    PROVE  CInv'
<1>1. UnderLock(s) /\ OfSession(s) /\ DiskTyped /\ SessionTyped /\ LockTyped /\ PastTyped
  BY UnpackKept DEF UnderLock, OfSession, CInv
<1>2. KInv' /\ TypeOK' /\ Apart(s)
  BY RefreshKeeps, RefreshStep DEF CInv, KInv, RInv
<1>3. Marks(s, FALSE, TRUE)
  BY <1>1, MarksIt DEF Refresh, OfSession, Renewed, Writes
<1>4. lapsed' = {} => ReservedTrue(s)
  BY <1>1, <1>2, NotLapsed DEF CInv, Reserved, OfSession
<1>5. lapsed' = {} => ReservedTrue(s)'
  <2>1. home' = home /\ Needs(s)' = Needs(s)
    BY DEF Refresh, Needs, Growth, Rotates, Log, sessionVars
  <2>2. Needs(s) <= Growth(s)
    BY <1>1, NeedsFacts DEF OfSession
  <2>3. Storing(s)' => ~console'[s]
    BY DEF Storing, Keeps
  <2>4. Storing(s)' => Marks(s, FALSE, TRUE)
    BY <1>3, <2>3 DEF Refresh, sessionVars
  <2>5. QED
    BY <2>1, <2>2, <2>4 DEF ReservedTrue, Marks
<1>6. \A h \in Hosts : Held(h)' /\ lock'[h].step # "reserve" /\ Storing(s)' =>
            Storing(s) /\ home'[s] = home[s]
  BY <1>1 DEF UnderLock, OfSession, Refresh, Writes, Renewed, diskVars, sessionVars,
     pastVars, Storing, Keeps, Alive, Gone, Steps, Holds, SessionTyped, StartTrue,
     JobTrue, Held
<1>7. Writer(s)' => Writer(s) /\ home'[s] = home[s]
  BY <1>1 DEF UnderLock, OfSession, Refresh, Writes, Renewed, diskVars, sessionVars,
     pastVars, Writer, Storing, Keeps, Alive, Gone, Steps, Holds, SessionTyped,
     StartTrue, JobTrue, Held
<1>8. LockGoes
  BY DEF Refresh, LockGoes, diskVars, sessionVars, pastVars
<1>9. DiskGoes(s)
  BY DEF Refresh, DiskGoes, diskVars, sessionVars, pastVars
<1>10. admitted' = admitted
  BY DEF Refresh, diskVars, sessionVars, pastVars
<1>11. QED
  BY <1>2, <1>5, <1>6, <1>7, <1>8, <1>9, <1>10, CalmStep

LEMMA WriteFailsCalm ==
    ASSUME OneLock, CInv, NEW s \in Sessions, WriteFails(s)
    PROVE  CInv'
<1>1. UnderLock(s) /\ OfSession(s) /\ DiskTyped /\ SessionTyped /\ LockTyped /\ PastTyped
  BY UnpackKept DEF UnderLock, OfSession, CInv
<1>2. KInv' /\ TypeOK' /\ Apart(s)
  BY WriteFailsKeeps, WriteFailsStep DEF CInv, KInv, RInv
<1>3. lapsed' = {} => ReservedTrue(s)
  BY <1>1, <1>2, NotLapsed DEF CInv, Reserved, OfSession
<1>4. lapsed' = {} => ReservedTrue(s)'
  <2>1. Storing(s)' => Storing(s)
    BY <1>1 DEF UnderLock, OfSession, WriteFails, Writes, Fault, diskVars, sessionVars,
       pastVars, Storing, Keeps, Alive, Gone, Steps, Holds, SessionTyped, StartTrue,
       JobTrue, Held
  <2>2. Needs(s)' = Needs(s) /\ marker'[<<s, home'[s]>>] = marker[<<s, home[s]>>]
    BY DEF WriteFails, Needs, Growth, Rotates, Log, diskVars, sessionVars, pastVars
  <2>3. QED
    BY <1>3, <2>1, <2>2 DEF ReservedTrue
<1>5. \A h \in Hosts : Held(h)' /\ lock'[h].step # "reserve" /\ Storing(s)' =>
            Storing(s) /\ home'[s] = home[s]
  BY <1>1 DEF UnderLock, OfSession, WriteFails, Writes, Fault, diskVars, sessionVars,
     pastVars, Storing, Keeps, Alive, Gone, Steps, Holds, SessionTyped, StartTrue,
     JobTrue, Held
<1>6. Writer(s)' => Writer(s) /\ home'[s] = home[s]
  BY <1>1 DEF UnderLock, OfSession, WriteFails, Writes, Fault, diskVars, sessionVars,
     pastVars, Writer, Storing, Keeps, Alive, Gone, Steps, Holds, SessionTyped,
     StartTrue, JobTrue, Held
<1>7. LockGoes
  BY DEF WriteFails, LockGoes, diskVars, sessionVars, pastVars
<1>8. DiskGoes(s)
  BY DEF WriteFails, DiskGoes, diskVars, sessionVars, pastVars
<1>9. admitted' = admitted
  BY DEF WriteFails, diskVars, sessionVars, pastVars
<1>10. QED
  BY <1>2, <1>4, <1>5, <1>6, <1>7, <1>8, <1>9, CalmStep

LEMMA BeginFallbackCalm ==
    ASSUME OneLock, CInv, NEW s \in Sessions, BeginFallback(s)
    PROVE  CInv'
<1>1. UnderLock(s) /\ OfSession(s) /\ DiskTyped /\ SessionTyped /\ LockTyped /\ PastTyped
  BY UnpackKept DEF UnderLock, OfSession, CInv
<1>2. KInv' /\ TypeOK' /\ Apart(s)
  BY BeginFallbackKeeps, BeginFallbackStep DEF CInv, KInv, RInv
<1>3. lapsed' = {} => ReservedTrue(s)
  BY <1>1, <1>2, NotLapsed DEF CInv, Reserved, OfSession
<1>4. lapsed' = {} => ReservedTrue(s)'
  <2>1. disk[<<s, "temporary", "log">>] \in 0 .. Quota
    BY <1>1 DEF OfSession, DiskTyped, Dirs
  <2>2. PICK m : m = [clean |-> FALSE, active |-> TRUE, fresh |-> TRUE,
                      reserved |-> Quota - disk[<<s, "temporary", "log">>]]
    OBVIOUS
  <2>3. m \in Marker
    <3>1. Quota - disk[<<s, "temporary", "log">>] \in 0 .. Quota
      BY <2>1, QuotaFacts
    <3>2. QED
      BY <2>2, <3>1 DEF Marker
  <2>4. /\ m # NoMarker /\ m.active /\ m.fresh
        /\ m.reserved = Quota - disk[<<s, "temporary", "log">>]
    BY <2>2, <2>3, SentinelAssumption
  <2>5. marker'[<<s, "temporary">>] = m /\ home'[s] = "temporary" /\ disk' = disk
    BY <1>1, <2>2 DEF OfSession, DiskTyped, SessionTyped, Dirs, BeginFallback
  <2>6. Needs(s)' <= Quota - disk[<<s, "temporary", "log">>]
    BY <2>1, <2>5, QuotaFacts DEF Needs, Growth, Rotates, Log
  <2>7. QED
    BY <2>4, <2>5, <2>6 DEF ReservedTrue
<1>5. \A h \in Hosts : Held(h)' /\ lock'[h].step # "reserve" /\ Storing(s)' =>
            Storing(s) /\ home'[s] = home[s]
  <2>1. Takes(s, "fallback") /\ \A h \in Hosts : ~Held(h)
    BY <1>1, TakesIt DEF UnderLock, OfSession, BeginFallback, LockFree, Held
  <2>2. QED
    BY <2>1 DEF Takes, Held
<1>6. Writer(s)' => Writer(s) /\ home'[s] = home[s]
  BY <1>1 DEF UnderLock, OfSession, BeginFallback, LockFree, diskVars, sessionVars,
     pastVars, Writer, Storing, Keeps, Alive, Gone, Steps, Holds, SessionTyped,
     StartTrue, JobTrue, Held
<1>7. LockGoes
  BY <1>1, TakesIt DEF OfSession, LockGoes, BeginFallback, Takes
<1>8. DiskGoes(s)
  BY DEF BeginFallback, DiskGoes, diskVars, sessionVars, pastVars
<1>9. admitted' = admitted
  BY DEF BeginFallback, diskVars, sessionVars, pastVars
<1>10. QED
  BY <1>2, <1>4, <1>5, <1>6, <1>7, <1>8, <1>9, CalmStep

LEMMA FallbackFailsCalm ==
    ASSUME OneLock, CInv, NEW s \in Sessions, FallbackFails(s)
    PROVE  CInv'
<1>1. UnderLock(s) /\ OfSession(s) /\ DiskTyped /\ SessionTyped /\ LockTyped /\ PastTyped
  BY UnpackKept DEF UnderLock, OfSession, CInv
<1>2. KInv' /\ TypeOK' /\ Apart(s)
  BY FallbackFailsKeeps, FallbackFailsStep DEF CInv, KInv, RInv
<1>3. lapsed' = {} => ReservedTrue(s)
  BY <1>1, <1>2, NotLapsed DEF CInv, Reserved, OfSession
<1>4. lapsed' = {} => ReservedTrue(s)'
  <2>1. ~Storing(s)'
    BY <1>1 DEF OfSession, FallbackFails, Storing, Keeps, Alive, Gone, Steps, Holds,
       JobTrue, Held, SessionTyped, diskVars
  <2>2. QED
    BY <2>1 DEF ReservedTrue
<1>5. \A h \in Hosts : Held(h)' /\ lock'[h].step # "reserve" /\ Storing(s)' =>
            Storing(s) /\ home'[s] = home[s]
  BY <1>1 DEF UnderLock, OfSession, FallbackFails, LockFree, diskVars, sessionVars,
     pastVars, Storing, Keeps, Alive, Gone, Steps, Holds, SessionTyped, StartTrue,
     JobTrue, Held
<1>6. Writer(s)' => Writer(s) /\ home'[s] = home[s]
  BY <1>1 DEF UnderLock, OfSession, FallbackFails, LockFree, diskVars, sessionVars,
     pastVars, Writer, Storing, Keeps, Alive, Gone, Steps, Holds, SessionTyped,
     StartTrue, JobTrue, Held
<1>7. LockGoes
  BY DEF FallbackFails, LockGoes, diskVars, sessionVars, pastVars
<1>8. DiskGoes(s)
  BY DEF FallbackFails, DiskGoes, diskVars, sessionVars, pastVars
<1>9. admitted' = admitted
  BY DEF FallbackFails, diskVars, sessionVars, pastVars
<1>10. QED
  BY <1>2, <1>4, <1>5, <1>6, <1>7, <1>8, <1>9, CalmStep

LEMMA BeginExportCalm ==
    ASSUME OneLock, CInv, NEW s \in Sessions, BeginExport(s)
    PROVE  CInv'
<1>1. UnderLock(s) /\ OfSession(s) /\ DiskTyped /\ SessionTyped /\ LockTyped /\ PastTyped
  BY UnpackKept DEF UnderLock, OfSession, CInv
<1>2. KInv' /\ TypeOK' /\ Apart(s)
  BY BeginExportKeeps, BeginExportStep DEF CInv, KInv, RInv
<1>3. Marks(s, FALSE, TRUE) \/ (console[s] /\ marker' = marker)
  <2>1. CASE console[s]
    BY <2>1 DEF BeginExport, Renewed
  <2>2. CASE ~console[s]
    BY <1>1, <2>2, MarksIt DEF BeginExport, OfSession, Renewed
  <2>3. QED
    BY <2>1, <2>2
<1>4. lapsed' = {} => ReservedTrue(s)
  BY <1>1, <1>2, NotLapsed DEF CInv, Reserved, OfSession
<1>5. lapsed' = {} => ReservedTrue(s)'
  <2>1. home' = home /\ Needs(s)' = Needs(s)
    BY DEF BeginExport, Needs, Growth, Rotates, Log, sessionVars
  <2>2. Needs(s) <= Growth(s)
    BY <1>1, NeedsFacts DEF OfSession
  <2>3. Storing(s)' => ~console'[s]
    BY DEF Storing, Keeps
  <2>4. Storing(s)' => Marks(s, FALSE, TRUE)
    BY <1>3, <2>3 DEF BeginExport, sessionVars
  <2>5. QED
    BY <2>1, <2>2, <2>4 DEF ReservedTrue, Marks
<1>6. \A h \in Hosts : Held(h)' /\ lock'[h].step # "reserve" /\ Storing(s)' =>
            Storing(s) /\ home'[s] = home[s]
  BY <1>1 DEF UnderLock, OfSession, BeginExport, LockFree, Renewed, diskVars,
     sessionVars, pastVars, Storing, Keeps, Alive, Gone, Steps, Holds, SessionTyped,
     StartTrue, JobTrue, Held
<1>7. Writer(s)' => Writer(s) /\ home'[s] = home[s]
  BY <1>1 DEF UnderLock, OfSession, BeginExport, LockFree, Renewed, diskVars,
     sessionVars, pastVars, Writer, Storing, Keeps, Alive, Gone, Steps, Holds,
     SessionTyped, StartTrue, JobTrue, Held
<1>8. LockGoes
  BY <1>1, TakesIt DEF OfSession, LockGoes, BeginExport, Takes
<1>9. DiskGoes(s)
  BY DEF BeginExport, DiskGoes, diskVars, sessionVars, pastVars
<1>10. admitted' = admitted
  BY DEF BeginExport, diskVars, sessionVars, pastVars
<1>11. QED
  BY <1>2, <1>5, <1>6, <1>7, <1>8, <1>9, <1>10, CalmStep

LEMMA ExportFailsCalm ==
    ASSUME OneLock, CInv, NEW s \in Sessions, ExportFails(s)
    PROVE  CInv'
<1>1. UnderLock(s) /\ OfSession(s) /\ DiskTyped /\ SessionTyped /\ LockTyped /\ PastTyped
  BY UnpackKept DEF UnderLock, OfSession, CInv
<1>2. KInv' /\ TypeOK' /\ Apart(s)
  BY ExportFailsKeeps, ExportFailsStep DEF CInv, KInv, RInv
<1>3. lapsed' = {} => ReservedTrue(s)
  BY <1>1, <1>2, NotLapsed DEF CInv, Reserved, OfSession
<1>4. lapsed' = {} => ReservedTrue(s)'
  <2>1. Storing(s)' => Storing(s)
    BY <1>1 DEF UnderLock, OfSession, ExportFails, Fault, LockFree, diskVars,
       sessionVars, pastVars, Storing, Keeps, Alive, Gone, Steps, Holds, SessionTyped,
       StartTrue, JobTrue, Held
  <2>2. Needs(s)' = Needs(s) /\ marker'[<<s, home'[s]>>] = marker[<<s, home[s]>>]
    BY DEF ExportFails, Needs, Growth, Rotates, Log, diskVars, sessionVars, pastVars
  <2>3. QED
    BY <1>3, <2>1, <2>2 DEF ReservedTrue
<1>5. \A h \in Hosts : Held(h)' /\ lock'[h].step # "reserve" /\ Storing(s)' =>
            Storing(s) /\ home'[s] = home[s]
  BY <1>1 DEF UnderLock, OfSession, ExportFails, Fault, LockFree, diskVars, sessionVars,
     pastVars, Storing, Keeps, Alive, Gone, Steps, Holds, SessionTyped, StartTrue,
     JobTrue, Held
<1>6. Writer(s)' => Writer(s) /\ home'[s] = home[s]
  BY <1>1 DEF UnderLock, OfSession, ExportFails, Fault, LockFree, diskVars, sessionVars,
     pastVars, Writer, Storing, Keeps, Alive, Gone, Steps, Holds, SessionTyped,
     StartTrue, JobTrue, Held
<1>7. LockGoes
  BY <1>1, ReleasedFacts DEF OfSession, LockGoes, ExportFails
<1>8. DiskGoes(s)
  BY DEF ExportFails, DiskGoes, diskVars, sessionVars, pastVars
<1>9. admitted' = admitted
  BY DEF ExportFails, diskVars, sessionVars, pastVars
<1>10. QED
  BY <1>2, <1>4, <1>5, <1>6, <1>7, <1>8, <1>9, CalmStep

LEMMA ProtectCalm ==
    ASSUME OneLock, CInv, NEW s \in Sessions, Protect(s)
    PROVE  CInv'
<1>1. UnderLock(s) /\ OfSession(s) /\ DiskTyped /\ SessionTyped /\ LockTyped /\ PastTyped
  BY UnpackKept DEF UnderLock, OfSession, CInv
<1>2. KInv' /\ TypeOK' /\ Apart(s)
  BY ProtectKeeps, ProtectStep DEF CInv, KInv, RInv
<1>3. Advances(s, "prune", lock[Host[s]].reserved, Protected(s))
      /\ lock[Host[s]].step = "protect"
  BY ProtectAdvances DEF CInv, KInv
<1>4. lapsed' = {} => ReservedTrue(s)
  BY <1>1, <1>2, NotLapsed DEF CInv, Reserved, OfSession
<1>5. lapsed' = {} => ReservedTrue(s)'
  <2>1. Storing(s)' => Storing(s)
    BY <1>1, <1>3 DEF OfSession, Protect, Advances, Storing, Keeps, Alive, Holds,
       sessionVars
  <2>2. Needs(s)' = Needs(s) /\ marker'[<<s, home'[s]>>] = marker[<<s, home[s]>>]
    BY DEF Protect, Needs, Growth, Rotates, Log, sessionVars
  <2>3. QED
    BY <1>4, <2>1, <2>2 DEF ReservedTrue
<1>6. \A h \in Hosts : Held(h)' /\ lock'[h].step # "reserve" /\ Storing(s)' =>
            Storing(s) /\ home'[s] = home[s]
  BY <1>1, <1>3 DEF OfSession, Protect, Advances, Storing, Keeps, Alive, Holds,
     sessionVars, SessionTyped
<1>7. Writer(s)' => Writer(s) /\ home'[s] = home[s]
  BY <1>1 DEF UnderLock, OfSession, Protect, JobAt, diskVars, sessionVars, pastVars,
     Writer, Storing, Keeps, Alive, Gone, Steps, Holds, SessionTyped, StartTrue, JobTrue,
     Held
<1>8. LockGoes
  BY <1>3 DEF LockGoes, Advances
<1>9. DiskGoes(s)
  BY DEF Protect, DiskGoes, diskVars, sessionVars, pastVars
<1>10. admitted' = admitted
  BY DEF Protect, diskVars, sessionVars, pastVars
<1>11. QED
  BY <1>2, <1>5, <1>6, <1>7, <1>8, <1>9, <1>10, CalmStep

LEMMA PruneCalm ==
    ASSUME OneLock, CInv, NEW s \in Sessions, Prune(s)
    PROVE  CInv'
<1>1. UnderLock(s) /\ OfSession(s) /\ DiskTyped /\ SessionTyped /\ LockTyped /\ PastTyped
  BY UnpackKept DEF UnderLock, OfSession, CInv
<1>2. KInv' /\ TypeOK' /\ Apart(s)
  BY PruneKeeps, PruneStep DEF CInv, KInv, RInv
<1>3. Advances(s, "check", lock[Host[s]].reserved, {})
      /\ lock[Host[s]].step = "prune"
  BY PruneAdvances DEF CInv, KInv
<1>4. lapsed' = {} => ReservedTrue(s)
  BY <1>1, <1>2, NotLapsed DEF CInv, Reserved, OfSession
<1>5. lapsed' = {} => DiskGoes(s)
  <2>1. PICK removed :
          /\ \A a \in removed : a[1] \notin lock[Host[s]].kept
          /\ \A a \in Files : disk'[a] = IF a \in removed THEN 0 ELSE disk[a]
    BY <1>1 DEF Prune
  <2>2. SUFFICES ASSUME lapsed' = {}, NEW a \in Files, a \in removed, Storing(a[1])'
                 PROVE  FALSE
    BY <2>1 DEF DiskGoes
  <2>3. a[1] \in Sessions /\ lapsed = {}
    BY <1>1, <1>2, <2>2, FileParts, NotLapsed DEF OfSession
  <2>4. Storing(a[1])
    BY <1>1, <1>3, <2>2, <2>3 DEF UnderLock, Prune, Advances, Storing, Keeps, Alive,
       Holds, SessionTyped
  <2>5. Renews(a[1])
    BY <2>3, <2>4, StoringRenews DEF CInv, KInv, RInv
  <2>6. a[1] \in lock[Host[s]].kept
    BY <1>1, <1>3, <2>3, <2>5 DEF OfSession, CInv, KInv, Spares, SpareTrue, Held,
       Advances
  <2>7. QED
    BY <2>1, <2>2, <2>6
<1>6. lapsed' = {} => ReservedTrue(s)'
  <2>1. SUFFICES ASSUME lapsed' = {}, Storing(s)' PROVE ReservedTrue(s)'
    BY DEF ReservedTrue
  <2>2. Storing(s) /\ home' = home /\ marker' = marker
    BY <1>1, <1>3, <2>1 DEF Prune, Advances, Storing, Keeps, Holds, Alive, SessionTyped
  <2>3. Needs(s)' <= Needs(s) /\ Needs(s)' \in Nat /\ Needs(s) \in Nat
    BY <1>1, <1>2, <1>5, <2>1, <2>2, NeedsShrink, NeedsFacts, NeedsTypeAfter
       DEF OfSession
  <2>4. marker[<<s, home[s]>>] # NoMarker => marker[<<s, home[s]>>].reserved \in Nat
    <3>1. marker[<<s, home[s]>>] \in Marker \cup {NoMarker}
      BY <1>1 DEF OfSession, DiskTyped
    <3>2. QED
      BY <3>1, QuotaFacts DEF Marker
  <2>5. QED
    BY <1>4, <2>1, <2>2, <2>3, <2>4 DEF ReservedTrue
<1>7. \A h \in Hosts : Held(h)' /\ lock'[h].step # "reserve" /\ Storing(s)' =>
            Storing(s) /\ home'[s] = home[s]
  BY <1>1, <1>3 DEF OfSession, Prune, Advances, Storing, Keeps, Alive, Holds,
     sessionVars, SessionTyped
<1>8. Writer(s)' => Writer(s) /\ home'[s] = home[s]
  BY <1>1 DEF UnderLock, OfSession, Prune, JobAt, Fault, diskVars, sessionVars, pastVars,
     Writer, Storing, Keeps, Alive, Gone, Steps, Holds, SessionTyped, StartTrue, JobTrue,
     Held
<1>9. LockGoes
  BY <1>3 DEF LockGoes, Advances
<1>10. admitted' = admitted
  BY DEF Prune, diskVars, sessionVars, pastVars
<1>11. QED
  BY <1>2, <1>6, <1>7, <1>8, <1>9, <1>5, <1>10, CalmStep

LEMMA CloseCalm ==
    ASSUME OneLock, CInv, NEW s \in Sessions, Close(s)
    PROVE  CInv'
<1>1. UnderLock(s) /\ OfSession(s) /\ DiskTyped /\ SessionTyped /\ LockTyped /\ PastTyped
  BY UnpackKept DEF UnderLock, OfSession, CInv
<1>2. KInv' /\ TypeOK' /\ Apart(s)
  BY CloseKeeps, CloseStep DEF CInv, KInv, RInv
<1>3. lapsed' = {} => ReservedTrue(s)
  BY <1>1, <1>2, NotLapsed DEF CInv, Reserved, OfSession
<1>4. lapsed' = {} => ReservedTrue(s)'
  <2>1. ~Storing(s)'
    BY <1>1 DEF OfSession, Close, Storing, Keeps, Alive, Gone, Steps, Holds, JobTrue,
       Held, SessionTyped, diskVars
  <2>2. QED
    BY <2>1 DEF ReservedTrue
<1>5. \A h \in Hosts : Held(h)' /\ lock'[h].step # "reserve" /\ Storing(s)' =>
            Storing(s) /\ home'[s] = home[s]
  BY <1>1 DEF UnderLock, OfSession, Close, Runs, diskVars, sessionVars, pastVars,
     Storing, Keeps, Alive, Gone, Steps, Holds, SessionTyped, StartTrue, JobTrue, Held
<1>6. Writer(s)' => Writer(s) /\ home'[s] = home[s]
  BY <1>1 DEF UnderLock, OfSession, Close, Runs, diskVars, sessionVars, pastVars, Writer,
     Storing, Keeps, Alive, Gone, Steps, Holds, SessionTyped, StartTrue, JobTrue, Held
<1>7. LockGoes
  BY DEF Close, LockGoes, diskVars, sessionVars, pastVars
<1>8. DiskGoes(s)
  BY DEF Close, DiskGoes, diskVars, sessionVars, pastVars
<1>9. admitted' = admitted
  BY DEF Close, diskVars, sessionVars, pastVars
<1>10. QED
  BY <1>2, <1>4, <1>5, <1>6, <1>7, <1>8, <1>9, CalmStep

LEMMA CrashCalm ==
    ASSUME OneLock, CInv, NEW s \in Sessions, Crash(s)
    PROVE  CInv'
<1>1. UnderLock(s) /\ OfSession(s) /\ DiskTyped /\ SessionTyped /\ LockTyped /\ PastTyped
  BY UnpackKept DEF UnderLock, OfSession, CInv
<1>2. KInv' /\ TypeOK' /\ Apart(s)
  BY CrashKeeps, CrashStep DEF CInv, KInv, RInv
<1>3. lapsed' = {} => ReservedTrue(s)
  BY <1>1, <1>2, NotLapsed DEF CInv, Reserved, OfSession
<1>4. lapsed' = {} => ReservedTrue(s)'
  <2>1. Storing(s)' => Storing(s)
    BY <1>1 DEF UnderLock, OfSession, Crash, diskVars, sessionVars, pastVars, Storing,
       Keeps, Alive, Gone, Steps, Holds, SessionTyped, StartTrue, JobTrue, Held
  <2>2. Needs(s)' = Needs(s) /\ marker'[<<s, home'[s]>>] = marker[<<s, home[s]>>]
    BY DEF Crash, Needs, Growth, Rotates, Log, diskVars, sessionVars, pastVars
  <2>3. QED
    BY <1>3, <2>1, <2>2 DEF ReservedTrue
<1>5. \A h \in Hosts : Held(h)' /\ lock'[h].step # "reserve" /\ Storing(s)' =>
            Storing(s) /\ home'[s] = home[s]
  BY <1>1 DEF UnderLock, OfSession, Crash, diskVars, sessionVars, pastVars, Storing,
     Keeps, Alive, Gone, Steps, Holds, SessionTyped, StartTrue, JobTrue, Held
<1>6. Writer(s)' => Writer(s) /\ home'[s] = home[s]
  BY <1>1 DEF UnderLock, OfSession, Crash, diskVars, sessionVars, pastVars, Writer,
     Storing, Keeps, Alive, Gone, Steps, Holds, SessionTyped, StartTrue, JobTrue, Held
<1>7. LockGoes
  BY <1>1, ReleasedFacts DEF OfSession, LockGoes, Crash
<1>8. DiskGoes(s)
  BY DEF Crash, DiskGoes, diskVars, sessionVars, pastVars
<1>9. admitted' = admitted
  BY DEF Crash, diskVars, sessionVars, pastVars
<1>10. QED
  BY <1>2, <1>4, <1>5, <1>6, <1>7, <1>8, <1>9, CalmStep

LEMMA ExpireCalm ==
    ASSUME OneLock, CInv, NEW s \in Sessions, Expire(s)
    PROVE  CInv'
<1>1. UnderLock(s) /\ OfSession(s) /\ DiskTyped /\ SessionTyped /\ LockTyped /\ PastTyped
  BY UnpackKept DEF UnderLock, OfSession, CInv
<1>2. KInv' /\ TypeOK' /\ Apart(s)
  BY ExpireKeeps, ExpireStep DEF CInv, KInv, RInv
<1>3. lapsed' = {} => ReservedTrue(s)
  BY <1>1, <1>2, NotLapsed DEF CInv, Reserved, OfSession
<1>4. lapsed' = {} => ReservedTrue(s)'
  <2>1. ~Storing(s)'
    BY <1>1 DEF OfSession, Expire, sessionVars, Storing, Keeps, Alive, Gone, Steps,
       Holds, JobTrue, Held, SessionTyped, diskVars
  <2>2. QED
    BY <2>1 DEF ReservedTrue
<1>5. \A h \in Hosts : Held(h)' /\ lock'[h].step # "reserve" /\ Storing(s)' =>
            Storing(s) /\ home'[s] = home[s]
  BY <1>1 DEF UnderLock, OfSession, Expire, diskVars, sessionVars, pastVars, Storing,
     Keeps, Alive, Gone, Steps, Holds, SessionTyped, StartTrue, JobTrue, Held
<1>6. Writer(s)' => Writer(s) /\ home'[s] = home[s]
  BY <1>1 DEF UnderLock, OfSession, Expire, diskVars, sessionVars, pastVars, Writer,
     Storing, Keeps, Alive, Gone, Steps, Holds, SessionTyped, StartTrue, JobTrue, Held
<1>7. LockGoes
  BY DEF Expire, LockGoes, diskVars, sessionVars, pastVars
<1>8. DiskGoes(s)
  BY DEF Expire, DiskGoes, diskVars, sessionVars, pastVars
<1>9. admitted' = admitted
  BY DEF Expire, diskVars, sessionVars, pastVars
<1>10. QED
  BY <1>2, <1>4, <1>5, <1>6, <1>7, <1>8, <1>9, CalmStep

LEMMA LapseCalm ==
    ASSUME OneLock, CInv, NEW s \in Sessions, Lapse(s)
    PROVE  CInv'
<1>1. UnderLock(s) /\ OfSession(s) /\ DiskTyped /\ SessionTyped /\ LockTyped /\ PastTyped
  BY UnpackKept DEF UnderLock, OfSession, CInv
<1>2. KInv' /\ TypeOK' /\ Apart(s)
  BY LapseKeeps, LapseStep DEF CInv, KInv, RInv
<1>3. lapsed' = {} => ReservedTrue(s)
  BY <1>1, <1>2, NotLapsed DEF CInv, Reserved, OfSession
<1>4. lapsed' = {} => ReservedTrue(s)'
  BY <1>1 DEF UnderLock, OfSession, Lapse, Fault, diskVars, sessionVars, pastVars,
     Storing, Keeps, Alive, Gone, Steps, Holds, SessionTyped, StartTrue, JobTrue, Held
<1>5. \A h \in Hosts : Held(h)' /\ lock'[h].step # "reserve" /\ Storing(s)' =>
            Storing(s) /\ home'[s] = home[s]
  BY <1>1 DEF UnderLock, OfSession, Lapse, Fault, diskVars, sessionVars, pastVars,
     Storing, Keeps, Alive, Gone, Steps, Holds, SessionTyped, StartTrue, JobTrue, Held
<1>6. Writer(s)' => Writer(s) /\ home'[s] = home[s]
  BY <1>1 DEF UnderLock, OfSession, Lapse, Fault, diskVars, sessionVars, pastVars,
     Writer, Storing, Keeps, Alive, Gone, Steps, Holds, SessionTyped, StartTrue, JobTrue,
     Held
<1>7. LockGoes
  BY DEF Lapse, LockGoes, diskVars, sessionVars, pastVars
<1>8. DiskGoes(s)
  BY DEF Lapse, DiskGoes, diskVars, sessionVars, pastVars
<1>9. admitted' = admitted
  BY DEF Lapse, diskVars, sessionVars, pastVars
<1>10. QED
  BY <1>2, <1>4, <1>5, <1>6, <1>7, <1>8, <1>9, CalmStep

LEMMA ReuseCalm ==
    ASSUME OneLock, CInv, NEW s \in Sessions, Reuse(s)
    PROVE  CInv'
<1>1. UnderLock(s) /\ OfSession(s) /\ DiskTyped /\ SessionTyped /\ LockTyped /\ PastTyped
  BY UnpackKept DEF UnderLock, OfSession, CInv
<1>2. KInv' /\ TypeOK' /\ Apart(s)
  <2>1. RInv' /\ TypeOK' /\ Apart(s)
    BY ReuseStep DEF CInv, KInv, RInv
  <2>2. KInv'
    BY <2>1, KeptStill DEF CInv, Reuse, diskVars, sessionVars
  <2>3. QED
    BY <2>1, <2>2
<1>3. lapsed' = {} => ReservedTrue(s)
  BY <1>1, <1>2, NotLapsed DEF CInv, Reserved, OfSession
<1>4. lapsed' = {} => ReservedTrue(s)'
  <2>1. Storing(s)' => Storing(s)
    BY <1>1 DEF UnderLock, OfSession, Reuse, Fault, diskVars, sessionVars, pastVars,
       Storing, Keeps, Alive, Gone, Steps, Holds, SessionTyped, StartTrue, JobTrue, Held
  <2>2. Needs(s)' = Needs(s) /\ marker'[<<s, home'[s]>>] = marker[<<s, home[s]>>]
    BY DEF Reuse, Needs, Growth, Rotates, Log, diskVars, sessionVars, pastVars
  <2>3. QED
    BY <1>3, <2>1, <2>2 DEF ReservedTrue
<1>5. \A h \in Hosts : Held(h)' /\ lock'[h].step # "reserve" /\ Storing(s)' =>
            Storing(s) /\ home'[s] = home[s]
  BY <1>1 DEF UnderLock, OfSession, Reuse, Fault, diskVars, sessionVars, pastVars,
     Storing, Keeps, Alive, Gone, Steps, Holds, SessionTyped, StartTrue, JobTrue, Held
<1>6. Writer(s)' => Writer(s) /\ home'[s] = home[s]
  BY <1>1 DEF UnderLock, OfSession, Reuse, Fault, diskVars, sessionVars, pastVars,
     Writer, Storing, Keeps, Alive, Gone, Steps, Holds, SessionTyped, StartTrue, JobTrue,
     Held
<1>7. LockGoes
  BY DEF Reuse, LockGoes, diskVars, sessionVars, pastVars
<1>8. DiskGoes(s)
  BY DEF Reuse, DiskGoes, diskVars, sessionVars, pastVars
<1>9. admitted' = admitted
  BY DEF Reuse, diskVars, sessionVars, pastVars
<1>10. QED
  BY <1>2, <1>4, <1>5, <1>6, <1>7, <1>8, <1>9, CalmStep

-----------------------------------------------------------------------------
(* Where it is decided: what was read before is enough.                     *)

\* Every directory of every session has one log.
LEMMA LogSum ==
    ASSUME NEW f, \A x \in MarkerFiles : f[x] \in Nat,
           NEW g, \A a \in Files : g[a] = IF a[3] = "log" THEN f[<<a[1], a[2]>>] ELSE 0
    PROVE  Sum(g, Files) = Sum(f, MarkerFiles)
<1> DEFINE L == {a \in Files : a[3] = "log"}
           p == [a \in L |-> <<a[1], a[2]>>]
<1>1. L \in SUBSET Files /\ IsFiniteSet(L)
  BY Finite, FS_Subset
<1>2. \A a \in L : p[a] = <<a[1], a[2]>> /\ p[a] \in MarkerFiles
                   /\ g[a] \in Nat /\ g[a] = f[p[a]]
  BY DEF Files, MarkerFiles
<1>3. \A a, b \in L : p[a] = p[b] => a = b
  <2>1. TAKE a, b \in L
  <2>2. HAVE p[a] = p[b]
  <2>3. a[1] = b[1] /\ a[2] = b[2] /\ a[3] = b[3]
    BY <1>2, <2>2
  <2>4. a = <<a[1], a[2], a[3]>> /\ b = <<b[1], b[2], b[3]>>
    BY FileParts
  <2>5. QED
    BY <2>3, <2>4
<1>4. {p[a] : a \in L} = MarkerFiles
  <2>1. \A x \in MarkerFiles : \E a \in L : p[a] = x
    <3>1. TAKE x \in MarkerFiles
    <3>2. x = <<x[1], x[2]>> /\ <<x[1], x[2], "log">> \in L
      BY Pairs, FileShape
    <3>3. p[<<x[1], x[2], "log">>] = x
      BY <1>2, <3>2
    <3>4. QED
      BY <3>2, <3>3
  <2>2. \A a \in L : p[a] \in MarkerFiles
    BY <1>2
  <2> HIDE DEF L, p
  <2>3. QED
    BY <2>1, <2>2
<1>5. \A a \in Files \ L : g[a] = 0
  OBVIOUS
<1> HIDE DEF L, p
<1>6. Sum(g, L) = Sum(f, {p[a] : a \in L})
  <2>1. \A a \in L : p[a] \in MarkerFiles /\ g[a] \in Nat /\ g[a] = f[p[a]]
    BY <1>2
  <2>2. IsFiniteSet(MarkerFiles)
    BY Finite
  <2>3. QED
    BY <1>1, <1>3, <2>1, <2>2, SumIndex
<1>7. Sum(g, L) = Sum(g, Files)
  BY <1>1, <1>2, <1>5, Finite, SumPart
<1>8. QED
  BY <1>4, <1>6, <1>7

\* What is kept and what is reserved fit, and the reservation covers what the
\* writers need and what is published now.
LEMMA Decided ==
    ASSUME TypeOK, TypeOK', home' = home, NEW h, NEW e \in Nat, NEW r \in Nat,
           Sum(NeedOf(h), MarkerFiles) + e <= r, Sum(disk, Files) + r <= Cap,
           NEW E, \A a \in Files : E[a] \in Nat, Sum(E, Files) <= e,
           \A a \in Files : IF a[3] = "log" THEN disk'[a] = disk[a]
                            ELSE disk'[a] <= disk[a] + E[a],
           \A t \in Sessions : Writer(t)' => Counts(h, t)
    PROVE  Sum(Weights, Files)' <= Cap
<1>1. PICK N : N = [a \in Files |-> IF a[3] = "log" THEN NeedOf(h)[<<a[1], a[2]>>] ELSE 0]
  OBVIOUS
<1>2. \A x \in MarkerFiles : NeedOf(h)[x] \in Nat
  BY NeedOfType
<1>3. \A a \in Files : /\ N[a] = IF a[3] = "log" THEN NeedOf(h)[<<a[1], a[2]>>] ELSE 0
                       /\ <<a[1], a[2]>> \in MarkerFiles /\ N[a] \in Nat
  BY <1>1, <1>2 DEF Files, MarkerFiles
<1>4. Sum(N, Files) = Sum(NeedOf(h), MarkerFiles)
  BY <1>2, <1>3, LogSum
<1>5. PICK F, G : /\ F = [a \in Files |-> disk[a] + N[a]]
                  /\ G = [a \in Files |-> F[a] + E[a]]
  OBVIOUS
<1>6. \A a \in Files : /\ disk[a] \in Nat /\ N[a] \in Nat /\ E[a] \in Nat
                       /\ F[a] = disk[a] + N[a] /\ F[a] \in Nat
                       /\ G[a] = F[a] + E[a] /\ G[a] \in Nat
  <2>1. TAKE a \in Files
  <2>2. disk[a] \in Nat /\ N[a] \in Nat /\ E[a] \in Nat
    <3>1. disk[a] \in 0 .. Quota
      BY DEF TypeOK
    <3>2. disk[a] \in Nat
      BY <3>1, QuotaFacts
    <3>3. QED
      BY <1>3, <3>2
  <2>3. F[a] = disk[a] + N[a] /\ G[a] = F[a] + E[a]
    BY <1>5
  <2>4. QED
    BY <2>2, <2>3
<1>7. \A a \in Files : Weights'[a] \in Nat /\ Weights'[a] <= G[a]
  <2>1. TAKE a \in Files
  <2>2. a[1] \in Sessions /\ a[2] \in Dirs /\ a = <<a[1], a[2], a[3]>>
    BY FileParts
  <2>3. /\ Weight(a)' = (IF a[1] \notin admitted' \/ Full(a)' < Spare(a)' THEN 0
                         ELSE Full(a)' - Spare(a)')
        /\ Full(a)' \in Nat /\ Spare(a)' \in Nat /\ Weight(a)' \in Nat
        /\ disk'[a] \in 0 .. Quota /\ disk'[a] <= Full(a)'
    BY WeightAfter
  <2> SUFFICES Weight(a)' <= G[a]
    BY <2>3 DEF Weights
  <2>4. Weight(a)' <= Full(a)' /\ disk[a] \in 0 .. Quota
    BY <2>3 DEF TypeOK
  <2>5. CASE Writing(a)'
    <3>1. a[3] = "log" /\ a[2] = home[a[1]] /\ Counts(h, a[1])
      BY <2>2, <2>5 DEF Writing
    <3>2. a = Log(a[1]) /\ <<a[1], a[2]>> \in MarkerFiles
      BY <1>3, <2>2, <3>1 DEF Log
    <3>3. N[a] = Needs(a[1])
      BY <1>3, <3>1, <3>2 DEF NeedOf
    <3>4. N[a] = IF Rotates(a) THEN 0 ELSE Quota - disk[a]
      BY <2>2, <3>2, <3>3, NeedsFacts
    <3>5. Full(a)' = Quota /\ disk'[a] = disk[a]
      BY <2>5, <3>1 DEF Full
    <3>6. Spare(a)' = IF Rotates(a) THEN Segment - 1 ELSE 0
      BY <3>1, <3>5 DEF Spare, Rotates
    <3>7. Rotates(a) <=> disk[a] > Quota - Segment
      BY DEF Rotates
    <3>8. Weight(a)' <= F[a]
      BY <1>6, <2>3, <2>4, <3>4, <3>5, <3>6, <3>7, QuotaFacts
    <3>9. QED
      BY <1>6, <2>3, <3>8
  <2>6. CASE ~Writing(a)'
    <3>1. Full(a)' = disk'[a]
      BY <2>6 DEF Full
    <3>2. disk'[a] <= disk[a] + E[a]
      BY <1>6, <2>4
    <3>3. QED
      BY <1>6, <2>3, <2>4, <3>1, <3>2
  <2>7. QED
    BY <2>5, <2>6
<1>8. Sum(Weights', Files) <= Sum(G, Files)
  BY <1>6, <1>7, Finite, SumLeq
<1>9. Sum(G, Files) = Sum(F, Files) + Sum(E, Files)
  BY <1>6, Finite, SumPlus
<1>10. Sum(F, Files) = Sum(disk, Files) + Sum(N, Files)
  BY <1>6, Finite, SumPlus
<1>11. /\ Sum(disk, Files) \in Nat /\ Sum(N, Files) \in Nat /\ Sum(E, Files) \in Nat
       /\ Sum(Weights', Files) \in Nat
  BY <1>6, <1>7, Finite, SumType
<1>12. QED
  BY <1>4, <1>8, <1>9, <1>10, <1>11, WeightsAfter, QuotaFacts

\* A step that leaves the files and the lock alone.
LEMMA RestStays ==
    ASSUME CInv, TypeOK',
           UNCHANGED <<disk, lock, pc, home, console, failing, admitted, lapsed>>
    PROVE  ReadEnough' /\ Room'
<1>1. TypeOK
  BY DEF CInv, KInv, RInv
<1>2. SUFFICES ASSUME lapsed' = {} PROVE ReadEnough' /\ Sum(Weights, Files)' <= Cap
  BY DEF ReadEnough, Room
<1>3. \A t \in Sessions : (Storing(t)' <=> Storing(t)) /\ (Writer(t)' <=> Writer(t))
  BY DEF Storing, Writer, Keeps, Alive, Holds
<1>4. PICK s : DiskGoes(s) /\ LockGoes
  BY DEF DiskGoes, LockGoes
<1>5. \A t \in Sessions : Storing(t)' => Needs(t)' <= Needs(t)
  BY <1>1, <1>4, NeedsShrink
<1>6. ReadEnough'
  BY <1>1, <1>2, <1>3, <1>4, <1>5, EnoughStays DEF CInv
<1>7. Sum(Weights, Files)' <= Cap
  BY <1>1, <1>2, <1>3, <1>4, RoomStays DEF CInv, Room
<1>8. QED
  BY <1>6, <1>7

LEMMA ReportCalm ==
    ASSUME OneLock, CInv, NEW s \in Sessions, Report(s)
    PROVE  CInv'
<1>1. UNCHANGED <<disk, marker, zips, lock, pc, home, console, failing, admitted, lapsed>>
  BY DEF Report, diskVars
<1>2. KInv' /\ TypeOK'
  <2>1. RInv'
    BY RStep DEF CInv, KInv, Next, Proceeds
  <2>2. QED
    BY <1>1, <2>1, KeptStill DEF CInv, RInv
<1>3. ReadEnough' /\ Room'
  BY <1>1, <1>2, RestStays
<1>4. Reserved'
  BY <1>1 DEF CInv, Reserved, ReservedTrue, Storing, Keeps, Alive, Holds, Needs, Growth,
     Rotates, Log
<1>5. QED
  BY <1>2, <1>3, <1>4 DEF CInv

LEMMA RemoveMarkerCalm ==
    ASSUME OneLock, CInv, NEW s \in Sessions, RemoveMarker(s)
    PROVE  CInv'
<1>1. UNCHANGED <<disk, zips, lock, pc, home, console, failing, admitted, lapsed>>
  BY DEF RemoveMarker, pastVars
<1>2. KInv' /\ TypeOK' /\ OfSession(s)
  BY RemoveMarkerKeeps, Unpack DEF CInv, KInv, RInv
<1>3. ReadEnough' /\ Room'
  BY <1>1, <1>2, RestStays
<1>4. Reserved'
  <2>1. SUFFICES ASSUME lapsed' = {}, NEW t \in Sessions, Storing(t)' PROVE ReservedTrue(t)'
    BY DEF Reserved, ReservedTrue
  <2>2. Storing(t) /\ lapsed = {} /\ Needs(t)' = Needs(t)
    BY <1>1, <2>1 DEF Storing, Keeps, Alive, Holds, Needs, Growth, Rotates, Log
  <2>3. PICK f \in MarkerFiles :
          /\ f = claim[s] /\ f # NoFile
          /\ marker' = [marker EXCEPT ![f] = NoMarker]
    BY <1>2 DEF OfSession, SessionTyped, RemoveMarker
  <2>4. f[1] # t
    BY <1>2, <2>2, <2>3 DEF OfSession, ClaimTrue, Storing, Keeps, Alive, Gone
  <2>5. <<t, home[t]>> \in MarkerFiles /\ <<t, home[t]>> # f
    <3>1. <<t, home[t]>>[1] = t
      OBVIOUS
    <3>2. home[t] \in Dirs
      BY <1>2 DEF OfSession, SessionTyped
    <3>3. QED
      BY <2>4, <3>1, <3>2, FileShape
  <2>6. marker'[<<t, home[t]>>] = marker[<<t, home[t]>>]
    BY <1>2, <2>3, <2>5 DEF OfSession, DiskTyped
  <2>7. ReservedTrue(t)
    BY <2>2 DEF CInv, Reserved
  <2>8. QED
    BY <1>1, <2>2, <2>6, <2>7 DEF ReservedTrue
<1>5. QED
  BY <1>2, <1>3, <1>4 DEF CInv

\* Whoever stores files is seen by whoever reads the reservations.
LEMMA StoringLive ==
    ASSUME OneLock, RInv, Reserved, lapsed = {}, NEW s \in Sessions,
           NEW t \in Sessions, Storing(t)
    PROVE  /\ <<t, home[t]>> \in LiveMarkers(s)
           /\ Needs(t) <= marker[<<t, home[t]>>].reserved
<1>1. ReservedTrue(t) /\ <<t, home[t]>> \in MarkerFiles /\ Host[s] = Host[t]
  BY FileShape DEF Reserved, RInv, TypeOK, OneLock
<1>2. PICK f : f = <<t, home[t]>>
  OBVIOUS
<1>3. f[1] = t /\ f[2] = home[t]
  BY <1>2
<1>4. MarkerTrue(f)
  BY <1>1, <1>2, <1>3 DEF RInv, MarkersTrue
<1>5. marker[f] # NoMarker /\ marker[f].active /\ marker[f].fresh
      /\ Needs(t) <= marker[f].reserved
  BY <1>1, <1>2, <1>3 DEF ReservedTrue
<1>6. ~marker[f].clean
  BY <1>1, <1>2, <1>3, <1>4, <1>5 DEF MarkerTrue
<1>7. Alive(t)
  BY DEF Storing, Keeps
<1>8. Live(s, f) /\ Visible(s, f[1], f[2])
  BY <1>1, <1>2, <1>3, <1>5, <1>6, <1>7 DEF Live, Visible
<1>9. QED
  BY <1>1, <1>2, <1>3, <1>5, <1>8 DEF LiveMarkers

\* What the writers need is in what is read.
LEMMA ReservationsCover ==
    ASSUME OneLock, RInv, Reserved, lapsed = {}, NEW s \in Sessions,
           NEW g, \A f \in MarkerFiles : /\ g[f] \in Nat
                                         /\ g[f] # 0 => /\ Storing(f[1]) /\ f[2] = home[f[1]]
                                                        /\ g[f] = Needs(f[1])
    PROVE  Sum(g, MarkerFiles) <= Reservations(s)
<1>1. TypeOK
  BY DEF RInv
<1>2. PICK L : L = LiveMarkers(s)
  OBVIOUS
<1>3. L \in SUBSET MarkerFiles /\ \A f \in L : marker[f] # NoMarker
  BY <1>2 DEF LiveMarkers, Live
<1>4. PICK r, R : /\ r = [f \in L |-> marker[f].reserved]
                  /\ R = [f \in MarkerFiles |-> IF f \in L THEN marker[f].reserved ELSE 0]
  OBVIOUS
<1>5. \A f \in L : marker[f].reserved \in Nat
  BY <1>1, <1>3, QuotaFacts DEF TypeOK, Marker
<1>6. /\ \A f \in L : r[f] \in Nat /\ R[f] = r[f]
      /\ \A f \in MarkerFiles \ L : R[f] = 0
      /\ \A f \in MarkerFiles : R[f] \in Nat
  BY <1>3, <1>4, <1>5
<1>7. Sum(r, L) = Sum(R, MarkerFiles)
  BY <1>3, <1>6, Finite, SumPart
<1>8. \A f \in MarkerFiles : g[f] <= R[f]
  <2>1. TAKE f \in MarkerFiles
  <2>2. f[1] \in Sessions /\ f = <<f[1], f[2]>>
    BY Pairs
  <2>3. CASE g[f] = 0
    BY <1>6, <2>3
  <2>4. CASE g[f] # 0
    <3>1. Storing(f[1]) /\ f[2] = home[f[1]] /\ g[f] = Needs(f[1])
      BY <2>4
    <3>2. f \in L /\ Needs(f[1]) <= marker[f].reserved
      BY <1>2, <2>2, <3>1, StoringLive
    <3>3. R[f] = marker[f].reserved
      BY <1>4, <3>2
    <3>4. QED
      BY <3>1, <3>2, <3>3
  <2>5. QED
    BY <2>3, <2>4
<1>9. Sum(g, MarkerFiles) <= Sum(R, MarkerFiles)
  BY <1>6, <1>8, Finite, SumLeq
<1>10. Sum(g, MarkerFiles) \in Nat /\ Sum(R, MarkerFiles) \in Nat
  BY <1>6, Finite, SumType
<1>11. Reservations(s) = Sum(r, L)
           + IF <<s, home[s]>> \in LiveMarkers(s) \/ console[s] THEN 0 ELSE Growth(s)
  BY <1>2, <1>4, ReservationsAre
<1>12. Growth(s) \in Nat
  BY <1>1, NeedsFacts
<1>13. QED
  BY <1>7, <1>9, <1>10, <1>11, <1>12

LEMMA ReadReservationsCalm ==
    ASSUME OneLock, CInv, NEW s \in Sessions, ReadReservations(s)
    PROVE  CInv'
<1> DEFINE h == Host[s]
<1>1. UnderLock(s) /\ OfSession(s) /\ DiskTyped /\ SessionTyped /\ LockTyped /\ PastTyped
  BY UnpackKept DEF UnderLock, OfSession, CInv
<1>2. KInv' /\ TypeOK' /\ TypeOK /\ Apart(s)
  BY ReadReservationsKeeps, ReadReservationsStep DEF CInv, KInv, RInv
<1>3. Advances(s, "protect", Archive(s) + Reservations(s), {})
      /\ lock[h].step = "reserve"
  BY ReadAdvances DEF CInv, KInv
<1>4. UNCHANGED <<disk, marker, zips, pc, home, console, failing, admitted, lapsed>>
  BY DEF ReadReservations, sessionVars, pastVars
<1>5. \A t \in Sessions : (Storing(t)' <=> Storing(t)) /\ (Writer(t)' <=> Writer(t))
  <2>1. \A t \in Sessions : Holds(t, {"fallback"})' <=> Holds(t, {"fallback"})
    BY <1>1, <1>3 DEF UnderLock, Advances, Holds
  <2>2. QED
    BY <1>4, <2>1 DEF Storing, Writer, Keeps, Alive
<1>6. \A t \in Sessions : Needs(t)' = Needs(t)
  BY <1>4 DEF Needs, Growth, Rotates, Log
<1>7. SUFFICES ASSUME lapsed' = {}, lapsed = {}
               PROVE  /\ \A t \in Sessions : ReservedTrue(t)'
                      /\ \A i \in Hosts : EnoughRead(i)'
                      /\ Sum(Weights, Files)' <= Cap
  BY <1>2, <1>4 DEF CInv, Reserved, ReadEnough, Room
<1>8. \A t \in Sessions : ReservedTrue(t)'
  BY <1>4, <1>5, <1>6, <1>7 DEF CInv, Reserved, ReservedTrue
<1>9. Sum(Weights, Files)' <= Cap
  <2>1. DiskGoes(s)
    BY <1>4 DEF DiskGoes
  <2>2. QED
    BY <1>2, <1>4, <1>5, <1>7, <2>1, RoomStays DEF CInv, Room
<1>10. ASSUME NEW i \in Hosts PROVE EnoughRead(i)'
  <2>1. SUFFICES ASSUME Held(i)'
                 PROVE  Sum(NeedOf(i), MarkerFiles)'
                          + (IF lock'[i].op = "export" THEN 1 ELSE 0) <= lock'[i].reserved
    BY DEF EnoughRead
  <2>2. i = h
    BY <1>1, <1>3, <2>1 DEF UnderLock, Advances, Held
  <2>3. /\ lock'[i].reserved = Archive(s) + Reservations(s)
        /\ lock'[i].op = lock[h].op /\ lock'[i].owner = s
    BY <1>3, <2>2 DEF Advances
  <2>4. \A f \in MarkerFiles :
          /\ NeedOf(i)'[f] \in Nat
          /\ NeedOf(i)'[f] # 0 => /\ Storing(f[1]) /\ f[2] = home[f[1]]
                                  /\ NeedOf(i)'[f] = Needs(f[1])
    <3>1. TAKE f \in MarkerFiles
    <3>2. f[1] \in Sessions
      BY Pairs
    <3>3. NeedOf(i)'[f] = IF Counts(i, f[1])' /\ f[2] = home'[f[1]] THEN Needs(f[1])' ELSE 0
      BY DEF NeedOf
    <3>4. Counts(i, f[1])' => Storing(f[1])'
      BY DEF Counts, Writer, Storing
    <3>5. NeedOf(i)'[f] \in Nat
      BY <1>2, NeedOfTypeAfter
    <3>6. QED
      BY <1>4, <1>5, <1>6, <3>2, <3>3, <3>4, <3>5
  <2>5. Sum(NeedOf(i)', MarkerFiles) <= Reservations(s)
    BY <1>7, <2>4, ReservationsCover DEF CInv, KInv
  <2>6. Sum(NeedOf(i)', MarkerFiles) \in Nat /\ Reservations(s) \in Nat
    BY <1>2, <2>4, Finite, SumType, ReservationsType
  <2>7. Archive(s) = IF lock'[i].op = "export" THEN 1 ELSE 0
    BY <2>3 DEF Archive
  <2>8. QED
    BY <2>3, <2>5, <2>6, <2>7, NeedsAfter
<1>11. QED
  BY <1>8, <1>9, <1>10

\* The lock is let go of where it is decided.
LEMMA Lets ==
    ASSUME OneLock, CInv, NEW s \in Sessions, JobAt(s, "check"), lock' = Released(s)
    PROVE  /\ \A h \in Hosts : ~Held(h)'
           /\ Held(Host[s]) /\ lock[Host[s]].owner = s
           /\ lock[Host[s]].reserved \in Nat
           /\ lapsed = {} =>
                Sum(NeedOf(Host[s]), MarkerFiles) + Archive(s) <= lock[Host[s]].reserved
           /\ Usage(s) = Sum(disk, Files) /\ Usage(s) \in Nat
<1>1. UnderLock(s) /\ OfSession(s) /\ TypeOK
  BY UnpackKept DEF UnderLock, OfSession, CInv
<1>2. Held(Host[s]) /\ lock[Host[s]].owner = s /\ lock[Host[s]].step = "check"
      /\ lock[Host[s]].reserved \in Nat /\ Host[s] \in Hosts
  BY <1>1 DEF JobAt, Holds, Held, OfSession
<1>3. \A h \in Hosts : ~Held(h)'
  BY <1>1, ReleasedFacts DEF UnderLock, Held
<1>4. lapsed = {} =>
        Sum(NeedOf(Host[s]), MarkerFiles) + Archive(s) <= lock[Host[s]].reserved
  BY <1>2 DEF CInv, ReadEnough, EnoughRead, Archive
<1>5. {a \in Files : Visible(s, a[1], a[2])} = Files
  BY <1>1, FileParts DEF UnderLock
<1>6. Usage(s) = Sum(disk, Files)
  BY <1>5, BytesAre DEF Usage
<1>7. \A a \in Files : disk[a] \in Nat
  <2>1. TAKE a \in Files
  <2>2. disk[a] \in 0 .. Quota
    BY <1>1 DEF TypeOK
  <2>3. QED
    BY <2>2, QuotaFacts
<1>8. Usage(s) \in Nat
  BY <1>6, <1>7, Finite, SumType
<1>9. QED
  BY <1>2, <1>3, <1>4, <1>6, <1>8

LEMMA DecideCalm ==
    ASSUME OneLock, CInv, NEW s \in Sessions, Decide(s)
    PROVE  CInv'
<1>1. UnderLock(s) /\ OfSession(s) /\ DiskTyped /\ SessionTyped /\ LockTyped /\ PastTyped
  BY UnpackKept DEF UnderLock, OfSession, CInv
<1>2. KInv' /\ TypeOK' /\ TypeOK /\ Apart(s)
  BY DecideKeeps, DecideStep DEF CInv, KInv, RInv
<1>3. /\ \A h \in Hosts : ~Held(h)'
      /\ Held(Host[s]) /\ lock[Host[s]].owner = s
      /\ lock[Host[s]].reserved \in Nat
      /\ lapsed = {} =>
           Sum(NeedOf(Host[s]), MarkerFiles) + Archive(s) <= lock[Host[s]].reserved
      /\ Usage(s) = Sum(disk, Files) /\ Usage(s) \in Nat
  BY Lets DEF Decide
<1>4. disk' = disk /\ home' = home /\ lapsed' = lapsed
  BY DEF Decide
<1>5. lock[Host[s]].op \in {"admit", "fallback"} /\ Archive(s) = 0
  BY <1>1, <1>3 DEF Decide, JobAt, Holds, Archive, OfSession
<1>6. ~console[s] => Storing(s)
  <2>1. lock[Host[s]].op = "admit" => pc[s] = "checking" /\ ~failing[s]
    BY <1>1, <1>3 DEF OfSession, JobTrue
  <2>2. QED
    BY <1>3, <1>5, <2>1 DEF Decide, JobAt, Storing, Keeps, Holds, Held
<1>7. DiskGoes(s)
  BY <1>4 DEF DiskGoes
<1>8. SUFFICES ASSUME lapsed' = {}, lapsed = {}
               PROVE  /\ \A t \in Sessions : ReservedTrue(t)'
                      /\ Sum(Weights, Files)' <= Cap
  BY <1>2, <1>3, <1>4 DEF CInv, Reserved, ReadEnough, EnoughRead, Room
<1>9. ReservedTrue(s)'
  <2>1. SUFFICES ASSUME Storing(s)' PROVE ReservedTrue(s)'
    BY DEF ReservedTrue
  <2>2. ~console'[s]
    BY <2>1 DEF Storing, Keeps
  <2>3. Fits(s) /\ marker' = marker /\ console' = console
    BY <1>1, <2>2 DEF Decide, SessionTyped
  <2>4. Needs(s)' = Needs(s)
    BY <1>4 DEF Needs, Growth, Rotates, Log
  <2>5. ReservedTrue(s) /\ Storing(s)
    BY <1>6, <1>8, <2>2, <2>3 DEF CInv, Reserved
  <2>6. QED
    BY <1>4, <2>3, <2>4, <2>5 DEF ReservedTrue
<1>10. \A t \in Sessions : ReservedTrue(t)'
  BY <1>2, <1>7, <1>8, <1>9, OthersReserved DEF CInv
<1>11. \A t \in Sessions : t # s => (Writer(t)' <=> Writer(t))
  BY <1>2 DEF Apart, Others, Writer, Keeps, Alive
<1>12. CASE Fits(s)
  <2>1. Sum(disk, Files) + lock[Host[s]].reserved <= Cap
    BY <1>3, <1>12 DEF Fits
  <2>2. \A t \in Sessions : Writer(t)' => Counts(Host[s], t)
    <3>1. Writer(s)' => Storing(s)
      BY <1>6, <1>12 DEF Decide, Writer, Keeps
    <3>2. QED
      BY <1>3, <1>5, <1>11, <3>1 DEF Counts
  <2>3. PICK E : E = [a \in Files |-> 0]
    OBVIOUS
  <2>4. \A a \in Files : E[a] = 0 /\ E[a] \in Nat
    BY <2>3
  <2>5. Sum(E, Files) = 0
    BY <2>4, Finite, SumZero
  <2>6. \A a \in Files : IF a[3] = "log" THEN disk'[a] = disk[a]
                         ELSE disk'[a] <= disk[a] + E[a]
    <3>1. TAKE a \in Files
    <3>2. disk[a] \in 0 .. Quota
      BY <1>1 DEF DiskTyped
    <3>3. QED
      BY <1>4, <2>4, <3>2, QuotaFacts
  <2>7. Sum(NeedOf(Host[s]), MarkerFiles) + 0 <= lock[Host[s]].reserved
    BY <1>3, <1>5, <1>8
  <2>8. Sum(Weights, Files)' <= Cap
    BY <1>2, <1>3, <1>4, <2>1, <2>2, <2>4, <2>5, <2>6, <2>7, Decided
  <2>9. QED
    BY <1>10, <2>8
<1>13. CASE ~Fits(s)
  <2>1. admitted' = admitted /\ console'[s]
    BY <1>1, <1>13 DEF Decide, SessionTyped
  <2>2. ~Writer(s)'
    BY <2>1 DEF Writer, Keeps
  <2>3. \A t \in Sessions : Writer(t)' => Writer(t) /\ home'[t] = home[t]
    BY <1>4, <1>11, <2>2
  <2>4. Sum(Weights, Files)' <= Cap
    BY <1>2, <1>7, <1>8, <2>1, <2>3, RoomStays DEF CInv, Room
  <2>5. QED
    BY <1>10, <2>4
<1>14. QED
  BY <1>12, <1>13

LEMMA DecideExportCalm ==
    ASSUME OneLock, CInv, NEW s \in Sessions, DecideExport(s)
    PROVE  CInv'
<1>1. UnderLock(s) /\ OfSession(s) /\ DiskTyped /\ SessionTyped /\ LockTyped /\ PastTyped
  BY UnpackKept DEF UnderLock, OfSession, CInv
<1>2. KInv' /\ TypeOK' /\ TypeOK /\ Apart(s)
  BY DecideExportKeeps, DecideExportStep DEF CInv, KInv, RInv
<1>3. /\ \A h \in Hosts : ~Held(h)'
      /\ Held(Host[s]) /\ lock[Host[s]].owner = s
      /\ lock[Host[s]].reserved \in Nat
      /\ lapsed = {} =>
           Sum(NeedOf(Host[s]), MarkerFiles) + Archive(s) <= lock[Host[s]].reserved
      /\ Usage(s) = Sum(disk, Files) /\ Usage(s) \in Nat
  BY Lets DEF DecideExport
<1>4. UNCHANGED <<marker, pc, home, console, failing, admitted, lapsed>>
  BY DEF DecideExport, sessionVars, pastVars
<1>5. Archive(s) = 1
  BY <1>1, <1>3 DEF DecideExport, JobAt, Holds, Archive, OfSession
<1>6. PICK z : z \in zips /\ z[1] = s /\ \A y \in zips : y[1] = s => y = z
  <2>1. PICK dir \in Dirs : <<s, dir>> \in zips
    BY <1>1 DEF UnderLock, ExportedWhole, DecideExport
  <2>2. <<s, dir>>[1] = s
    OBVIOUS
  <2>3. QED
    BY <1>1, <2>1, <2>2 DEF UnderLock, ZipsHeld
<1>7. \A a \in Files :
        disk'[a] = IF a[1] = s /\ a[3] = "bundle" /\ <<s, a[2]>> \in zips /\ Fits(s)
                   THEN 1 ELSE disk[a]
  BY DEF DecideExport
<1>8. \A a \in Files : a[3] = "log" => disk'[a] = disk[a]
  BY <1>7
<1>9. \A t \in Sessions : Needs(t)' = Needs(t)
  <2>1. TAKE t \in Sessions
  <2>2. Log(t) \in Files /\ Log(t)[3] = "log"
    BY <1>2, NeedsFacts DEF Log
  <2>3. disk'[Log(t)] = disk[Log(t)] /\ Log(t)' = Log(t)
    BY <1>4, <1>8, <2>2 DEF Log
  <2>4. QED
    BY <1>4, <2>3 DEF Needs, Growth, Rotates, Log
<1>10. \A t \in Sessions : (Storing(t)' => Storing(t)) /\ (Writer(t)' <=> Writer(t))
  <2>1. \A t \in Sessions : ~Holds(t, {"fallback"})'
    BY <1>3, FileShape DEF Holds, Held
  <2>2. QED
    BY <1>4, <2>1 DEF Storing, Writer, Keeps, Alive
<1>11. SUFFICES ASSUME lapsed' = {}, lapsed = {}
                PROVE  /\ \A t \in Sessions : ReservedTrue(t)'
                       /\ Sum(Weights, Files)' <= Cap
  BY <1>2, <1>3, <1>4 DEF CInv, Reserved, ReadEnough, EnoughRead, Room
<1>12. \A t \in Sessions : ReservedTrue(t)'
  BY <1>4, <1>9, <1>10, <1>11 DEF CInv, Reserved, ReservedTrue
<1>13. CASE Fits(s)
  <2>1. Sum(disk, Files) + lock[Host[s]].reserved <= Cap
    BY <1>3, <1>13 DEF Fits
  <2>2. \A t \in Sessions : Writer(t)' => Counts(Host[s], t)
    BY <1>10 DEF Counts
  <2>3. PICK b : b = <<s, z[2], "bundle">>
    OBVIOUS
  <2>4. b \in Files /\ z = <<s, z[2]>>
    BY <1>1, <1>6, <2>3, FileShape DEF UnderLock
  <2>5. PICK E : E = [a \in Files |-> IF a = b THEN 1 ELSE 0]
    OBVIOUS
  <2>6. \A a \in Files : E[a] \in Nat /\ E[a] = IF a = b THEN 1 ELSE 0
    BY <2>5
  <2>7. Sum(E, Files) = 1
    BY <2>4, <2>6, Finite, SumOnly
  <2>8. \A a \in Files : IF a[3] = "log" THEN disk'[a] = disk[a]
                         ELSE disk'[a] <= disk[a] + E[a]
    <3>1. TAKE a \in Files
    <3>2. disk[a] \in Nat /\ E[a] \in Nat
      BY <1>2, <2>6, WeightIs, QuotaFacts
    <3>3. CASE a[1] = s /\ a[3] = "bundle" /\ <<s, a[2]>> \in zips
      <4>1. <<s, a[2]>>[1] = s
        OBVIOUS
      <4>2. z = <<s, a[2]>>
        BY <1>6, <3>3, <4>1
      <4>3. a = <<a[1], a[2], a[3]>> /\ z[2] = a[2]
        BY <4>2, FileParts
      <4>4. a = b
        BY <2>3, <3>3, <4>3
      <4>5. QED
        BY <1>7, <1>13, <2>6, <3>2, <3>3, <4>4
    <3>4. CASE ~(a[1] = s /\ a[3] = "bundle" /\ <<s, a[2]>> \in zips)
      BY <1>7, <3>2, <3>4
    <3>5. QED
      BY <3>3, <3>4
  <2>9. Sum(NeedOf(Host[s]), MarkerFiles) + 1 <= lock[Host[s]].reserved
    BY <1>3, <1>5, <1>11
  <2>10. Sum(Weights, Files)' <= Cap
    BY <1>2, <1>3, <1>4, <2>1, <2>2, <2>6, <2>7, <2>8, <2>9, Decided
  <2>11. QED
    BY <1>12, <2>10
<1>14. CASE ~Fits(s)
  <2>1. \A a \in Files : disk'[a] = disk[a]
    BY <1>7, <1>14
  <2>2. Sum(Weights, Files)' <= Cap
    BY <1>2, <1>4, <1>10, <1>11, <2>1, RoomStays DEF CInv, Room, DiskGoes
  <2>3. QED
    BY <1>12, <2>2
<1>15. QED
  BY <1>13, <1>14

LEMMA CInit == Init => CInv
<1> SUFFICES ASSUME Init PROVE CInv
  OBVIOUS
<1>1. KInv /\ TypeOK
  BY KInit DEF KInv, RInv
<1>2. \A t \in Sessions : ~Storing(t)
  BY DEF Init, Storing, Keeps, Alive, Gone
<1>3. Reserved /\ ReadEnough
  BY <1>2 DEF Reserved, ReservedTrue, ReadEnough, EnoughRead, Held, Init
<1>4. \A a \in Files : Weights[a] = 0
  BY DEF Weights, Weight, Init
<1>5. Sum(Weights, Files) = 0
  BY <1>4, Finite, SumZero
<1>6. Room
  BY <1>5, QuotaFacts DEF Room
<1>7. QED
  BY <1>1, <1>3, <1>6 DEF CInv

LEMMA CStep == OneLock /\ CInv /\ [Next]_vars => CInv'
<1> SUFFICES ASSUME OneLock, CInv, [Next]_vars PROVE CInv'
  OBVIOUS
<1>1. CASE UNCHANGED vars
  <2>1. KInv'
    BY <1>1, KStep DEF CInv
  <2>2. Reserved'
    BY <1>1 DEF CInv, Reserved, ReservedTrue, Storing, Keeps, Alive, Holds, Needs,
       Growth,
       Rotates, Log, vars, diskVars, sessionVars, pastVars
  <2>3. ReadEnough' /\ Room'
    BY <1>1, <2>1, RestStays DEF KInv, RInv, vars, diskVars, sessionVars, pastVars
  <2>4. QED
    BY <2>1, <2>2, <2>3 DEF CInv
<1>2. CASE Next
  <2>1. PICK s \in Sessions : Acquires(s) \/ Proceeds(s) \/ Happens(s)
    BY <1>2 DEF Next
  <2>2. CASE Acquires(s)
    BY <2>2, PublishCalm, CleanCalm, BeginAdmissionCalm, BeginFallbackCalm
    DEF Acquires
  <2>3. CASE Proceeds(s)
    BY <2>3, ListMarkersCalm, ReportCalm, RemoveMarkerCalm, EndReportsCalm,
       StartOnConsoleCalm, ReadReservationsCalm, ProtectCalm, PruneCalm, DecideCalm,
       DecideExportCalm
    DEF Proceeds
  <2>4. CASE Happens(s)
    BY <2>4, CreateCalm, PublishFailsCalm, AdmissionTimesOutCalm, AppendCalm,
       RefreshCalm,
       WriteFailsCalm, FallbackFailsCalm, BeginExportCalm, ExportFailsCalm, CloseCalm,
       CrashCalm, ExpireCalm, LapseCalm, ReuseCalm
    DEF Happens
  <2>5. QED
    BY <2>1, <2>2, <2>3, <2>4
<1>3. QED
  BY <1>1, <1>2

\* What is there weighs what it weighs, and a rotating log its segment more.
LEMMA WithinRoom == CInv => WithinCapacity
<1> SUFFICES ASSUME CInv, lapsed = {}
             PROVE  Bytes({a \in Files : a[1] \in admitted})
                      <= Cap + (Segment - 1) * Cardinality(Rotating)
  BY DEF WithinCapacity
<1>1. TypeOK /\ Sum(Weights, Files) <= Cap
  BY DEF CInv, KInv, RInv, Room
<1>2. PICK A, D, k : /\ A = {a \in Files : a[1] \in admitted}
                     /\ D = [a \in Files |-> IF a \in A THEN disk[a] ELSE 0]
                     /\ k = Segment - 1
  OBVIOUS
<1>3. PICK E, F : /\ E = [a \in Files |-> IF a \in Rotating THEN k ELSE 0]
                  /\ F = [a \in Files |-> Weights[a] + E[a]]
  OBVIOUS
<1>4. k \in Nat /\ A \in SUBSET Files /\ Rotating \in SUBSET Files
  BY <1>2, QuotaFacts DEF Rotating
<1>5. \A a \in Files :
        /\ disk[a] \in Nat /\ Weights[a] \in Nat /\ E[a] \in Nat /\ F[a] \in Nat
        /\ F[a] = Weights[a] + E[a]
        /\ D[a] = (IF a \in A THEN disk[a] ELSE 0) /\ D[a] \in Nat
        /\ E[a] = IF a \in Rotating THEN k ELSE 0
        /\ D[a] <= F[a]
  <2>1. TAKE a \in Files
  <2>2. /\ Weight(a) = (IF a[1] \notin admitted \/ Full(a) < Spare(a) THEN 0
                        ELSE Full(a) - Spare(a))
        /\ Full(a) \in Nat /\ Spare(a) \in Nat /\ Weight(a) \in Nat
        /\ disk[a] \in 0 .. Quota /\ disk[a] <= Full(a)
    BY <1>1, WeightIs
  <2>3. disk[a] \in Nat /\ Weights[a] = Weight(a)
    BY <2>2, QuotaFacts DEF Weights
  <2>4. E[a] = (IF a \in Rotating THEN k ELSE 0) /\ E[a] \in Nat
    BY <1>3, <1>4
  <2>5. a \in Rotating <=> a[3] = "log" /\ Rotates(a)
    BY DEF Rotating, Rotates
  <2>6. Spare(a) = E[a]
    BY <1>2, <2>4, <2>5 DEF Spare
  <2>7. F[a] = Weights[a] + E[a] /\ D[a] = IF a \in A THEN disk[a] ELSE 0
    BY <1>2, <1>3
  <2>8. D[a] <= F[a]
    <3>1. CASE a \in A
      <4>1. a[1] \in admitted
        BY <1>2, <3>1
      <4>2. QED
        BY <2>2, <2>3, <2>4, <2>6, <2>7, <3>1, <4>1
    <3>2. CASE a \notin A
      BY <2>2, <2>3, <2>4, <2>7, <3>2
    <3>3. QED
      BY <3>1, <3>2
  <2>9. QED
    BY <2>2, <2>3, <2>4, <2>7, <2>8
<1>6. Bytes(A) = Sum(D, Files)
  <2>1. Sum(disk, A) = Sum(D, Files)
    BY <1>4, <1>5, Finite, SumPart
  <2>2. QED
    BY <2>1, BytesAre
<1>7. Sum(D, Files) <= Sum(F, Files)
  BY <1>5, Finite, SumLeq
<1>8. Sum(F, Files) = Sum(Weights, Files) + Sum(E, Files)
  BY <1>5, Finite, SumPlus
<1>9. Sum(E, Files) = k * Cardinality(Rotating)
  <2>1. IsFiniteSet(Rotating)
    BY <1>4, Finite, FS_Subset, Zenon
  <2>2. \A a \in Rotating : E[a] = k /\ E[a] \in Nat
    BY <1>4, <1>5
  <2>3. \A a \in Files \ Rotating : E[a] = 0
    BY <1>5
  <2>4. Sum(E, Rotating) = k * Cardinality(Rotating)
    BY <1>4, <2>1, <2>2, SumConstant
  <2>5. Sum(E, Rotating) = Sum(E, Files)
    BY <1>4, <2>2, <2>3, Finite, SumPart
  <2>6. QED
    BY <2>4, <2>5
<1>10. /\ Sum(D, Files) \in Nat /\ Sum(F, Files) \in Nat
       /\ Sum(E, Files) \in Nat /\ Sum(Weights, Files) \in Nat
  BY <1>5, Finite, SumType
<1>11. Sum(D, Files) <= Cap + Sum(E, Files)
  BY <1>1, <1>7, <1>8, <1>10, QuotaFacts
<1>12. QED
  BY <1>2, <1>6, <1>9, <1>11

\* The managed files of admitted sessions stay within managed_bytes, but for
\* one segment of each rotating log, if every session renews its lease.
THEOREM CapacityKept == OneLock /\ Spec => []WithinCapacity
<1> SUFFICES ASSUME OneLock PROVE Spec => []WithinCapacity
  OBVIOUS
<1>1. Init => CInv
  BY CInit
<1>2. CInv /\ [Next]_vars => CInv'
  BY CStep
<1>3. CInv => WithinCapacity
  BY WithinRoom
<1>4. QED
  BY <1>1, <1>2, <1>3, PTL DEF Spec

-----------------------------------------------------------------------------
(* The drain.                                                               *)

\* The rings of one run of the game are numbered in succession, as are their
\* activations: the number before its first ring is its own.
Game == ring.id - ring.activation
OfGame(id) == Game < id /\ id <= ring.id

-----------------------------------------------------------------------------
(* What passes between them.                                                *)

\* The rings the client and the game remember.
RingsKnown ==
    /\ ring.activation <= ring.id
    /\ nonce # None => OfGame(nonce)
    /\ known # None => known <= ring.id
    /\ conn = "ready" => known # None /\ OfGame(known)
    /\ \A e \in log : e.ring <= ring.id
    /\ \A n \in Drain!InRing : n < ring.next

\* A snapshot read on a connection is of this run of the game, and holds of its
\* ring what has not left it since.
SnapshotHolds ==
    conn # "off" =>
        /\ snapshot \in Drain!Snapshot
        /\ snapshot.ring - snapshot.activation = Game
        /\ snapshot.activation <= ring.activation
        /\ snapshot.nonce # None => OfGame(snapshot.nonce)
        /\ \A n \in snapshot.events : n < snapshot.next
        /\ snapshot.ring = ring.id =>
             /\ snapshot.next <= ring.next
             /\ \A n \in Drain!InRing : n < snapshot.next => n \in snapshot.events

\* An acknowledgement of the ring covers what is logged.
Covers(a) ==
    /\ conn # "off"
    /\ a.activation <= ring.activation
    /\ a.activation = ring.activation =>
         /\ a.number < ring.next
         /\ \A n \in Drain!InRing : n <= a.number => n \in Drain!LoggedNumbers(ring.id)

AcksCover ==
    /\ \A a \in acks : Covers(a)
    /\ pending # None => Covers(pending)

-----------------------------------------------------------------------------
(* What the client remembers of its source.                                 *)

\* The source is of this run of the game: a connection lasts, or will find the
\* nonce it knows.
Current == conn # "off" \/ (known # None /\ OfGame(known))
SourceRing == Game + state.activation

Mine == {e \in log : e.client = client /\ e.source = source}

SourceKnown ==
    /\ \A e \in log : e.client <= client
    /\ \A e \in log : e.client = client => e.source <= source
    /\ \A e \in Mine : e.number <= last
    /\ last >= 0 => \E e \in Mine : e.number = last
    /\ state.activation = None =>
         state.next = None /\ last = -1 /\ Mine = {}
    /\ known = None /\ conn = "off" => state.activation = None

\* A source that goes on has one ring, and what is behind its mark is logged.
SourceHolds ==
    Current /\ state.activation # None =>
        /\ state.activation <= ring.activation
        /\ \A e \in Mine : e.ring = SourceRing
        /\ SourceRing = ring.id =>
             /\ last < ring.next
             /\ \A n \in Drain!InRing : n <= last => n \in Drain!LoggedNumbers(ring.id)
        /\ conn # "off" /\ snapshot.ring = SourceRing =>
             \A n \in snapshot.events :
                n <= last => n \in Drain!LoggedNumbers(snapshot.ring)

\* The records of a source are of one ring.
OneRing ==
    \A x, y \in log :
        x.client = y.client /\ x.source = y.source => x.ring = y.ring

DInv ==
    /\ Drain!TypeOK
    /\ RingsKnown
    /\ SnapshotHolds
    /\ AcksCover
    /\ SourceKnown
    /\ SourceHolds
    /\ OneRing
    /\ Drain!HolesReported

LEMMA Greatest ==
    ASSUME NEW L \in Nat, NEW T \in SUBSET (0 .. L), T # {}
    PROVE  \E m \in T : \A k \in T : k <= m
<1>1. PICK U : U = {L - n : n \in T}
  OBVIOUS
<1>2. U \in SUBSET (0 .. L) /\ U # {}
  <2>1. ASSUME NEW n \in T PROVE L - n \in 0 .. L
    <3>1. n \in 0 .. L
      OBVIOUS
    <3>2. QED
      BY <3>1
  <2>2. QED
    BY <1>1, <2>1
<1>3. PICK m \in U : \A k \in U : m <= k
  BY <1>2, Least
<1>4. PICK n \in T : m = L - n
  BY <1>1
<1>5. ASSUME NEW k \in T PROVE k <= n
  <2>1. L - k \in U
    BY <1>1
  <2>2. L - n <= L - k
    BY <1>3, <1>4, <2>1
  <2>3. k \in 0 .. L /\ n \in 0 .. L
    OBVIOUS
  <2>4. QED
    BY <2>2, <2>3
<1>6. QED
  BY <1>5

\* Greatest and least number of a set of records.
LEMMA MaxFacts ==
    ASSUME NEW S \in SUBSET Drain!Numbers, S # {}
    PROVE  Drain!Max(S) \in S /\ \A n \in S : n <= Drain!Max(S)
<1>1. MaxNext \in Nat /\ MaxNext > 1
  BY DrainAssumption DEF Drain!BoundAssumption
<1>2. MaxNext - 1 \in Nat /\ S \in SUBSET (0 .. MaxNext - 1)
  BY <1>1 DEF Drain!Numbers
<1>3. PICK m \in S : \A k \in S : k <= m
  BY <1>2, Greatest
<1>4. \A x \in S : \A y \in S : x \in Int /\ y \in Int
  BY <1>2
<1>5. QED
  BY <1>3, <1>4 DEF Drain!Max

LEMMA MinFacts ==
    ASSUME NEW S \in SUBSET Drain!Numbers, S # {}
    PROVE  Drain!Min(S) \in S
<1>1. MaxNext \in Nat /\ MaxNext > 1
  BY DrainAssumption DEF Drain!BoundAssumption
<1>2. MaxNext - 1 \in Nat /\ S \in SUBSET (0 .. MaxNext - 1)
  BY <1>1 DEF Drain!Numbers
<1>3. PICK m \in S : \A k \in S : m <= k
  BY <1>2, Least
<1>4. \A y \in S : m <= y
  BY <1>3
<1>5. QED
  BY <1>3, <1>4 DEF Drain!Min

\* A size is the same in both modules.
LEMMA Sizes == \A S : Drain!Cardinality(S) = Cardinality(S)
  BY DEF Drain!Cardinality, Cardinality

\* The records of a ring can be counted.
LEMMA RingSizes ==
    ASSUME NEW r \in Drain!Ring
    PROVE  /\ IsFiniteSet(r.kept) /\ IsFiniteSet(r.sticky)
           /\ Cardinality(r.kept) \in Nat
           /\ Cardinality(r.sticky) \in Nat /\ Cardinality(r.sticky) <= 2
<1>1. r.kept \subseteq 0 .. MaxNext - 1 /\ r.sticky \subseteq {0, 1}
  BY DEF Drain!Ring, Drain!Numbers
<1>2. IsFiniteSet(0 .. MaxNext - 1)
  BY FS_Interval, DrainAssumption DEF Drain!BoundAssumption
<1>3. IsFiniteSet(0 .. 1) /\ Cardinality(0 .. 1) = 2
  <2>1. 0 \in Int /\ 1 \in Int
    OBVIOUS
  <2>2. IsFiniteSet(0 .. 1) /\ Cardinality(0 .. 1) = IF 0 > 1 THEN 0 ELSE 1 - 0 + 1
    BY <2>1, FS_Interval, Zenon
  <2>3. QED
    BY <2>2
<1>4. r.sticky \subseteq 0 .. 1
  BY <1>1
<1>5. IsFiniteSet(r.kept) /\ IsFiniteSet(r.sticky) /\ Cardinality(r.sticky) <= 2
  <2>1. IsFiniteSet(r.kept)
    BY ONLY <1>1, <1>2, FS_Subset
  <2>2. IsFiniteSet(r.sticky) /\ Cardinality(r.sticky) <= Cardinality(0 .. 1)
    BY ONLY <1>3, <1>4, FS_Subset
  <2>3. QED
    BY <1>3, <2>1, <2>2
<1>6. QED
  BY <1>5, FS_CardinalityType

Small(r) == Cardinality(r.kept) + Cardinality(r.sticky) <= Capacity

\* A record takes the next number, and may push out the oldest one.
LEMMA EmittedFacts ==
    ASSUME NEW r \in Drain!Ring, Small(r), r.next < MaxNext
    PROVE  /\ Drain!Emitted(r) \in Drain!Ring /\ Small(Drain!Emitted(r))
           /\ Drain!Emitted(r).id = r.id /\ Drain!Emitted(r).activation = r.activation
           /\ Drain!Emitted(r).next = r.next + 1 /\ Drain!Emitted(r).sticky = r.sticky
           /\ Drain!Emitted(r).kept \subseteq r.kept \cup {r.next}
<1> DEFINE full == Cardinality(r.kept) = Capacity - Cardinality(r.sticky)
           room == IF full THEN r.kept \ {Drain!Min(r.kept)} ELSE r.kept
<1>1. r.next \in 2 .. MaxNext /\ r.next \in Drain!Numbers /\ r.kept \subseteq Drain!Numbers
  BY DrainAssumption DEF Drain!Ring, Drain!Numbers, Drain!BoundAssumption
<1>2. Drain!Emitted(r) = [r EXCEPT !.kept = room \cup {r.next}, !.next = @ + 1]
  BY Sizes DEF Drain!Emitted
<1>3. room \subseteq r.kept
  OBVIOUS
<1>4. /\ Drain!Emitted(r).kept = room \cup {r.next} /\ Drain!Emitted(r).next = r.next + 1
      /\ Drain!Emitted(r).id = r.id /\ Drain!Emitted(r).activation = r.activation
      /\ Drain!Emitted(r).sticky = r.sticky
  BY <1>2 DEF Drain!Ring
<1>5. Drain!Emitted(r) \in Drain!Ring
  <2>1. r.next + 1 \in 2 .. MaxNext
    BY <1>1, DrainAssumption DEF Drain!BoundAssumption
  <2>2. room \cup {r.next} \in SUBSET Drain!Numbers
    BY <1>1, <1>3
  <2>3. QED
    BY <1>2, <2>1, <2>2 DEF Drain!Ring
<1>6. Small(Drain!Emitted(r))
  <2>1. /\ IsFiniteSet(r.kept) /\ Cardinality(r.kept) \in Nat
        /\ Cardinality(r.sticky) \in Nat /\ Cardinality(r.sticky) <= 2
    BY RingSizes
  <2>2. Capacity \in Nat /\ Capacity > 2
    BY DrainAssumption DEF Drain!CapacityAssumption
  <2>3. IsFiniteSet(room) /\ Cardinality(room) \in Nat
    BY <1>3, <2>1, FS_Subset, FS_CardinalityType
  <2>4. Cardinality(room) + 1 + Cardinality(r.sticky) <= Capacity
    <3>1. CASE full
      <4>1. Cardinality(r.kept) > 0
        BY <2>1, <2>2, <3>1
      <4>2. r.kept # {}
        BY <4>1, FS_EmptySet
      <4>3. Drain!Min(r.kept) \in r.kept
        BY <1>1, <4>2, MinFacts
      <4>4. Cardinality(r.kept \ {Drain!Min(r.kept)}) = Cardinality(r.kept) - 1
        BY <2>1, <4>3, FS_RemoveElement
      <4>5. room = r.kept \ {Drain!Min(r.kept)}
        BY <3>1
      <4>6. Cardinality(room) = Cardinality(r.kept) - 1
        BY <4>4, <4>5
      <4>7. QED
        BY <2>1, <2>2, <2>3, <3>1, <4>6
    <3>2. CASE ~ full
      <4>1. room = r.kept
        BY <3>2
      <4>2. QED
        BY <2>1, <2>2, <3>2, <4>1 DEF Small
    <3>3. QED
      BY <3>1, <3>2
  <2>5. Cardinality(room \cup {r.next}) <= Cardinality(room) + 1
    <3>1. \/ Cardinality(room \cup {r.next}) = Cardinality(room)
          \/ Cardinality(room \cup {r.next}) = Cardinality(room) + 1
      BY <2>3, FS_AddElement, Zenon
    <3>2. QED
      BY <2>3, <3>1
  <2>6. IsFiniteSet(room \cup {r.next})
    BY <2>3, FS_AddElement
  <2>7. Cardinality(room \cup {r.next}) \in Nat
    BY <2>6, FS_CardinalityType
  <2>8. Small(Drain!Emitted(r)) <=>
          Cardinality(room \cup {r.next}) + Cardinality(r.sticky) <= Capacity
    BY <1>4 DEF Small
  <2>9. QED
    BY <2>1, <2>2, <2>3, <2>4, <2>5, <2>7, <2>8
<1>7. QED
  BY <1>3, <1>4, <1>5, <1>6

\* What a ring is when it begins anew, and after an acknowledgement.
LEMMA NewRingFacts ==
    ASSUME ring \in Drain!Ring, ring.id < MaxRings,
           NEW k \in 1 .. ring.id + 1
    PROVE  /\ Drain!NewRing(k) \in Drain!Ring /\ Small(Drain!NewRing(k))
           /\ Drain!NewRing(k).id = ring.id + 1 /\ Drain!NewRing(k).activation = k
           /\ Drain!NewRing(k).next = 2 /\ Drain!NewRing(k).kept = {}
           /\ Drain!NewRing(k).sticky = {0, 1}
<1>1. ring.id \in 1 .. MaxRings
  BY DEF Drain!Ring, Drain!Rings
<1>2. ring.id + 1 \in Drain!Rings /\ k \in Drain!Rings
  BY <1>1, DrainAssumption DEF Drain!Rings, Drain!BoundAssumption
<1>3. 2 \in 2 .. MaxNext
  BY DrainAssumption DEF Drain!BoundAssumption
<1>4. Drain!NewRing(k) \in Drain!Ring
  BY <1>2, <1>3 DEF Drain!NewRing, Drain!Ring
<1>5. Cardinality({}) = 0
  BY FS_EmptySet
<1>6. Drain!NewRing(k).kept = {}
  BY DEF Drain!NewRing
<1>7. Cardinality(Drain!NewRing(k).sticky) <= 2 /\ Cardinality(Drain!NewRing(k).sticky) \in Nat
  BY <1>4, RingSizes
<1>8. Small(Drain!NewRing(k))
  BY <1>5, <1>6, <1>7, DrainAssumption DEF Small, Drain!CapacityAssumption
<1>9. QED
  BY <1>4, <1>8 DEF Drain!NewRing

LEMMA AckedFacts ==
    ASSUME NEW r \in Drain!Ring, Small(r), NEW a \in Drain!Ack
    PROVE  /\ Drain!Acknowledged(r, a) \in Drain!Ring /\ Small(Drain!Acknowledged(r, a))
           /\ Drain!Acknowledged(r, a).id = r.id
           /\ Drain!Acknowledged(r, a).activation = r.activation
           /\ Drain!Acknowledged(r, a).next = r.next
           /\ Drain!Acknowledged(r, a).kept \subseteq r.kept
           /\ Drain!Acknowledged(r, a).sticky \subseteq r.sticky
           /\ \A n \in r.kept \cup r.sticky :
                \/ n \in Drain!Acknowledged(r, a).kept \cup Drain!Acknowledged(r, a).sticky
                \/ a.activation = r.activation /\ n <= a.number
<1>1. CASE a.activation # r.activation
  BY <1>1 DEF Drain!Acknowledged
<1>2. CASE a.activation = r.activation
  <2> DEFINE k == {n \in r.kept : n > a.number}
             s == {n \in r.sticky : n > a.number}
  <2>1. Drain!Acknowledged(r, a) = [r EXCEPT !.kept = k, !.sticky = s]
    BY <1>2 DEF Drain!Acknowledged
  <2>2. k \in SUBSET Drain!Numbers /\ s \in SUBSET {0, 1}
    BY DEF Drain!Ring
  <2>3. /\ Drain!Acknowledged(r, a).kept = k /\ Drain!Acknowledged(r, a).sticky = s
        /\ Drain!Acknowledged(r, a).id = r.id /\ Drain!Acknowledged(r, a).next = r.next
        /\ Drain!Acknowledged(r, a).activation = r.activation
    BY <2>1 DEF Drain!Ring
  <2>4. Drain!Acknowledged(r, a) \in Drain!Ring
    BY <2>1, <2>2 DEF Drain!Ring
  <2>5. Small(Drain!Acknowledged(r, a))
    <3>1. Cardinality(k) <= Cardinality(r.kept) /\ Cardinality(s) <= Cardinality(r.sticky)
      BY RingSizes, FS_Subset
    <3>2. /\ Cardinality(k) \in Nat /\ Cardinality(s) \in Nat
          /\ Cardinality(r.kept) \in Nat /\ Cardinality(r.sticky) \in Nat
      BY RingSizes, <2>3, <2>4
    <3>3. QED
      BY <2>3, <3>1, <3>2, DrainAssumption DEF Small, Drain!CapacityAssumption
  <2>6. \A n \in r.kept \cup r.sticky : n \in Int
    BY DEF Drain!Ring, Drain!Numbers
  <2>7. a.number \in Int
    BY DEF Drain!Ack, Drain!Numbers
  <2>8. QED
    BY <1>2, <2>3, <2>4, <2>5, <2>6, <2>7
<1>3. QED
  BY <1>1, <1>2

\* A connection lasts until its hello is answered.
Uninterrupted == Interrupts = FALSE

\* What the types say of numbers.
LEMMA Typed ==
    ASSUME Drain!TypeOK
    PROVE  /\ ring.id \in Nat /\ ring.id > 0 /\ ring.activation \in Nat
           /\ ring.activation > 0 /\ ring.next \in Nat /\ ring.next >= 2
           /\ Game \in Int /\ last \in Int /\ last >= -1
           /\ Drain!InRing \subseteq Drain!Numbers
           /\ \A n \in Drain!Numbers : n \in Nat
           /\ nonce # None => nonce \in Nat
           /\ known # None => known \in Nat
           /\ state.activation # None => state.activation \in Nat
           /\ \A e \in log : /\ e.ring \in Nat /\ e.number \in Nat
                             /\ e.client \in Nat /\ e.source \in Nat
           /\ client \in Nat /\ source \in Nat
           /\ \A a \in acks : a \in Drain!Ack
           /\ \A a \in Drain!Ack : a.activation \in Nat /\ a.number \in Nat
           /\ pending # None => pending \in Drain!Ack
           /\ \A s \in Drain!Snapshot :
                /\ s.ring \in Nat /\ s.activation \in Nat /\ s.next \in Nat
                /\ s.events \subseteq Drain!Numbers
                /\ s.nonce # None => s.nonce \in Nat
<1>1. MaxNext \in Nat /\ MaxNext > 1 /\ MaxRings \in Nat /\ MaxClients \in Nat
  BY DrainAssumption DEF Drain!BoundAssumption
<1>2. \A n \in Drain!Numbers : n \in Nat
  BY <1>1 DEF Drain!Numbers
<1>3. \A n \in Drain!Rings : n \in Nat /\ n > 0
  BY <1>1 DEF Drain!Rings
<1>4. \A n \in 2 .. MaxNext : n \in Nat /\ n >= 2
  BY <1>1
<1>5. /\ ring.id \in Drain!Rings /\ ring.activation \in Drain!Rings
      /\ ring.next \in 2 .. MaxNext
      /\ ring.kept \subseteq Drain!Numbers /\ ring.sticky \subseteq {0, 1}
  BY DEF Drain!TypeOK, Drain!Ring
<1>6. Drain!InRing \subseteq Drain!Numbers
  BY <1>1, <1>5 DEF Drain!InRing, Drain!Numbers
<1>7. last \in Int /\ last >= -1
  BY <1>2 DEF Drain!TypeOK
<1>8. /\ nonce # None => nonce \in Nat
      /\ known # None => known \in Nat
  BY <1>3 DEF Drain!TypeOK
<1>9. state.activation # None => state.activation \in Nat
  BY <1>3 DEF Drain!TypeOK, Drain!Source, Drain!NoSource
<1>10. \A e \in log : /\ e.ring \in Nat /\ e.number \in Nat
                      /\ e.client \in Nat /\ e.source \in Nat
  <2>1. \A n \in 1 .. MaxClients : n \in Nat
    BY <1>1
  <2>2. QED
    BY <1>2, <1>3, <2>1 DEF Drain!TypeOK
<1>11. client \in Nat /\ source \in Nat
  BY <1>1 DEF Drain!TypeOK
<1>12. \A a \in Drain!Ack : a.activation \in Nat /\ a.number \in Nat
  BY <1>2, <1>3 DEF Drain!Ack
<1>13. \A s \in Drain!Snapshot :
          /\ s.ring \in Nat /\ s.activation \in Nat /\ s.next \in Nat
          /\ s.events \subseteq Drain!Numbers
          /\ s.nonce # None => s.nonce \in Nat
  BY <1>3, <1>4 DEF Drain!Snapshot
<1>14. (\A a \in acks : a \in Drain!Ack) /\ (pending # None => pending \in Drain!Ack)
  BY DEF Drain!TypeOK
<1>15. Game \in Int
  BY <1>3, <1>5 DEF Game
<1>16. QED
  BY <1>2, <1>3, <1>4, <1>5, <1>6, <1>7, <1>8, <1>9, <1>10, <1>11, <1>12, <1>13,
     <1>14, <1>15

-----------------------------------------------------------------------------
(* The game moves, and the client does not.                                 *)

Shows(id, activation, next, events, session) ==
    /\ snapshot'.ring = id /\ snapshot'.activation = activation
    /\ snapshot'.next = next /\ snapshot'.events = events
    /\ snapshot'.nonce = session

GameMoves ==
    /\ UNCHANGED <<Drain!clientVars, log, holes>>
    /\ acks' \subseteq acks
    /\ \/ /\ ring'.id = ring.id /\ ring'.activation = ring.activation
          /\ ring'.next >= ring.next
          /\ \A n \in Drain!InRing' :
               /\ n < ring'.next
               /\ n < ring.next => n \in Drain!InRing
       \/ /\ ring'.id = ring.id + 1 /\ ring'.activation = ring.activation + 1
          /\ ring'.next = 2 /\ Drain!InRing' = {0, 1}
    /\ nonce' # None => nonce' = nonce \/ nonce' = ring'.id
    /\ \/ snapshot' = snapshot
       \/ /\ snapshot' \in Drain!Snapshot
          /\ Shows(ring'.id, ring'.activation, ring'.next, Drain!InRing', nonce')

\* A step of the game alone preserves the invariant.
LEMMA GameHolds ==
    ASSUME DInv, Drain!TypeOK', GameMoves
    PROVE  DInv'
<1>1. Drain!TypeOK
  BY DEF DInv
<1>2. /\ client' = client /\ conn' = conn /\ known' = known /\ state' = state
      /\ last' = last /\ source' = source /\ pending' = pending
      /\ log' = log /\ holes' = holes
  BY DEF GameMoves, Drain!clientVars
<1>3. Game' = Game /\ Game \in Int
  BY <1>1, Typed DEF GameMoves, Game
<1>4. ring.id <= ring'.id /\ ring.activation <= ring'.activation
  BY <1>1, Typed DEF GameMoves
<1>5. /\ ring'.id \in Nat /\ ring'.activation \in Nat /\ ring'.activation > 0
      /\ ring'.next \in Nat
  <2>1. ring' \in Drain!Ring
    BY DEF Drain!TypeOK
  <2>2. QED
    BY <2>1, DrainAssumption DEF Drain!Ring, Drain!Rings, Drain!BoundAssumption
<1>6. \A k \in Int : OfGame(k) => OfGame(k)'
  BY <1>1, <1>3, <1>4, <1>5, Typed DEF OfGame
<1>7. OfGame(ring.id)' /\ ring'.activation <= ring'.id
  BY <1>1, <1>3, <1>4, <1>5, Typed DEF OfGame, Game, DInv, RingsKnown
<1>8. RingsKnown'
  <2>1. nonce' # None => OfGame(nonce)'
    <3>1. nonce # None => OfGame(nonce)
      BY DEF DInv, RingsKnown
    <3>2. CASE nonce' # None /\ nonce' = nonce
      BY <1>1, <1>3, <1>4, <1>5, <3>1, <3>2, Typed DEF OfGame
    <3>3. CASE nonce' # None /\ nonce' = ring'.id
      BY <1>7, <3>3 DEF OfGame, Game
    <3>4. QED
      BY <3>2, <3>3 DEF GameMoves
  <2>2. known' # None => known' <= ring'.id
    BY <1>1, <1>2, <1>4, <1>5, Typed DEF DInv, RingsKnown
  <2>3. conn' = "ready" => known' # None /\ OfGame(known)'
    BY <1>1, <1>2, <1>3, <1>4, <1>5, Typed DEF DInv, RingsKnown, OfGame
  <2>4. \A e \in log' : e.ring <= ring'.id
    BY <1>1, <1>2, <1>4, <1>5, Typed DEF DInv, RingsKnown
  <2>5. \A n \in Drain!InRing' : n < ring'.next
    BY DEF GameMoves
  <2>6. QED
    BY <1>7, <2>1, <2>2, <2>3, <2>4, <2>5 DEF RingsKnown
<1>9. ASSUME conn # "off"
      PROVE  /\ snapshot' \in Drain!Snapshot
             /\ snapshot'.ring - snapshot'.activation = Game'
             /\ snapshot'.activation <= ring'.activation
             /\ snapshot'.nonce # None => OfGame(snapshot.nonce)'
             /\ \A n \in snapshot'.events : n < snapshot'.next
             /\ snapshot'.ring = ring'.id =>
                 /\ snapshot'.next <= ring'.next
                 /\ \A n \in Drain!InRing' : n < snapshot'.next => n \in snapshot'.events
  <2>1. /\ snapshot \in Drain!Snapshot
        /\ snapshot.ring - snapshot.activation = Game
        /\ snapshot.activation <= ring.activation
        /\ snapshot.nonce # None => OfGame(snapshot.nonce)
        /\ \A n \in snapshot.events : n < snapshot.next
        /\ snapshot.ring = ring.id =>
             /\ snapshot.next <= ring.next
             /\ \A n \in Drain!InRing : n < snapshot.next => n \in snapshot.events
    BY <1>9 DEF DInv, SnapshotHolds
  <2>2. CASE snapshot' = snapshot
    <3>1. snapshot'.nonce # None => OfGame(snapshot.nonce)'
      BY <1>1, <1>3, <1>4, <1>5, <2>1, <2>2, Typed DEF OfGame
    <3>2. /\ snapshot.ring \in Nat /\ snapshot.activation \in Nat
          /\ snapshot.next \in Nat /\ snapshot.events \subseteq Drain!Numbers
      BY <1>1, <2>1, Typed
    <3>3. ASSUME snapshot.ring = ring'.id PROVE ring'.id = ring.id
      BY <1>1, <1>3, <1>4, <1>5, <2>1, <3>2, <3>3, Typed DEF Game
    <3>4. snapshot.ring = ring'.id =>
            /\ snapshot.next <= ring'.next
            /\ \A n \in Drain!InRing' : n < snapshot.next => n \in snapshot.events
      <4>1. ASSUME snapshot.ring = ring'.id
            PROVE  /\ ring'.next >= ring.next
                   /\ \A n \in Drain!InRing' : n < ring.next => n \in Drain!InRing
        BY <1>1, <3>3, <4>1, Typed DEF GameMoves
      <4>2. ASSUME snapshot.ring = ring'.id, NEW n \in Drain!InRing', n < snapshot.next
            PROVE  n \in snapshot.events
        <5>1. n \in Nat
          BY Typed, <1>1, <1>5, <4>2 DEF Drain!TypeOK, Drain!Ring, Drain!InRing,
             Drain!Numbers
        <5>2. snapshot.next <= ring.next
          BY <2>1, <3>3, <4>2
        <5>3. n < ring.next
          BY <1>1, <3>2, <4>2, <5>1, <5>2, Typed
        <5>4. QED
          BY <2>1, <3>3, <4>1, <4>2, <5>3
      <4>3. QED
        BY <1>1, <1>5, <2>1, <3>2, <3>3, <4>1, <4>2, Typed
    <3>5. snapshot.activation <= ring'.activation
      BY <1>1, <1>4, <1>5, <2>1, <3>2, Typed
    <3>6. QED
      BY <1>3, <2>1, <2>2, <3>1, <3>4, <3>5
  <2>3. CASE /\ snapshot' \in Drain!Snapshot
             /\ Shows(ring'.id, ring'.activation, ring'.next, Drain!InRing', nonce')
    <3>1. QED
      BY <1>5, <1>8, <2>3 DEF Shows, RingsKnown, Game
  <2>4. QED
    BY <2>2, <2>3 DEF GameMoves
<1>10. SnapshotHolds'
  BY <1>2, <1>9 DEF SnapshotHolds
<1>11. AcksCover'
  <2>1. ASSUME NEW a \in Drain!Ack, Covers(a) PROVE Covers(a)'
    <3>1. a.activation \in Nat /\ a.number \in Nat
      BY <1>1, Typed
    <3>2. ASSUME a.activation = ring'.activation
          PROVE  /\ ring'.id = ring.id /\ ring'.activation = ring.activation
                 /\ ring'.next >= ring.next
                 /\ \A n \in Drain!InRing' : n < ring.next => n \in Drain!InRing
      BY <1>1, <2>1, <3>1, <3>2, Typed DEF GameMoves, Covers
    <3>3. ASSUME a.activation = ring'.activation
          PROVE  /\ a.number < ring'.next
                 /\ \A n \in Drain!InRing' : n <= a.number => n \in Drain!LoggedNumbers(ring.id)'
      <4>1. a.number < ring.next /\ \A n \in Drain!InRing : n <= a.number => n \in Drain!LoggedNumbers(ring.id)
        BY <2>1, <3>2, <3>3 DEF Covers
      <4>2. Drain!LoggedNumbers(ring.id)' = Drain!LoggedNumbers(ring.id)
        BY <1>2, <3>2, <3>3 DEF Drain!LoggedNumbers
      <4>3. \A n \in Drain!InRing' : n \in Nat
        BY DrainAssumption DEF Drain!TypeOK, Drain!Ring, Drain!InRing, Drain!Numbers,
           Drain!BoundAssumption
      <4>4. QED
        BY <1>1, <1>5, <3>1, <3>2, <3>3, <4>1, <4>2, <4>3, Typed
    <3>4. a.activation <= ring'.activation /\ conn' # "off"
      BY <1>1, <1>2, <1>4, <1>5, <2>1, <3>1, Typed DEF Covers
    <3>5. QED
      BY <3>3, <3>4 DEF Covers
  <2>2. \A a \in acks' : a \in Drain!Ack /\ a \in acks
    BY <1>1, Typed DEF GameMoves
  <2>3. QED
    BY <1>1, <1>2, <2>1, <2>2, Typed DEF DInv, AcksCover
<1>12. SourceKnown'
  BY <1>2 DEF DInv, SourceKnown, Mine
<1>13. SourceHolds'
  <2>1. SUFFICES ASSUME Current', state.activation # None
                 PROVE  /\ state.activation <= ring'.activation
                        /\ \A e \in Mine : e.ring = SourceRing'
                        /\ SourceRing' = ring'.id =>
                             /\ last < ring'.next
                             /\ \A n \in Drain!InRing' :
                                  n <= last => n \in Drain!LoggedNumbers(ring.id)'
                        /\ conn # "off" /\ snapshot'.ring = SourceRing' =>
                             \A n \in snapshot'.events :
                                n <= last => n \in Drain!LoggedNumbers(snapshot.ring)'
    BY <1>2 DEF SourceHolds, Mine
  <2>2. Current
    <3>1. known # None /\ OfGame(known)' => OfGame(known)
      BY <1>1, <1>2, <1>3, Typed DEF OfGame, DInv, RingsKnown
    <3>2. QED
      BY <1>2, <2>1, <3>1 DEF Current
  <2>3. /\ state.activation <= ring.activation /\ state.activation \in Nat
        /\ \A e \in Mine : e.ring = SourceRing
        /\ SourceRing = ring.id =>
             /\ last < ring.next
             /\ \A n \in Drain!InRing : n <= last => n \in Drain!LoggedNumbers(ring.id)
        /\ conn # "off" /\ snapshot.ring = SourceRing =>
             \A n \in snapshot.events :
                n <= last => n \in Drain!LoggedNumbers(snapshot.ring)
    BY <1>1, <2>1, <2>2, Typed DEF DInv, SourceHolds
  <2>4. SourceRing' = SourceRing
    BY <1>2, <1>3 DEF SourceRing
  <2>5. ASSUME SourceRing = ring'.id
        PROVE  /\ ring'.id = ring.id /\ ring'.next >= ring.next
               /\ \A n \in Drain!InRing' : n < ring.next => n \in Drain!InRing
    <3>1. ring'.id = ring.id
      BY <1>1, <1>3, <1>4, <1>5, <2>3, <2>5, Typed DEF SourceRing, Game
    <3>2. QED
      BY <1>1, <3>1, Typed DEF GameMoves
  <2>6. \A n \in Drain!InRing' : n \in Nat
    BY DrainAssumption DEF Drain!TypeOK, Drain!Ring, Drain!InRing, Drain!Numbers,
       Drain!BoundAssumption
  <2>7. ASSUME SourceRing = ring'.id
        PROVE  /\ last < ring'.next
               /\ \A n \in Drain!InRing' : n <= last => n \in Drain!LoggedNumbers(ring.id)'
    <3>1. Drain!LoggedNumbers(ring.id)' = Drain!LoggedNumbers(ring.id)
      BY <1>2, <2>5, <2>7 DEF Drain!LoggedNumbers
    <3>2. QED
      BY <1>1, <1>5, <2>3, <2>5, <2>6, <2>7, <3>1, Typed
  <2>8. ASSUME conn # "off", snapshot'.ring = SourceRing
        PROVE  \A n \in snapshot'.events : n <= last => n \in Drain!LoggedNumbers(snapshot.ring)'
    <3>1. CASE snapshot' = snapshot
      <4>1. Drain!LoggedNumbers(snapshot.ring)' = Drain!LoggedNumbers(snapshot.ring)
        BY <1>2, <3>1 DEF Drain!LoggedNumbers
      <4>2. QED
        BY <2>3, <2>8, <3>1, <4>1
    <3>2. CASE Shows(ring'.id, ring'.activation, ring'.next, Drain!InRing', nonce')
      BY <2>7, <2>8, <3>2 DEF Shows, Drain!LoggedNumbers
    <3>3. QED
      BY <3>1, <3>2 DEF GameMoves
  <2>9. QED
    BY <1>1, <1>4, <1>5, <2>3, <2>4, <2>7, <2>8, Typed
<1>14. OneRing' /\ Drain!HolesReported'
  BY <1>2 DEF DInv, OneRing, Drain!HolesReported
<1>15. QED
  BY <1>8, <1>10, <1>11, <1>12, <1>13, <1>14 DEF DInv

-----------------------------------------------------------------------------
(* The steps of the game.                                                   *)

LEMMA InitHolds == Drain!Init => DInv
<1> SUFFICES ASSUME Drain!Init PROVE DInv
  OBVIOUS
<1>1. /\ ring.id = 1 /\ ring.activation = 1 /\ ring.next = 2
      /\ ring.kept = {} /\ ring.sticky = {0, 1}
  BY DEF Drain!Init
<1>2. /\ nonce = None /\ snapshot = None /\ acks = {} /\ greeted = FALSE
      /\ client = 1 /\ conn = "off" /\ known = None /\ state = Drain!NoSource
      /\ last = -1 /\ source = 0 /\ pending = None /\ mute = FALSE
      /\ log = {} /\ holes = {} /\ losses = 0
  BY DEF Drain!Init
<1>3. ring \in Drain!Ring
  <2>1. 1 \in Drain!Rings /\ 2 \in 2 .. MaxNext
    BY DrainAssumption DEF Drain!Rings, Drain!BoundAssumption
  <2>2. QED
    BY <2>1 DEF Drain!Init, Drain!Ring
<1>4. Drain!TypeOK
  <2>1. Cardinality(ring.kept) = 0
    BY <1>1, FS_EmptySet
  <2>2. Cardinality(ring.sticky) \in Nat /\ Cardinality(ring.sticky) <= 2
    BY <1>3, RingSizes
  <2>3. Cardinality(ring.kept) + Cardinality(ring.sticky) <= Capacity
    BY <2>1, <2>2, DrainAssumption DEF Drain!CapacityAssumption
  <2>4. 1 \in 1 .. MaxClients /\ 0 \in 0 .. MaxLosses
    BY DrainAssumption DEF Drain!BoundAssumption
  <2>5. QED
    BY <1>2, <1>3, <2>3, <2>4, Sizes DEF Drain!TypeOK
<1>5. Game = 0
  BY <1>1 DEF Game
<1>6. state.activation = None /\ state.next = None
  BY <1>2 DEF Drain!NoSource
<1>7. \A n \in Drain!InRing : n < ring.next
  BY <1>1 DEF Drain!InRing
<1>8. RingsKnown /\ SnapshotHolds /\ AcksCover
  BY <1>1, <1>2, <1>7 DEF RingsKnown, SnapshotHolds, AcksCover
<1>9. SourceKnown /\ SourceHolds /\ OneRing /\ Drain!HolesReported
  BY <1>2, <1>6 DEF SourceKnown, SourceHolds, OneRing, Drain!HolesReported, Mine
<1>10. QED
  BY <1>4, <1>8, <1>9 DEF DInv

\* What a snapshot says, malformed or not.
LEMMA ExportedFacts ==
    ASSUME NEW r \in Drain!Ring, NEW session \in Drain!Rings \cup {None}, NEW s,
           \/ s = Drain!Exported(r, session)
           \/ s = [Drain!Exported(r, session) EXCEPT !.malformed = TRUE]
    PROVE  /\ s \in Drain!Snapshot
           /\ s.ring = r.id /\ s.activation = r.activation /\ s.next = r.next
           /\ s.events = r.sticky \cup r.kept /\ s.nonce = session
<1>1. r.sticky \cup r.kept \in SUBSET Drain!Numbers
  BY DrainAssumption DEF Drain!Ring, Drain!Numbers, Drain!BoundAssumption
<1>2. r.id \in Drain!Rings /\ r.activation \in Drain!Rings /\ r.next \in 2 .. MaxNext
  BY DEF Drain!Ring
<1>3. PICK bad \in BOOLEAN :
        s = [ring |-> r.id, activation |-> r.activation, next |-> r.next,
             events |-> r.sticky \cup r.kept, nonce |-> session, malformed |-> bad]
  BY DEF Drain!Exported
<1>4. QED
  BY <1>1, <1>2, <1>3 DEF Drain!Snapshot

LEMMA EmitStep ==
    ASSUME DInv, Drain!Emit
    PROVE  DInv'
<1>1. Drain!TypeOK /\ Small(ring) /\ ring \in Drain!Ring
  BY Sizes DEF DInv, Drain!TypeOK, Small
<1>2. /\ ring' = Drain!Emitted(ring) /\ ring.next < MaxNext
      /\ UNCHANGED <<nonce, Drain!wireVars, Drain!clientVars, log, holes, losses>>
  BY DEF Drain!Emit
<1>3. /\ ring' \in Drain!Ring /\ Small(ring') /\ ring'.id = ring.id
      /\ ring'.activation = ring.activation /\ ring'.next = ring.next + 1
      /\ ring'.sticky = ring.sticky /\ ring'.kept \subseteq ring.kept \cup {ring.next}
  BY <1>1, <1>2, EmittedFacts
<1>4. Drain!TypeOK'
  BY <1>1, <1>2, <1>3, Sizes DEF Drain!TypeOK, Small, Drain!wireVars, Drain!clientVars
<1>5. GameMoves
  <2>1. \A n \in Drain!InRing' : n \in Drain!InRing \/ n = ring.next
    BY <1>3 DEF Drain!InRing
  <2>2. \A n \in Drain!InRing : n < ring.next /\ n \in Nat
    BY <1>1, Typed DEF DInv, RingsKnown
  <2>3. ring.next \in Nat
    BY <1>1, Typed
  <2>4. \A n \in Drain!InRing' : n < ring'.next /\ (n < ring.next => n \in Drain!InRing)
    BY <1>3, <2>1, <2>2, <2>3
  <2>5. ring'.next >= ring.next
    BY <1>3, <2>3
  <2>6. QED
    BY <1>2, <1>3, <2>4, <2>5 DEF GameMoves, Drain!wireVars
<1>6. QED
  BY <1>4, <1>5, GameHolds

LEMMA ExportStep ==
    ASSUME DInv, Drain!Export
    PROVE  DInv'
<1>1. Drain!TypeOK /\ ring \in Drain!Ring /\ nonce \in Drain!Rings \cup {None}
  BY DEF DInv, Drain!TypeOK
<1>2. UNCHANGED <<Drain!gameVars, acks, greeted, Drain!clientVars, log, holes>>
  BY DEF Drain!Export
<1>3. /\ \/ snapshot' = Drain!Exported(ring, nonce)
         \/ snapshot' = [Drain!Exported(ring, nonce) EXCEPT !.malformed = TRUE]
      /\ losses' \in 0 .. MaxLosses
  BY <1>1, DrainAssumption DEF Drain!Export, Drain!Fault, Drain!TypeOK,
     Drain!BoundAssumption
<1>4. /\ snapshot' \in Drain!Snapshot
      /\ Shows(ring.id, ring.activation, ring.next, Drain!InRing, nonce)
  BY <1>1, <1>3, ExportedFacts DEF Shows, Drain!InRing
<1>5. Drain!TypeOK'
  BY <1>1, <1>2, <1>3, <1>4 DEF Drain!TypeOK, Drain!gameVars, Drain!clientVars
<1>6. \A n \in Drain!InRing : n < ring.next
  BY DEF DInv, RingsKnown
<1>7. Drain!InRing' = Drain!InRing
  BY <1>2 DEF Drain!InRing, Drain!gameVars
<1>8. ring' = ring /\ nonce' = nonce /\ acks' = acks
  BY <1>2 DEF Drain!gameVars
<1>9. GameMoves
  BY <1>1, <1>2, <1>4, <1>6, <1>7, <1>8, Typed DEF GameMoves
<1>10. QED
  BY <1>5, <1>9, GameHolds

LEMMA EvaluateHelloStep ==
    ASSUME DInv, Drain!EvaluateHello
    PROVE  DInv'
<1>1. /\ Drain!TypeOK /\ Small(ring) /\ ring \in Drain!Ring /\ ring.id \in Drain!Rings
      /\ nonce \in Drain!Rings \cup {None}
  BY Sizes DEF DInv, Drain!TypeOK, Small, Drain!Ring
<1>2. /\ ring.next < MaxNext /\ ring' = Drain!Emitted(ring)
      /\ nonce' = IF nonce = None THEN ring.id ELSE nonce
      /\ snapshot' = Drain!Exported(ring', nonce') /\ greeted' = TRUE
      /\ UNCHANGED <<acks, Drain!clientVars, log, holes, losses>>
  BY DEF Drain!EvaluateHello
<1>3. /\ ring' \in Drain!Ring /\ Small(ring') /\ ring'.id = ring.id
      /\ ring'.activation = ring.activation /\ ring'.next = ring.next + 1
      /\ ring'.sticky = ring.sticky /\ ring'.kept \subseteq ring.kept \cup {ring.next}
  BY <1>1, <1>2, EmittedFacts
<1>4. nonce' \in Drain!Rings \cup {None}
  BY <1>1, <1>2
<1>5. /\ snapshot' \in Drain!Snapshot
      /\ Shows(ring'.id, ring'.activation, ring'.next, Drain!InRing', nonce')
  BY <1>2, <1>3, <1>4, ExportedFacts DEF Shows, Drain!InRing
<1>6. Drain!TypeOK'
  BY <1>1, <1>2, <1>3, <1>4, <1>5, Sizes DEF Drain!TypeOK, Small, Drain!clientVars
<1>7. GameMoves
  <2>1. \A n \in Drain!InRing' : n \in Drain!InRing \/ n = ring.next
    BY <1>3 DEF Drain!InRing
  <2>2. \A n \in Drain!InRing : n < ring.next /\ n \in Nat
    BY <1>1, Typed DEF DInv, RingsKnown
  <2>3. ring.next \in Nat
    BY <1>1, Typed
  <2>4. \A n \in Drain!InRing' : n < ring'.next /\ (n < ring.next => n \in Drain!InRing)
    BY <1>3, <2>1, <2>2, <2>3
  <2>5. ring'.next >= ring.next
    BY <1>3, <2>3
  <2>6. nonce' = nonce \/ nonce' = ring'.id
    BY <1>2, <1>3
  <2>7. QED
    BY <1>2, <1>3, <1>5, <2>4, <2>5, <2>6 DEF GameMoves
<1>8. QED
  BY <1>6, <1>7, GameHolds

LEMMA EvaluateAckStep ==
    ASSUME DInv, Drain!EvaluateAck
    PROVE  DInv'
<1>1. Drain!TypeOK /\ Small(ring) /\ ring \in Drain!Ring
  BY Sizes DEF DInv, Drain!TypeOK, Small
<1>2. PICK a \in acks :
        /\ acks' = acks \ {a} /\ ring' = Drain!Acknowledged(ring, a)
        /\ UNCHANGED <<nonce, snapshot, greeted, Drain!clientVars, log, holes, losses>>
  BY DEF Drain!EvaluateAck
<1>3. a \in Drain!Ack
  BY <1>1 DEF Drain!TypeOK
<1>4. /\ ring' \in Drain!Ring /\ Small(ring') /\ ring'.id = ring.id
      /\ ring'.activation = ring.activation /\ ring'.next = ring.next
      /\ ring'.sticky \subseteq ring.sticky /\ ring'.kept \subseteq ring.kept
  BY <1>1, <1>2, <1>3, AckedFacts
<1>5. Drain!TypeOK'
  BY <1>1, <1>2, <1>4, Sizes DEF Drain!TypeOK, Small, Drain!clientVars
<1>6. Drain!InRing' \subseteq Drain!InRing
  BY <1>4 DEF Drain!InRing
<1>7. ring'.next >= ring.next
  BY <1>1, <1>4, Typed
<1>8. \A n \in Drain!InRing : n < ring.next
  BY DEF DInv, RingsKnown
<1>9. GameMoves
  BY <1>2, <1>4, <1>6, <1>7, <1>8 DEF GameMoves
<1>10. QED
  BY <1>5, <1>9, GameHolds

LEMMA ReloadStep ==
    ASSUME DInv, Drain!Reload
    PROVE  DInv'
<1>1. Drain!TypeOK /\ ring \in Drain!Ring /\ nonce \in Drain!Rings \cup {None}
  BY DEF DInv, Drain!TypeOK
<1>2. /\ ring.id < MaxRings /\ ring' = Drain!NewRing(ring.activation + 1)
      /\ nonce' \in {nonce, None}
      /\ UNCHANGED <<Drain!wireVars, Drain!clientVars, log, holes, losses>>
  BY DEF Drain!Reload
<1>3. ring.activation + 1 \in 1 .. ring.id + 1
  BY <1>1, Typed DEF DInv, RingsKnown
<1>4. /\ ring' \in Drain!Ring /\ Small(ring') /\ ring'.id = ring.id + 1
      /\ ring'.activation = ring.activation + 1 /\ ring'.next = 2
      /\ ring'.kept = {} /\ ring'.sticky = {0, 1}
  BY <1>1, <1>2, <1>3, NewRingFacts
<1>5. Drain!TypeOK'
  BY <1>1, <1>2, <1>4, Sizes DEF Drain!TypeOK, Small, Drain!wireVars, Drain!clientVars
<1>6. Drain!InRing' = {0, 1}
  BY <1>4 DEF Drain!InRing
<1>7. snapshot' = snapshot /\ acks' = acks
  BY <1>2 DEF Drain!wireVars
<1>8. GameMoves
  BY <1>2, <1>4, <1>6, <1>7 DEF GameMoves
<1>9. QED
  BY <1>5, <1>8, GameHolds

-----------------------------------------------------------------------------
(* The connection comes and goes.                                           *)

\* Nothing is on its way without a connection.
LEMMA OffQuiet ==
    ASSUME DInv, conn = "off"
    PROVE  acks = {} /\ pending = None
BY DEF DInv, AcksCover, Covers

\* A new source generation has no record yet.
LEMMA MineAfterReset ==
    ASSUME DInv, Drain!Reset, UNCHANGED <<client, log>>
    PROVE  /\ Mine' = {} /\ state'.activation = None /\ state'.next = None
           /\ last' = -1 /\ source' \in Nat /\ state' = Drain!NoSource
           /\ \A e \in log : e.client = client => e.source <= source'
<1>1. Drain!TypeOK
  BY DEF DInv
<1>2. source' = source + 1 /\ source \in Nat /\ \A e \in log : e.source \in Nat
  BY <1>1, Typed DEF Drain!Reset
<1>3. \A e \in log : e.client = client => e.source <= source
  BY DEF DInv, SourceKnown
<1>4. Mine' = {}
  BY <1>2, <1>3 DEF Mine
<1>5. QED
  BY <1>2, <1>3, <1>4 DEF Drain!Reset, Drain!NoSource

LEMMA RestartStep ==
    ASSUME Uninterrupted, DInv, Drain!Restart
    PROVE  DInv'
<1>1. Drain!TypeOK /\ ring \in Drain!Ring
  BY DEF DInv, Drain!TypeOK
<1>2. /\ ring.id < MaxRings /\ conn # "hello" /\ ring' = Drain!NewRing(1)
      /\ nonce' = None /\ conn' = "off" /\ greeted' = FALSE /\ acks' = {}
      /\ pending' = None
      /\ UNCHANGED <<snapshot, client, known, state, last, source, mute, log,
                     holes, losses>>
  BY DEF Drain!Restart, Drain!Off, Uninterrupted
<1>3. 1 \in 1 .. ring.id + 1
  BY <1>1, Typed
<1>4. /\ ring' \in Drain!Ring /\ Small(ring') /\ ring'.id = ring.id + 1
      /\ ring'.activation = 1 /\ ring'.next = 2 /\ ring'.kept = {}
      /\ ring'.sticky = {0, 1}
  BY <1>1, <1>2, <1>3, NewRingFacts
<1>5. Drain!TypeOK'
  BY <1>1, <1>2, <1>4, Sizes DEF Drain!TypeOK, Small
<1>6. \A e \in log : e.ring <= ring.id /\ e.ring \in Nat
  BY <1>1, Typed DEF DInv, RingsKnown
<1>7. known # None => known <= ring.id /\ known \in Nat
  BY <1>1, Typed DEF DInv, RingsKnown
<1>8. ring.id \in Nat /\ Game' = ring.id
  BY <1>1, <1>4, Typed DEF Game
<1>9. RingsKnown'
  BY <1>2, <1>4, <1>6, <1>7, <1>8 DEF RingsKnown, Drain!InRing
<1>10. ~ Current'
  BY <1>2, <1>7, <1>8 DEF Current, OfGame
<1>11. SnapshotHolds' /\ AcksCover' /\ SourceHolds'
  BY <1>2, <1>10 DEF SnapshotHolds, AcksCover, SourceHolds
<1>12. known = None => state.activation = None
  BY <1>1, <1>2 DEF DInv, RingsKnown, SourceKnown, Drain!TypeOK
<1>13. SourceKnown' /\ OneRing' /\ Drain!HolesReported'
  BY <1>2, <1>12 DEF DInv, SourceKnown, OneRing, Drain!HolesReported, Mine
<1>14. QED
  BY <1>5, <1>9, <1>11, <1>13 DEF DInv

LEMMA DisconnectStep ==
    ASSUME Uninterrupted, DInv, Drain!Disconnect
    PROVE  DInv'
<1>1. Drain!TypeOK
  BY DEF DInv
<1>2. /\ conn = "ready" /\ conn' = "off" /\ greeted' = FALSE /\ acks' = {}
      /\ pending' = None /\ losses' = losses + 1 /\ losses < MaxLosses
      /\ UNCHANGED <<ring, nonce, snapshot, client, known, state, last, source,
                     mute, log, holes>>
  BY DEF Drain!Disconnect, Drain!Off, Drain!Fault, Uninterrupted, Drain!gameVars
<1>3. Drain!TypeOK'
  <2>1. losses' \in 0 .. MaxLosses
    BY <1>1, <1>2, DrainAssumption DEF Drain!TypeOK, Drain!BoundAssumption
  <2>2. QED
    BY <1>1, <1>2, <2>1 DEF Drain!TypeOK
<1>4. known # None /\ Current
  BY <1>2 DEF DInv, RingsKnown, Current
<1>5. RingsKnown' /\ SnapshotHolds' /\ AcksCover'
  BY <1>2 DEF DInv, RingsKnown, SnapshotHolds, AcksCover, OfGame, Game, Drain!InRing
<1>6. SourceKnown' /\ OneRing' /\ Drain!HolesReported'
  BY <1>2, <1>4 DEF DInv, SourceKnown, OneRing, Drain!HolesReported, Mine
<1>7. SourceHolds'
  BY <1>2, <1>4 DEF DInv, SourceHolds, SourceRing, Game, Drain!InRing, Mine,
     Drain!LoggedNumbers
<1>8. QED
  BY <1>3, <1>5, <1>6, <1>7 DEF DInv

LEMMA RestartClientStep ==
    ASSUME DInv, Drain!RestartClient
    PROVE  DInv'
<1>1. Drain!TypeOK
  BY DEF DInv
<1>2. /\ client < MaxClients /\ client' = client + 1
      /\ conn' = "off" /\ greeted' = FALSE /\ acks' = {} /\ pending' = None
      /\ known' = None /\ state' = Drain!NoSource /\ last' = -1 /\ source' = 0
      /\ mute' = FALSE /\ losses' = losses + 1 /\ losses < MaxLosses
      /\ UNCHANGED <<ring, nonce, snapshot, log, holes>>
  BY DEF Drain!RestartClient, Drain!Off, Drain!Fault, Drain!gameVars
<1>3. Drain!TypeOK'
  <2>1. client' \in 1 .. MaxClients /\ losses' \in 0 .. MaxLosses
    BY <1>1, <1>2, DrainAssumption DEF Drain!TypeOK, Drain!BoundAssumption
  <2>2. QED
    BY <1>1, <1>2, <2>1 DEF Drain!TypeOK
<1>4. state'.activation = None /\ state'.next = None
  BY <1>2 DEF Drain!NoSource
<1>5. RingsKnown' /\ SnapshotHolds' /\ AcksCover' /\ SourceHolds'
  BY <1>2, <1>4
     DEF DInv, RingsKnown, SnapshotHolds, AcksCover, OfGame, Game, Drain!InRing,
        SourceHolds
<1>6. /\ client \in Nat
      /\ \A e \in log : e.client <= client /\ e.client \in Nat
  BY <1>1, Typed DEF DInv, SourceKnown
<1>7. /\ \A e \in log : e.client <= client'
      /\ \A e \in log : e.client # client'
  BY <1>2, <1>6
<1>8. Mine' = {}
  BY <1>2, <1>7 DEF Mine
<1>9. SourceKnown'
  BY <1>2, <1>4, <1>7, <1>8 DEF SourceKnown
<1>10. OneRing' /\ Drain!HolesReported'
  BY <1>2 DEF DInv, OneRing, Drain!HolesReported
<1>11. QED
  BY <1>3, <1>5, <1>9, <1>10 DEF DInv

LEMMA AttachStep ==
    ASSUME DInv, Drain!Attach
    PROVE  DInv'
<1>1. Drain!TypeOK /\ ring \in Drain!Ring /\ nonce \in Drain!Rings \cup {None}
  BY DEF DInv, Drain!TypeOK
<1>2. /\ conn = "off" /\ snapshot' = Drain!Exported(ring, nonce) /\ conn' = "hello"
      /\ IF known # None /\ nonce # known
         THEN Drain!Reset ELSE UNCHANGED <<last, source, state>>
      /\ UNCHANGED <<ring, nonce, acks, greeted, client, known, pending, mute,
                     log, holes, losses>>
  BY DEF Drain!Attach, Drain!gameVars
<1>3. /\ snapshot' \in Drain!Snapshot
      /\ snapshot'.ring = ring.id /\ snapshot'.activation = ring.activation
      /\ snapshot'.next = ring.next /\ snapshot'.events = Drain!InRing
      /\ snapshot'.nonce = nonce
  BY <1>1, <1>2, ExportedFacts DEF Drain!InRing
<1>4. Drain!Reset \/ UNCHANGED <<last, source, state>>
  BY <1>2
<1>5. Drain!Reset =>
        /\ Mine' = {} /\ state'.activation = None /\ state'.next = None
        /\ last' = -1 /\ source' \in Nat /\ state' = Drain!NoSource
        /\ \A e \in log : e.client = client => e.source <= source'
  BY <1>2, MineAfterReset
<1>6. Drain!TypeOK'
  <2>1. /\ state' \in Drain!Source \cup {Drain!NoSource} /\ last' \in Drain!Numbers \cup {-1}
        /\ source' \in Nat
    BY <1>1, <1>4, <1>5 DEF Drain!TypeOK
  <2>2. QED
    BY <1>1, <1>2, <1>3, <2>1 DEF Drain!TypeOK
<1>7. Game' = Game /\ Drain!InRing' = Drain!InRing /\ acks = {} /\ pending = None
  BY <1>2, OffQuiet DEF Game, Drain!InRing
<1>8. RingsKnown' /\ SnapshotHolds' /\ AcksCover'
  <2>1. /\ nonce # None => OfGame(nonce)
        /\ \A n \in Drain!InRing : n < ring.next
    BY DEF DInv, RingsKnown
  <2>2. ring.activation \in Nat /\ ring.next \in Nat
    BY <1>1, Typed
  <2>3. RingsKnown'
    BY <1>2, <1>7 DEF DInv, RingsKnown, OfGame
  <2>4. SnapshotHolds'
    BY <1>2, <1>3, <1>7, <2>1, <2>2 DEF SnapshotHolds, OfGame, Game
  <2>5. QED
    BY <1>2, <1>7, <2>3, <2>4 DEF AcksCover
<1>9. CASE UNCHANGED <<last, source, state>> /\ ~ (known # None /\ nonce # known)
  <2>1. SourceKnown' /\ Mine' = Mine
    BY <1>2, <1>9 DEF DInv, SourceKnown, Mine
  <2>2. ASSUME state.activation # None PROVE Current
    <3>1. known # None
      BY <1>2, <2>2 DEF DInv, SourceKnown
    <3>2. OfGame(known)
      BY <1>9, <3>1 DEF DInv, RingsKnown
    <3>3. QED
      BY <3>1, <3>2 DEF Current
  <2>3. SourceHolds'
    <3>1. SUFFICES ASSUME state.activation # None PROVE SourceHolds'
      BY <1>9 DEF SourceHolds
    <3>2. /\ state.activation <= ring.activation
          /\ \A e \in Mine : e.ring = SourceRing
          /\ SourceRing = ring.id =>
               /\ last < ring.next
               /\ \A n \in Drain!InRing : n <= last => n \in Drain!LoggedNumbers(ring.id)
      BY <2>2, <3>1 DEF DInv, SourceHolds
    <3>3. SourceRing' = SourceRing
      BY <1>7, <1>9 DEF SourceRing
    <3>4. \A n : Drain!LoggedNumbers(n)' = Drain!LoggedNumbers(n)
      BY <1>2 DEF Drain!LoggedNumbers
    <3>5. Drain!LoggedNumbers(ring.id)' = Drain!LoggedNumbers(ring.id)
      BY <1>2 DEF Drain!LoggedNumbers
    <3>6. Drain!LoggedNumbers(snapshot.ring)' = Drain!LoggedNumbers(ring.id)
      BY <1>2, <1>3 DEF Drain!LoggedNumbers
    <3>7. QED
      BY <1>2, <1>3, <1>7, <1>9, <2>1, <3>2, <3>3, <3>5, <3>6 DEF SourceHolds
  <2>4. OneRing' /\ Drain!HolesReported'
    BY <1>2 DEF DInv, OneRing, Drain!HolesReported
  <2>5. QED
    BY <1>6, <1>8, <2>1, <2>3, <2>4 DEF DInv
<1>10. CASE Drain!Reset
  <2>1. SourceKnown'
    BY <1>2, <1>5, <1>10 DEF DInv, SourceKnown
  <2>2. SourceHolds'
    BY <1>5, <1>10 DEF SourceHolds
  <2>3. OneRing' /\ Drain!HolesReported'
    BY <1>2 DEF DInv, OneRing, Drain!HolesReported
  <2>4. QED
    BY <1>6, <1>8, <2>1, <2>2, <2>3 DEF DInv
<1>11. QED
  BY <1>2, <1>9, <1>10

LEMMA AttachLoadingStep ==
    ASSUME DInv, Drain!AttachLoading
    PROVE  DInv'
<1>1. Drain!TypeOK /\ ring \in Drain!Ring /\ nonce \in Drain!Rings \cup {None}
  BY DEF DInv, Drain!TypeOK
<1>2. /\ conn = "off" /\ ring.id < MaxRings
      /\ ring' = Drain!NewRing(ring.activation + 1) /\ nonce' \in {nonce, None}
      /\ snapshot' = Drain!Exported(ring', nonce') /\ conn' = "hello" /\ Drain!Reset
      /\ UNCHANGED <<acks, greeted, client, known, pending, mute, log, holes,
                     losses>>
  BY DEF Drain!AttachLoading
<1>3. ring.activation + 1 \in 1 .. ring.id + 1
  BY <1>1, Typed DEF DInv, RingsKnown
<1>4. /\ ring' \in Drain!Ring /\ Small(ring') /\ ring'.id = ring.id + 1
      /\ ring'.activation = ring.activation + 1 /\ ring'.next = 2
      /\ ring'.kept = {} /\ ring'.sticky = {0, 1}
  BY <1>1, <1>2, <1>3, NewRingFacts
<1>5. nonce' \in Drain!Rings \cup {None}
  BY <1>1, <1>2
<1>6. /\ snapshot' \in Drain!Snapshot
      /\ snapshot'.ring = ring'.id /\ snapshot'.activation = ring'.activation
      /\ snapshot'.next = ring'.next /\ snapshot'.events = Drain!InRing'
      /\ snapshot'.nonce = nonce'
  BY <1>2, <1>4, <1>5, ExportedFacts DEF Drain!InRing
<1>7. /\ Mine' = {} /\ state'.activation = None /\ state'.next = None
      /\ last' = -1 /\ source' \in Nat /\ state' = Drain!NoSource
      /\ \A e \in log : e.client = client => e.source <= source'
  BY <1>2, MineAfterReset
<1>8. Drain!TypeOK'
  BY <1>1, <1>2, <1>4, <1>5, <1>6, <1>7, Sizes DEF Drain!TypeOK, Small
<1>9. ring.id \in Nat /\ ring.activation \in Nat /\ Game' = Game /\ Game \in Int
  BY <1>1, <1>4, Typed DEF Game
<1>10. Drain!InRing' = {0, 1} /\ acks = {} /\ pending = None
  BY <1>2, <1>4, OffQuiet DEF Drain!InRing
<1>11. nonce' # None => OfGame(nonce)'
  <2>1. nonce # None => OfGame(nonce) /\ nonce \in Nat
    BY <1>1, Typed DEF DInv, RingsKnown
  <2>2. QED
    BY <1>2, <1>4, <1>9, <2>1 DEF OfGame
<1>12. RingsKnown'
  <2>1. known # None => known <= ring.id /\ known \in Nat
    BY <1>1, Typed DEF DInv, RingsKnown
  <2>2. \A e \in log : e.ring <= ring.id /\ e.ring \in Nat
    BY <1>1, Typed DEF DInv, RingsKnown
  <2>3. ring.activation <= ring.id
    BY DEF DInv, RingsKnown
  <2>4. QED
    BY <1>2, <1>4, <1>9, <1>10, <1>11, <2>1, <2>2, <2>3 DEF RingsKnown
<1>13. SnapshotHolds'
  BY <1>2, <1>4, <1>6, <1>9, <1>10, <1>11 DEF SnapshotHolds, Game, OfGame
<1>14. AcksCover' /\ SourceHolds'
  BY <1>2, <1>7, <1>10 DEF AcksCover, SourceHolds
<1>15. SourceKnown' /\ OneRing' /\ Drain!HolesReported'
  BY <1>2, <1>7 DEF DInv, SourceKnown, OneRing, Drain!HolesReported
<1>16. QED
  BY <1>8, <1>12, <1>13, <1>14, <1>15 DEF DInv

-----------------------------------------------------------------------------
(* The client reads, and acknowledges.                                      *)

\* A connection gets ready on a nonce of the present run of the game.
LEMMA GreetsFacts ==
    ASSUME DInv, conn # "off", Drain!Greets
    PROVE  /\ conn' \in {"hello", "ready"}
           /\ known' \in Drain!Rings \cup {None}
           /\ known' # None => known' <= ring.id
           /\ conn' = "ready" => known' # None /\ OfGame(known')
<1>1. Drain!TypeOK
  BY DEF DInv
<1>2. /\ snapshot \in Drain!Snapshot
      /\ snapshot.nonce # None => OfGame(snapshot.nonce)
      /\ snapshot.nonce \in Drain!Rings \cup {None}
  BY DEF DInv, SnapshotHolds, Drain!Snapshot
<1>3. /\ known # None => known <= ring.id
      /\ conn = "ready" => known # None /\ OfGame(known)
  BY DEF DInv, RingsKnown
<1>4. CASE conn = "hello" /\ greeted /\ snapshot.nonce # None
  BY <1>2, <1>4 DEF Drain!Greets, OfGame
<1>5. CASE ~ (conn = "hello" /\ greeted /\ snapshot.nonce # None)
  <2>1. conn' = conn /\ known' = known
    BY <1>5 DEF Drain!Greets
  <2>2. QED
    BY <1>1, <1>3, <2>1 DEF Drain!TypeOK
<1>6. QED
  BY <1>4, <1>5

LEMMA RefuseStep ==
    ASSUME DInv, Drain!Refuse
    PROVE  DInv'
<1>1. Drain!TypeOK
  BY DEF DInv
<1>2. /\ conn # "off" /\ state' = [state EXCEPT !.channel = -1] /\ Drain!Greets
      /\ UNCHANGED <<ring, nonce, snapshot, acks, greeted, client, last, source,
                     pending, mute, log, holes, losses>>
  BY DEF Drain!Refuse, Drain!gameVars, Drain!wireVars
<1>3. /\ conn' \in {"hello", "ready"} /\ known' \in Drain!Rings \cup {None}
      /\ known' # None => known' <= ring.id
      /\ conn' = "ready" => known' # None /\ OfGame(known')
  BY <1>2, GreetsFacts
<1>4. /\ state' \in Drain!Source
      /\ state'.activation = state.activation /\ state'.next = state.next
  BY <1>1, <1>2 DEF Drain!TypeOK, Drain!Source, Drain!NoSource
<1>5. Drain!TypeOK'
  BY <1>1, <1>2, <1>3, <1>4 DEF Drain!TypeOK
<1>6. RingsKnown' /\ SnapshotHolds'
  BY <1>2, <1>3 DEF DInv, RingsKnown, SnapshotHolds, OfGame, Game, Drain!InRing
<1>7. AcksCover'
  BY <1>2, <1>3 DEF DInv, AcksCover, Covers, Drain!InRing, Drain!LoggedNumbers
<1>8. SourceKnown'
  BY <1>2, <1>3, <1>4 DEF DInv, SourceKnown, Mine
<1>9. SourceHolds'
  BY <1>2, <1>3, <1>4
     DEF DInv, SourceHolds, Current, SourceRing, Game, Drain!InRing, Mine,
        Drain!LoggedNumbers
<1>10. OneRing' /\ Drain!HolesReported'
  BY <1>2 DEF DInv, OneRing, Drain!HolesReported
<1>11. QED
  BY <1>5, <1>6, <1>7, <1>8, <1>9, <1>10 DEF DInv

LEMMA SendAckStep ==
    ASSUME DInv, Drain!SendAck
    PROVE  DInv'
<1>1. Drain!TypeOK
  BY DEF DInv
<1>2. /\ conn # "off" /\ pending # None /\ pending' = None
      /\ acks' \subseteq acks \cup {pending}
      /\ UNCHANGED <<ring, nonce, snapshot, greeted, client, conn, known, state,
                     last, source, mute, log, holes>>
  BY DEF Drain!SendAck, Drain!gameVars
<1>3. losses' \in 0 .. MaxLosses
  BY <1>1, DrainAssumption DEF Drain!SendAck, Drain!Fault, Drain!TypeOK,
     Drain!BoundAssumption
<1>4. pending \in Drain!Ack
  BY <1>1, <1>2 DEF Drain!TypeOK
<1>5. Drain!TypeOK'
  BY <1>1, <1>2, <1>3, <1>4 DEF Drain!TypeOK
<1>6. RingsKnown' /\ SnapshotHolds'
  BY <1>2 DEF DInv, RingsKnown, SnapshotHolds, OfGame, Game, Drain!InRing
<1>7. AcksCover'
  BY <1>2 DEF DInv, AcksCover, Covers, Drain!InRing, Drain!LoggedNumbers
<1>8. SourceKnown'
  BY <1>2 DEF DInv, SourceKnown, Mine
<1>9. SourceHolds'
  BY <1>2 DEF DInv, SourceHolds, Current, OfGame, SourceRing, Game, Drain!InRing, Mine,
              Drain!LoggedNumbers
<1>10. OneRing' /\ Drain!HolesReported'
  BY <1>2 DEF DInv, OneRing, Drain!HolesReported
<1>11. QED
  BY <1>5, <1>6, <1>7, <1>8, <1>9, <1>10 DEF DInv

\* What a drain reads, what it writes of it, and what becomes of its mark.
LEMMA DrainShape ==
    ASSUME DInv, Drain!Drain
    PROVE  \E changed \in BOOLEAN, mark \in Drain!Numbers \cup {-1},
              written \in SUBSET Drain!Numbers :
              /\ changed = Drain!Changed(snapshot)
              /\ mark = IF changed THEN -1 ELSE last
              /\ written \subseteq snapshot.events
              /\ \A e \in written : e > mark
              /\ \A e \in snapshot.events :
                    e > mark /\ e \notin written => \A w \in written : w < e
              /\ source' = IF changed THEN source + 1 ELSE source
              /\ last' = IF written = {} THEN mark ELSE Drain!Max(written)
              /\ log' = log \cup Drain!Logged(written)
              /\ holes' = holes \cup
                    {[client |-> client, source |-> source', number |-> n]
                        : n \in Drain!Missing(written, mark)}
              /\ pending' = Drain!Scheduled(snapshot.activation,
                                      Drain!Highest(snapshot.events, written, mark))
              /\ losses' \in 0 .. MaxLosses /\ mute' \in BOOLEAN
<1>1. Drain!TypeOK /\ snapshot \in Drain!Snapshot /\ snapshot.events \subseteq Drain!Numbers
  BY DEF DInv, SnapshotHolds, Drain!Drain, Drain!Snapshot
<1> DEFINE changed == Drain!Changed(snapshot)
           mark == IF changed THEN -1 ELSE last
           new == {e \in snapshot.events : e > mark}
<1>2. PICK written \in IF mute THEN {{}} ELSE Drain!Prefixes(new) :
        /\ source' = IF changed THEN source + 1 ELSE source
        /\ last' = IF written = {} THEN mark ELSE Drain!Max(written)
        /\ \/ written = new /\ UNCHANGED <<losses, mute>>
           \/ mute /\ UNCHANGED <<losses, mute>>
           \/ written # new /\ ~mute /\ Drain!Fault /\ mute' \in BOOLEAN
        /\ log' = log \cup Drain!Logged(written)
        /\ holes' = holes \cup
            {[client |-> client, source |-> source', number |-> n]
                : n \in Drain!Missing(written, mark)}
        /\ pending' = Drain!Scheduled(snapshot.activation,
                                Drain!Highest(snapshot.events, written, mark))
  BY DEF Drain!Drain
<1>3. \/ written = {} \/ written = new
      \/ \E n \in new : written = {e \in new : e < n}
  BY <1>2 DEF Drain!Prefixes
<1>4. changed \in BOOLEAN
  BY DEF Drain!Changed
<1>5. mark \in Drain!Numbers \cup {-1}
  BY <1>1 DEF Drain!TypeOK
<1>6. written \subseteq new
  BY <1>3
<1>7. ASSUME NEW e \in new, e \notin written PROVE \A w \in written : w < e
  <2>1. \A k \in new : k \in Int
    BY <1>1, Typed
  <2>2. QED
    BY <1>3, <1>7, <2>1
<1>8. losses' \in 0 .. MaxLosses /\ mute' \in BOOLEAN
  BY <1>1, <1>2, DrainAssumption DEF Drain!Fault, Drain!TypeOK, Drain!BoundAssumption
<1>9. written \in SUBSET Drain!Numbers /\ written \subseteq snapshot.events
  BY <1>1, <1>6
<1>10. \A e \in written : e > mark
  BY <1>6
<1>11. \A e \in snapshot.events :
          e > mark /\ e \notin written => \A w \in written : w < e
  BY <1>7
<1>12. QED
  BY <1>2, <1>4, <1>5, <1>8, <1>9, <1>10, <1>11

\* The highest number acknowledged is of a record behind the mark, or written
\* with all before it.
LEMMA HighestFacts ==
    ASSUME NEW events \in SUBSET Drain!Numbers, NEW mark \in Drain!Numbers \cup {-1},
           NEW written \in SUBSET events,
           \A e \in events : e > mark /\ e \notin written => \A w \in written : w < e,
           NEW h, h = Drain!Highest(events, written, mark), h # None
    PROVE  /\ h \in events
           /\ \A e \in events : e <= h => e <= mark \/ e \in written
<1> DEFINE done == {e \in events : e <= mark} \cup written
<1>1. h = IF done = {} THEN None ELSE Drain!Max(done)
  BY DEF Drain!Highest
<1>2. done # {} /\ h = Drain!Max(done)
  BY <1>1
<1>3. done \in SUBSET Drain!Numbers
  OBVIOUS
<1>4. h \in done
  BY <1>2, <1>3, MaxFacts
<1>5. h \in events
  BY <1>4
<1>6. mark \in Int /\ \A e \in events : e \in Int
  BY DrainAssumption DEF Drain!Numbers, Drain!BoundAssumption
<1>7. ASSUME NEW e \in events, e <= h, e > mark, e \notin written PROVE FALSE
  <2>1. \A w \in written : w < e
    BY <1>7
  <2>2. CASE h \in written
    BY <1>5, <1>6, <1>7, <2>1, <2>2
  <2>3. CASE h <= mark
    BY <1>5, <1>6, <1>7, <2>3
  <2>4. QED
    BY <1>4, <2>2, <2>3
<1>8. QED
  BY <1>5, <1>6, <1>7

LEMMA DrainStep ==
    ASSUME DInv, Drain!Drain
    PROVE  DInv'
<1>1. Drain!TypeOK /\ conn # "off"
  BY DEF DInv, Drain!Drain
<1>2. PICK changed \in BOOLEAN, mark \in Drain!Numbers \cup {-1},
           written \in SUBSET Drain!Numbers :
        /\ changed = Drain!Changed(snapshot)
        /\ mark = IF changed THEN -1 ELSE last
        /\ written \subseteq snapshot.events
        /\ \A e \in written : e > mark
        /\ \A e \in snapshot.events :
              e > mark /\ e \notin written => \A w \in written : w < e
        /\ source' = IF changed THEN source + 1 ELSE source
        /\ last' = IF written = {} THEN mark ELSE Drain!Max(written)
        /\ log' = log \cup Drain!Logged(written)
        /\ holes' = holes \cup
              {[client |-> client, source |-> source', number |-> n]
                  : n \in Drain!Missing(written, mark)}
        /\ pending' = Drain!Scheduled(snapshot.activation,
                                Drain!Highest(snapshot.events, written, mark))
        /\ losses' \in 0 .. MaxLosses /\ mute' \in BOOLEAN
  BY DrainShape
<1>3. /\ state' = [channel |-> 1, activation |-> snapshot.activation,
                   next |-> snapshot.next]
      /\ Drain!Greets
      /\ UNCHANGED <<ring, nonce, snapshot, acks, greeted, client>>
  BY DEF Drain!Drain, Drain!gameVars, Drain!wireVars
<1>4. /\ snapshot \in Drain!Snapshot
      /\ snapshot.ring - snapshot.activation = Game
      /\ snapshot.activation <= ring.activation
      /\ \A n \in snapshot.events : n < snapshot.next
      /\ snapshot.ring = ring.id =>
           /\ snapshot.next <= ring.next
           /\ \A n \in Drain!InRing : n < snapshot.next => n \in snapshot.events
  BY <1>1 DEF DInv, SnapshotHolds
<1>5. /\ snapshot.ring \in Nat /\ snapshot.activation \in Nat
      /\ snapshot.next \in Nat /\ snapshot.events \subseteq Drain!Numbers
      /\ snapshot.ring \in Drain!Rings /\ snapshot.activation \in Drain!Rings
  BY <1>1, <1>4, Typed DEF Drain!Snapshot
<1>6. /\ conn' \in {"hello", "ready"} /\ known' \in Drain!Rings \cup {None}
      /\ known' # None => known' <= ring.id
      /\ conn' = "ready" => known' # None /\ OfGame(known')
  BY <1>1, <1>3, GreetsFacts
<1>7. mark \in Int /\ mark >= -1 /\ \A n \in Drain!Numbers : n \in Nat
  BY DrainAssumption DEF Drain!Numbers, Drain!BoundAssumption
<1>8. /\ written # {} => last' \in written /\ \A w \in written : w <= last'
      /\ written = {} => last' = mark
  BY <1>2, MaxFacts
<1>9. last' \in Drain!Numbers \cup {-1} /\ last' \in Int /\ last' >= mark
  BY <1>2, <1>7, <1>8
<1>10. source \in Nat /\ source' \in Nat /\ client \in Nat
  BY <1>1, <1>2, Typed
<1> DEFINE Line(n) == [client |-> client, source |-> source', ring |-> snapshot.ring,
                       number |-> n]
<1>11. Drain!Logged(written) = {Line(n) : n \in written}
  BY DEF Drain!Logged
<1>12. \A e \in log : /\ e.ring \in Nat /\ e.number \in Nat /\ e.client \in Nat
                      /\ e.source \in Nat /\ e.client <= client
                      /\ e.client = client => e.source <= source
  BY <1>1, Typed DEF DInv, SourceKnown
<1>13. Drain!TypeOK'
  <2>1. state' \in Drain!Source
    BY <1>3, <1>5 DEF Drain!Source
  <2>2. log' \subseteq [client : 1 .. MaxClients, source : Nat, ring : Drain!Rings,
                        number : Drain!Numbers]
    BY <1>1, <1>2, <1>5, <1>10, <1>11 DEF Drain!TypeOK
  <2>3. holes' \subseteq [client : 1 .. MaxClients, source : Nat, number : Drain!Numbers]
    <3>1. Drain!Missing(written, mark) \subseteq Drain!Numbers
      BY DEF Drain!Missing
    <3>2. QED
      BY <1>1, <1>2, <1>10, <3>1 DEF Drain!TypeOK
  <2>4. pending' \in Drain!Ack \cup {None}
    <3>1. DEFINE h == Drain!Highest(snapshot.events, written, mark)
    <3>2. h # None => h \in Drain!Numbers
      BY <1>2, <1>5, HighestFacts
    <3>3. pending' = Drain!Scheduled(snapshot.activation, h)
      BY <1>2
    <3>4. pending \in Drain!Ack \cup {None}
      BY <1>1 DEF Drain!TypeOK
    <3>5. QED
      BY <1>5, <3>2, <3>3, <3>4 DEF Drain!Scheduled, Drain!Ack
  <2>5. QED
    BY <1>1, <1>2, <1>3, <1>6, <1>9, <1>10, <2>1, <2>2, <2>3, <2>4 DEF Drain!TypeOK
\* A source that goes on is the snapshot's ring.
<1>14. ASSUME ~changed, state.activation # None
       PROVE  /\ SourceRing = snapshot.ring
              /\ \A e \in Mine : e.ring = snapshot.ring
              /\ snapshot.ring = ring.id =>
                   /\ last < ring.next
                   /\ \A n \in Drain!InRing : n <= last => n \in Drain!LoggedNumbers(ring.id)
              /\ \A n \in snapshot.events :
                    n <= last => n \in Drain!LoggedNumbers(snapshot.ring)
  <2>1. snapshot.activation = state.activation
    BY <1>2, <1>14 DEF Drain!Changed
  <2>2. SourceRing = snapshot.ring
    BY <1>1, <1>4, <1>5, <2>1, Typed DEF SourceRing
  <2>3. Current
    BY <1>1 DEF Current
  <2>4. QED
    BY <1>1, <1>14, <2>2, <2>3 DEF DInv, SourceHolds
<1>15. state.activation = None => last = -1 /\ Mine = {}
  BY DEF DInv, SourceKnown
<1>16. \A r : Drain!LoggedNumbers(r) \subseteq {e.number : e \in {x \in log' : x.ring = r}}
  BY <1>2 DEF Drain!LoggedNumbers
<1>17. \A n \in written : n \in {e.number : e \in {x \in log' : x.ring = snapshot.ring}}
  <2>1. ASSUME NEW n \in written
        PROVE  Line(n) \in log' /\ Line(n).ring = snapshot.ring /\ Line(n).number = n
    BY <1>2, <1>11
  <2>2. QED
    BY <2>1
<1>18. \A n \in snapshot.events :
          n <= mark => n \in {e.number : e \in {x \in log' : x.ring = snapshot.ring}}
  <2>1. SUFFICES ASSUME NEW n \in snapshot.events, n <= mark
                 PROVE  n \in Drain!LoggedNumbers(snapshot.ring)
    BY <1>16
  <2>2. n \in Nat
    BY <1>5, <1>7
  <2>3. ~changed /\ mark = last /\ last # -1
    BY <1>2, <1>7, <2>1, <2>2
  <2>4. QED
    BY <1>14, <1>15, <2>1, <2>3
\* What the source has logged is behind its mark, and of the snapshot's ring.
<1>19. ASSUME NEW x \in log, x.client = client, x.source = source'
       PROVE  /\ ~changed /\ x \in Mine /\ state.activation # None
              /\ x.ring = snapshot.ring /\ x.number <= last /\ mark = last
  <2>1. ~changed
    BY <1>2, <1>10, <1>12, <1>19
  <2>2. x \in Mine
    BY <1>2, <1>19, <2>1 DEF Mine
  <2>3. state.activation # None
    BY <1>15, <2>2
  <2>4. x.number <= last
    BY <2>2 DEF DInv, SourceKnown
  <2>5. QED
    BY <1>2, <1>14, <2>1, <2>2, <2>3, <2>4
<1>20. /\ Game' = Game /\ Drain!InRing' = Drain!InRing
       /\ Drain!LoggedNumbers(ring.id)' = {e.number : e \in {x \in log' : x.ring = ring.id}}
       /\ Drain!LoggedNumbers(snapshot.ring)'
            = {e.number : e \in {x \in log' : x.ring = snapshot.ring}}
  BY <1>3 DEF Game, Drain!InRing, Drain!LoggedNumbers
<1>21. RingsKnown'
  <2>1. snapshot.ring <= ring.id
    BY <1>1, <1>4, <1>5, Typed DEF Game
  <2>2. \A e \in log' : e.ring <= ring.id
    BY <1>2, <1>11, <2>1 DEF DInv, RingsKnown
  <2>3. QED
    BY <1>3, <1>6, <1>20, <2>2 DEF DInv, RingsKnown, OfGame
<1>22. SnapshotHolds'
  BY <1>1, <1>3, <1>20 DEF DInv, SnapshotHolds, OfGame
<1>23. AcksCover'
  <2>1. conn' # "off"
    BY <1>6
  <2>2. ASSUME NEW a, Covers(a) PROVE Covers(a)'
    BY <1>3, <1>16, <1>20, <2>1, <2>2 DEF Covers
  <2> DEFINE h == Drain!Highest(snapshot.events, written, mark)
  <2>3. ASSUME h # None, NEW a, a.activation = snapshot.activation, a.number = h
        PROVE  Covers(a)'
    <3>1. /\ h \in snapshot.events
          /\ \A e \in snapshot.events : e <= h => e <= mark \/ e \in written
      <4>1. snapshot.events \in SUBSET Drain!Numbers /\ written \in SUBSET snapshot.events
        BY <1>2, <1>5
      <4>2. PICK k : k = Drain!Highest(snapshot.events, written, mark)
        OBVIOUS
      <4>3. k # None
        BY <2>3, <4>2
      <4>4. \A e \in snapshot.events :
              e > mark /\ e \notin written => \A w \in written : w < e
        BY <1>2
      <4>5. /\ k \in snapshot.events
            /\ \A e \in snapshot.events : e <= k => e <= mark \/ e \in written
        BY <4>1, <4>2, <4>3, <4>4, HighestFacts
      <4>6. QED
        BY <4>2, <4>5
    <3>2. ASSUME a.activation = ring.activation
          PROVE  /\ a.number < ring.next
                 /\ \A n \in Drain!InRing : n <= a.number => n \in Drain!LoggedNumbers(ring.id)'
      <4>1. snapshot.ring = ring.id
        BY <1>1, <1>4, <1>5, <2>3, <3>2, Typed DEF Game
      <4>2. h < snapshot.next /\ snapshot.next <= ring.next /\ h \in Nat
        BY <1>4, <1>5, <1>7, <3>1, <4>1
      <4>3. ring.next \in Nat /\ \A n \in Drain!InRing : n \in Nat
        BY <1>1, Typed
      <4>4. h < ring.next
        BY <1>5, <4>2, <4>3
      <4>5. ASSUME NEW n \in Drain!InRing, n <= h
            PROVE  n \in Drain!LoggedNumbers(ring.id)'
        <5>1. n < snapshot.next
          BY <1>5, <4>2, <4>3, <4>5
        <5>2. n \in snapshot.events
          BY <1>4, <4>1, <5>1
        <5>3. n <= mark \/ n \in written
          BY <3>1, <4>5, <5>2
        <5>4. QED
          BY <1>17, <1>18, <1>20, <4>1, <5>2, <5>3
      <4>6. QED
        BY <2>3, <4>4, <4>5
    <3>3. QED
      BY <1>3, <1>4, <1>20, <2>1, <2>3, <3>2 DEF Covers
  <2>4. pending' # None => Covers(pending)'
    <3>1. pending' = Drain!Scheduled(snapshot.activation, h)
      BY <1>2
    <3>2. pending # None => pending \in Drain!Ack /\ Covers(pending)
      BY <1>1 DEF DInv, AcksCover, Drain!TypeOK
    <3>3. CASE pending' = pending
      <4>1. ASSUME pending # None PROVE Covers(pending)'
        <5>1. PICK a : a = pending
          OBVIOUS
        <5>2. Covers(a)
          BY <3>2, <4>1, <5>1
        <5>3. Covers(a)'
          BY <2>2, <5>2
        <5>4. QED
          BY <3>3, <5>1, <5>3 DEF Covers
      <4>2. QED
        BY <3>3, <4>1
    <3>4. CASE pending' # pending
      <4>1. h # None
        BY <3>1, <3>4 DEF Drain!Scheduled
      <4>2. PICK a : a = pending'
        OBVIOUS
      <4>3. a.activation = snapshot.activation /\ a.number = h
        <5>1. CASE pending # None /\ pending.activation = snapshot.activation
          <6>1. pending' = [pending EXCEPT !.number = IF @ > h THEN @ ELSE h]
            BY <3>1, <4>1, <5>1 DEF Drain!Scheduled
          <6>2. pending \in Drain!Ack
            BY <3>2, <5>1
          <6>3. [pending EXCEPT !.number = pending.number] = pending
            BY <6>2 DEF Drain!Ack
          <6>4. ~ (pending.number > h)
            BY <3>4, <6>1, <6>3
          <6>5. QED
            BY <4>2, <5>1, <6>1, <6>2, <6>4 DEF Drain!Ack
        <5>2. CASE ~ (pending # None /\ pending.activation = snapshot.activation)
          BY <3>1, <4>1, <4>2, <5>2 DEF Drain!Scheduled
        <5>3. QED
          BY <5>1, <5>2
      <4>4. Covers(a)'
        BY <2>3, <4>1, <4>3
      <4>5. QED
        BY <4>2, <4>4 DEF Covers
    <3>5. QED
      BY <3>3, <3>4
  <2>5. \A a \in acks : Covers(a)'
    BY <2>2 DEF DInv, AcksCover
  <2>6. QED
    BY <1>3, <2>4, <2>5 DEF AcksCover, Covers
<1>24. Mine' = {e \in log : e.client = client /\ e.source = source'}
                 \cup {Line(n) : n \in written}
  BY <1>2, <1>3, <1>11 DEF Mine
<1>25. \A e \in Mine' : e.number <= last' /\ e.ring = snapshot.ring
  <2>1. ASSUME NEW e \in log, e.client = client, e.source = source'
        PROVE  e.number <= last' /\ e.ring = snapshot.ring
    <3>1. e.number <= mark /\ e.ring = snapshot.ring
      BY <1>19, <2>1
    <3>2. QED
      BY <1>7, <1>9, <1>12, <3>1
  <2>2. \A n \in written : Line(n).number <= last' /\ Line(n).ring = snapshot.ring
    BY <1>8
  <2>3. QED
    BY <1>24, <2>1, <2>2
<1>26. SourceKnown'
  <2>1. \A e \in log' : e.client <= client /\ (e.client = client => e.source <= source')
    <3>1. ASSUME NEW e \in log
          PROVE  e.client <= client /\ (e.client = client => e.source <= source')
      BY <1>2, <1>10, <1>12
    <3>2. \A n \in written : Line(n).client = client /\ Line(n).source = source'
      OBVIOUS
    <3>3. QED
      BY <1>2, <1>10, <1>11, <3>1, <3>2
  <2>2. ASSUME last' >= 0 PROVE \E e \in Mine' : e.number = last'
    <3>1. CASE written # {}
      <4>1. Line(last') \in Mine' /\ Line(last').number = last'
        BY <1>8, <1>24, <3>1
      <4>2. QED
        BY <4>1
    <3>2. CASE written = {}
      <4>1. last' = mark /\ ~changed /\ mark = last
        BY <1>2, <1>8, <2>2, <3>2
      <4>2. PICK e \in Mine : e.number = last
        BY <2>2, <4>1 DEF DInv, SourceKnown
      <4>3. e \in Mine'
        BY <1>2, <1>24, <4>1, <4>2 DEF Mine
      <4>4. QED
        BY <4>1, <4>2, <4>3
    <3>3. QED
      BY <3>1, <3>2
  <2>3. state'.activation # None
    BY <1>3, <1>5, DrainAssumption DEF Drain!NoneAssumption
  <2>4. conn' # "off"
    BY <1>6
  <2>5. QED
    BY <1>3, <1>25, <2>1, <2>2, <2>3, <2>4 DEF SourceKnown
<1>27. SourceHolds'
  <2>1. state'.activation = snapshot.activation
    BY <1>3
  <2>2. SourceRing' = snapshot.ring
    BY <1>1, <1>4, <1>5, <1>20, <2>1, Typed DEF SourceRing
  <2>3. ASSUME snapshot.ring = ring.id PROVE last' < ring.next
    <3>1. ring.next \in Nat /\ ring.next > 0
      BY <1>1, Typed
    <3>2. CASE written # {}
      <4>1. last' \in Nat /\ last' < snapshot.next /\ snapshot.next <= ring.next
        BY <1>2, <1>4, <1>7, <1>8, <2>3, <3>2
      <4>2. QED
        BY <1>5, <3>1, <4>1
    <3>3. CASE written = {}
      <4>1. last' = mark
        BY <1>8, <3>3
      <4>2. mark = -1 \/ (~changed /\ mark = last /\ state.activation # None)
        BY <1>2, <1>15
      <4>3. QED
        BY <1>14, <2>3, <3>1, <4>1, <4>2
    <3>4. QED
      BY <3>2, <3>3
  <2>4. ASSUME snapshot.ring = ring.id, NEW n \in Drain!InRing, n <= last'
        PROVE  n \in Drain!LoggedNumbers(ring.id)'
    <3>1. n \in Nat /\ ring.next \in Nat
      BY <1>1, Typed
    <3>2. CASE n <= mark
      <4>1. ~changed /\ mark = last /\ last # -1
        BY <1>2, <1>7, <3>1, <3>2
      <4>2. n \in Drain!LoggedNumbers(ring.id)
        BY <1>14, <1>15, <2>4, <3>2, <4>1
      <4>3. QED
        BY <1>16, <1>20, <4>2
    <3>3. CASE ~ (n <= mark)
      <4>1. written # {}
        BY <1>8, <2>4, <3>3
      <4>2. last' \in Nat /\ last' < snapshot.next
        BY <1>2, <1>4, <1>7, <1>8, <4>1
      <4>3. n < snapshot.next
        BY <1>5, <2>4, <3>1, <4>2
      <4>4. n \in snapshot.events
        BY <1>4, <2>4, <4>3
      <4>5. n \in written
        <5>1. SUFFICES ASSUME n \notin written PROVE FALSE
          OBVIOUS
        <5>2. n > mark
          BY <1>7, <3>1, <3>3
        <5>3. last' < n
          BY <1>2, <1>8, <4>1, <4>4, <5>1, <5>2
        <5>4. QED
          BY <2>4, <3>1, <4>2, <5>3
      <4>6. QED
        BY <1>17, <1>20, <2>4, <4>5
    <3>4. QED
      BY <3>2, <3>3
  <2>5. ASSUME NEW n \in snapshot.events, n <= last'
        PROVE  n \in Drain!LoggedNumbers(snapshot.ring)'
    <3>1. n \in Nat
      BY <1>5, <1>7
    <3>2. CASE n <= mark
      BY <1>18, <1>20, <3>2
    <3>3. CASE n \in written
      BY <1>17, <1>20, <3>3
    <3>4. CASE n > mark /\ n \notin written
      <4>1. \A w \in written : w < n
        BY <1>2, <3>4
      <4>2. QED
        BY <1>7, <1>8, <1>9, <2>5, <3>1, <3>4, <4>1
    <3>5. QED
      BY <1>7, <3>1, <3>2, <3>3, <3>4
  <2>6. QED
    BY <1>3, <1>4, <1>20, <1>25, <2>1, <2>2, <2>3, <2>4, <2>5 DEF SourceHolds
<1>28. \A x \in log' : \/ x \in log
                      \/ \E n \in written : x = Line(n)
  BY <1>2, <1>11
<1>29. OneRing'
  <2>1. SUFFICES ASSUME NEW x \in log', NEW y \in log', x.client = y.client,
                        x.source = y.source
                 PROVE  x.ring = y.ring
    BY DEF OneRing
  <2>2. \A z \in log' : z.client = client /\ z.source = source' => z.ring = snapshot.ring
    BY <1>19, <1>28
  <2>3. CASE x \in log /\ y \in log
    BY <2>1, <2>3 DEF DInv, OneRing
  <2>4. CASE ~ (x \in log /\ y \in log)
    <3>1. x.client = client /\ x.source = source'
      BY <1>28, <2>1, <2>4
    <3>2. QED
      BY <2>1, <2>2, <3>1
  <2>5. QED
    BY <2>3, <2>4
<1>30. Drain!HolesReported'
  <2> DEFINE Hole(n) == [client |-> client, source |-> source', number |-> n]
  <2>1. SUFFICES ASSUME NEW x \in log', NEW y \in log', x.client = y.client,
                        x.source = y.source, NEW n \in x.number + 1 .. y.number - 1
                 PROVE  \/ [x EXCEPT !.number = n] \in log'
                        \/ [client |-> x.client, source |-> x.source, number |-> n]
                             \in holes'
    BY DEF Drain!HolesReported
  <2>2. log \subseteq log' /\ holes \subseteq holes'
    BY <1>2
  <2>3. /\ x.number \in Nat /\ y.number \in Nat /\ n \in Nat /\ n \in Drain!Numbers
        /\ x.number < n /\ n < y.number
    <3>1. x.number \in Drain!Numbers /\ y.number \in Drain!Numbers
      BY <1>13 DEF Drain!TypeOK
    <3>2. QED
      BY <2>1, <3>1, DrainAssumption DEF Drain!Numbers, Drain!BoundAssumption
  <2>4. CASE x \in log /\ y \in log
    BY <2>1, <2>2, <2>4 DEF DInv, Drain!HolesReported
  <2>5. ASSUME x.client = client, x.source = source', x.ring = snapshot.ring
        PROVE  \A k \in written : [x EXCEPT !.number = k] \in log'
    <3>1. x \in [client : 1 .. MaxClients, source : Nat, ring : Drain!Rings,
                 number : Drain!Numbers]
      BY <1>13 DEF Drain!TypeOK
    <3>2. ASSUME NEW k \in written PROVE [x EXCEPT !.number = k] = Line(k)
      BY <2>5, <3>1
    <3>3. QED
      BY <1>2, <1>11, <3>2
  <2>6. ASSUME n \in Drain!Missing(written, mark) PROVE Hole(n) \in holes'
    BY <1>2, <2>6
  <2>7. CASE \E k \in written : y = Line(k)
    <3>1. PICK k \in written : y = Line(k)
      BY <2>7
    <3>2. n < k /\ x.client = client /\ x.source = source'
      BY <2>1, <2>3, <3>1
    <3>3. CASE \E j \in written : x = Line(j)
      <4>1. PICK j \in written : x = Line(j)
        BY <3>3
      <4>2. j < n /\ n > mark
        BY <1>2, <1>7, <2>3, <4>1
      <4>3. n \in written \/ n \in Drain!Missing(written, mark)
        BY <2>3, <3>2, <4>2 DEF Drain!Missing
      <4>4. x.ring = snapshot.ring
        BY <4>1
      <4>5. QED
        BY <2>5, <2>6, <3>2, <4>3, <4>4
    <3>4. CASE x \in log
      <4>1. /\ ~changed /\ x \in Mine /\ x.ring = snapshot.ring
            /\ x.number <= last /\ mark = last /\ state.activation # None
        BY <1>19, <3>2, <3>4
      <4>2. last \in Int /\ last >= 0
        BY <1>1, <2>3, <4>1, Typed
      <4>3. PICK z \in Mine : z.number = last
        BY <4>2 DEF DInv, SourceKnown
      <4>4. z \in log /\ z.client = client /\ z.source = source' /\ z.ring = snapshot.ring
        BY <1>2, <1>14, <4>1, <4>3 DEF Mine
      <4>5. CASE n < last
        <5>1. n \in x.number + 1 .. z.number - 1
          BY <2>3, <4>2, <4>3, <4>5
        <5>2. \/ [x EXCEPT !.number = n] \in log
              \/ [client |-> x.client, source |-> x.source, number |-> n] \in holes
          BY <3>2, <3>4, <4>4, <5>1 DEF DInv, Drain!HolesReported
        <5>3. QED
          BY <2>2, <5>2
      <4>6. CASE n = last
        <5>1. x \in [client : 1 .. MaxClients, source : Nat, ring : Drain!Rings,
                     number : Drain!Numbers]
              /\ z \in [client : 1 .. MaxClients, source : Nat, ring : Drain!Rings,
                        number : Drain!Numbers]
          BY <1>1, <3>4, <4>4 DEF Drain!TypeOK
        <5>2. [x EXCEPT !.number = n] = z
          BY <3>2, <4>1, <4>3, <4>4, <4>6, <5>1
        <5>3. QED
          BY <2>2, <4>4, <5>2
      <4>7. CASE n > last
        <5>1. n \in written \/ n \in Drain!Missing(written, mark)
          BY <2>3, <3>2, <4>1, <4>2, <4>7 DEF Drain!Missing
        <5>2. QED
          BY <2>5, <2>6, <3>2, <4>1, <5>1
      <4>8. QED
        BY <2>3, <4>2, <4>5, <4>6, <4>7
    <3>5. QED
      BY <1>28, <3>3, <3>4
  <2>8. CASE (\E j \in written : x = Line(j)) /\ y \in log
    <3>1. PICK j \in written : x = Line(j)
      BY <2>8
    <3>2. y.client = client /\ y.source = source' /\ j = x.number
      BY <2>1, <3>1
    <3>3. y.number <= last /\ mark = last
      BY <1>19, <2>8, <3>2
    <3>4. j > mark
      BY <1>2
    <3>5. QED
      BY <1>7, <2>3, <3>2, <3>3, <3>4
  <2>9. QED
    BY <1>28, <2>4, <2>7, <2>8
<1>31. QED
  BY <1>13, <1>21, <1>22, <1>23, <1>26, <1>27, <1>29, <1>30 DEF DInv

-----------------------------------------------------------------------------

LEMMA Inductive ==
    ASSUME Uninterrupted, DInv, [Drain!Next]_(Drain!vars)
    PROVE  DInv'
<1>1. CASE Drain!Emit
  BY <1>1, EmitStep
<1>2. CASE Drain!Export
  BY <1>2, ExportStep
<1>3. CASE Drain!EvaluateHello
  BY <1>3, EvaluateHelloStep
<1>4. CASE Drain!EvaluateAck
  BY <1>4, EvaluateAckStep
<1>5. CASE Drain!Reload
  BY <1>5, ReloadStep
<1>6. CASE Drain!Restart
  BY <1>6, RestartStep
<1>7. CASE Drain!Attach
  BY <1>7, AttachStep
<1>8. CASE Drain!AttachLoading
  BY <1>8, AttachLoadingStep
<1>9. CASE Drain!Drain
  BY <1>9, DrainStep
<1>10. CASE Drain!Refuse
  BY <1>10, RefuseStep
<1>11. CASE Drain!SendAck
  BY <1>11, SendAckStep
<1>12. CASE Drain!Disconnect
  BY <1>12, DisconnectStep
<1>13. CASE Drain!RestartClient
  BY <1>13, RestartClientStep
<1>14. CASE UNCHANGED Drain!vars
  <2>1. UNCHANGED <<ring, nonce, snapshot, acks, greeted, Drain!clientVars, log, holes, losses>>
    BY <1>14 DEF Drain!vars, Drain!gameVars, Drain!wireVars
  <2>2. Drain!TypeOK'
    BY <2>1 DEF DInv, Drain!TypeOK, Drain!clientVars
  <2>3. Drain!InRing' = Drain!InRing
    BY <2>1 DEF Drain!InRing
  <2>4. ring.next \in Nat /\ \A n \in Drain!InRing : n < ring.next
    BY Typed DEF DInv, RingsKnown
  <2>5. GameMoves
    BY <2>1, <2>3, <2>4 DEF GameMoves
  <2>6. QED
    BY <2>2, <2>5, GameHolds
<1>15. QED
  BY <1>1, <1>2, <1>3, <1>4, <1>5, <1>6, <1>7, <1>8, <1>9, <1>10, <1>11, <1>12,
     <1>13, <1>14 DEF Drain!Next

\* The inductive invariant: what is acknowledged of the ring is logged, and what
\* is behind the mark of a source is of one ring and logged.
THEOREM DrainInvariant == Uninterrupted /\ Drain!Spec => []DInv
<1>1. SUFFICES ASSUME Uninterrupted PROVE Drain!Spec => []DInv
  OBVIOUS
<1>2. DInv /\ [Drain!Next]_(Drain!vars) => DInv'
  BY <1>1, Inductive
<1>3. QED
  BY <1>2, InitHolds, PTL DEF Drain!Spec

\* The ring keeps to its capacity, and what is on its way is of a ring.
THEOREM DrainTypes == Uninterrupted /\ Drain!Spec => []Drain!TypeOK
<1>1. DInv => Drain!TypeOK
  BY DEF DInv
<1>2. QED
  BY <1>1, DrainInvariant, PTL

\* A source generation and a number name one record, and no number is missing
\* between two that is not reported.
THEOREM LogIsTrue == Uninterrupted /\ Drain!Spec => []LogTrue
<1>1. ASSUME DInv PROVE Drain!Unambiguous
  <2>1. SUFFICES ASSUME NEW x \in log, NEW y \in log, x.client = y.client,
                        x.source = y.source, x.number = y.number
                 PROVE  x = y
    BY DEF Drain!Unambiguous
  <2>2. x.ring = y.ring
    BY <1>1, <2>1 DEF DInv, OneRing
  <2>3. log \subseteq [client : 1 .. MaxClients, source : Nat, ring : Drain!Rings,
                       number : Drain!Numbers]
    BY <1>1 DEF DInv, Drain!TypeOK
  <2>4. QED
    BY <2>1, <2>2, <2>3
<1>2. DInv => LogTrue
  BY <1>1 DEF LogTrue, Drain!LogTrue, DInv
<1>3. QED
  BY <1>2, DrainInvariant, PTL

\* What an acknowledgement takes out of the ring is logged.
LEMMA DroppedLogged ==
    ASSUME Uninterrupted, DInv, [Drain!Next]_(Drain!vars), ring'.id = ring.id, ring'.next = ring.next,
           NEW n \in Drain!InRing \ (ring'.sticky \cup ring'.kept)
    PROVE  n \in Drain!LoggedNumbers(ring.id)
<1>1. Drain!TypeOK /\ ring \in Drain!Ring /\ Small(ring)
  BY Sizes DEF DInv, Drain!TypeOK, Small
<1>2. ring.next \in Nat /\ ring.id \in Nat
  BY <1>1, Typed
<1>3. CASE ring' = ring
  BY <1>3 DEF Drain!InRing
<1>4. CASE Drain!EvaluateAck
  <2>1. PICK a \in acks : ring' = Drain!Acknowledged(ring, a)
    BY <1>4 DEF Drain!EvaluateAck
  <2>2. a \in Drain!Ack /\ Covers(a)
    BY <1>1 DEF DInv, AcksCover, Drain!TypeOK
  <2>3. n \in ring.kept \cup ring.sticky
    BY DEF Drain!InRing
  <2>4. a.activation = ring.activation /\ n <= a.number
    BY <1>1, <2>1, <2>2, <2>3, AckedFacts
  <2>5. QED
    BY <2>2, <2>4 DEF Covers
<1>5. CASE Drain!Emit \/ Drain!EvaluateHello
  <2>1. ring.next < MaxNext /\ ring' = Drain!Emitted(ring)
    BY <1>5 DEF Drain!Emit, Drain!EvaluateHello
  <2>2. ring'.next = ring.next + 1
    BY <1>1, <2>1, EmittedFacts
  <2>3. QED
    BY <1>2, <2>2
<1>6. CASE Drain!Reload \/ Drain!AttachLoading \/ Drain!Restart
  <2>1. ring'.id = ring.id + 1
    BY <1>6 DEF Drain!Reload, Drain!AttachLoading, Drain!Restart, Drain!NewRing
  <2>2. QED
    BY <1>2, <2>1
<1>7. CASE Drain!Export \/ Drain!Attach \/ Drain!Drain \/ Drain!Refuse \/ Drain!SendAck \/ Drain!Disconnect \/ Drain!RestartClient
           \/ UNCHANGED Drain!vars
  BY <1>3, <1>7
     DEF Drain!Export, Drain!Attach, Drain!Drain, Drain!Refuse, Drain!SendAck,
        Drain!Disconnect, Drain!RestartClient, Drain!gameVars, Drain!vars
<1>8. QED
  BY <1>4, <1>5, <1>6, <1>7 DEF Drain!Next

\* A record leaves the ring for an acknowledgement only once it is logged.
THEOREM AcknowledgedSafe == Uninterrupted /\ Drain!Spec => AcknowledgedLogged
<1>1. SUFFICES ASSUME Uninterrupted PROVE Drain!Spec => AcknowledgedLogged
  OBVIOUS
<1>2. ASSUME DInv, [Drain!Next]_(Drain!vars)
      PROVE  [ring'.id = ring.id /\ ring'.next = ring.next
              => \A n \in Drain!InRing \ (ring'.sticky \cup ring'.kept) :
                   n \in Drain!LoggedNumbers(ring.id)]_(Drain!vars)
  BY <1>1, <1>2, DroppedLogged
<1>3. QED
  BY <1>1, <1>2, DrainInvariant, PTL DEF Drain!Spec, AcknowledgedLogged,
     Drain!AcknowledgedLogged
=============================================================================
