--------------------------- MODULE TimelineProofs ---------------------------
(***************************************************************************)
(* What is proved of Timeline for every value of its constants: the event  *)
(* log leads to the snapshot the next scan starts from, no live commit's   *)
(* event is marked orphaned while the reflog is whole, a tag has one valid *)
(* snapshot, a question by name is answered as one by id, the section of a *)
(* context pack keeps its size and counts what it leaves out, and in a     *)
(* straight history diff and removed_since tell exactly the differences    *)
(* of two commits.  First come induction on the numbers, in a form         *)
(* with a set in the place of the formula, and what it shows of recursive  *)
(* functions: the greedy pairing of the renames and the deletion of rows.  *)
(***************************************************************************)
EXTENDS Timeline, WellFoundedInduction, FiniteSetTheorems, SequenceTheorems, TLAPS

\* The least number of a set.
LEMMA Smallest == ASSUME NEW T \in SUBSET Nat, T # {} PROVE \E m \in T : \A k \in T : m <= k
<1>1. IsWellFoundedOn(OpToRel(<, Nat), Nat)
  BY NatLessThanWellFounded
<1>2. OpToRel(<, Nat) = {r \in Nat \X Nat : r[1] < r[2]}
  BY Zenon DEF OpToRel
<1> DEFINE R == {r \in Nat \X Nat : r[1] < r[2]}
<1>3. \A j, k \in Nat : j < k => <<j, k>> \in R
  OBVIOUS
<1>4. IsWellFoundedOn(R, Nat)
  BY <1>1, <1>2, Zenon
<1> HIDE DEF R
<1>5. PICK m \in T : \A y \in T : <<y, m>> \notin R
  BY <1>4, WFMin
<1>6. SUFFICES ASSUME NEW k \in T PROVE m <= k
  OBVIOUS
<1>7. k \in Nat /\ m \in Nat
  OBVIOUS
<1>8. ~(k < m)
  BY <1>3, <1>5, <1>7
<1> QED BY <1>7, <1>8

\* What holds of zero and of the next of each number it holds of, holds of all.
LEMMA Induct == ASSUME NEW S, 0 \in S, \A n \in Nat : n \in S => n + 1 \in S PROVE Nat \subseteq S
<1>1. SUFFICES ASSUME Nat \ S # {} PROVE FALSE
  OBVIOUS
<1>2. PICK m \in Nat \ S : \A k \in Nat \ S : m <= k
  BY <1>1, Smallest
<1>3. m # 0 /\ m - 1 \in Nat
  OBVIOUS
<1> QED BY <1>2, <1>3

-----------------------------------------------------------------------------
(* Without.                                                                *)

\* The function Without computes is one, and what it leaves is among what there was.
LEMMA WithoutIsPart ==
  ASSUME NEW R, NEW rows \in Seq(R), NEW gone
  PROVE  /\ Without(rows, gone) \in Seq(R)
         /\ \A i \in DOMAIN Without(rows, gone) : \E j \in DOMAIN rows : Without(rows, gone)[i] = rows[j]
<1> DEFINE Step(before, i) == IF i = 0 THEN <<>> ELSE IF i \in gone THEN before ELSE Append(before, rows[i])
           Fits(f, n) == f = [i \in 0..n |-> Step(f[i - 1], i)]
           left == CHOOSE f : Fits(f, Len(rows))
           Part(s) == s \in Seq(R) /\ \A i \in DOMAIN s : \E j \in DOMAIN rows : s[i] = rows[j]
           S == {n \in Nat : \E f : Fits(f, n)}
<1>0. /\ \A x, y : Step(x, 0) = Step(y, 0)
      /\ \A x : Step(x, 0) = <<>>
      /\ \A x : \A i \in Nat \ {0} : Step(x, i) = IF i \in gone THEN x ELSE Append(x, rows[i])
  OBVIOUS
<1>4. Without(rows, gone) = left[Len(rows)]
  BY Zenon DEF Without
<1> HIDE DEF Step
<1>1. S = Nat
  <2>1. 0 \in S
    <3>1. Fits([i \in 0..0 |-> Step(<<>>, 0)], 0)
      BY <1>0
    <3> QED BY <3>1
  <2>2. ASSUME NEW n \in Nat, n \in S PROVE n + 1 \in S
    <3>1. PICK f : Fits(f, n)
      BY <2>2
    <3> DEFINE g == [i \in 0..(n + 1) |-> Step(f[i - 1], i)]
    <3>2. \A i \in 0..(n + 1) : Step(g[i - 1], i) = Step(f[i - 1], i)
      <4>1. SUFFICES ASSUME NEW i \in 0..(n + 1) PROVE Step(g[i - 1], i) = Step(f[i - 1], i)
        OBVIOUS
      <4>2. CASE i = 0
        BY <1>0, <4>2
      <4>3. CASE i # 0
        <5>1. i - 1 \in 0..n
          BY <4>3
        <5>2. g[i - 1] = f[i - 1]
          BY <3>1, <5>1
        <5> QED BY <5>2
      <4> QED BY <4>2, <4>3
    <3>3. Fits(g, n + 1)
      BY <3>2
    <3> HIDE DEF g, Fits
    <3> QED BY <3>3
  <2> HIDE DEF S
  <2> QED BY <2>1, <2>2, Induct DEF S
<1>2. Len(rows) \in Nat
  OBVIOUS
<1>3. Fits(left, Len(rows))
  BY <1>1, <1>2
<1>a. \A i \in 0..Len(rows) : left[i] = Step(left[i - 1], i)
  <2> HIDE DEF left
  <2> QED BY <1>3
<1> HIDE DEF left
<1> DEFINE U == {n \in Nat : n <= Len(rows) => Part(left[n])}
<1>5. 0 \in U
  <2>1. 0 \in 0..Len(rows)
    BY <1>2
  <2>2. left[0] = <<>>
    BY <1>0, <1>a, <2>1
  <2>3. <<>> \in Seq(R) /\ DOMAIN <<>> = {}
    OBVIOUS
  <2> QED BY <2>2, <2>3
<1>6. ASSUME NEW n \in Nat, n \in U PROVE n + 1 \in U
  <2>1. SUFFICES ASSUME n + 1 <= Len(rows) PROVE Part(left[n + 1])
    OBVIOUS
  <2>2. Part(left[n]) /\ n + 1 \in 0..Len(rows) /\ n + 1 \in DOMAIN rows
    BY <1>6, <2>1
  <2>3. left[n + 1] = IF n + 1 \in gone THEN left[n] ELSE Append(left[n], rows[n + 1])
    <3>1. left[n + 1] = Step(left[(n + 1) - 1], n + 1)
      BY <1>a, <2>2
    <3>2. (n + 1) - 1 = n /\ n + 1 \in Nat \ {0}
      OBVIOUS
    <3>3. \A x : Step(x, n + 1) = IF n + 1 \in gone THEN x ELSE Append(x, rows[n + 1])
      BY <1>0, <3>2
    <3> QED BY <3>1, <3>2, <3>3
  <2>4. CASE n + 1 \in gone
    BY <2>2, <2>3, <2>4
  <2>5. CASE n + 1 \notin gone
    <3> DEFINE s == left[n]
               t == Append(s, rows[n + 1])
    <3>1. s \in Seq(R) /\ rows[n + 1] \in R /\ left[n + 1] = t
      BY <2>2, <2>3, <2>5
    <3>2. t \in Seq(R) /\ DOMAIN t = 1..(Len(s) + 1) /\ DOMAIN s = 1..Len(s)
      BY <3>1
    <3>3. \A i \in DOMAIN t : t[i] = IF i = Len(s) + 1 THEN rows[n + 1] ELSE s[i]
      BY <3>1, <3>2
    <3>4. \A i \in DOMAIN t : \E j \in DOMAIN rows : t[i] = rows[j]
      BY <2>2, <3>2, <3>3
    <3> QED BY <3>1, <3>2, <3>4
  <2> QED BY <2>4, <2>5
<1>7. Len(rows) \in U
  <2> HIDE DEF U
  <2> QED BY <1>2, <1>5, <1>6, Induct
<1> QED BY <1>2, <1>4, <1>7

-----------------------------------------------------------------------------
(* The pairing of the renames.                                             *)

\* What is chosen is one of the added events, if anything is.
LEMMA BestIsAdded ==
  ASSUME NEW r, NEW added, \A a \in added : a.sym \in Nat
  PROVE BestAdded(r, added) \in added \cup {Absent}
<1> DEFINE best == {a \in added : /\ Similarity(r, a) > 0
                                  /\ \A b \in added : Similarity(r, b) <= Similarity(r, a)}
           ids == {a.sym : a \in best}
<1>1. BestAdded(r, added) = IF best = {} THEN Absent ELSE CHOOSE a \in best : \A b \in best : a.sym <= b.sym
  BY Zenon DEF BestAdded
<1>2. best \subseteq added
  OBVIOUS
<1> HIDE DEF best
<1>3. CASE best = {}
  BY <1>1, <1>3
<1>4. CASE best # {}
  <2>1. ids \subseteq Nat /\ ids # {}
    BY <1>2, <1>4
  <2>2. PICK m \in ids : \A k \in ids : m <= k
    BY <2>1, Smallest
  <2>3. \E a \in best : \A b \in best : a.sym <= b.sym
    BY <2>2
  <2> QED BY <1>1, <1>2, <1>4, <2>3
<1> QED BY <1>3, <1>4

\* The function BestOf computes is one: each removed event has the best of what those
\* before it leave.
LEMMA BestOfIs ==
  ASSUME NEW added, NEW removed, \A r \in removed : r.sym \in Nat
  PROVE \A r \in removed :
          BestOf(added, removed)[r] =
            BestAdded(r, added \ {BestOf(added, removed)[q] :
                                    q \in {p \in removed : p.sym < r.sym /\ Consumes(p, BestOf(added, removed)[p])}})
<1> DEFINE Before(f, r) == {p \in removed : p.sym < r.sym /\ Consumes(p, f[p])}
           Choice(f, r) == BestAdded(r, added \ {f[q] : q \in Before(f, r)})
           Fits(f, D) == f = [r \in D |-> Choice(f, r)]
           Below(n) == {r \in removed : r.sym < n}
           fits == CHOOSE f : Fits(f, removed)
<1>1. ASSUME NEW f, NEW g, NEW r, \A p \in removed : p.sym < r.sym => f[p] = g[p]
      PROVE Choice(f, r) = Choice(g, r)
  <2>1. Before(f, r) = Before(g, r)
    BY <1>1, Zenon
  <2>2. {f[q] : q \in Before(f, r)} = {g[q] : q \in Before(g, r)}
    BY <1>1, <2>1, Zenon
  <2> QED BY <2>2, Zenon
<1>2. BestOf(added, removed) = fits
  BY Zenon DEF BestOf
<1>3. \A f, r : Choice(f, r) = BestAdded(r, added \ {f[q] : q \in {p \in removed : p.sym < r.sym /\ Consumes(p, f[p])}})
  OBVIOUS
<1> HIDE DEF Choice
<1> DEFINE S == {n \in Nat : \E f : Fits(f, Below(n))}
<1>4. S = Nat
  <2>1. 0 \in S
    <3>1. Below(0) = {}
      OBVIOUS
    <3>2. Fits([r \in Below(0) |-> Absent], Below(0))
      BY <3>1
    <3> HIDE DEF Fits
    <3> QED BY <3>2
  <2>2. ASSUME NEW n \in Nat, n \in S PROVE n + 1 \in S
    <3>1. PICK f : Fits(f, Below(n))
      BY <2>2
    <3> DEFINE g == [r \in Below(n + 1) |-> Choice(f, r)]
    <3>2. ASSUME NEW r \in Below(n + 1) PROVE Choice(g, r) = Choice(f, r)
      <4>1. ASSUME NEW p \in removed, p.sym < r.sym PROVE g[p] = f[p]
        <5>1. p \in Below(n) /\ p \in Below(n + 1)
          BY <4>1, <3>2
        <5>2. f[p] = Choice(f, p)
          BY <3>1, <5>1
        <5> QED BY <5>1, <5>2
      <4> HIDE DEF g
      <4> QED BY <1>1, <4>1
    <3>3. Fits(g, Below(n + 1))
      BY <3>2
    <3> HIDE DEF g, Fits
    <3> QED BY <3>3
  <2> HIDE DEF S
  <2> QED BY <2>1, <2>2, Induct DEF S
<1>5. ASSUME NEW n \in Nat, NEW k \in Nat, n <= k, NEW f, Fits(f, Below(n)), NEW g, Fits(g, Below(k))
      PROVE \A r \in Below(n) : f[r] = g[r]
  <2> DEFINE odd == {r.sym : r \in {q \in Below(n) : f[q] # g[q]}}
  <2>1. SUFFICES ASSUME odd # {} PROVE FALSE
    OBVIOUS
  <2>2. odd \subseteq Nat
    OBVIOUS
  <2>3. PICK m \in odd : \A j \in odd : m <= j
    BY <2>1, <2>2, Smallest
  <2>4. PICK r \in Below(n) : f[r] # g[r] /\ r.sym = m
    BY <2>3
  <2>5. ASSUME NEW p \in removed, p.sym < r.sym PROVE f[p] = g[p]
    <3>1. p \in Below(n) /\ p.sym \in Nat /\ m \in Nat
      BY <2>2, <2>4, <2>5
    <3>2. p.sym \notin odd
      BY <2>3, <2>4, <2>5, <3>1
    <3> QED BY <3>1, <3>2
  <2>6. Choice(f, r) = Choice(g, r)
    BY <1>1, <2>5
  <2>7. r \in Below(k)
    BY <1>5, <2>4
  <2>8. f[r] = Choice(f, r) /\ g[r] = Choice(g, r)
    BY <1>5, <2>4, <2>7
  <2> QED BY <2>4, <2>6, <2>8
<1> DEFINE nth == [n \in Nat |-> CHOOSE f : Fits(f, Below(n))]
<1>6. \A n \in Nat : Fits(nth[n], Below(n))
  <2> HIDE DEF Fits, Below
  <2> QED BY <1>4
<1> DEFINE h == [r \in removed |-> nth[r.sym + 1][r]]
<1>7. Fits(h, removed)
  <2>1. ASSUME NEW r \in removed PROVE h[r] = Choice(h, r)
    <3> DEFINE k == r.sym + 1
    <3>1. k \in Nat /\ r \in Below(k)
      OBVIOUS
    <3>2. nth[k][r] = Choice(nth[k], r)
      <4> HIDE DEF nth
      <4> QED BY <1>6, <3>1
    <3>3. ASSUME NEW p \in removed, p.sym < r.sym PROVE h[p] = nth[k][p]
      <4> DEFINE j == p.sym + 1
      <4>1. j \in Nat /\ j <= k /\ p \in Below(j)
        BY <3>3
      <4>2. Fits(nth[j], Below(j)) /\ Fits(nth[k], Below(k))
        BY <1>6, <3>1, <4>1
      <4>3. nth[j][p] = nth[k][p]
        <5> HIDE DEF Fits, Below, nth, j, k
        <5> QED BY <1>5, <3>1, <4>1, <4>2
      <4>4. h[p] = nth[j][p]
        <5> HIDE DEF nth
        <5> QED OBVIOUS
      <4> QED BY <4>3, <4>4
    <3>4. h[r] = nth[k][r]
      <4> HIDE DEF nth
      <4> QED OBVIOUS
    <3>5. Choice(h, r) = Choice(nth[k], r)
      <4> HIDE DEF nth, h, k
      <4> QED BY <1>1, <3>3
    <3> QED BY <3>2, <3>4, <3>5
  <2> HIDE DEF nth
  <2>2. h = [r \in removed |-> h[r]]
    OBVIOUS
  <2> HIDE DEF h
  <2> QED BY <2>1, <2>2
<1>8. Fits(fits, removed)
  <2> HIDE DEF Fits, h
  <2> QED BY <1>7
<1>9. \A r \in removed : fits[r] = Choice(fits, r)
  <2> HIDE DEF fits
  <2> QED BY <1>8
<1> QED BY <1>2, <1>3, <1>9

-----------------------------------------------------------------------------
(* What a scan has to write.                                               *)

\* What a snapshot can be.
Snapshots == {BuildSnapshot(tree) : tree \in Tree}

\* The rows of symbol_timeline_rename_edges.
EdgeRow == [old : Symbol, new : Symbol, candidate : BOOLEAN, commit : Nat \cup {Absent}, ts : Nat]

\* A snapshot knows symbols, each with a path and a hash of the kind events have.
LEMMA SnapshotTyped ==
  ASSUME NEW snap \in Snapshots
  PROVE  /\ snap # Absent
         /\ DOMAIN snap \subseteq Symbol
         /\ \A s \in DOMAIN snap : /\ snap[s].hash \in Hashes /\ snap[s].path \in Paths
                                  /\ snap[s] = [hash |-> snap[s].hash, path |-> snap[s].path]
<1>1. PICK tree \in Tree : snap = BuildSnapshot(tree)
  BY DEF Snapshots
<1>2. tree \in [Symbol -> Body \cup {Absent}]
  BY TimelineDiffAssumption
<1>3. snap # Absent
  BY <1>1, AbsentAssumption
<1>4. DOMAIN snap = {s \in Symbol : tree[s] # Absent}
  BY <1>1 DEF BuildSnapshot
<1>5. ASSUME NEW s \in DOMAIN snap
      PROVE  /\ snap[s].hash \in Hashes /\ snap[s].path \in Paths
             /\ snap[s] = [hash |-> snap[s].hash, path |-> snap[s].path]
  <2>1. s \in Symbol /\ tree[s] \in Body
    BY <1>2, <1>4, <1>5
  <2>2. snap[s] = [hash |-> ContentHash(s, tree[s]), path |-> FilePath[s]]
    BY <1>1, <1>4, <1>5 DEF BuildSnapshot
  <2> QED BY <2>1, <2>2 DEF Hashes, Paths
<1> QED BY <1>3, <1>4, <1>5

\* A scan that finds nothing has no symbols.
LEMMA NoSymbolsIsSnapshot == NoSymbols \in Snapshots
<1> DEFINE none == [s \in Symbol |-> Absent]
<1>1. none \in Tree
  BY TimelineDiffAssumption
<1>2. {s \in Symbol : none[s] # Absent} = {}
  OBVIOUS
<1>3. BuildSnapshot(none) = NoSymbols
  BY <1>2 DEF BuildSnapshot, NoSymbols
<1> HIDE DEF none
<1> QED BY <1>1, <1>3 DEF Snapshots

\* The events of a difference: one for each symbol at most, of the kind its two sides
\* call for, and one for each symbol that came, went or changed.
Differences(events, prev, snap, commit, ts) ==
  /\ events \subseteq EventRow
  /\ \A e \in events : e.commit = commit /\ e.ts = ts /\ e.orphaned = FALSE
  /\ \A e \in events : e.type = "added" <=> e.sym \in DOMAIN snap \ DOMAIN prev
  /\ \A e \in events : e.type = "removed" <=> e.sym \in DOMAIN prev \ DOMAIN snap
  /\ \A e \in events : e.sym \in DOMAIN prev \cup DOMAIN snap
  /\ \A s \in (DOMAIN prev \ DOMAIN snap) \cup (DOMAIN snap \ DOMAIN prev) : \E e \in events : e.sym = s
  /\ \A e, f \in events : e.sym = f.sym => e = f
  /\ \A e \in events : e.sym \in DOMAIN prev \cap DOMAIN snap => prev[e.sym] # snap[e.sym]
  /\ \A s \in DOMAIN prev \cap DOMAIN snap : prev[s] # snap[s] => \E e \in events : e.sym = s

LEMMA DiffTells ==
  ASSUME NEW prev \in Snapshots, NEW snap \in Snapshots, NEW commit \in Nat \cup {Absent}, NEW ts \in Nat
  PROVE  Differences(DiffAstSnapshots(prev, snap, commit, ts), prev, snap, commit, ts)
<1> DEFINE events == DiffAstSnapshots(prev, snap, commit, ts)
           Event(type, s, side) == TimelineEvent(type, s, side, commit, ts)
           added == {Event("added", s, snap) : s \in DOMAIN snap \ DOMAIN prev}
           removed == {Event("removed", s, prev) : s \in DOMAIN prev \ DOMAIN snap}
           both == {t \in DOMAIN prev \cap DOMAIN snap : Changed(prev[t], snap[t]) # "same"}
           changed == {Event(Changed(prev[s], snap[s]), s, snap) : s \in both}
<1>1. events = added \cup removed \cup changed
  BY Zenon DEF DiffAstSnapshots
<1> DEFINE Right(e, type, s) == /\ e \in EventRow /\ e.type = type /\ e.sym = s
                                /\ e.commit = commit /\ e.ts = ts /\ e.orphaned = FALSE
<1>2. ASSUME NEW side \in Snapshots, NEW s \in DOMAIN side, NEW type, type \in {"added", "removed", "modified", "moved"}
      PROVE  Right(Event(type, s, side), type, s)
  <2>1. s \in Symbol /\ side[s].hash \in Hashes /\ side[s].path \in Paths
    BY <1>2, SnapshotTyped
  <2> QED BY <1>2, <2>1 DEF TimelineEvent, EventRow
<1>3. \A s \in both : Changed(prev[s], snap[s]) \in {"modified", "moved"}
  BY DEF Changed
<1> HIDE DEF Event, events
<1>a. \A s \in DOMAIN snap \ DOMAIN prev : Right(Event("added", s, snap), "added", s)
  <2> HIDE DEF Right
  <2> QED BY <1>2
<1>b. \A s \in DOMAIN prev \ DOMAIN snap : Right(Event("removed", s, prev), "removed", s)
  <2> HIDE DEF Right
  <2> QED BY <1>2
<1>c. \A s \in both : Right(Event(Changed(prev[s], snap[s]), s, snap), Changed(prev[s], snap[s]), s)
  <2>1. SUFFICES ASSUME NEW s \in both PROVE Right(Event(Changed(prev[s], snap[s]), s, snap), Changed(prev[s], snap[s]), s)
    OBVIOUS
  <2>2. Changed(prev[s], snap[s]) \in {"modified", "moved"} /\ s \in DOMAIN snap
    BY <1>3
  <2> HIDE DEF Right
  <2> QED BY <1>2, <2>2
<1>4. ASSUME NEW e \in events
      PROVE  \/ e.type = "added" /\ e.sym \in DOMAIN snap \ DOMAIN prev /\ e = Event("added", e.sym, snap)
             \/ e.type = "removed" /\ e.sym \in DOMAIN prev \ DOMAIN snap /\ e = Event("removed", e.sym, prev)
             \/ e.type \in {"modified", "moved"} /\ e.sym \in DOMAIN prev \cap DOMAIN snap
                /\ e = Event(Changed(prev[e.sym], snap[e.sym]), e.sym, snap)
  <2>1. CASE e \in added
    BY <1>a, <2>1
  <2>2. CASE e \in removed
    BY <1>b, <2>2
  <2>3. CASE e \in changed
    <3>1. PICK s \in both : e = Event(Changed(prev[s], snap[s]), s, snap)
      BY <2>3
    <3>2. Changed(prev[s], snap[s]) \in {"modified", "moved"} /\ s \in DOMAIN prev \cap DOMAIN snap
      BY <1>3
    <3>3. e.type \in {"modified", "moved"} /\ e.sym = s
      BY <1>c, <3>1, <3>2
    <3> QED BY <3>1, <3>2, <3>3
  <2> QED BY <1>1, <1>4, <2>1, <2>2, <2>3
<1>5. \A e \in events : e \in EventRow /\ e.commit = commit /\ e.ts = ts /\ e.orphaned = FALSE
  BY <1>1, <1>a, <1>b, <1>c
<1>6. ASSUME NEW s \in (DOMAIN prev \ DOMAIN snap) \cup (DOMAIN snap \ DOMAIN prev) PROVE \E e \in events : e.sym = s
  BY <1>1, <1>a, <1>b, <1>6
<1>7. \A e, f \in events : e.sym = f.sym => e = f
  BY <1>4
<1>8. ASSUME NEW e \in events, e.sym \in DOMAIN prev \cap DOMAIN snap
      PROVE  prev[e.sym] # snap[e.sym]
  <2>1. e \in changed
    BY <1>1, <1>4, <1>8, <1>a, <1>b
  <2>2. PICK s \in both : e = Event(Changed(prev[s], snap[s]), s, snap)
    BY <2>1
  <2>3. e.sym = s
    BY <1>c, <2>2
  <2>4. Changed(prev[s], snap[s]) # "same"
    OBVIOUS
  <2>5. prev[s] = snap[s] => Changed(prev[s], snap[s]) = "same"
    BY DEF Changed
  <2> QED BY <2>3, <2>4, <2>5
<1>9. ASSUME NEW s \in DOMAIN prev \cap DOMAIN snap, prev[s] # snap[s]
      PROVE  \E e \in events : e.sym = s
  <2>1. /\ prev[s] = [hash |-> prev[s].hash, path |-> prev[s].path]
        /\ snap[s] = [hash |-> snap[s].hash, path |-> snap[s].path]
    BY SnapshotTyped
  <2>2. prev[s].hash # snap[s].hash \/ prev[s].path # snap[s].path
    BY <1>9, <2>1
  <2>3. Changed(prev[s], snap[s]) # "same"
    BY <2>2 DEF Changed
  <2>4. s \in both
    BY <2>3
  <2> QED BY <1>1, <1>c, <2>4
<1>10. Differences(events, prev, snap, commit, ts)
  BY <1>4, <1>5, <1>6, <1>7, <1>8, <1>9 DEF Differences
<1> QED BY <1>10 DEF events

\* What is left to write after the pairing: events of what is different, and edges from a
\* symbol that went to one that came; an event is missing only where a confirmed edge stands for
\* it, and where one stands no event does.
Tells(rows, prev, snap, commit, ts) ==
  /\ rows = [events |-> rows.events, edges |-> rows.edges]
  /\ rows.events \subseteq EventRow /\ rows.edges \subseteq EdgeRow
  /\ \A e \in rows.events : e.commit = commit /\ e.ts = ts /\ e.orphaned = FALSE
  /\ \A e \in rows.events : e.type # "removed" <=> e.sym \in DOMAIN snap
  /\ \A e \in rows.events : e.type # "added" <=> e.sym \in DOMAIN prev
  /\ \A e \in rows.events : e.sym \in DOMAIN prev \cap DOMAIN snap => prev[e.sym] # snap[e.sym]
  /\ \A e, f \in rows.events : e.sym = f.sym => e = f
  /\ \A x \in rows.edges : /\ x.ts = ts /\ x.commit = commit
                           /\ x.old \in DOMAIN prev \ DOMAIN snap /\ x.new \in DOMAIN snap \ DOMAIN prev
  /\ \A x \in rows.edges : ~x.candidate => \A e \in rows.events : e.sym \notin {x.old, x.new}
  /\ \A s \in (DOMAIN prev \ DOMAIN snap) \cup (DOMAIN snap \ DOMAIN prev) :
       \/ \E e \in rows.events : e.sym = s
       \/ \E x \in rows.edges : ~x.candidate /\ s \in {x.old, x.new}
  /\ \A s \in DOMAIN prev \cap DOMAIN snap : prev[s] # snap[s] => \E e \in rows.events : e.sym = s

\* The rows a scan writes tell the difference of its two snapshots.
LEMMA DispatchTells ==
  ASSUME NEW prev \in Snapshots, NEW snap \in Snapshots, NEW commit \in Nat \cup {Absent}, NEW ts \in Nat
  PROVE  Tells(Dispatch(prev, snap, commit, ts), prev, snap, commit, ts)
<1> DEFINE rows == Dispatch(prev, snap, commit, ts)
           events == DiffAstSnapshots(prev, snap, commit, ts)
           added == OfType(events, "added")
           removed == OfType(events, "removed")
           best == BestOf(added, removed)
           Edge(r) == [old |-> r.sym, new |-> best[r].sym, candidate |-> Similarity(r, best[r]) < 100,
                       commit |-> r.commit, ts |-> r.ts]
           pairs == {r \in removed : Paired(r, best[r])}
           gone == {r \in removed : Consumes(r, best[r])}
<1>1. rows = [edges |-> {Edge(r) : r \in pairs}, events |-> events \ (gone \cup {best[r] : r \in gone})]
  BY Zenon DEF Dispatch, PairRenames
<1>2. /\ events \subseteq EventRow
      /\ \A e \in events : e.commit = commit /\ e.ts = ts /\ e.orphaned = FALSE
      /\ \A e \in events : e.type = "added" <=> e.sym \in DOMAIN snap \ DOMAIN prev
      /\ \A e \in events : e.type = "removed" <=> e.sym \in DOMAIN prev \ DOMAIN snap
      /\ \A e \in events : e.sym \in DOMAIN prev \cup DOMAIN snap
      /\ \A s \in (DOMAIN prev \ DOMAIN snap) \cup (DOMAIN snap \ DOMAIN prev) : \E e \in events : e.sym = s
      /\ \A e, f \in events : e.sym = f.sym => e = f
      /\ \A e \in events : e.sym \in DOMAIN prev \cap DOMAIN snap => prev[e.sym] # snap[e.sym]
      /\ \A s \in DOMAIN prev \cap DOMAIN snap : prev[s] # snap[s] => \E e \in events : e.sym = s
  <2>1. Differences(events, prev, snap, commit, ts)
    BY DiffTells
  <2> HIDE DEF events
  <2> QED BY <2>1 DEF Differences
<1>3. added = {e \in events : e.type = "added"} /\ removed = {e \in events : e.type = "removed"}
  BY DEF OfType
<1>4. \A e \in events : e.sym \in Nat /\ e.sym \in Symbol
  <2>1. \A e \in EventRow : e.sym \in Symbol
    BY DEF EventRow
  <2> QED BY <1>2, <2>1, TimelineDiffAssumption
<1> HIDE DEF events, added, removed, rows
<1>5. \A r \in removed : best[r] \in added \cup {Absent}
  <2>1. SUFFICES ASSUME NEW r \in removed PROVE best[r] \in added \cup {Absent}
    OBVIOUS
  <2> DEFINE free == added \ {best[q] : q \in {p \in removed : p.sym < r.sym /\ Consumes(p, best[p])}}
  <2>2. \A q \in removed : q.sym \in Nat
    BY <1>3, <1>4
  <2>3. best[r] = BestAdded(r, free)
    <3>1. \A q \in removed :
            best[q] = BestAdded(q, added \ {best[t] : t \in {p \in removed : p.sym < q.sym /\ Consumes(p, best[p])}})
      BY <2>2, BestOfIs
    <3> QED BY <3>1
  <2>4. free \subseteq added /\ \A a \in free : a.sym \in Nat
    BY <1>3, <1>4
  <2> HIDE DEF free, best
  <2>5. BestAdded(r, free) \in free \cup {Absent}
    BY <2>4, BestIsAdded
  <2> QED BY <2>3, <2>4, <2>5
<1> HIDE DEF best
<1>6. \A r \in pairs : best[r] \in added
  BY <1>5 DEF Paired
<1>7. ASSUME NEW r \in removed, NEW a \in added PROVE Similarity(r, a) \in 0..100
  <2>1. r.sym \in Symbol /\ a.sym \in Symbol
    BY <1>3, <1>4
  <2>2. LeafRatio[<<FqName[r.sym], FqName[a.sym]>>] \in 0..100
    BY <2>1, TimelineDiffAssumption
  <2> QED BY <2>2 DEF Similarity
<1>8. gone \subseteq pairs /\ \A r \in pairs : Edge(r).candidate \in BOOLEAN /\ (~Edge(r).candidate <=> r \in gone)
  <2>1. SUFFICES ASSUME NEW r \in removed
                 PROVE  /\ r \in gone => r \in pairs
                        /\ r \in pairs => Edge(r).candidate \in BOOLEAN /\ (~Edge(r).candidate <=> r \in gone)
    OBVIOUS
  <2> DEFINE alike == Similarity(r, best[r])
  <2>2. best[r] # Absent => alike \in 0..100
    BY <1>5, <1>7
  <2>3. r \in pairs <=> best[r] # Absent /\ alike >= Threshold
    BY DEF Paired
  <2>4. r \in gone <=> best[r] # Absent /\ alike = 100
    BY DEF Consumes
  <2>5. Edge(r).candidate = (alike < 100)
    OBVIOUS
  <2>6. Threshold \in 1..100
    BY TimelineDiffAssumption
  <2> HIDE DEF alike, pairs, gone
  <2>7. r \in pairs => (alike < 100 <=> r \notin gone)
    BY <2>2, <2>3, <2>4
  <2>8. r \in gone => r \in pairs
    BY <2>3, <2>4, <2>6
  <2>9. (alike < 100) \in BOOLEAN
    OBVIOUS
  <2> HIDE DEF Edge
  <2> QED BY <2>5, <2>7, <2>8, <2>9, Zenon
<1>9. \A r \in pairs : /\ Edge(r).old = r.sym /\ Edge(r).new = best[r].sym
                       /\ Edge(r).commit = commit /\ Edge(r).ts = ts
                       /\ r.sym \in DOMAIN prev \ DOMAIN snap /\ best[r].sym \in DOMAIN snap \ DOMAIN prev
  BY <1>2, <1>3, <1>6
<1>10. {Edge(r) : r \in pairs} \subseteq EdgeRow
  <2>1. SUFFICES ASSUME NEW r \in pairs PROVE Edge(r) \in EdgeRow
    OBVIOUS
  <2>2. r.sym \in Symbol /\ best[r].sym \in Symbol /\ r.commit = commit /\ r.ts = ts
    BY <1>2, <1>3, <1>4, <1>6
  <2>3. (Similarity(r, best[r]) < 100) \in BOOLEAN
    OBVIOUS
  <2> QED BY <2>2, <2>3 DEF EdgeRow
<1>11. rows.edges = {Edge(r) : r \in pairs} /\ rows.events = events \ (gone \cup {best[r] : r \in gone})
       /\ rows = [events |-> rows.events, edges |-> rows.edges]
  BY <1>1
<1> HIDE DEF Edge, pairs, gone
<1>12. \A x \in rows.edges : ~x.candidate => \A e \in rows.events : e.sym \notin {x.old, x.new}
  <2>1. SUFFICES ASSUME NEW r \in pairs, ~Edge(r).candidate, NEW e \in rows.events PROVE e.sym \notin {r.sym, best[r].sym}
    BY <1>9, <1>11
  <2>2. r \in gone /\ r \in events /\ best[r] \in events
    BY <1>3, <1>6, <1>8, <2>1 DEF pairs
  <2>3. e \in events /\ e # r /\ e # best[r]
    BY <1>11, <2>2
  <2> QED BY <1>2, <2>2, <2>3
<1>13. \A s \in (DOMAIN prev \ DOMAIN snap) \cup (DOMAIN snap \ DOMAIN prev) :
         \/ \E e \in rows.events : e.sym = s
         \/ \E x \in rows.edges : ~x.candidate /\ s \in {x.old, x.new}
  <2>1. SUFFICES ASSUME NEW s \in (DOMAIN prev \ DOMAIN snap) \cup (DOMAIN snap \ DOMAIN prev),
                        \A e \in rows.events : e.sym # s
                 PROVE  \E x \in rows.edges : ~x.candidate /\ s \in {x.old, x.new}
    OBVIOUS
  <2>2. PICK e \in events : e.sym = s
    BY <1>2
  <2>3. e \in gone \cup {best[r] : r \in gone}
    BY <1>11, <2>1, <2>2
  <2>4. PICK r \in gone : e \in {r, best[r]}
    BY <2>3
  <2>5. r \in pairs /\ Edge(r) \in rows.edges /\ ~Edge(r).candidate
    BY <1>8, <1>11
  <2> QED BY <1>9, <2>2, <2>4, <2>5
<1>14. \A e \in rows.events : e \in events
  BY <1>11
<1>15. \A e \in rows.events : e.type # "removed" <=> e.sym \in DOMAIN snap
  BY <1>2, <1>14
<1>16. \A x \in rows.edges : /\ x.ts = ts /\ x.commit = commit
                             /\ x.old \in DOMAIN prev \ DOMAIN snap /\ x.new \in DOMAIN snap \ DOMAIN prev
  BY <1>9, <1>11
<1>17. /\ rows.events \subseteq EventRow /\ rows.edges \subseteq EdgeRow
       /\ \A e \in rows.events : e.commit = commit /\ e.ts = ts /\ e.orphaned = FALSE
       /\ \A e, f \in rows.events : e.sym = f.sym => e = f
  BY <1>2, <1>10, <1>11, <1>14
<1>19. /\ \A e \in rows.events : e.type # "added" <=> e.sym \in DOMAIN prev
       /\ \A e \in rows.events : e.sym \in DOMAIN prev \cap DOMAIN snap => prev[e.sym] # snap[e.sym]
  BY <1>2, <1>14
<1>20. ASSUME NEW s \in DOMAIN prev \cap DOMAIN snap, prev[s] # snap[s]
       PROVE  \E e \in rows.events : e.sym = s
  <2>1. PICK e \in events : e.sym = s
    BY <1>2, <1>20
  <2>2. e.type # "added" /\ e.type # "removed"
    BY <1>2, <2>1
  <2>3. gone \subseteq removed /\ \A r \in gone : best[r] \in added
    BY <1>6, <1>8 DEF gone
  <2>4. e \notin gone /\ \A r \in gone : e # best[r]
    BY <1>3, <2>2, <2>3
  <2>5. e \in rows.events
    BY <1>11, <2>1, <2>4
  <2> QED BY <2>1, <2>5
<1>18. Tells(rows, prev, snap, commit, ts)
  BY <1>11, <1>12, <1>13, <1>15, <1>16, <1>17, <1>19, <1>20 DEF Tells
<1> QED BY <1>18 DEF rows

\* The next event is one of those there are.
LEMMA FirstEventIn == ASSUME NEW events \in SUBSET EventRow, events # {} PROVE FirstEvent(events) \in events
<1>1. \A e \in events : Turn(e) \in Nat /\ e.sym \in Nat
  BY TimelineDiffAssumption DEF EventRow, Turn
<1> DEFINE turns == {Turn(e) : e \in events}
<1>2. turns \subseteq Nat /\ turns # {}
  BY <1>1
<1>3. PICK t \in turns : \A k \in turns : t <= k
  BY <1>2, Smallest
<1> DEFINE ids == {e.sym : e \in {f \in events : Turn(f) = t}}
<1>4. ids \subseteq Nat /\ ids # {}
  BY <1>1
<1>5. PICK m \in ids : \A k \in ids : m <= k
  BY <1>4, Smallest
<1>6. PICK e \in events : Turn(e) = t /\ e.sym = m
  BY <1>5
<1>7. \A f \in events : Turn(e) < Turn(f) \/ (Turn(e) = Turn(f) /\ e.sym <= f.sym)
  <2>1. SUFFICES ASSUME NEW f \in events PROVE Turn(e) < Turn(f) \/ (Turn(e) = Turn(f) /\ e.sym <= f.sym)
    OBVIOUS
  <2>2. t <= Turn(f) /\ t \in Nat /\ Turn(f) \in Nat
    BY <1>1, <1>2, <1>3
  <2>3. Turn(f) = t => m <= f.sym
    BY <1>5
  <2> QED BY <1>6, <2>2, <2>3
<1> QED BY <1>6, <1>7 DEF FirstEvent

\* The next edge is one of those there are.
LEMMA FirstEdgeIn == ASSUME NEW edges \in SUBSET EdgeRow, edges # {} PROVE FirstEdge(edges) \in edges
<1> DEFINE ids == {x.old : x \in edges}
<1>1. ids \subseteq Nat /\ ids # {}
  <2>1. \A x \in edges : x.old \in Symbol
    BY DEF EdgeRow
  <2> QED BY <2>1, TimelineDiffAssumption
<1>2. PICK m \in ids : \A k \in ids : m <= k
  BY <1>1, Smallest
<1>3. \E x \in edges : \A f \in edges : x.old <= f.old
  BY <1>2
<1> QED BY <1>3 DEF FirstEdge

-----------------------------------------------------------------------------
(* What the rows say of a symbol, as rows are added.                       *)

\* It takes the type, the symbol and the time of the events, and the edges.
LEMMA SameLog ==
  ASSUME NEW s, DOMAIN db'.events = DOMAIN db.events, db'.edges = db.edges,
         \A i \in DOMAIN db.events : /\ db'.events[i].sym = db.events[i].sym /\ db'.events[i].ts = db.events[i].ts
                                     /\ db'.events[i].type = db.events[i].type
  PROVE  LogSays(s)' <=> LogSays(s)
<1>1. EventsOf(s)' = EventsOf(s) /\ RenamesOf(s)' = RenamesOf(s)
  BY DEF EventsOf, RenamesOf
<1>2. \A i \in EventsOf(s) : db'.events[i].ts = db.events[i].ts /\ db'.events[i].type = db.events[i].type
  BY DEF EventsOf
<1> QED BY <1>1, <1>2, Zenon DEF LogSays

\* An event is the last word on its symbol, and none on another.
LEMMA NewEvent ==
  ASSUME NEW s, NEW row \in EventRow, db.events \in Seq(EventRow), db.edges \in Seq(EdgeRow),
         db'.events = Append(db.events, row), db'.edges = db.edges,
         \A i \in DOMAIN db.edges : db.edges[i].ts <= row.ts
  PROVE  LogSays(s)' <=> IF s = row.sym THEN row.type # "removed" ELSE LogSays(s)
<1> DEFINE n == Len(db.events) + 1
<1>1. /\ n \in Nat /\ DOMAIN db.events = 1..(n - 1) /\ DOMAIN db'.events = 1..n /\ db'.events[n] = row
      /\ \A i \in 1..(n - 1) : db'.events[i] = db.events[i]
  OBVIOUS
<1>2. RenamesOf(s)' = RenamesOf(s)
  BY DEF RenamesOf
<1>3. \A i \in RenamesOf(s) : db.edges[i] \in EdgeRow /\ db.edges[i].ts <= row.ts
  BY DEF RenamesOf
<1>4. row.ts \in Nat /\ \A x \in EdgeRow : x.ts \in Nat
  BY DEF EventRow, EdgeRow
<1> HIDE DEF n
<1>5. CASE s = row.sym
  <2>1. EventsOf(s)' = EventsOf(s) \cup {n}
    <3>1. ASSUME NEW i PROVE i \in EventsOf(s)' <=> i \in EventsOf(s) \cup {n}
      <4>1. CASE i = n
        BY <1>1, <1>5, <4>1 DEF EventsOf
      <4>2. CASE i # n
        <5>1. i \in 1..n <=> i \in 1..(n - 1)
          BY <1>1, <4>2
        <5> QED BY <1>1, <4>2, <5>1 DEF EventsOf
      <4> QED BY <4>1, <4>2
    <3> QED BY <3>1
  <2>2. n \in EventsOf(s)' /\ \A j \in EventsOf(s)' : j \in Nat /\ j <= n
    BY <1>1, <2>1 DEF EventsOf
  <2>3. \A i \in RenamesOf(s)' : ~(db'.events[n].ts < db'.edges[i].ts) /\ db'.edges[i].ts <= db'.events[n].ts
    BY <1>1, <1>2, <1>3, <1>4
  <2>4. \A i \in EventsOf(s)' : (\A j \in EventsOf(s)' : j <= i) => i = n
    BY <1>1, <2>2
  <2> QED BY <1>1, <1>5, <2>2, <2>3, <2>4 DEF LogSays
<1>6. CASE s # row.sym
  <2>1. EventsOf(s)' = EventsOf(s)
    <3>1. ASSUME NEW i PROVE i \in EventsOf(s)' <=> i \in EventsOf(s)
      <4>1. CASE i = n
        <5>1. n \notin 1..(n - 1)
          BY <1>1
        <5> QED BY <1>1, <1>6, <4>1, <5>1 DEF EventsOf
      <4>2. CASE i # n
        <5>1. i \in 1..n <=> i \in 1..(n - 1)
          BY <1>1, <4>2
        <5> QED BY <1>1, <4>2, <5>1 DEF EventsOf
      <4> QED BY <4>1, <4>2
    <3> QED BY <3>1
  <2>2. \A i \in EventsOf(s) : db'.events[i] = db.events[i]
    BY <1>1 DEF EventsOf
  <2> QED BY <1>2, <1>6, <2>1, <2>2, Zenon DEF LogSays
<1> QED BY <1>5, <1>6

\* A confirmed rename is the last word on its two symbols, where no event is as late; a
\* candidate is none.
LEMMA NewEdge ==
  ASSUME NEW s, NEW row \in EdgeRow, db.events \in Seq(EventRow), db.edges \in Seq(EdgeRow),
         db'.events = db.events, db'.edges = Append(db.edges, row),
         \A i \in EventsOf(s) : ~row.candidate /\ s \in {row.old, row.new} => db.events[i].ts < row.ts
  PROVE  LogSays(s)' <=> IF ~row.candidate /\ s \in {row.old, row.new} THEN s = row.new ELSE LogSays(s)
<1> DEFINE n == Len(db.edges) + 1
<1>1. /\ n \in Nat /\ DOMAIN db.edges = 1..(n - 1) /\ DOMAIN db'.edges = 1..n /\ db'.edges[n] = row
      /\ \A i \in 1..(n - 1) : db'.edges[i] = db.edges[i]
  OBVIOUS
<1>2. EventsOf(s)' = EventsOf(s)
  BY DEF EventsOf
<1>3. \A i \in EventsOf(s) : db.events[i] \in EventRow
  BY DEF EventsOf
<1>4. row.ts \in Nat /\ \A x \in EventRow : x.ts \in Nat
  BY DEF EventRow, EdgeRow
<1> HIDE DEF n
<1>5. CASE ~row.candidate /\ s \in {row.old, row.new}
  <2>1. RenamesOf(s)' = RenamesOf(s) \cup {n}
    <3>1. ASSUME NEW i PROVE i \in RenamesOf(s)' <=> i \in RenamesOf(s) \cup {n}
      <4>1. CASE i = n
        BY <1>1, <1>5, <4>1 DEF RenamesOf
      <4>2. CASE i # n
        <5>1. i \in 1..n <=> i \in 1..(n - 1)
          BY <1>1, <4>2
        <5> QED BY <1>1, <4>2, <5>1 DEF RenamesOf
      <4> QED BY <4>1, <4>2
    <3> QED BY <3>1
  <2>2. n \in RenamesOf(s)' /\ \A j \in RenamesOf(s)' : j \in Nat /\ j <= n
    BY <1>1, <2>1 DEF RenamesOf
  <2>3. \A i \in EventsOf(s)' : db'.events[i].ts < db'.edges[n].ts /\ ~(db'.edges[n].ts <= db'.events[i].ts)
    <3>1. \A i \in EventsOf(s) : db.events[i].ts < row.ts /\ db.events[i].ts \in Nat
      BY <1>3, <1>4, <1>5
    <3> QED BY <1>1, <1>2, <1>4, <3>1
  <2>4. \A i \in RenamesOf(s)' : (\A j \in RenamesOf(s)' : j <= i) => i = n
    BY <1>1, <2>2
  <2> QED BY <1>1, <1>5, <2>2, <2>3, <2>4 DEF LogSays
<1>6. CASE ~(~row.candidate /\ s \in {row.old, row.new})
  <2>1. RenamesOf(s)' = RenamesOf(s)
    <3>1. ASSUME NEW i PROVE i \in RenamesOf(s)' <=> i \in RenamesOf(s)
      <4>1. CASE i = n
        <5>1. n \notin 1..(n - 1)
          BY <1>1
        <5> QED BY <1>1, <1>6, <4>1, <5>1 DEF RenamesOf
      <4>2. CASE i # n
        <5>1. i \in 1..n <=> i \in 1..(n - 1)
          BY <1>1, <4>2
        <5> QED BY <1>1, <4>2, <5>1 DEF RenamesOf
      <4> QED BY <4>1, <4>2
    <3> QED BY <3>1
  <2>2. \A i \in RenamesOf(s) : db'.edges[i] = db.edges[i]
    BY <1>1 DEF RenamesOf
  <2> QED BY <1>2, <1>6, <2>1, <2>2, Zenon DEF LogSays
<1> QED BY <1>5, <1>6

-----------------------------------------------------------------------------
(* The inductive invariants.                                               *)

Commit == [parent : Nat, tree : Tree, ts : Nat]

GitTyped ==
  /\ work \in Tree
  /\ repo \in [commits : Seq(Commit), head : Nat, tags : [Tag -> Nat \cup {Absent}], reflog : SUBSET Nat]
  /\ repo.head \in 0..Len(repo.commits)
  /\ repo.tags \in [Tag -> Commits \cup {Absent}]
  /\ repo.reflog \subseteq Commits
  /\ clock \in Nat

ScanTyped ==
  /\ pc \in {"idle", "emit", "save", "state"}
  /\ stamp \in [commit : Nat \cup {Absent}, ts : Nat]
  /\ stamp.commit \in Commits \cup {Absent} /\ stamp.ts <= clock
  /\ todo \in [events : SUBSET EventRow, edges : SUBSET EdgeRow]
  /\ \A e \in todo.events : e.commit = stamp.commit /\ e.ts = stamp.ts /\ e.orphaned = FALSE
  /\ \A x \in todo.edges : x.ts = stamp.ts
  /\ pc # "emit" => todo = NoRows
  /\ pc # "idle" => curr \in Snapshots
  /\ sidecar \in Snapshots \cup {Absent}

StoreTyped ==
  /\ db \in [events : Seq(EventRow), edges : Seq(EdgeRow)]
  /\ \A i \in DOMAIN db.events : db.events[i].commit \in Commits \cup {Absent} /\ db.events[i].ts <= clock
  /\ \A i \in DOMAIN db.edges : db.edges[i].ts <= clock
  /\ pc = "emit" => /\ \A i \in DOMAIN db.events : db.events[i].ts <= stamp.ts
                    /\ \A i \in DOMAIN db.edges : db.edges[i].ts <= stamp.ts

TypeInv == GitTyped /\ ScanTyped /\ StoreTyped

\* The rows of a scan in progress: each event is about its symbol as the scan found it, and
\* no event, written or not, is about a symbol a confirmed rename is about.
Standing == {i \in DOMAIN db.events : db.events[i].ts = stamp.ts}

RowsTrue ==
  pc = "emit" =>
    /\ \A e \in todo.events : e.type # "removed" <=> e.sym \in DOMAIN curr
    /\ \A x \in todo.edges : x.old \notin DOMAIN curr /\ x.new \in DOMAIN curr
    /\ \A e, f \in todo.events : e.sym = f.sym => e = f
    /\ \A x \in todo.edges : ~x.candidate =>
         /\ \A e \in todo.events : e.sym \notin {x.old, x.new}
         /\ \A i \in Standing : db.events[i].sym \notin {x.old, x.new}

\* What came or went and was not written about is still to be written about.
RowsWhole ==
  pc = "emit" =>
    \A s \in Symbol : (s \in DOMAIN LoadSnapshot) # (s \in DOMAIN curr) =>
      \/ s \in said
      \/ \E e \in todo.events : e.sym = s
      \/ \E x \in todo.edges : ~x.candidate /\ s \in {x.old, x.new}

\* The log leads to the new snapshot where the scan has written, and to the old one
\* elsewhere.
LogTells ==
  "deleted" \in regular =>
    /\ pc = "emit" => /\ \A s \in said : LogSays(s) <=> s \in DOMAIN curr
                      /\ \A s \in Symbol \ (said \cup lost) : LogSays(s) <=> s \in DOMAIN LoadSnapshot
    /\ pc = "save" => \A s \in said \cup (Symbol \ lost) : LogSays(s) <=> s \in DOMAIN curr
    /\ pc \in {"state", "idle"} => \A s \in Symbol \ lost : LogSays(s) <=> s \in DOMAIN LoadSnapshot

LogInv == RowsTrue /\ RowsWhole /\ LogTells

\* While the reflog is whole it names every commit, and then no event is an orphan.
OrphanInv ==
  "expired" \in regular =>
    /\ Commits \subseteq repo.reflog
    /\ "reflog" \in regular => \A i \in DOMAIN db.events : db.events[i].orphaned = FALSE

Anchor == [tag : Tag, sha : Nat, symbols : SUBSET Symbol, invalidated : BOOLEAN]

Valid(t) == {row \in RowsOf(anchors, t) : ~row.invalidated}

AnchorTyped ==
  /\ anchors \subseteq Anchor
  /\ known \in [Tag -> Nat \cup {Absent}]
  /\ \A row, other \in anchors : row.tag = other.tag /\ row.sha = other.sha => row = other

\* A tag that is known has one valid snapshot, one that is not has none, and the snapshot of
\* the commit a tag is on is valid.
AnchorInv ==
  "retagged" \in regular =>
    \A t \in Tag :
      /\ known[t] = Absent => RowsOf(anchors, t) = {}
      /\ known[t] # Absent => \E row \in RowsOf(anchors, t) : Valid(t) = {row}
      /\ \A row \in RowsOf(anchors, t) : row.sha = repo.tags[t] => ~row.invalidated

-----------------------------------------------------------------------------
(* Types.                                                                  *)

UserStep == Edit \/ GitCommit \/ GitAmend \/ GitReset \/ GitExpire \/ GitTag \/ GitUntag

ScanStep == BeginEmit \/ WriteEvent \/ WriteEdge \/ TruncateSidecar \/ SaveSidecar \/ UpsertScanState \/ CutShort

\* Nothing is there at first.
LEMMA InitTypeInv == Init => TypeInv
<1> SUFFICES ASSUME Init PROVE TypeInv
  OBVIOUS
<1> USE DEF Init
<1>1. GitTyped
  <2>1. work \in Tree
    BY TimelineDiffAssumption
  <2>2. repo.commits = <<>> /\ repo.head = 0 /\ repo.tags = [t \in Tag |-> Absent] /\ repo.reflog = {}
        /\ <<>> \in Seq(Commit) /\ Len(<<>>) = 0
    OBVIOUS
  <2>3. repo \in [commits : Seq(Commit), head : Nat, tags : [Tag -> Nat \cup {Absent}], reflog : SUBSET Nat]
    OBVIOUS
  <2> QED BY <2>1, <2>2, <2>3 DEF GitTyped
<1>2. ScanTyped
  BY DEF ScanTyped, NoRows
<1>3. StoreTyped
  BY DEF StoreTyped
<1> QED BY <1>1, <1>2, <1>3 DEF TypeInv

\* The user's steps, but for the commit, which amending shares.
LEMMA CommitTyped ==
  ASSUME TypeInv, NEW parent \in Nat, NewCommit(parent)
  PROVE  GitTyped' /\ Commits \subseteq Commits' /\ clock <= clock'
<1> USE DEF TypeInv, GitTyped
<1> DEFINE n == Len(repo.commits)
           new == [parent |-> parent, tree |-> work, ts |-> clock + 1]
<1>1. clock' = clock + 1 /\ work' = work
  BY DEF NewCommit, gitVars
<1>2. new \in Commit
  BY <1>1 DEF Commit
<1>3. /\ repo.commits \in Seq(Commit) /\ n \in Nat
      /\ repo'.commits = Append(repo.commits, new) /\ repo'.head = n + 1
      /\ repo'.tags = repo.tags /\ repo'.reflog = repo.reflog \cup {n + 1}
  BY DEF NewCommit
<1>4. repo'.commits \in Seq(Commit) /\ Len(repo'.commits) = n + 1
  BY <1>2, <1>3
<1>5. Commits = 1..n /\ Commits' = 1..(n + 1)
  BY <1>4 DEF Commits
<1>6. repo' \in [commits : Seq(Commit), head : Nat, tags : [Tag -> Nat \cup {Absent}], reflog : SUBSET Nat]
  <2>1. repo' = [commits |-> repo'.commits, head |-> repo'.head, tags |-> repo'.tags, reflog |-> repo'.reflog]
    BY DEF NewCommit
  <2>2. n + 1 \in Nat /\ repo.reflog \cup {n + 1} \in SUBSET Nat /\ repo.tags \in [Tag -> Nat \cup {Absent}]
    BY <1>3
  <2> QED BY <1>3, <1>4, <2>1, <2>2
<1>7. repo'.head \in 0..Len(repo'.commits) /\ repo'.reflog \subseteq Commits' /\ Commits \subseteq Commits'
  BY <1>3, <1>4, <1>5
<1>8. repo'.tags \in [Tag -> Commits' \cup {Absent}]
  BY <1>3, <1>7
<1> QED BY <1>1, <1>4, <1>6, <1>7, <1>8

\* The repository stays well formed, and neither its commits nor the clock go back.
LEMMA UserTyped == TypeInv /\ UserStep => GitTyped' /\ Commits \subseteq Commits' /\ clock <= clock'
<1> SUFFICES ASSUME TypeInv, UserStep PROVE GitTyped' /\ Commits \subseteq Commits' /\ clock <= clock'
  OBVIOUS
<1> USE DEF TypeInv, GitTyped
<1>0. \A c \in 1..Len(repo.commits) : repo.commits[c].parent \in Nat /\ repo.commits[c].tree \in Tree
  <2>1. \A row \in Commit : row.parent \in Nat /\ row.tree \in Tree
    BY DEF Commit
  <2>2. \A c \in 1..Len(repo.commits) : repo.commits[c] \in Commit
    OBVIOUS
  <2> QED BY <2>1, <2>2
<1>1. CASE Edit
  BY <1>1 DEF Edit, Commits
<1>2. CASE GitCommit
  BY <1>2, CommitTyped DEF GitCommit
<1>3. CASE GitAmend
  <2>1. repo.head \in 1..Len(repo.commits)
    BY <1>3 DEF GitAmend
  <2>2. repo.commits[repo.head].parent \in Nat
    BY <1>0, <2>1
  <2> QED BY <1>3, <2>2, CommitTyped DEF GitAmend
<1>4. CASE GitReset
  <2>1. PICK c \in repo.reflog : repo' = [repo EXCEPT !.head = c] /\ work' = repo.commits[c].tree /\ clock' = clock
    BY <1>4 DEF GitReset
  <2>2. c \in 1..Len(repo.commits)
    BY DEF Commits
  <2>3. work' \in Tree
    BY <1>0, <2>1, <2>2
  <2>4. repo'.commits = repo.commits /\ repo'.head = c /\ repo'.tags = repo.tags /\ repo'.reflog = repo.reflog
    BY <2>1
  <2>5. Commits' = Commits
    BY <2>4 DEF Commits
  <2> QED BY <2>1, <2>2, <2>3, <2>4, <2>5
<1>5. CASE GitExpire
  <2>1. PICK c \in repo.reflog : repo' = [repo EXCEPT !.reflog = @ \ {c}] /\ work' = work /\ clock' = clock
    BY <1>5 DEF GitExpire
  <2>2. repo'.commits = repo.commits /\ repo'.head = repo.head /\ repo'.tags = repo.tags /\ repo'.reflog = repo.reflog \ {c}
    BY <2>1
  <2>3. Commits' = Commits
    BY <2>2 DEF Commits
  <2> QED BY <2>1, <2>2, <2>3
<1>6. CASE GitTag
  <2>1. PICK t \in Tag : repo' = [repo EXCEPT !.tags[t] = repo.head] /\ repo.head # 0 /\ work' = work /\ clock' = clock
    BY <1>6 DEF GitTag
  <2>2. repo'.commits = repo.commits /\ repo'.head = repo.head /\ repo'.tags = [repo.tags EXCEPT ![t] = repo.head]
        /\ repo'.reflog = repo.reflog
    BY <2>1
  <2>3. Commits' = Commits /\ repo.head \in Commits
    BY <2>1, <2>2 DEF Commits
  <2>4. repo'.tags \in [Tag -> Commits \cup {Absent}] /\ repo'.tags \in [Tag -> Nat \cup {Absent}]
    BY <2>2, <2>3
  <2> QED BY <2>1, <2>2, <2>3, <2>4
<1>7. CASE GitUntag
  <2>1. PICK t \in Tag : repo' = [repo EXCEPT !.tags[t] = Absent] /\ work' = work /\ clock' = clock
    BY <1>7 DEF GitUntag
  <2>2. repo'.commits = repo.commits /\ repo'.head = repo.head /\ repo'.tags = [repo.tags EXCEPT ![t] = Absent]
        /\ repo'.reflog = repo.reflog
    BY <2>1
  <2>3. Commits' = Commits
    BY <2>2 DEF Commits
  <2>4. repo'.tags \in [Tag -> Commits \cup {Absent}] /\ repo'.tags \in [Tag -> Nat \cup {Absent}]
    BY <2>2
  <2> QED BY <2>1, <2>2, <2>3, <2>4
<1> QED BY <1>1, <1>2, <1>3, <1>4, <1>5, <1>6, <1>7 DEF UserStep

\* What a scan is at, and the rows, are as they were.
LEMMA ScanLeft ==
  ASSUME TypeInv, UNCHANGED <<scanVars, storeVars>>, Commits \subseteq Commits', clock' \in Nat, clock <= clock'
  PROVE  ScanTyped' /\ StoreTyped'
<1> USE DEF TypeInv, GitTyped, scanVars, storeVars
<1>1. ScanTyped'
  <2>1. stamp.ts <= clock'
    BY DEF ScanTyped
  <2> QED BY <2>1 DEF ScanTyped
<1>2. StoreTyped'
  <2>1. \A e \in EventRow : e.ts \in Nat
    BY DEF EventRow
  <2>2. \A x \in EdgeRow : x.ts \in Nat
    BY DEF EdgeRow
  <2>3. /\ \A i \in DOMAIN db.events : db.events[i].ts <= clock'
        /\ \A i \in DOMAIN db.edges : db.edges[i].ts <= clock'
    <3>1. \A i \in DOMAIN db.events : db.events[i] \in EventRow
      BY DEF StoreTyped
    <3>2. \A i \in DOMAIN db.edges : db.edges[i] \in EdgeRow
      BY DEF StoreTyped
    <3> QED BY <2>1, <2>2, <3>1, <3>2 DEF StoreTyped
  <2> QED BY <2>3 DEF StoreTyped
<1> QED BY <1>1, <1>2

\* What is in a sequence with one row more.
LEMMA AppendHas ==
  ASSUME NEW R, NEW rows \in Seq(R), NEW row \in R
  PROVE  /\ Append(rows, row) \in Seq(R)
         /\ \A i \in DOMAIN Append(rows, row) : Append(rows, row)[i] = row \/ \E j \in DOMAIN rows : Append(rows, row)[i] = rows[j]
<1>1. Append(rows, row) \in Seq(R) /\ DOMAIN Append(rows, row) = 1..(Len(rows) + 1) /\ Len(rows) \in Nat /\ DOMAIN rows = 1..Len(rows)
  OBVIOUS
<1>2. \A i \in 1..(Len(rows) + 1) : Append(rows, row)[i] = IF i = Len(rows) + 1 THEN row ELSE rows[i]
  OBVIOUS
<1> QED BY <1>1, <1>2

\* append_event, with what it drops.
LEMMA AppendEventHas ==
  ASSUME NEW rows \in Seq(EventRow), NEW row \in EventRow
  PROVE  /\ AppendEvent(rows, row) \in Seq(EventRow)
         /\ \A i \in DOMAIN AppendEvent(rows, row) :
              AppendEvent(rows, row)[i] = row \/ \E j \in DOMAIN rows : AppendEvent(rows, row)[i] = rows[j]
<1> DEFINE more == Append(rows, row)
           old == {i \in DOMAIN more : more[i].ts < clock - config.retention}
<1>1. more \in Seq(EventRow) /\ \A i \in DOMAIN more : more[i] = row \/ \E j \in DOMAIN rows : more[i] = rows[j]
  BY AppendHas
<1>2. AppendEvent(rows, row) = IF config.retention = 0 THEN more ELSE Without(more, old)
  BY DEF AppendEvent, Retained
<1> HIDE DEF more, old
<1>3. Without(more, old) \in Seq(EventRow) /\ \A i \in DOMAIN Without(more, old) : \E j \in DOMAIN more : Without(more, old)[i] = more[j]
  BY <1>1, WithoutIsPart
<1> QED BY <1>1, <1>2, <1>3

\* What a scan compares and what it is about to write.
LEMMA Begun ==
  ASSUME TypeInv, BeginEmit
  PROVE  /\ LoadSnapshot \in Snapshots /\ curr' \in Snapshots
         /\ Head_ \in Commits \cup {Absent} /\ Head_ \in Nat \cup {Absent} /\ clock + 1 \in Nat
         /\ Tells(todo', LoadSnapshot, curr', Head_, clock + 1)
         /\ stamp' = [commit |-> Head_, ts |-> clock + 1] /\ clock' = clock + 1
<1> USE DEF TypeInv, BeginEmit
<1>1. LoadSnapshot \in Snapshots
  BY NoSymbolsIsSnapshot DEF LoadSnapshot, ScanTyped
<1>2. curr' \in Snapshots
  BY DEF GitTyped, Snapshots
<1>3. Head_ \in Commits \cup {Absent} /\ Commits \subseteq Nat /\ clock + 1 \in Nat
  BY DEF Head_, Commits, GitTyped
<1>4. Tells(Dispatch(LoadSnapshot, curr', Head_, clock + 1), LoadSnapshot, curr', Head_, clock + 1)
  BY <1>1, <1>2, <1>3, DispatchTells
<1>5. todo' = Dispatch(LoadSnapshot, curr', Head_, clock + 1)
  OBVIOUS
<1> QED BY <1>1, <1>2, <1>3, <1>4, <1>5

\* A step that adds no row and leaves the snapshots and the times alone, or whose snapshots
\* it is told of.
LEMMA RowsLeft ==
  ASSUME TypeInv, UNCHANGED <<gitVars, clock, stamp, db>>, pc' \in {"idle", "save", "state"}, todo' = NoRows,
         pc' # "idle" => curr' \in Snapshots, sidecar' \in Snapshots \cup {Absent}
  PROVE  TypeInv'
<1> USE DEF TypeInv, gitVars
<1>1. Commits' = Commits /\ GitTyped'
  BY DEF GitTyped, Commits
<1>2. ScanTyped'
  BY <1>1 DEF ScanTyped, NoRows
<1>3. StoreTyped'
  BY <1>1 DEF StoreTyped
<1> QED BY <1>1, <1>2, <1>3

\* The rows a scan writes are rows, of its own commit and time.
LEMMA ScanStepTyped == TypeInv /\ ScanStep => TypeInv'
<1> SUFFICES ASSUME TypeInv, ScanStep PROVE TypeInv'
  OBVIOUS
<1>1. CASE BeginEmit
  <2>1. Commits' = Commits /\ GitTyped'
    BY <1>1 DEF TypeInv, GitTyped, Commits, BeginEmit, gitVars
  <2> DEFINE rows == todo'
  <2>2. /\ rows = [events |-> rows.events, edges |-> rows.edges]
        /\ rows.events \subseteq EventRow /\ rows.edges \subseteq EdgeRow
        /\ \A e \in rows.events : e.commit = Head_ /\ e.ts = clock + 1 /\ e.orphaned = FALSE
        /\ \A x \in rows.edges : x.ts = clock + 1
    BY <1>1, Begun DEF Tells
  <2>3. stamp' = [commit |-> Head_, ts |-> clock + 1] /\ clock' = clock + 1
        /\ Head_ \in Commits \cup {Absent} /\ Head_ \in Nat \cup {Absent} /\ curr' \in Snapshots
    BY <1>1, Begun
  <2>4. pc' = "emit" /\ sidecar' = sidecar /\ db' = db
    BY <1>1 DEF BeginEmit, storeVars
  <2>5. clock \in Nat
    BY DEF TypeInv, GitTyped
  <2>6. stamp' \in [commit : Nat \cup {Absent}, ts : Nat] /\ stamp'.commit = Head_ /\ stamp'.ts = clock' /\ stamp'.ts = clock + 1
    BY <2>3, <2>5
  <2>7. rows \in [events : SUBSET EventRow, edges : SUBSET EdgeRow]
    BY <2>2
  <2>8. ScanTyped'
    <3>1. /\ \A e \in todo'.events : e.commit = stamp'.commit /\ e.ts = stamp'.ts /\ e.orphaned = FALSE
          /\ \A x \in todo'.edges : x.ts = stamp'.ts
      BY <2>2, <2>3, <2>6
    <3>2. clock' \in Nat
      BY <2>3, <2>5
    <3> QED BY <2>1, <2>3, <2>4, <2>6, <2>7, <3>1, <3>2 DEF TypeInv, ScanTyped
  <2>9. StoreTyped'
    <3>1. \A i \in DOMAIN db.events : db.events[i].ts <= clock /\ db.events[i] \in EventRow
      BY DEF TypeInv, StoreTyped
    <3>2. \A i \in DOMAIN db.edges : db.edges[i].ts <= clock /\ db.edges[i] \in EdgeRow
      BY DEF TypeInv, StoreTyped
    <3>3. (\A e \in EventRow : e.ts \in Nat) /\ (\A x \in EdgeRow : x.ts \in Nat)
      BY DEF EventRow, EdgeRow
    <3>4. \A i \in DOMAIN db.events : db.events[i].ts <= clock + 1
      BY <2>5, <3>1, <3>3
    <3>5. \A i \in DOMAIN db.edges : db.edges[i].ts <= clock + 1
      BY <2>5, <3>2, <3>3
    <3> QED BY <2>1, <2>3, <2>4, <2>6, <3>4, <3>5 DEF TypeInv, StoreTyped
  <2> QED BY <2>1, <2>8, <2>9 DEF TypeInv
<1>2. CASE WriteEvent
  <2> DEFINE row == FirstEvent(todo.events)
  <2>1. Commits' = Commits /\ GitTyped'
    BY <1>2 DEF TypeInv, GitTyped, Commits, WriteEvent, gitVars
  <2>2. row \in todo.events /\ row \in EventRow /\ pc = "emit" /\ pc' = "emit"
    BY <1>2, FirstEventIn DEF WriteEvent, TypeInv, ScanTyped
  <2> HIDE DEF row
  <2>3. db' = [db EXCEPT !.events = AppendEvent(db.events, row)] /\ todo' = [todo EXCEPT !.events = todo.events \ {row}]
        /\ stamp' = stamp /\ clock' = clock /\ curr' = curr /\ sidecar' = sidecar
    BY <1>2 DEF WriteEvent, row
  <2>4. todo'.events = todo.events \ {row} /\ todo'.edges = todo.edges
        /\ todo' \in [events : SUBSET EventRow, edges : SUBSET EdgeRow]
    BY <2>3 DEF TypeInv, ScanTyped
  <2>5. ScanTyped'
    BY <2>1, <2>2, <2>3, <2>4 DEF TypeInv, ScanTyped
  <2>6. db.events \in Seq(EventRow)
    BY DEF TypeInv, StoreTyped
  <2> DEFINE more == AppendEvent(db.events, row)
  <2>7. more \in Seq(EventRow) /\ \A i \in DOMAIN more : more[i] = row \/ \E j \in DOMAIN db.events : more[i] = db.events[j]
    BY <2>2, <2>6, AppendEventHas
  <2> HIDE DEF more
  <2>8. db'.events = more /\ db'.edges = db.edges /\ db' \in [events : Seq(EventRow), edges : Seq(EdgeRow)]
    BY <2>3, <2>7 DEF TypeInv, StoreTyped, more
  <2>9. row.commit \in Commits \cup {Absent} /\ row.ts <= stamp.ts /\ row.ts <= clock
    <3>1. row.commit = stamp.commit /\ row.ts = stamp.ts /\ stamp.ts \in Nat
      BY <2>2 DEF TypeInv, ScanTyped
    <3> QED BY <3>1 DEF TypeInv, ScanTyped
  <2>10. \A i \in DOMAIN more : more[i].commit \in Commits \cup {Absent} /\ more[i].ts <= clock /\ more[i].ts <= stamp.ts
    <3>1. \A j \in DOMAIN db.events : db.events[j].commit \in Commits \cup {Absent} /\ db.events[j].ts <= clock /\ db.events[j].ts <= stamp.ts
      BY <2>2 DEF TypeInv, StoreTyped
    <3> QED BY <2>7, <2>9, <3>1
  <2>11. StoreTyped'
    BY <2>1, <2>2, <2>3, <2>8, <2>10 DEF TypeInv, StoreTyped
  <2> QED BY <2>1, <2>5, <2>11 DEF TypeInv
<1>3. CASE WriteEdge
  <2> DEFINE row == FirstEdge(todo.edges)
  <2>1. Commits' = Commits /\ GitTyped'
    BY <1>3 DEF TypeInv, GitTyped, Commits, WriteEdge, gitVars
  <2>2. row \in todo.edges /\ row \in EdgeRow /\ pc = "emit" /\ pc' = "emit"
    BY <1>3, FirstEdgeIn DEF WriteEdge, TypeInv, ScanTyped
  <2> HIDE DEF row
  <2>3. db' = [db EXCEPT !.edges = Append(db.edges, row)] /\ todo' = [todo EXCEPT !.edges = todo.edges \ {row}]
        /\ stamp' = stamp /\ clock' = clock /\ curr' = curr /\ sidecar' = sidecar
    BY <1>3 DEF WriteEdge, row
  <2>4. todo'.events = todo.events /\ todo'.edges = todo.edges \ {row}
        /\ todo' \in [events : SUBSET EventRow, edges : SUBSET EdgeRow]
    BY <2>3 DEF TypeInv, ScanTyped
  <2>5. ScanTyped'
    BY <2>1, <2>2, <2>3, <2>4 DEF TypeInv, ScanTyped
  <2>6. db.edges \in Seq(EdgeRow)
    BY DEF TypeInv, StoreTyped
  <2> DEFINE more == Append(db.edges, row)
  <2>7. more \in Seq(EdgeRow) /\ \A i \in DOMAIN more : more[i] = row \/ \E j \in DOMAIN db.edges : more[i] = db.edges[j]
    BY <2>2, <2>6, AppendHas
  <2> HIDE DEF more
  <2>8. db'.edges = more /\ db'.events = db.events /\ db' \in [events : Seq(EventRow), edges : Seq(EdgeRow)]
    BY <2>3, <2>7 DEF TypeInv, StoreTyped, more
  <2>9. row.ts <= stamp.ts /\ row.ts <= clock
    <3>1. row.ts = stamp.ts /\ stamp.ts \in Nat
      BY <2>2 DEF TypeInv, ScanTyped
    <3> QED BY <3>1 DEF TypeInv, ScanTyped
  <2>10. \A i \in DOMAIN more : more[i].ts <= clock /\ more[i].ts <= stamp.ts
    <3>1. \A j \in DOMAIN db.edges : db.edges[j].ts <= clock /\ db.edges[j].ts <= stamp.ts
      BY <2>2 DEF TypeInv, StoreTyped
    <3> QED BY <2>7, <2>9, <3>1
  <2>11. StoreTyped'
    BY <2>1, <2>2, <2>3, <2>8, <2>10 DEF TypeInv, StoreTyped
  <2> QED BY <2>1, <2>5, <2>11 DEF TypeInv
<1>4. CASE TruncateSidecar
  BY <1>4, RowsLeft DEF TruncateSidecar, TypeInv, ScanTyped
<1>5. CASE SaveSidecar
  BY <1>5, RowsLeft DEF SaveSidecar, TypeInv, ScanTyped
<1>6. CASE UpsertScanState
  BY <1>6, RowsLeft DEF UpsertScanState, TypeInv, ScanTyped
<1>7. CASE CutShort
  BY <1>7, RowsLeft DEF CutShort, TypeInv, ScanTyped, storeVars
<1> QED BY <1>1, <1>2, <1>3, <1>4, <1>5, <1>6, <1>7 DEF ScanStep

\* Marking changes nothing of an event but that it is an orphan, and nothing of one whose
\* commit is known.
LEMMA MarkOrphansHas ==
  ASSUME NEW rows \in Seq(EventRow), NEW shas
  PROVE  LET marked == MarkOrphans(rows, shas)
         IN  /\ marked \in Seq(EventRow) /\ DOMAIN marked = DOMAIN rows
             /\ \A i \in DOMAIN rows :
                  /\ marked[i].type = rows[i].type /\ marked[i].sym = rows[i].sym
                  /\ marked[i].commit = rows[i].commit /\ marked[i].ts = rows[i].ts
                  /\ rows[i].commit \in shas \cup {Absent} => marked[i] = rows[i]
<1> DEFINE marked == MarkOrphans(rows, shas)
           Mark(e) == IF e.commit = Absent \/ e.commit \in shas THEN e ELSE [e EXCEPT !.orphaned = TRUE]
<1>1. marked = [i \in DOMAIN rows |-> Mark(rows[i])]
  BY DEF MarkOrphans
<1>2. ASSUME NEW e \in EventRow
      PROVE  /\ Mark(e) \in EventRow /\ Mark(e).type = e.type /\ Mark(e).sym = e.sym
             /\ Mark(e).commit = e.commit /\ Mark(e).ts = e.ts
             /\ e.commit \in shas \cup {Absent} => Mark(e) = e
  <2> DEFINE orphan == [e EXCEPT !.orphaned = TRUE]
  <2> DEFINE Types == {"added", "removed", "modified", "moved"}
             Shas == Nat \cup {Absent}
  <2>a. EventRow = [type : Types, sym : Symbol, hash : Hashes, path : Paths, commit : Shas, ts : Nat, orphaned : BOOLEAN]
    BY Zenon DEF EventRow
  <2> HIDE DEF Types, Shas
  <2>1. orphan \in EventRow
    <3>1. e \in [type : Types, sym : Symbol, hash : Hashes, path : Paths, commit : Shas, ts : Nat, orphaned : BOOLEAN]
      BY <2>a
    <3>2. orphan \in [type : Types, sym : Symbol, hash : Hashes, path : Paths, commit : Shas, ts : Nat, orphaned : BOOLEAN]
      BY <3>1
    <3> HIDE DEF orphan
    <3> QED BY <2>a, <3>2
  <2>2. orphan.type = e.type /\ orphan.sym = e.sym /\ orphan.commit = e.commit /\ orphan.ts = e.ts
    BY DEF EventRow
  <2>3. Mark(e) = IF e.commit = Absent \/ e.commit \in shas THEN e ELSE orphan
    OBVIOUS
  <2> HIDE DEF orphan, Mark
  <2> QED BY <2>1, <2>2, <2>3
<1> HIDE DEF marked, Mark
<1>3. Len(rows) \in Nat /\ DOMAIN rows = 1..Len(rows) /\ \A i \in DOMAIN rows : rows[i] \in EventRow
  OBVIOUS
<1>4. marked \in Seq(EventRow) /\ DOMAIN marked = DOMAIN rows
  <2>1. marked \in [1..Len(rows) -> EventRow]
    BY <1>1, <1>2, <1>3
  <2> QED BY <1>3, <2>1
<1> QED BY <1>1, <1>2, <1>3, <1>4 DEF marked

\* A step that changes only events, each of which is one there was but for its mark.
LEMMA EventsLeft ==
  ASSUME TypeInv, UNCHANGED <<gitVars, clock, scanVars, sidecar>>,
         NEW events \in Seq(EventRow), db' = [db EXCEPT !.events = events],
         \A i \in DOMAIN events :
           \E j \in DOMAIN db.events : events[i].commit = db.events[j].commit /\ events[i].ts = db.events[j].ts
  PROVE  TypeInv'
<1>1. Commits' = Commits /\ GitTyped'
  BY DEF TypeInv, GitTyped, Commits, gitVars
<1>2. ScanTyped'
  BY <1>1 DEF TypeInv, ScanTyped, scanVars
<1>3. db'.events = events /\ db'.edges = db.edges /\ db' \in [events : Seq(EventRow), edges : Seq(EdgeRow)]
  BY DEF TypeInv, StoreTyped
<1>4. StoreTyped'
  BY <1>1, <1>3 DEF TypeInv, StoreTyped, scanVars
<1> QED BY <1>1, <1>2, <1>4 DEF TypeInv

\* Every step leaves states of the right type.
LEMMA NextTypeInv == TypeInv /\ [Next]_vars => TypeInv'
<1> SUFFICES ASSUME TypeInv, [Next]_vars PROVE TypeInv'
  OBVIOUS
<1>1. CASE UserStep
  <2>1. UNCHANGED <<scanVars, storeVars>>
    BY <1>1 DEF UserStep, Edit, GitCommit, GitAmend, GitReset, GitExpire, GitTag, GitUntag, NewCommit
  <2>2. GitTyped' /\ Commits \subseteq Commits' /\ clock <= clock' /\ clock' \in Nat
    BY <1>1, UserTyped DEF GitTyped
  <2> QED BY <2>1, <2>2, ScanLeft DEF TypeInv
<1>2. CASE ScanStep
  BY <1>2, ScanStepTyped
<1>3. CASE Reconcile
  <2>1. PICK reflogToo \in BOOLEAN : db' = [db EXCEPT !.events = MarkOrphans(db.events, ReachableCommits(reflogToo))]
    BY <1>3 DEF Reconcile
  <2> DEFINE events == MarkOrphans(db.events, ReachableCommits(reflogToo))
  <2>2. db.events \in Seq(EventRow)
    BY DEF TypeInv, StoreTyped
  <2>3. events \in Seq(EventRow) /\ DOMAIN events = DOMAIN db.events
        /\ \A i \in DOMAIN db.events : events[i].commit = db.events[i].commit /\ events[i].ts = db.events[i].ts
    BY <2>2, MarkOrphansHas
  <2> HIDE DEF events
  <2> QED BY <1>3, <2>1, <2>3, EventsLeft DEF Reconcile, events
<1>4. CASE PruneCmd
  <2>1. PICK cutoff \in 1..(clock - 1), onlyOrphaned \in BOOLEAN :
          db' = [db EXCEPT !.events = PruneEvents(db.events, cutoff, onlyOrphaned)]
    BY <1>4 DEF PruneCmd
  <2> DEFINE events == PruneEvents(db.events, cutoff, onlyOrphaned)
             gone == {i \in DOMAIN db.events : db.events[i].ts < cutoff /\ (db.events[i].orphaned \/ ~onlyOrphaned)}
  <2>2. db.events \in Seq(EventRow)
    BY DEF TypeInv, StoreTyped
  <2>3. events \in Seq(EventRow) /\ \A i \in DOMAIN events : \E j \in DOMAIN db.events : events[i] = db.events[j]
    <3>1. events = Without(db.events, gone)
      BY DEF PruneEvents
    <3> HIDE DEF events, gone
    <3> QED BY <2>2, <3>1, WithoutIsPart
  <2> HIDE DEF events
  <2> QED BY <1>4, <2>1, <2>3, EventsLeft DEF PruneCmd, events
<1>5. CASE PollTags \/ UNCHANGED vars
  <2>1. UNCHANGED <<gitVars, clock, scanVars, storeVars>>
    BY <1>5 DEF PollTags, vars
  <2>2. GitTyped' /\ Commits' = Commits /\ clock' \in Nat /\ clock <= clock'
    BY <2>1 DEF TypeInv, GitTyped, gitVars, Commits
  <2> QED BY <2>1, <2>2, ScanLeft DEF TypeInv
<1> QED BY <1>1, <1>2, <1>3, <1>4, <1>5 DEF Next, UserStep, ScanStep

\* The rows of the store, the commits they name and the order of their times are as the
\* scans and the commands leave them.
THEOREM TimelineTypeCorrect == Spec => []TypeInv
<1>1. Init => TypeInv
  BY InitTypeInv
<1>2. TypeInv /\ [Next]_vars => TypeInv'
  BY NextTypeInv
<1> QED BY <1>1, <1>2, PTL DEF Spec

-----------------------------------------------------------------------------
(* The log explains the sidecar.                                           *)

\* With no rows and no sidecar there is nothing to explain.
LEMMA InitLogInv == Init => LogInv
<1> SUFFICES ASSUME Init PROVE LogInv
  OBVIOUS
<1>1. pc = "idle" /\ db.events = <<>> /\ db.edges = <<>> /\ sidecar = Absent
  BY DEF Init
<1>2. \A s \in Symbol : EventsOf(s) = {} /\ RenamesOf(s) = {}
  BY <1>1 DEF EventsOf, RenamesOf
<1>3. \A s \in Symbol : ~LogSays(s)
  BY <1>2 DEF LogSays
<1>4. DOMAIN LoadSnapshot = {}
  BY <1>1 DEF LoadSnapshot, NoSymbols
<1> QED BY <1>1, <1>3, <1>4 DEF LogInv, RowsTrue, RowsWhole, LogTells

\* Where the scan is as it was and no event is new, its rows are as true as they were.
LEMMA RowsKept ==
  ASSUME RowsTrue, RowsWhole, UNCHANGED <<scanVars, sidecar>>,
         \A i \in DOMAIN db'.events :
           \E j \in DOMAIN db.events : db'.events[i].sym = db.events[j].sym /\ db'.events[i].ts = db.events[j].ts
  PROVE  RowsTrue' /\ RowsWhole'
<1> USE DEF scanVars
<1>1. RowsTrue'
  <2>1. ASSUME pc = "emit", NEW x \in todo.edges, ~x.candidate, NEW i \in Standing' PROVE db'.events[i].sym \notin {x.old, x.new}
    <3>1. PICK j \in DOMAIN db.events : db'.events[i].sym = db.events[j].sym /\ db'.events[i].ts = db.events[j].ts
      BY <2>1 DEF Standing
    <3>2. j \in Standing
      BY <2>1, <3>1 DEF Standing
    <3> QED BY <2>1, <3>1, <3>2 DEF RowsTrue
  <2> QED BY <2>1 DEF RowsTrue
<1>2. RowsWhole'
  BY DEF RowsWhole, LoadSnapshot
<1> QED BY <1>1, <1>2

\* Where the scan is as it was and the log says the same, it tells the same.
LEMMA TellsKept ==
  ASSUME LogTells, UNCHANGED <<scanVars, sidecar, lost>>,
         "deleted" \in regular' => "deleted" \in regular /\ \A s : LogSays(s)' <=> LogSays(s)
  PROVE  LogTells'
BY Zenon DEF LogTells, LoadSnapshot, scanVars

\* The steps that are not the scan's.
LEMMA OtherLogInv ==
  TypeInv /\ LogInv /\ (UserStep \/ Reconcile \/ PruneCmd \/ PollTags \/ UNCHANGED vars) => LogInv'
<1> SUFFICES ASSUME TypeInv, LogInv, UserStep \/ Reconcile \/ PruneCmd \/ PollTags \/ UNCHANGED vars PROVE LogInv'
  OBVIOUS
<1>1. db.events \in Seq(EventRow)
  BY DEF TypeInv, StoreTyped
<1>2. CASE UserStep \/ PollTags \/ UNCHANGED vars
  <2>1. UNCHANGED <<scanVars, storeVars, lost>> /\ ("deleted" \in regular' => "deleted" \in regular)
    <3>1. CASE UserStep
      BY <3>1 DEF UserStep, Edit, GitCommit, GitAmend, GitReset, GitExpire, GitTag, GitUntag, NewCommit, Upsetting, historyVars
    <3>2. CASE PollTags
      BY <3>2 DEF PollTags
    <3>3. CASE UNCHANGED vars
      BY <3>3 DEF vars, historyVars
    <3> QED BY <1>2, <3>1, <3>2, <3>3
  <2>2. db' = db /\ sidecar' = sidecar
    BY <2>1 DEF storeVars
  <2>3. \A s : LogSays(s)' <=> LogSays(s)
    BY <2>2, SameLog
  <2> QED BY <2>1, <2>2, <2>3, RowsKept, TellsKept DEF LogInv
<1>3. CASE Reconcile
  <2>1. PICK reflogToo \in BOOLEAN :
          /\ db' = [db EXCEPT !.events = MarkOrphans(db.events, ReachableCommits(reflogToo))]
          /\ regular' = IF reflogToo THEN regular ELSE regular \ {"reflog"}
    BY <1>3 DEF Reconcile
  <2>2. UNCHANGED <<scanVars, sidecar, lost>> /\ ("deleted" \in regular' => "deleted" \in regular)
    BY <1>3, <2>1 DEF Reconcile
  <2> DEFINE events == MarkOrphans(db.events, ReachableCommits(reflogToo))
  <2>3. DOMAIN events = DOMAIN db.events
        /\ \A i \in DOMAIN db.events : /\ events[i].type = db.events[i].type /\ events[i].sym = db.events[i].sym
                                       /\ events[i].ts = db.events[i].ts
    BY <1>1, MarkOrphansHas
  <2> HIDE DEF events
  <2>4. db'.events = events /\ db'.edges = db.edges
    BY <2>1 DEF TypeInv, StoreTyped, events
  <2>5. \A s : LogSays(s)' <=> LogSays(s)
    BY <2>3, <2>4, SameLog
  <2>6. \A i \in DOMAIN db'.events :
          \E j \in DOMAIN db.events : db'.events[i].sym = db.events[j].sym /\ db'.events[i].ts = db.events[j].ts
    BY <2>3, <2>4
  <2> QED BY <2>2, <2>5, <2>6, RowsKept, TellsKept DEF LogInv
<1>4. CASE PruneCmd
  <2>1. PICK cutoff \in 1..(clock - 1), onlyOrphaned \in BOOLEAN :
          db' = [db EXCEPT !.events = PruneEvents(db.events, cutoff, onlyOrphaned)]
    BY <1>4 DEF PruneCmd
  <2>2. UNCHANGED <<scanVars, sidecar, lost>> /\ "deleted" \notin regular'
    BY <1>4 DEF PruneCmd, Upsetting
  <2> DEFINE gone == {i \in DOMAIN db.events : db.events[i].ts < cutoff /\ (db.events[i].orphaned \/ ~onlyOrphaned)}
  <2>3. db'.events = Without(db.events, gone)
    BY <2>1 DEF PruneEvents, TypeInv, StoreTyped
  <2> HIDE DEF gone
  <2>4. \A i \in DOMAIN db'.events : \E j \in DOMAIN db.events : db'.events[i] = db.events[j]
    BY <1>1, <2>3, WithoutIsPart
  <2>5. \A i \in DOMAIN db'.events :
          \E j \in DOMAIN db.events : db'.events[i].sym = db.events[j].sym /\ db'.events[i].ts = db.events[j].ts
    BY <2>4
  <2> QED BY <2>2, <2>5, RowsKept, TellsKept DEF LogInv
<1> QED BY <1>2, <1>3, <1>4

\* An event is written.
LEMMA WriteEventLogInv == TypeInv /\ LogInv /\ WriteEvent => LogInv'
<1> SUFFICES ASSUME TypeInv, LogInv, WriteEvent PROVE LogInv'
  OBVIOUS
<1> DEFINE row == FirstEvent(todo.events)
           more == AppendEvent(db.events, row)
<1>1. /\ row \in todo.events /\ row \in EventRow /\ row.ts = stamp.ts /\ pc = "emit" /\ pc' = "emit"
      /\ db.events \in Seq(EventRow) /\ db.edges \in Seq(EdgeRow)
  BY FirstEventIn DEF WriteEvent, TypeInv, ScanTyped, StoreTyped
<1>2. /\ db'.events = more /\ db'.edges = db.edges
      /\ todo'.events = todo.events \ {row} /\ todo'.edges = todo.edges
      /\ said' = said \cup {row.sym}
      /\ stamp' = stamp /\ curr' = curr /\ sidecar' = sidecar /\ lost' = lost
      /\ regular' = IF more = Append(db.events, row) THEN regular ELSE regular \ {"deleted"}
  BY DEF WriteEvent, TypeInv, ScanTyped, StoreTyped
<1>3. \A i \in DOMAIN more : more[i] = row \/ \E j \in DOMAIN db.events : more[i] = db.events[j]
  BY <1>1, AppendEventHas
<1> HIDE DEF row, more
<1>4. /\ \A e \in todo.events : e.type # "removed" <=> e.sym \in DOMAIN curr
      /\ \A x \in todo.edges : x.old \notin DOMAIN curr /\ x.new \in DOMAIN curr
      /\ \A e, f \in todo.events : e.sym = f.sym => e = f
      /\ \A x \in todo.edges : ~x.candidate => \A e \in todo.events : e.sym \notin {x.old, x.new}
      /\ \A x \in todo.edges : ~x.candidate => \A i \in Standing : db.events[i].sym \notin {x.old, x.new}
  BY <1>1 DEF LogInv, RowsTrue
<1>5. RowsTrue'
  <2>1. ASSUME NEW x \in todo.edges, ~x.candidate, NEW i \in Standing' PROVE db'.events[i].sym \notin {x.old, x.new}
    <3>1. i \in DOMAIN more /\ more[i].ts = stamp.ts
      BY <1>2, <2>1 DEF Standing
    <3>2. CASE more[i] = row
      BY <1>1, <1>2, <1>4, <2>1, <3>2
    <3>3. CASE more[i] # row
      <4>1. PICK j \in DOMAIN db.events : more[i] = db.events[j]
        BY <1>3, <3>1, <3>3
      <4>2. j \in Standing
        BY <3>1, <4>1 DEF Standing
      <4> QED BY <1>2, <1>4, <2>1, <4>1, <4>2
    <3> QED BY <3>2, <3>3
  <2> QED BY <1>2, <1>4, <2>1 DEF RowsTrue
<1>6. RowsWhole'
  BY <1>1, <1>2 DEF LogInv, RowsWhole, LoadSnapshot
<1>7. LogTells'
  <2>1. SUFFICES ASSUME "deleted" \in regular'
                 PROVE  /\ \A s \in said' : LogSays(s)' <=> s \in DOMAIN curr
                        /\ \A s \in Symbol \ (said' \cup lost) : LogSays(s)' <=> s \in DOMAIN LoadSnapshot
    BY <1>1, <1>2 DEF LogTells, LoadSnapshot
  <2>2. "deleted" \in regular /\ db'.events = Append(db.events, row)
    BY <1>2, <2>1
  <2>3. \A i \in DOMAIN db.edges : db.edges[i].ts <= row.ts
    BY <1>1 DEF TypeInv, StoreTyped
  <2>4. \A s : LogSays(s)' <=> IF s = row.sym THEN row.type # "removed" ELSE LogSays(s)
    BY <1>1, <1>2, <2>2, <2>3, NewEvent
  <2>5. /\ \A s \in said : LogSays(s) <=> s \in DOMAIN curr
        /\ \A s \in Symbol \ (said \cup lost) : LogSays(s) <=> s \in DOMAIN LoadSnapshot
    BY <1>1, <2>2 DEF LogInv, LogTells
  <2>6. row.type # "removed" <=> row.sym \in DOMAIN curr
    BY <1>1, <1>4
  <2> QED BY <1>2, <2>4, <2>5, <2>6
<1> QED BY <1>5, <1>6, <1>7 DEF LogInv

\* A rename edge is written.
LEMMA WriteEdgeLogInv == TypeInv /\ LogInv /\ WriteEdge => LogInv'
<1> SUFFICES ASSUME TypeInv, LogInv, WriteEdge PROVE LogInv'
  OBVIOUS
<1> DEFINE row == FirstEdge(todo.edges)
<1>1. /\ row \in todo.edges /\ row \in EdgeRow /\ row.ts = stamp.ts /\ pc = "emit" /\ pc' = "emit"
      /\ db.events \in Seq(EventRow) /\ db.edges \in Seq(EdgeRow)
  BY FirstEdgeIn DEF WriteEdge, TypeInv, ScanTyped, StoreTyped
<1>2. /\ db'.edges = Append(db.edges, row) /\ db'.events = db.events
      /\ todo'.events = todo.events /\ todo'.edges = todo.edges \ {row}
      /\ said' = IF row.candidate THEN said ELSE said \cup {row.old, row.new}
      /\ stamp' = stamp /\ curr' = curr /\ sidecar' = sidecar /\ lost' = lost /\ regular' = regular
  BY DEF WriteEdge, TypeInv, ScanTyped, StoreTyped, historyVars
<1> HIDE DEF row
<1>3. /\ \A e \in todo.events : e.type # "removed" <=> e.sym \in DOMAIN curr
      /\ \A x \in todo.edges : x.old \notin DOMAIN curr /\ x.new \in DOMAIN curr
      /\ \A e, f \in todo.events : e.sym = f.sym => e = f
      /\ \A x \in todo.edges : ~x.candidate => \A e \in todo.events : e.sym \notin {x.old, x.new}
      /\ \A x \in todo.edges : ~x.candidate => \A i \in Standing : db.events[i].sym \notin {x.old, x.new}
  BY <1>1 DEF LogInv, RowsTrue
<1>4. RowsTrue'
  <2>1. Standing' = Standing
    BY <1>2 DEF Standing
  <2> QED BY <1>2, <1>3, <2>1 DEF RowsTrue
<1>5. RowsWhole'
  BY <1>1, <1>2 DEF LogInv, RowsWhole, LoadSnapshot
<1>6. LogTells'
  <2>1. SUFFICES ASSUME "deleted" \in regular
                 PROVE  /\ \A s \in said' : LogSays(s)' <=> s \in DOMAIN curr
                        /\ \A s \in Symbol \ (said' \cup lost) : LogSays(s)' <=> s \in DOMAIN LoadSnapshot
    BY <1>1, <1>2 DEF LogTells, LoadSnapshot
  <2>2. ASSUME NEW s, NEW i \in EventsOf(s), ~row.candidate, s \in {row.old, row.new} PROVE db.events[i].ts < row.ts
    <3>1. i \in DOMAIN db.events /\ db.events[i].sym = s
      BY DEF EventsOf
    <3>2. i \notin Standing
      BY <1>1, <1>3, <2>2, <3>1
    <3>3. db.events[i].ts <= stamp.ts /\ db.events[i].ts # stamp.ts
      BY <1>1, <3>1, <3>2 DEF TypeInv, StoreTyped, Standing
    <3>4. db.events[i] \in EventRow /\ stamp.ts \in Nat
      BY <1>1, <3>1 DEF TypeInv, ScanTyped
    <3>5. \A e \in EventRow : e.ts \in Nat
      BY DEF EventRow
    <3> QED BY <1>1, <3>3, <3>4, <3>5
  <2>3. \A s : LogSays(s)' <=> IF ~row.candidate /\ s \in {row.old, row.new} THEN s = row.new ELSE LogSays(s)
    BY <1>1, <1>2, <2>2, NewEdge
  <2>4. /\ \A s \in said : LogSays(s) <=> s \in DOMAIN curr
        /\ \A s \in Symbol \ (said \cup lost) : LogSays(s) <=> s \in DOMAIN LoadSnapshot
    BY <1>1, <2>1 DEF LogInv, LogTells
  <2>5. row.old \notin DOMAIN curr /\ row.new \in DOMAIN curr
    BY <1>1, <1>3
  <2> QED BY <1>2, <2>3, <2>4, <2>5
<1> QED BY <1>4, <1>5, <1>6 DEF LogInv

\* A scan begins.
LEMMA BeginLogInv == TypeInv /\ LogInv /\ BeginEmit => LogInv'
<1> SUFFICES ASSUME TypeInv, LogInv, BeginEmit PROVE LogInv'
  OBVIOUS
<1>1. /\ Tells(todo', LoadSnapshot, curr', Head_, clock + 1)
      /\ stamp' = [commit |-> Head_, ts |-> clock + 1] /\ LoadSnapshot \in Snapshots /\ curr' \in Snapshots
  BY Begun
<1>2. /\ pc = "idle" /\ pc' = "emit" /\ said' = {} /\ db' = db /\ sidecar' = sidecar /\ lost' = lost
      /\ "deleted" \in regular' => "deleted" \in regular
  BY DEF BeginEmit, storeVars
<1>3. LoadSnapshot' = LoadSnapshot
  BY <1>2 DEF LoadSnapshot
<1>4. Standing' = {}
  <2>1. \A i \in DOMAIN db.events : db.events[i].ts <= clock /\ db.events[i] \in EventRow
    BY DEF TypeInv, StoreTyped
  <2>2. (\A e \in EventRow : e.ts \in Nat) /\ clock \in Nat
    BY DEF EventRow, TypeInv, GitTyped
  <2>3. stamp'.ts = clock + 1
    BY <1>1
  <2> QED BY <1>2, <2>1, <2>2, <2>3 DEF Standing
<1>5. RowsTrue'
  BY <1>1, <1>4 DEF RowsTrue, Tells
<1>6. RowsWhole'
  BY <1>1, <1>3 DEF RowsWhole, Tells
<1>7. \A s : LogSays(s)' <=> LogSays(s)
  BY <1>2, SameLog
<1>8. LogTells'
  BY <1>2, <1>3, <1>7, Zenon DEF LogInv, LogTells
<1> QED BY <1>5, <1>6, <1>8 DEF LogInv

\* A scan ends, or is cut short.
LEMMA EndLogInv == TypeInv /\ LogInv /\ (TruncateSidecar \/ SaveSidecar \/ UpsertScanState \/ CutShort) => LogInv'
<1> SUFFICES ASSUME TypeInv, LogInv, TruncateSidecar \/ SaveSidecar \/ UpsertScanState \/ CutShort PROVE LogInv'
  OBVIOUS
<1>1. db' = db /\ pc' # "emit" /\ ("deleted" \in regular' => "deleted" \in regular)
  BY DEF TruncateSidecar, SaveSidecar, UpsertScanState, CutShort, storeVars, historyVars, Upsetting
<1>2. RowsTrue' /\ RowsWhole'
  BY <1>1 DEF RowsTrue, RowsWhole
<1>3. \A s : LogSays(s)' <=> LogSays(s)
  BY <1>1, SameLog
<1>4. LogTells'
  <2>1. SUFFICES ASSUME "deleted" \in regular'
                 PROVE  /\ pc' = "save" => \A s \in said' \cup (Symbol \ lost') : LogSays(s) <=> s \in DOMAIN curr'
                        /\ pc' \in {"state", "idle"} => \A s \in Symbol \ lost' : LogSays(s) <=> s \in DOMAIN LoadSnapshot'
    BY <1>1, <1>3, Zenon DEF LogTells
  <2>2. "deleted" \in regular
    BY <1>1, <2>1
  <2>3. CASE TruncateSidecar
    <3>1. pc = "emit" /\ pc' = "save" /\ said' = said /\ lost' = lost /\ curr' = curr /\ todo = NoRows
      BY <2>3 DEF TruncateSidecar, historyVars
    <3>2. \A s \in Symbol : s \notin said => (s \in DOMAIN LoadSnapshot <=> s \in DOMAIN curr)
      BY <3>1 DEF LogInv, RowsWhole, NoRows
    <3> QED BY <2>2, <3>1, <3>2 DEF LogInv, LogTells
  <2>4. CASE SaveSidecar
    <3>1. pc = "save" /\ pc' = "state" /\ lost' = lost \ said /\ sidecar' = curr
      BY <2>4 DEF SaveSidecar
    <3>2. curr # Absent
      BY <3>1, SnapshotTyped DEF TypeInv, ScanTyped
    <3>3. LoadSnapshot' = curr
      BY <3>1, <3>2 DEF LoadSnapshot
    <3> QED BY <2>2, <3>1, <3>3 DEF LogInv, LogTells
  <2>5. CASE UpsertScanState
    <3>1. pc = "state" /\ pc' = "idle" /\ lost' = lost /\ sidecar' = sidecar
      BY <2>5 DEF UpsertScanState
    <3>2. LoadSnapshot' = LoadSnapshot
      BY <3>1 DEF LoadSnapshot
    <3> QED BY <2>2, <3>1, <3>2 DEF LogInv, LogTells
  <2>6. CASE CutShort
    <3>1. pc # "idle" /\ pc' = "idle" /\ sidecar' = sidecar
          /\ lost' = IF pc = "save" THEN Symbol ELSE IF pc = "state" THEN lost ELSE lost \cup said
      BY <2>6 DEF CutShort, storeVars
    <3>2. LoadSnapshot' = LoadSnapshot
      BY <3>1 DEF LoadSnapshot
    <3>3. pc \in {"emit", "save", "state"}
      BY <3>1 DEF TypeInv, ScanTyped
    <3>4. CASE pc = "emit"
      BY <2>2, <3>1, <3>2, <3>4 DEF LogInv, LogTells
    <3>5. CASE pc = "save"
      BY <3>1, <3>5
    <3>6. CASE pc = "state"
      BY <2>2, <3>1, <3>2, <3>6 DEF LogInv, LogTells
    <3> QED BY <3>3, <3>4, <3>5, <3>6
  <2> QED BY <2>3, <2>4, <2>5, <2>6
<1> QED BY <1>2, <1>4 DEF LogInv

\* Every step keeps the log in line with the snapshots.
LEMMA NextLogInv == TypeInv /\ LogInv /\ [Next]_vars => LogInv'
BY OtherLogInv, WriteEventLogInv, WriteEdgeLogInv, BeginLogInv, EndLogInv DEF Next, UserStep

\* Between scans the event log leads to the snapshot the next scan compares with, but for
\* symbols a scan wrote about and was cut short before its sidecar, as long as no event
\* was deleted: for any symbols, similarity, threshold and number of scans and commits.
THEOREM LogIsExplained == Spec => []LogExplainsSidecar
<1>1. Init => TypeInv /\ LogInv
  BY InitTypeInv, InitLogInv
<1>2. (TypeInv /\ LogInv) /\ [Next]_vars => (TypeInv /\ LogInv)'
  BY NextTypeInv, NextLogInv
<1>3. TypeInv /\ LogInv => LogExplainsSidecar
  <2>1. SUFFICES ASSUME TypeInv, LogInv, pc = "idle", "deleted" \in regular, NEW s \in Symbol \ lost
                 PROVE  LogSays(s) <=> (sidecar # Absent /\ s \in DOMAIN sidecar)
    BY DEF LogExplainsSidecar
  <2>2. LogSays(s) <=> s \in DOMAIN LoadSnapshot
    BY <2>1 DEF LogInv, LogTells
  <2>3. s \in DOMAIN LoadSnapshot <=> (sidecar # Absent /\ s \in DOMAIN sidecar)
    BY DEF LoadSnapshot, NoSymbols
  <2> QED BY <2>2, <2>3
<1> QED BY <1>1, <1>2, <1>3, PTL DEF Spec

-----------------------------------------------------------------------------
(* The reflog and the orphans.                                             *)

\* There are no commits at first, and no events.
LEMMA InitOrphanInv == Init => OrphanInv
BY DEF Init, OrphanInv, Commits

\* A new commit is in the reflog as well, and no event is touched.
LEMMA UserOrphanInv == TypeInv /\ OrphanInv /\ UserStep => OrphanInv'
<1> SUFFICES ASSUME TypeInv, OrphanInv, UserStep, "expired" \in regular' PROVE OrphanInv'
  BY DEF OrphanInv
<1>1. db' = db
  BY DEF UserStep, Edit, GitCommit, GitAmend, GitReset, GitExpire, GitTag, GitUntag, NewCommit, storeVars
<1>2. regular' \subseteq regular
  BY DEF UserStep, Edit, GitCommit, GitAmend, GitReset, GitExpire, GitTag, GitUntag, NewCommit, Upsetting, historyVars
<1>3. Commits \subseteq repo.reflog
  BY <1>2 DEF OrphanInv
<1> DEFINE n == Len(repo.commits)
<1>4. n \in Nat /\ repo.commits \in Seq(Commit) /\ Commits = 1..n
  BY DEF TypeInv, GitTyped, Commits
<1>5. ASSUME NEW parent, NewCommit(parent) PROVE Commits' \subseteq repo'.reflog
  <2> DEFINE new == [parent |-> parent, tree |-> work, ts |-> clock + 1]
  <2>1. repo'.commits = Append(repo.commits, new) /\ repo'.reflog = repo.reflog \cup {n + 1}
    BY <1>5 DEF NewCommit, TypeInv, GitTyped
  <2>2. Len(repo'.commits) = n + 1
    BY <1>4, <2>1
  <2>3. Commits' = 1..(n + 1)
    BY <2>2 DEF Commits
  <2> QED BY <1>3, <1>4, <2>1, <2>3
<1>6. ASSUME repo'.commits = repo.commits, repo'.reflog = repo.reflog PROVE Commits' \subseteq repo'.reflog
  BY <1>3, <1>6 DEF Commits
<1>7. Commits' \subseteq repo'.reflog
  <2>1. CASE Edit
    BY <1>6, <2>1 DEF Edit
  <2>2. CASE GitCommit
    BY <1>5, <2>2 DEF GitCommit
  <2>3. CASE GitAmend
    BY <1>5, <2>3 DEF GitAmend
  <2>4. CASE GitReset
    <3>1. repo'.commits = repo.commits /\ repo'.reflog = repo.reflog
      BY <2>4 DEF GitReset, TypeInv, GitTyped
    <3> QED BY <1>6, <3>1
  <2>5. CASE GitExpire
    BY <2>5 DEF GitExpire, Upsetting
  <2>6. CASE GitTag \/ GitUntag
    <3>1. repo'.commits = repo.commits /\ repo'.reflog = repo.reflog
      BY <2>6 DEF GitTag, GitUntag, TypeInv, GitTyped
    <3> QED BY <1>6, <3>1
  <2> QED BY <2>1, <2>2, <2>3, <2>4, <2>5, <2>6 DEF UserStep
<1> QED BY <1>1, <1>2, <1>7 DEF OrphanInv

\* Where the repository is as it was, it is enough that no event has become an orphan.
LEMMA OrphanKept ==
  ASSUME TypeInv, OrphanInv, repo' = repo, regular' \subseteq regular,
         {"expired", "reflog"} \subseteq regular' =>
           \A i \in DOMAIN db'.events :
             db'.events[i].orphaned = FALSE \/ \E j \in DOMAIN db.events : db'.events[i] = db.events[j]
  PROVE  OrphanInv'
<1>1. Commits' = Commits
  BY DEF Commits
<1> QED BY <1>1 DEF OrphanInv

\* Every step leaves the events of named commits unmarked.
LEMMA NextOrphanInv == TypeInv /\ OrphanInv /\ [Next]_vars => OrphanInv'
<1> SUFFICES ASSUME TypeInv, OrphanInv, [Next]_vars PROVE OrphanInv'
  OBVIOUS
<1>1. db.events \in Seq(EventRow)
  BY DEF TypeInv, StoreTyped
<1>2. CASE UserStep
  BY <1>2, UserOrphanInv
<1>3. CASE WriteEvent
  <2> DEFINE row == FirstEvent(todo.events)
             more == AppendEvent(db.events, row)
  <2>1. row \in EventRow /\ row.orphaned = FALSE
    BY <1>3, FirstEventIn DEF WriteEvent, TypeInv, ScanTyped
  <2>2. db'.events = more /\ repo' = repo /\ regular' \subseteq regular
    BY <1>3 DEF WriteEvent, gitVars, TypeInv, StoreTyped
  <2>3. \A i \in DOMAIN more : more[i] = row \/ \E j \in DOMAIN db.events : more[i] = db.events[j]
    BY <1>1, <2>1, AppendEventHas
  <2> HIDE DEF row, more
  <2> QED BY <2>1, <2>2, <2>3, OrphanKept
<1>4. CASE Reconcile
  <2>1. PICK reflogToo \in BOOLEAN :
          /\ db' = [db EXCEPT !.events = MarkOrphans(db.events, ReachableCommits(reflogToo))]
          /\ regular' = IF reflogToo THEN regular ELSE regular \ {"reflog"}
    BY <1>4 DEF Reconcile
  <2> DEFINE shas == ReachableCommits(reflogToo)
             marked == MarkOrphans(db.events, shas)
  <2>2. db'.events = marked /\ repo' = repo /\ regular' \subseteq regular
    BY <1>4, <2>1 DEF Reconcile, gitVars, TypeInv, StoreTyped
  <2>3. ASSUME {"expired", "reflog"} \subseteq regular', NEW i \in DOMAIN marked PROVE i \in DOMAIN db.events /\ marked[i] = db.events[i]
    <3>1. reflogToo = TRUE /\ "expired" \in regular
      BY <2>1, <2>3
    <3>2. repo.reflog \subseteq shas
      BY <3>1 DEF ReachableCommits
    <3>3. Commits \subseteq shas
      BY <3>1, <3>2 DEF OrphanInv
    <3> HIDE DEF shas
    <3>4. DOMAIN marked = DOMAIN db.events
          /\ \A j \in DOMAIN db.events : db.events[j].commit \in shas \cup {Absent} => marked[j] = db.events[j]
      BY <1>1, MarkOrphansHas
    <3>5. db.events[i].commit \in Commits \cup {Absent}
      BY <2>3, <3>4 DEF TypeInv, StoreTyped
    <3> QED BY <2>3, <3>3, <3>4, <3>5
  <2> HIDE DEF marked
  <2> QED BY <2>2, <2>3, OrphanKept
<1>5. CASE PruneCmd
  <2>1. PICK cutoff \in 1..(clock - 1), onlyOrphaned \in BOOLEAN :
          db' = [db EXCEPT !.events = PruneEvents(db.events, cutoff, onlyOrphaned)]
    BY <1>5 DEF PruneCmd
  <2>2. repo' = repo /\ regular' \subseteq regular
    BY <1>5 DEF PruneCmd, Upsetting, gitVars
  <2> DEFINE gone == {i \in DOMAIN db.events : db.events[i].ts < cutoff /\ (db.events[i].orphaned \/ ~onlyOrphaned)}
  <2>3. db'.events = Without(db.events, gone)
    BY <2>1 DEF PruneEvents, TypeInv, StoreTyped
  <2> HIDE DEF gone
  <2>4. \A i \in DOMAIN db'.events : \E j \in DOMAIN db.events : db'.events[i] = db.events[j]
    BY <1>1, <2>3, WithoutIsPart
  <2> QED BY <2>2, <2>4, OrphanKept
<1>6. CASE BeginEmit \/ WriteEdge \/ TruncateSidecar \/ SaveSidecar \/ UpsertScanState \/ CutShort \/ PollTags \/ UNCHANGED vars
  <2>1. db'.events = db.events /\ repo' = repo
    BY <1>6 DEF BeginEmit, WriteEdge, TruncateSidecar, SaveSidecar, UpsertScanState, CutShort, PollTags, vars, storeVars,
                gitVars, TypeInv, StoreTyped
  <2>2. regular' \subseteq regular
    BY <1>6 DEF BeginEmit, WriteEdge, TruncateSidecar, SaveSidecar, UpsertScanState, CutShort, PollTags, vars, historyVars,
                Upsetting
  <2> QED BY <2>1, <2>2, OrphanKept
<1> QED BY <1>2, <1>3, <1>4, <1>5, <1>6 DEF Next, UserStep

\* While the reflog is whole and was read, no event of a commit that HEAD or a tag reaches
\* is marked orphaned, however history was rewritten: no event is, since the reflog names
\* every commit.
THEOREM LiveIsNotOrphaned == Spec => []LiveNotOrphaned
<1>1. Init => TypeInv /\ OrphanInv
  BY InitTypeInv, InitOrphanInv
<1>2. (TypeInv /\ OrphanInv) /\ [Next]_vars => (TypeInv /\ OrphanInv)'
  BY NextTypeInv, NextOrphanInv
<1>3. TypeInv /\ OrphanInv => LiveNotOrphaned
  BY DEF OrphanInv, LiveNotOrphaned
<1> QED BY <1>1, <1>2, <1>3, PTL DEF Spec

-----------------------------------------------------------------------------
(* The snapshots of the tags.                                              *)

\* Rows of one tag, at most one for a commit.
RowsFor(rows, t) ==
  /\ rows \subseteq Anchor
  /\ \A row \in rows : row.tag = t
  /\ \A row, other \in rows : row.sha = other.sha => row = other

\* The valid ones are those of the commit, once the others are invalidated.
LEMMA InvalidateHas ==
  ASSUME NEW t \in Tag, NEW sha, NEW rows, RowsFor(rows, t)
  PROVE  LET left == InvalidateExistingTag(rows, t, sha)
         IN  /\ RowsFor(left, t)
             /\ \A row \in left : row.sha = sha => row \in rows
             /\ \A row \in left : row.sha # sha => row.invalidated
<1> DEFINE left == InvalidateExistingTag(rows, t, sha)
           New(row) == IF row.tag = t /\ row.sha # sha THEN [row EXCEPT !.invalidated = TRUE] ELSE row
<1>1. left = {New(row) : row \in rows}
  BY DEF InvalidateExistingTag
<1>2. \A row \in rows : row \in Anchor /\ row.tag = t
  BY DEF RowsFor
<1>3. ASSUME NEW row \in rows
      PROVE  /\ New(row) \in Anchor /\ New(row).tag = t /\ New(row).sha = row.sha
             /\ row.sha = sha => New(row) = row
             /\ row.sha # sha => New(row).invalidated
  BY <1>2 DEF Anchor
<1> HIDE DEF left, New
<1>4. \A row, other \in rows : row.sha = other.sha => row = other
  BY DEF RowsFor
<1>5. \A row, other \in left : row.sha = other.sha => row = other
  <2>1. SUFFICES ASSUME NEW p \in rows, NEW q \in rows, New(p).sha = New(q).sha PROVE New(p) = New(q)
    BY <1>1
  <2>2. p = q
    BY <1>3, <1>4, <2>1
  <2> QED BY <2>2
<1>6. RowsFor(left, t)
  BY <1>1, <1>3, <1>5 DEF RowsFor
<1> QED BY <1>1, <1>3, <1>6 DEF left

\* A tag that is new, or whose row of this commit is not invalidated, has this one valid
\* row when it is handled.
LEMMA HandleHas ==
  ASSUME NEW t \in Tag, NEW sha \in Nat, NEW rows, RowsFor(rows, t), TypeInv
  PROVE  LET handled == HandleTagEvent(rows, t, sha)
         IN  /\ RowsFor(handled, t)
             /\ (known[t] = Absent => rows = {}) /\ (\A row \in rows : row.sha = sha => ~row.invalidated) =>
                  /\ \A row \in handled : row.sha = sha => ~row.invalidated
                  /\ \E row \in handled : {r \in handled : ~r.invalidated} = {row}
<1> DEFINE left == IF known[t] = Absent THEN rows ELSE InvalidateExistingTag(rows, t, sha)
           new == [tag |-> t, sha |-> sha, symbols |-> DOMAIN LoadSnapshot, invalidated |-> FALSE]
           handled == HandleTagEvent(rows, t, sha)
<1>1. /\ RowsFor(left, t)
      /\ \A row \in left : row.sha = sha => row \in rows
      /\ (known[t] = Absent => rows = {}) => \A row \in left : row.sha # sha => row.invalidated
  <2>1. CASE known[t] = Absent
    BY <2>1
  <2>2. CASE known[t] # Absent
    BY <2>2, InvalidateHas
  <2> QED BY <2>1, <2>2
<1>2. handled = IF \E row \in left : row.tag = t /\ row.sha = sha THEN left ELSE left \cup {new}
  BY DEF HandleTagEvent, BuildReleaseSnapshot
<1>3. new \in Anchor /\ new.tag = t /\ new.sha = sha /\ new.invalidated = FALSE
  <2>1. DOMAIN LoadSnapshot \in SUBSET Symbol
    BY SnapshotTyped, NoSymbolsIsSnapshot DEF LoadSnapshot, TypeInv, ScanTyped
  <2> HIDE DEF LoadSnapshot
  <2> QED BY <2>1 DEF Anchor
<1> HIDE DEF left, new, handled
<1>4. \A row \in left : row.tag = t
  BY <1>1 DEF RowsFor
<1>5. RowsFor(handled, t)
  <2>1. CASE \E row \in left : row.sha = sha
    BY <1>1, <1>2, <1>4, <2>1
  <2>2. CASE ~\E row \in left : row.sha = sha
    BY <1>1, <1>2, <1>3, <2>2 DEF RowsFor
  <2> QED BY <2>1, <2>2
<1>6. ASSUME known[t] = Absent => rows = {}, \A row \in rows : row.sha = sha => ~row.invalidated
      PROVE  /\ \A row \in handled : row.sha = sha <=> ~row.invalidated
             /\ \E row \in handled : {r \in handled : ~r.invalidated} = {row}
  <2>1. \A row \in left : row.sha = sha <=> ~row.invalidated
    BY <1>1, <1>6
  <2>2. \A row \in handled : row.sha = sha <=> ~row.invalidated
    BY <1>2, <1>3, <2>1
  <2>3. \E row \in handled : row.sha = sha
    BY <1>2, <1>3
  <2>4. \A row, other \in handled : row.sha = other.sha => row = other
    BY <1>5 DEF RowsFor
  <2>5. PICK row \in handled : row.sha = sha
    BY <2>3
  <2>6. {r \in handled : ~r.invalidated} = {row}
    BY <2>2, <2>4, <2>5
  <2> QED BY <2>2, <2>6
<1> QED BY <1>5, <1>6 DEF handled

\* No tag is there at first, known or with a snapshot.
LEMMA InitAnchor == Init => AnchorTyped /\ AnchorInv
<1> SUFFICES ASSUME Init PROVE AnchorTyped /\ AnchorInv
  OBVIOUS
<1>1. anchors = {} /\ known = [t \in Tag |-> Absent] /\ repo.tags = [t \in Tag |-> Absent]
  BY DEF Init
<1>2. \A t \in Tag : RowsOf(anchors, t) = {}
  BY <1>1 DEF RowsOf
<1> QED BY <1>1, <1>2 DEF AnchorTyped, AnchorInv

\* The rows of a tag are of that tag, at most one for a commit.
LEMMA RowsOfAnchors == AnchorTyped => \A t \in Tag : RowsFor(RowsOf(anchors, t), t)
BY DEF AnchorTyped, RowsFor, RowsOf

\* A poll handles the rows of the tags that changed, tag by tag.
LEMMA Polled ==
  ASSUME TypeInv, AnchorTyped, PollTags
  PROVE  \E gitUp \in BOOLEAN, keeps \in BOOLEAN :
           LET current == ListGitTags(gitUp)
               fired   == {t \in Tag : current[t] # Absent /\ current[t] # known[t]}
           IN  /\ current \in [Tag -> Nat \cup {Absent}]
               /\ known' = IF keeps THEN current ELSE known
               /\ "retagged" \in regular' => /\ "retagged" \in regular
                                             /\ \A t \in Tag : known[t] # Absent => known'[t] # Absent
                                             /\ keeps \/ \A t \in fired : known[t] # Absent
               /\ \A t \in Tag :
                    /\ RowsFor(RowsOf(anchors, t)', t)
                    /\ RowsOf(anchors, t)' = IF t \in fired THEN HandleTagEvent(RowsOf(anchors, t), t, current[t])
                                             ELSE RowsOf(anchors, t)
               /\ anchors' \subseteq Anchor /\ \A row \in anchors' : row.tag \in Tag
<1>1. PICK gitUp \in BOOLEAN, keeps \in BOOLEAN :
        LET current == ListGitTags(gitUp)
            fired   == {t \in Tag : current[t] # Absent /\ current[t] # known[t]}
        IN  /\ anchors' = UNION {IF t \in fired THEN HandleTagEvent(RowsOf(anchors, t), t, current[t])
                                 ELSE RowsOf(anchors, t) : t \in Tag}
            /\ known' = IF keeps THEN current ELSE known
            /\ regular' = IF /\ \A t \in Tag : known[t] # Absent => known'[t] # Absent
                             /\ keeps \/ \A t \in fired : known[t] # Absent
                          THEN regular ELSE regular \ {"retagged"}
  BY DEF PollTags
<1> DEFINE current == ListGitTags(gitUp)
           fired == {t \in Tag : current[t] # Absent /\ current[t] # known[t]}
           RowsNow(t) == IF t \in fired THEN HandleTagEvent(RowsOf(anchors, t), t, current[t]) ELSE RowsOf(anchors, t)
<1>2. current \in [Tag -> Nat \cup {Absent}]
  BY DEF ListGitTags, TypeInv, GitTyped
<1>3. ASSUME NEW t \in Tag PROVE RowsFor(RowsNow(t), t)
  <2>1. RowsFor(RowsOf(anchors, t), t)
    BY RowsOfAnchors
  <2>2. CASE t \in fired
    <3>1. current[t] \in Nat
      BY <1>2, <2>2
    <3>2. RowsFor(HandleTagEvent(RowsOf(anchors, t), t, current[t]), t)
      BY <2>1, <3>1, HandleHas
    <3> QED BY <2>2, <3>2
  <2>3. CASE t \notin fired
    BY <2>1, <2>3
  <2> QED BY <2>2, <2>3
<1>4. anchors' = UNION {RowsNow(t) : t \in Tag}
  BY <1>1
<1>5. known' = (IF keeps THEN current ELSE known)
      /\ ("retagged" \in regular' => /\ "retagged" \in regular
                                     /\ \A t \in Tag : known[t] # Absent => known'[t] # Absent
                                     /\ keeps \/ \A t \in fired : known[t] # Absent)
  BY <1>1
<1> HIDE DEF current, fired, RowsNow
<1>6. ASSUME NEW t \in Tag PROVE RowsOf(anchors, t)' = RowsNow(t)
  BY <1>3, <1>4 DEF RowsOf, RowsFor
<1>7. anchors' \subseteq Anchor /\ \A row \in anchors' : row.tag \in Tag
  BY <1>3, <1>4 DEF RowsFor
<1> QED BY <1>2, <1>3, <1>5, <1>6, <1>7 DEF current, fired, RowsNow

\* A poll leaves each tag it sees one valid snapshot, of the commit it is on.
LEMMA PollAnchor == TypeInv /\ AnchorTyped /\ AnchorInv /\ PollTags => AnchorTyped' /\ AnchorInv'
<1> SUFFICES ASSUME TypeInv, AnchorTyped, AnchorInv, PollTags PROVE AnchorTyped' /\ AnchorInv'
  OBVIOUS
<1>1. PICK gitUp \in BOOLEAN, keeps \in BOOLEAN :
        LET current == ListGitTags(gitUp)
            fired   == {t \in Tag : current[t] # Absent /\ current[t] # known[t]}
        IN  /\ current \in [Tag -> Nat \cup {Absent}]
            /\ known' = IF keeps THEN current ELSE known
            /\ "retagged" \in regular' => /\ "retagged" \in regular
                                          /\ \A t \in Tag : known[t] # Absent => known'[t] # Absent
                                          /\ keeps \/ \A t \in fired : known[t] # Absent
            /\ \A t \in Tag :
                 /\ RowsFor(RowsOf(anchors, t)', t)
                 /\ RowsOf(anchors, t)' = IF t \in fired THEN HandleTagEvent(RowsOf(anchors, t), t, current[t])
                                          ELSE RowsOf(anchors, t)
            /\ anchors' \subseteq Anchor /\ \A row \in anchors' : row.tag \in Tag
  BY Polled
<1> DEFINE current == ListGitTags(gitUp)
           fired == {t \in Tag : current[t] # Absent /\ current[t] # known[t]}
<1>2. AnchorTyped'
  <2>1. ASSUME NEW row \in anchors', NEW other \in anchors', row.tag = other.tag, row.sha = other.sha PROVE row = other
    <3>1. row \in RowsOf(anchors, row.tag)' /\ other \in RowsOf(anchors, row.tag)' /\ row.tag \in Tag
      BY <1>1, <2>1 DEF RowsOf
    <3>2. RowsFor(RowsOf(anchors, row.tag)', row.tag)
      BY <1>1, <3>1
    <3> QED BY <2>1, <3>1, <3>2 DEF RowsFor
  <2>2. known' \in [Tag -> Nat \cup {Absent}]
    BY <1>1 DEF AnchorTyped
  <2> QED BY <1>1, <2>1, <2>2 DEF AnchorTyped
<1>3. ASSUME "retagged" \in regular', NEW t \in Tag
      PROVE  /\ known'[t] = Absent => RowsOf(anchors, t)' = {}
             /\ known'[t] # Absent => \E row \in RowsOf(anchors, t)' : Valid(t)' = {row}
             /\ \A row \in RowsOf(anchors, t)' : row.sha = repo'.tags[t] => ~row.invalidated
  <2> DEFINE rows == RowsOf(anchors, t)
  <2>1. /\ "retagged" \in regular /\ repo' = repo
        /\ current[t] = Absent \/ current[t] = repo.tags[t]
        /\ known[t] # Absent => known'[t] # Absent
        /\ keeps \/ \A u \in fired : known[u] # Absent
        /\ known' = IF keeps THEN current ELSE known
        /\ rows' = IF t \in fired THEN HandleTagEvent(rows, t, current[t]) ELSE rows
        /\ current[t] \in Nat \cup {Absent}
    BY <1>1, <1>3 DEF ListGitTags, PollTags, gitVars
  <2>2. /\ known[t] = Absent => rows = {}
        /\ known[t] # Absent => \E row \in rows : {r \in rows : ~r.invalidated} = {row}
        /\ \A row \in rows : row.sha = repo.tags[t] => ~row.invalidated
    BY <2>1 DEF AnchorInv, Valid
  <2>3. RowsFor(rows, t)
    BY RowsOfAnchors
  <2>4. Valid(t)' = {r \in rows' : ~r.invalidated}
    BY DEF Valid
  <2> HIDE DEF rows
  <2>5. CASE t \in fired
    <3>1. current[t] \in Nat /\ current[t] # Absent /\ current[t] = repo.tags[t]
      BY <2>1, <2>5
    <3>2. /\ \A row \in rows' : row.sha = current[t] => ~row.invalidated
          /\ \E row \in rows' : {r \in rows' : ~r.invalidated} = {row}
      <4>1. \A row \in rows : row.sha = current[t] => ~row.invalidated
        BY <2>2, <3>1
      <4> QED BY <2>1, <2>2, <2>3, <2>5, <3>1, <4>1, HandleHas
    <3>3. known'[t] # Absent
      BY <2>1, <2>5, <3>1
    <3> QED BY <2>1, <2>4, <3>1, <3>2, <3>3 DEF rows
  <2>6. CASE t \notin fired
    <3>1. rows' = rows
      BY <2>1, <2>6
    <3>2. current[t] = Absent \/ current[t] = known[t]
      BY <2>6
    <3>3. known'[t] = Absent => known[t] = Absent
      BY <2>1
    <3>4. known'[t] # Absent => known[t] # Absent
      BY <2>1, <3>2
    <3> QED BY <2>1, <2>2, <2>4, <3>1, <3>3, <3>4 DEF rows
  <2> QED BY <2>5, <2>6
<1> QED BY <1>2, <1>3 DEF AnchorInv

\* The other steps leave the rows and what is known of the tags alone; only a new tag, a
\* moved or a deleted one is seen by the next poll.
LEMMA OtherAnchor == TypeInv /\ AnchorTyped /\ AnchorInv /\ [Next]_vars /\ ~PollTags => AnchorTyped' /\ AnchorInv'
<1> SUFFICES ASSUME TypeInv, AnchorTyped, AnchorInv, [Next]_vars, ~PollTags PROVE AnchorTyped' /\ AnchorInv'
  OBVIOUS
<1>1. anchors' = anchors /\ known' = known
  BY DEF Next, Edit, GitCommit, GitAmend, GitReset, GitExpire, GitTag, GitUntag, NewCommit, BeginEmit, WriteEvent, WriteEdge,
         TruncateSidecar, SaveSidecar, UpsertScanState, CutShort, Reconcile, PruneCmd, vars, tagVars
<1>2. AnchorTyped'
  BY <1>1 DEF AnchorTyped
<1>3. "retagged" \in regular' => "retagged" \in regular
  BY DEF Next, Edit, GitCommit, GitAmend, GitReset, GitExpire, GitTag, GitUntag, NewCommit, BeginEmit, WriteEvent, WriteEdge,
         TruncateSidecar, SaveSidecar, UpsertScanState, CutShort, Reconcile, PruneCmd, vars, historyVars, Upsetting
<1>4. \A t : RowsOf(anchors, t)' = RowsOf(anchors, t) /\ Valid(t)' = Valid(t)
  BY <1>1 DEF RowsOf, Valid
<1>5. CASE GitTag
  <2>1. PICK t \in Tag :
          /\ repo.head # 0 /\ repo' = [repo EXCEPT !.tags[t] = repo.head]
          /\ regular' = IF \E row \in anchors : row.tag = t /\ row.sha = repo.head /\ row.invalidated
                        THEN regular \ {"retagged"} ELSE regular
    BY <1>5 DEF GitTag
  <2>2. repo'.tags = [repo.tags EXCEPT ![t] = repo.head] /\ repo.head \in Nat /\ DOMAIN repo.tags = Tag
    BY <2>1 DEF TypeInv, GitTyped
  <2>3. repo'.tags[t] = repo.head /\ repo.head # Absent /\ \A u \in Tag : u # t => repo'.tags[u] = repo.tags[u]
    BY <2>2, AbsentAssumption
  <2>4. "retagged" \in regular' => \A row \in RowsOf(anchors, t) : row.sha = repo.head => ~row.invalidated
    BY <2>1 DEF RowsOf
  <2>5. ASSUME "retagged" \in regular', NEW u \in Tag
        PROVE  /\ known'[u] = Absent => RowsOf(anchors, u)' = {}
               /\ known'[u] # Absent => \E row \in RowsOf(anchors, u)' : Valid(u)' = {row}
               /\ \A row \in RowsOf(anchors, u)' : row.sha = repo'.tags[u] => ~row.invalidated
    <3>1. /\ known[u] = Absent => RowsOf(anchors, u) = {}
          /\ known[u] # Absent => \E row \in RowsOf(anchors, u) : Valid(u) = {row}
          /\ \A row \in RowsOf(anchors, u) : row.sha = repo.tags[u] => ~row.invalidated
      BY <1>3, <2>5 DEF AnchorInv
    <3>2. CASE u = t
      BY <1>1, <1>4, <2>3, <2>4, <2>5, <3>1, <3>2
    <3>3. CASE u # t
      BY <1>1, <1>4, <2>3, <3>1, <3>3
    <3> QED BY <3>2, <3>3
  <2> QED BY <1>2, <2>5 DEF AnchorInv
<1>6. CASE GitUntag
  <2>1. PICK t \in Tag : repo' = [repo EXCEPT !.tags[t] = Absent]
    BY <1>6 DEF GitUntag
  <2>2. repo'.tags[t] = Absent /\ \A u \in Tag : u # t => repo'.tags[u] = repo.tags[u]
    BY <2>1 DEF TypeInv, GitTyped
  <2>3. \A row \in RowsOf(anchors, t) : row.sha # Absent
    <3>1. \A row \in RowsOf(anchors, t) : row.sha \in Nat
      BY DEF AnchorTyped, Anchor, RowsOf
    <3> QED BY <3>1, AbsentAssumption
  <2>4. ASSUME "retagged" \in regular', NEW u \in Tag, NEW row \in RowsOf(anchors, u), row.sha = repo'.tags[u]
        PROVE  ~row.invalidated
    <3>1. u # t
      BY <2>2, <2>3, <2>4
    <3> QED BY <1>3, <2>2, <2>4, <3>1 DEF AnchorInv
  <2> QED BY <1>1, <1>2, <1>3, <1>4, <2>4 DEF AnchorInv
<1>7. CASE ~(GitTag \/ GitUntag)
  <2>1. repo'.tags = repo.tags
    <3>1. CASE UserStep
      BY <1>7, <3>1 DEF UserStep, Edit, GitCommit, GitAmend, GitReset, GitExpire, NewCommit, TypeInv, GitTyped
    <3>2. CASE ~UserStep
      BY <3>2 DEF Next, UserStep, BeginEmit, WriteEvent, WriteEdge, TruncateSidecar, SaveSidecar, UpsertScanState,
                  CutShort, Reconcile, PruneCmd, vars, gitVars
    <3> QED BY <3>1, <3>2
  <2> QED BY <1>1, <1>2, <1>3, <1>4, <2>1 DEF AnchorInv
<1> QED BY <1>5, <1>6, <1>7

\* A tag that was seen has exactly one valid snapshot, as long as it is not put on a commit
\* whose snapshot was invalidated and no poll loses its first sighting or forgets it, as one
\* does that finds it deleted or cannot reach git: for any tags, commits and order of scans,
\* polls, moved and deleted tags and rewrites of history.
THEOREM OneAnchorIsValid == Spec => []OneAnchorPerTag
<1> DEFINE Inv == TypeInv /\ AnchorTyped /\ AnchorInv
<1>1. Init => Inv
  BY InitTypeInv, InitAnchor
<1>2. Inv /\ [Next]_vars => Inv'
  BY NextTypeInv, PollAnchor, OtherAnchor
<1>3. Inv => OneAnchorPerTag
  BY DEF AnchorInv, OneAnchorPerTag, Valid
<1> QED BY <1>1, <1>2, <1>3, PTL DEF Spec

-----------------------------------------------------------------------------
(* The order of an answer.                                                 *)

\* before says which members of a finite set stand before each, as a total order does.
Orders(before) ==
  LET D == DOMAIN before
  IN  /\ IsFiniteSet(D)
      /\ \A i \in D : before[i] \subseteq D \ {i}
      /\ \A i, j \in D : i # j => i \in before[j] \/ j \in before[i]
      /\ \A i, j \in D : i \in before[j] => before[i] \subseteq before[j]

\* Each member has a place of its own.
LEMMA OrderedIs ==
  ASSUME NEW before, Orders(before)
  PROVE  /\ Cardinality(DOMAIN before) \in Nat
         /\ Ordered(before) \in [1..Cardinality(DOMAIN before) -> DOMAIN before]
         /\ \A i \in DOMAIN before : \E m \in 1..Cardinality(DOMAIN before) : Ordered(before)[m] = i
<1> DEFINE D == DOMAIN before
           n == Cardinality(D)
           F == [i \in D |-> Cardinality(before[i])]
<1>1. n \in Nat /\ IsFiniteSet(D)
  BY FS_CardinalityType DEF Orders
<1>2. /\ \A i \in D : before[i] \subseteq D \ {i}
      /\ \A i, j \in D : i # j => i \in before[j] \/ j \in before[i]
      /\ \A i, j \in D : i \in before[j] => before[i] \subseteq before[j]
  BY DEF Orders
<1> HIDE DEF D, n
<1>3. ASSUME NEW i \in D
      PROVE  IsFiniteSet(before[i]) /\ F[i] = Cardinality(before[i]) /\ F[i] \in 0..(n - 1)
  <2>1. before[i] \subseteq D \ {i}
    BY <1>2
  <2>2. IsFiniteSet(D \ {i}) /\ Cardinality(D \ {i}) = n - 1
    BY <1>1, FS_RemoveElement DEF n
  <2>3. IsFiniteSet(before[i]) /\ Cardinality(before[i]) \in Nat /\ Cardinality(before[i]) <= n - 1
    BY <2>1, <2>2, FS_Subset, FS_CardinalityType
  <2> QED BY <1>1, <2>3
<1>4. ASSUME NEW i \in D, NEW j \in D, i \in before[j]
      PROVE  F[i] < F[j]
  <2>1. before[i] \cup {i} \subseteq before[j] /\ i \notin before[i]
    BY <1>2, <1>4
  <2>2. IsFiniteSet(before[i]) /\ IsFiniteSet(before[j])
    BY <1>3
  <2>3. Cardinality(before[i] \cup {i}) = Cardinality(before[i]) + 1
    BY <2>1, <2>2, FS_AddElement
  <2>4. Cardinality(before[i] \cup {i}) <= Cardinality(before[j])
    BY <2>1, <2>2, FS_Subset
  <2>5. F[i] \in Nat /\ F[j] \in Nat /\ F[i] = Cardinality(before[i]) /\ F[j] = Cardinality(before[j])
    BY <1>1, <1>3
  <2> HIDE DEF F
  <2> QED BY <2>3, <2>4, <2>5
<1>5. \A i, j \in D : F[i] = F[j] => i = j
  <2>1. SUFFICES ASSUME NEW i \in D, NEW j \in D, i # j PROVE F[i] # F[j]
    BY Zenon
  <2>2. F[i] \in Nat /\ F[j] \in Nat
    BY <1>1, <1>3
  <2>3. F[i] < F[j] \/ F[j] < F[i]
    BY <1>2, <1>4, <2>1
  <2> HIDE DEF F
  <2> QED BY <2>2, <2>3
<1>6. \A k \in 0..(n - 1) : \E i \in D : F[i] = k
  <2>1. F \in [D -> 0..(n - 1)]
    BY <1>3
  <2>2. /\ IsFiniteSet(0..(n - 1))
        /\ Cardinality(0..(n - 1)) = n
    <3>1. /\ IsFiniteSet(0..(n - 1))
          /\ Cardinality(0..(n - 1)) = IF 0 > n - 1 THEN 0 ELSE (n - 1) - 0 + 1
      BY <1>1, FS_Interval
    <3> QED BY <1>1, <3>1
  <2> HIDE DEF F
  <2>3. F \in Injection(D, 0..(n - 1))
    BY <1>5, <2>1 DEF Injection, IsInjective
  <2>4. F \in Surjection(D, 0..(n - 1))
    BY <1>1, <2>2, <2>3, FS_Injection DEF n
  <2> QED BY <2>4 DEF Surjection
<1>7. Ordered(before) = [m \in 1..n |-> CHOOSE i \in D : Cardinality(before[i]) = m - 1]
  BY DEF Ordered, D, n
<1>8. \A m \in 1..n : Ordered(before)[m] \in D /\ F[Ordered(before)[m]] = m - 1
  <2>1. SUFFICES ASSUME NEW m \in 1..n PROVE Ordered(before)[m] \in D /\ F[Ordered(before)[m]] = m - 1
    OBVIOUS
  <2>2. PICK i \in D : F[i] = m - 1
    BY <1>1, <1>6
  <2>3. Cardinality(before[i]) = m - 1
    BY <2>2
  <2> QED BY <1>7, <2>3
<1>9. ASSUME NEW i \in D
      PROVE  \E m \in 1..n : Ordered(before)[m] = i
  <2>1. F[i] \in 0..(n - 1) /\ F[i] + 1 \in 1..n
    BY <1>1, <1>3
  <2>2. Ordered(before)[F[i] + 1] \in D /\ F[Ordered(before)[F[i] + 1]] = F[i]
    BY <1>8, <2>1
  <2> QED BY <1>5, <2>1, <2>2
<1>10. Ordered(before) \in [1..n -> D]
  BY <1>7, <1>8
<1> QED BY <1>1, <1>9, <1>10 DEF D, n

\* The smaller of two numbers.
LEMMA MinOfTwo == ASSUME NEW m \in Nat, NEW n \in Nat PROVE Min({m, n}) = IF m <= n THEN m ELSE n
<1>1. Min({m, n}) = CHOOSE x \in {m, n} : \A y \in {m, n} : x <= y
  BY DEF Min
<1>2. \E x \in {m, n} : \A y \in {m, n} : x <= y
  OBVIOUS
<1>3. Min({m, n}) \in {m, n} /\ \A y \in {m, n} : Min({m, n}) <= y
  BY <1>1, <1>2
<1> QED BY <1>3

\* The first rows of a table are rows of it, at most so many, and all if there are no more.
LEMMA FirstIs ==
  ASSUME NEW R, NEW rows \in Seq(R), NEW n \in Nat
  PROVE  /\ First(n, rows) \in Seq(R) /\ Len(First(n, rows)) <= Len(rows)
         /\ \A i \in DOMAIN First(n, rows) : i \in DOMAIN rows /\ First(n, rows)[i] = rows[i]
         /\ Len(rows) <= n => DOMAIN First(n, rows) = DOMAIN rows
         /\ Len(rows) # 0 /\ n # 0 => Len(First(n, rows)) # 0
<1> DEFINE len == Len(rows)
           m == Min({n, len})
           f == SubSeq(rows, 1, m)
<1>1. len \in Nat
  OBVIOUS
<1>2. DOMAIN rows = 1..len /\ \A i \in 1..len : rows[i] \in R
  OBVIOUS
<1> HIDE DEF len
<1>3. m = IF n <= len THEN n ELSE len
  BY <1>1, MinOfTwo
<1> HIDE DEF m
<1>4. m \in Nat /\ m <= len /\ (len <= n => m = len) /\ (len # 0 /\ n # 0 => m # 0)
  BY <1>1, <1>3
<1>5. \A i \in 1..m : rows[i] \in R
  BY <1>1, <1>2, <1>4
<1>6. /\ f \in Seq(R)
      /\ Len(f) = IF 1 <= m THEN m - 1 + 1 ELSE 0
      /\ \A i \in 1..(m - 1 + 1) : f[i] = rows[1 + i - 1]
  BY <1>4, <1>5, SubSeqProperties
<1>7. First(n, rows) = f
  BY DEF First, m, len
<1> HIDE DEF f
<1>8. f \in Seq(R) /\ Len(f) = m
  BY <1>4, <1>6
<1>9. DOMAIN f = 1..m
  BY <1>8
<1>10. \A i \in 1..m : f[i] = rows[i]
  BY <1>4, <1>6
<1>11. \A i \in DOMAIN f : i \in DOMAIN rows /\ f[i] = rows[i]
  BY <1>1, <1>2, <1>4, <1>9, <1>10
<1>12. len <= n => DOMAIN f = DOMAIN rows
  BY <1>2, <1>4, <1>9
<1>13. f \in Seq(R) /\ Len(f) <= len /\ (len # 0 /\ n # 0 => Len(f) # 0)
  BY <1>4, <1>8
<1> QED BY <1>7, <1>11, <1>12, <1>13 DEF len

\* The rows at ordered places are rows of the table, and each of those rows is there.
LEMMA RowsInOrder ==
  ASSUME NEW R, NEW table \in Seq(R), NEW before, Orders(before), DOMAIN before \subseteq DOMAIN table
  PROVE  /\ Ordered(before) \in Seq(DOMAIN before)
         /\ Len(Ordered(before)) = Cardinality(DOMAIN before)
         /\ Rows(table, Ordered(before)) \in Seq(R)
         /\ \A m \in DOMAIN Rows(table, Ordered(before)) :
              \E i \in DOMAIN before : Rows(table, Ordered(before))[m] = table[i]
         /\ \A i \in DOMAIN before :
              \E m \in DOMAIN Rows(table, Ordered(before)) : Rows(table, Ordered(before))[m] = table[i]
<1> DEFINE D == DOMAIN before
           n == Cardinality(D)
           o == Ordered(before)
           r == Rows(table, o)
<1>1. n \in Nat /\ o \in [1..n -> D] /\ \A i \in D : \E m \in 1..n : o[m] = i
  BY OrderedIs
<1> HIDE DEF D, n, o
<1>2. r = [m \in DOMAIN o |-> table[o[m]]]
  BY DEF Rows
<1>3. D \subseteq DOMAIN table
  BY DEF D
<1>4. \A i \in D : table[i] \in R
  BY <1>3
<1>5. DOMAIN o = 1..n /\ o \in Seq(D) /\ Len(o) = n
  BY <1>1
<1> HIDE DEF r
<1>6. r \in [1..n -> R]
  BY <1>1, <1>2, <1>4, <1>5
<1>7. r \in Seq(R) /\ DOMAIN r = 1..n
  BY <1>1, <1>6
<1>8. \A m \in 1..n : r[m] = table[o[m]] /\ o[m] \in D
  BY <1>1, <1>2, <1>5
<1>9. \A i \in D : \E m \in 1..n : r[m] = table[i]
  BY <1>1, <1>8
<1> QED BY <1>5, <1>7, <1>8, <1>9 DEF D, n, o, r

\* The places of a table are finitely many numbers.
LEMMA PlacesFinite ==
  ASSUME NEW R, NEW table \in Seq(R), NEW places, places \subseteq DOMAIN table
  PROVE  IsFiniteSet(places) /\ places \subseteq Nat
<1> DEFINE len == Len(table)
<1>1. len \in Nat
  OBVIOUS
<1>2. DOMAIN table = 1..len
  OBVIOUS
<1> HIDE DEF len
<1>3. 1 \in Int /\ len \in Int
  BY <1>1
<1>4. IsFiniteSet(1..len)
  BY <1>3, FS_Interval
<1>5. 1..len \subseteq Nat
  BY <1>1
<1> QED BY <1>2, <1>4, <1>5, FS_Subset

\* Before and after are orders of places.
LEMMA PlacesInOrder ==
  ASSUME NEW places, IsFiniteSet(places), places \subseteq Nat
  PROVE  /\ Orders([i \in places |-> {j \in places : j < i}])
         /\ Orders([i \in places |-> {j \in places : j > i}])
<1>1. Orders([i \in places |-> {j \in places : j < i}])
  <2> DEFINE b == [i \in places |-> {j \in places : j < i}]
  <2>1. DOMAIN b = places /\ \A i, j \in places : j \in b[i] <=> j < i
    OBVIOUS
  <2>2. \A i \in places : b[i] \subseteq places
    OBVIOUS
  <2> HIDE DEF b
  <2>3. \A i \in places : i \in Nat
    OBVIOUS
  <2>4. \A i \in places : i \notin b[i]
    BY <2>1, <2>3
  <2>5. \A i, j \in places : i # j => i \in b[j] \/ j \in b[i]
    BY <2>1, <2>3
  <2>6. \A i, j, k \in places : k \in b[i] /\ i \in b[j] => k \in b[j]
    BY <2>1, <2>3
  <2>7. \A i \in places : b[i] \subseteq places \ {i}
    BY <2>2, <2>4
  <2>8. \A i, j \in places : i \in b[j] => b[i] \subseteq b[j]
    BY <2>2, <2>6
  <2>9. DOMAIN b = places
    BY DEF b
  <2>10. Orders(b)
    BY <2>5, <2>7, <2>8, <2>9 DEF Orders
  <2> QED BY <2>10 DEF b
<1>2. Orders([i \in places |-> {j \in places : j > i}])
  <2> DEFINE b == [i \in places |-> {j \in places : j > i}]
  <2>1. DOMAIN b = places /\ \A i, j \in places : j \in b[i] <=> j > i
    OBVIOUS
  <2>2. \A i \in places : b[i] \subseteq places
    OBVIOUS
  <2> HIDE DEF b
  <2>3. \A i \in places : i \in Nat
    OBVIOUS
  <2>4. \A i \in places : i \notin b[i]
    BY <2>1, <2>3
  <2>5. \A i, j \in places : i # j => i \in b[j] \/ j \in b[i]
    BY <2>1, <2>3
  <2>6. \A i, j, k \in places : k \in b[i] /\ i \in b[j] => k \in b[j]
    BY <2>1, <2>3
  <2>7. \A i \in places : b[i] \subseteq places \ {i}
    BY <2>2, <2>4
  <2>8. \A i, j \in places : i \in b[j] => b[i] \subseteq b[j]
    BY <2>2, <2>6
  <2>9. DOMAIN b = places
    BY DEF b
  <2>10. Orders(b)
    BY <2>5, <2>7, <2>8, <2>9 DEF Orders
  <2> QED BY <2>10 DEF b
<1> QED BY <1>1, <1>2

\* The ties of a sort tell its rows apart.
Ties(tie, places) == \A i, j \in places : tie[i] \in Nat /\ (tie[i] = tie[j] => i = j)

\* So the order of a ranking is one.
LEMMA AboveInOrder ==
  ASSUME NEW events \in Seq(EventRow), NEW places, places \subseteq DOMAIN events, NEW tie, Ties(tie, places)
  PROVE  Orders([i \in places |-> {j \in places : Above(events, tie, j, i)}])
<1> DEFINE b == [i \in places |-> {j \in places : Above(events, tie, j, i)}]
           Score(i) == Importance[events[i].sym]
<1>1. IsFiniteSet(places)
  BY PlacesFinite
<1>2. \A i \in places : events[i] \in EventRow
  OBVIOUS
<1>3. \A i \in places : events[i].ts \in Nat /\ events[i].sym \in Symbol
  BY <1>2 DEF EventRow
<1>4. \A i \in places : Score(i) \in Nat
  BY <1>3, TimelineQueryAssumption
<1>5. \A i, j \in places : tie[i] \in Nat /\ (tie[i] = tie[j] => i = j)
  BY DEF Ties
<1>6. \A i, j : Above(events, tie, i, j) <=>
        \/ Score(i) - Score(j) > 0
        \/ Score(i) - Score(j) = 0 /\ events[i].ts > events[j].ts
        \/ Score(i) - Score(j) = 0 /\ events[i].ts = events[j].ts /\ tie[i] < tie[j]
  BY DEF Above
<1>7. DOMAIN b = places /\ \A i \in places : b[i] = {j \in places : Above(events, tie, j, i)}
  OBVIOUS
<1> HIDE DEF b, Score
<1> DEFINE Ts(i) == events[i].ts
<1>8. \A i \in places : Ts(i) \in Nat
  BY <1>3
<1>9. \A i, j \in places : Above(events, tie, i, j) <=>
        \/ Score(i) > Score(j)
        \/ Score(i) = Score(j) /\ Ts(i) > Ts(j)
        \/ Score(i) = Score(j) /\ Ts(i) = Ts(j) /\ tie[i] < tie[j]
  <2>1. SUFFICES ASSUME NEW i \in places, NEW j \in places
                 PROVE  Above(events, tie, i, j) <=>
                          \/ Score(i) > Score(j)
                          \/ Score(i) = Score(j) /\ Ts(i) > Ts(j)
                          \/ Score(i) = Score(j) /\ Ts(i) = Ts(j) /\ tie[i] < tie[j]
    OBVIOUS
  <2>2. Score(i) \in Nat /\ Score(j) \in Nat
    BY <1>4
  <2> QED BY <1>6, <2>2
<1> HIDE DEF Ts
<1>10. \A i \in places : ~Above(events, tie, i, i)
  BY <1>4, <1>5, <1>8, <1>9
<1>11. \A i, j \in places : i # j => Above(events, tie, i, j) \/ Above(events, tie, j, i)
  BY <1>4, <1>5, <1>8, <1>9
<1>12. \A i, j, k \in places : Above(events, tie, i, j) /\ Above(events, tie, j, k) => Above(events, tie, i, k)
  BY <1>4, <1>5, <1>8, <1>9
<1> QED BY <1>1, <1>7, <1>10, <1>11, <1>12 DEF Orders

\* A ranking has rows of the given places alone, and all of them if there are no more than
\* the limit.
RankedTold(rows, events, places) ==
  /\ \A m \in DOMAIN rows : \E i \in places : rows[m] = events[i]
  /\ Cardinality(places) <= Limit => \A i \in places : \E m \in DOMAIN rows : rows[m] = events[i]

LEMMA RankedIs ==
  ASSUME NEW events \in Seq(EventRow), NEW places, places \subseteq DOMAIN events, NEW tie, Ties(tie, places)
  PROVE  /\ Ranked(events, places, tie) \in Seq(EventRow)
         /\ RankedTold(Ranked(events, places, tie), events, places)
         /\ Cardinality(places) \in Nat
         /\ places # {} => Ranked(events, places, tie) # <<>>
<1> DEFINE b == [i \in places |-> {j \in places : Above(events, tie, j, i)}]
           o == Ordered(b)
           f == First(Limit, o)
           r == Rows(events, f)
           n == Cardinality(places)
<1>1. DOMAIN b = places /\ Orders(b)
  BY AboveInOrder
<1> HIDE DEF b
<1>2. n \in Nat /\ o \in [1..n -> places] /\ \A i \in places : \E m \in 1..n : o[m] = i
  BY <1>1, OrderedIs
<1> HIDE DEF n, o
<1>3. o \in Seq(places) /\ Len(o) = n /\ DOMAIN o = 1..n
  BY <1>2
<1>4. Limit \in Nat /\ Limit # 0
  BY TimelineQueryAssumption
<1>5. /\ f \in Seq(places)
      /\ \A i \in DOMAIN f : i \in DOMAIN o /\ f[i] = o[i]
      /\ Len(o) <= Limit => DOMAIN f = DOMAIN o
      /\ Len(o) # 0 /\ Limit # 0 => Len(f) # 0
  BY <1>3, <1>4, FirstIs
<1> HIDE DEF f
<1> DEFINE len == Len(f)
<1>6. DOMAIN f = 1..len /\ len \in Nat /\ \A m \in 1..len : f[m] \in places
  BY <1>5
<1>7. r = [m \in 1..len |-> events[f[m]]]
  BY <1>6 DEF Rows
<1>8. \A i \in places : events[i] \in EventRow
  OBVIOUS
<1> HIDE DEF len, r
<1>9. r \in [1..len -> EventRow]
  BY <1>6, <1>7, <1>8
<1>10. r \in Seq(EventRow) /\ DOMAIN r = 1..len /\ Len(r) = len
  BY <1>6, <1>9
<1>11. \A m \in 1..len : r[m] = events[f[m]] /\ f[m] \in places
  BY <1>6, <1>7
<1>12. ASSUME n <= Limit, NEW i \in places
       PROVE  \E m \in 1..len : r[m] = events[i]
  <2>1. PICK m \in 1..n : o[m] = i
    BY <1>2
  <2>2. m \in DOMAIN f
    BY <1>3, <1>5, <1>12
  <2>3. m \in 1..len /\ f[m] = i
    BY <1>5, <1>6, <2>1, <2>2
  <2> QED BY <1>11, <2>3
<1>13. places # {} => r # <<>>
  <2>1. SUFFICES ASSUME places # {} PROVE r # <<>>
    OBVIOUS
  <2>2. n # 0
    BY <1>2, <2>1
  <2>3. len # 0
    BY <1>3, <1>4, <1>5, <2>2 DEF len
  <2>4. Len(<<>>) = 0
    OBVIOUS
  <2> QED BY <1>10, <2>3, <2>4
<1>14. r = Ranked(events, places, tie)
  BY DEF r, f, o, b, Ranked
<1> QED BY <1>2, <1>10, <1>11, <1>12, <1>13, <1>14 DEF n, RankedTold

\* A table read from its beginning.
LEMMA OldestFirstIs ==
  ASSUME NEW events \in Seq(EventRow), NEW places, places \subseteq DOMAIN events
  PROVE  Rows(events, OldestFirst(places)) \in Seq(EventRow)
<1> DEFINE b == [i \in places |-> {j \in places : j < i}]
<1>1. DOMAIN b = places /\ Orders(b)
  BY PlacesFinite, PlacesInOrder
<1>2. OldestFirst(places) = Ordered(b)
  BY DEF OldestFirst
<1> HIDE DEF b
<1> QED BY <1>1, <1>2, RowsInOrder

\* The edges of a range are those with a later time and a commit of it.
EdgesTold(told, edges, ts, range) ==
  /\ \A m \in DOMAIN told : \E i \in DOMAIN edges : edges[i].ts > ts /\ edges[i].commit \in range /\ told[m] = edges[i]
  /\ \A i \in DOMAIN edges : edges[i].ts > ts /\ edges[i].commit \in range => \E m \in DOMAIN told : told[m] = edges[i]

LEMMA EdgesAfterIs ==
  ASSUME NEW store, store.edges \in Seq(EdgeRow), NEW ts, NEW range
  PROVE  /\ EdgesAfter(store, ts, range) \in Seq(EdgeRow)
         /\ EdgesTold(EdgesAfter(store, ts, range), store.edges, ts, range)
<1> DEFINE edges == store.edges
           places == {i \in {i \in DOMAIN edges : edges[i].ts > ts} : edges[i].commit \in range}
           b == [i \in places |-> {j \in places : j > i}]
           r == Rows(edges, Ordered(b))
<1>1. edges \in Seq(EdgeRow)
  OBVIOUS
<1>2. EdgesAfter(store, ts, range) = r
  BY DEF EdgesAfter, Within, NewestFirst
<1>3. places \subseteq DOMAIN edges
  OBVIOUS
<1>4. \A i : i \in places <=> i \in DOMAIN edges /\ edges[i].ts > ts /\ edges[i].commit \in range
  OBVIOUS
<1> HIDE DEF edges, places
<1>5. DOMAIN b = places /\ Orders(b)
  BY <1>1, <1>3, PlacesFinite, PlacesInOrder
<1> HIDE DEF b
<1>6. /\ r \in Seq(EdgeRow)
      /\ \A m \in DOMAIN r : \E i \in places : r[m] = edges[i]
      /\ \A i \in places : \E m \in DOMAIN r : r[m] = edges[i]
  BY <1>1, <1>3, <1>5, RowsInOrder
<1> HIDE DEF r
<1> QED BY <1>2, <1>4, <1>6 DEF EdgesTold, edges

-----------------------------------------------------------------------------
(* The section of a context pack.                                          *)

Kinds == {"cut", "none", "removed", "symbol", "more", "renamed", "rename", "unresolved", "totals",
          "added", "modified", "moved", "unknown", "events", "renames"}

SectionLine == [kind : Kinds, n : Int]

\* A buffer that has kept its size and in which "more" counts what is not shown.
Bounded(buf, total) ==
  /\ buf \in [lines : Seq(SectionLine), used : Nat, truncated : BOOLEAN]
  /\ buf.used <= Lines
  /\ Len(buf.lines) + 3 = buf.used + (IF buf.truncated THEN 1 ELSE 0)
  /\ \A i \in DOMAIN buf.lines : buf.lines[i].kind = "more" => buf.lines[i].n + (i - 2) = total

LEMMA LineIs == ASSUME NEW kind \in Kinds, NEW n \in Int
                PROVE  Line(kind, n) \in SectionLine /\ Line(kind, n).kind = kind /\ Line(kind, n).n = n
BY DEF Line, SectionLine

\* Two fields of a buffer replaced.
LEMMA BufferWith ==
  ASSUME NEW A, NEW B, NEW C, NEW r \in [lines : A, used : B, truncated : C], NEW l \in A, NEW u \in B, NEW t \in C
  PROVE  /\ [r EXCEPT !.lines = l, !.used = u] = [lines |-> l, used |-> u, truncated |-> r.truncated]
         /\ [r EXCEPT !.lines = l, !.truncated = t] = [lines |-> l, used |-> r.used, truncated |-> t]
<1> DEFINE a == [r EXCEPT !.lines = l, !.used = u]
           b == [r EXCEPT !.lines = l, !.truncated = t]
<1>1. a \in [lines : A, used : B, truncated : C]
  OBVIOUS
<1>2. b \in [lines : A, used : B, truncated : C]
  OBVIOUS
<1>3. a.lines = l /\ a.used = u /\ a.truncated = r.truncated
  OBVIOUS
<1>4. b.lines = l /\ b.used = r.used /\ b.truncated = t
  OBVIOUS
<1> HIDE DEF a, b
<1>5. a = [lines |-> l, used |-> u, truncated |-> r.truncated]
  BY <1>1, <1>3
<1>6. b = [lines |-> l, used |-> r.used, truncated |-> t]
  BY <1>2, <1>4
<1> QED BY <1>5, <1>6 DEF a, b

\* A line is added while there is room, and then one hint.
LEMMA AppendLineKeeps ==
  ASSUME NEW total \in Int, NEW buf, Bounded(buf, total), NEW line \in SectionLine,
         line.kind = "more" => line.n + (Len(buf.lines) - 1) = total
  PROVE  /\ Bounded(AppendLine(buf, line), total)
         /\ ~AppendLine(buf, line).truncated => /\ ~buf.truncated
                                                /\ Len(AppendLine(buf, line).lines) = Len(buf.lines) + 1
<1> DEFINE lines == buf.lines
           len == Len(lines)
           room == [buf EXCEPT !.lines = Append(@, line), !.used = @ + 1]
           cut == [buf EXCEPT !.lines = Append(@, Line("cut", 0)), !.truncated = TRUE]
<1>1. /\ buf = [lines |-> lines, used |-> buf.used, truncated |-> buf.truncated]
      /\ lines \in Seq(SectionLine) /\ buf.used \in Nat /\ buf.truncated \in BOOLEAN
      /\ buf.used <= Lines /\ len + 3 = buf.used + (IF buf.truncated THEN 1 ELSE 0)
      /\ \A i \in DOMAIN lines : lines[i].kind = "more" => lines[i].n + (i - 2) = total
  BY DEF Bounded
<1>2. ASSUME NEW x \in SectionLine, x.kind = "more" => x.n + (len - 1) = total
      PROVE  /\ Append(lines, x) \in Seq(SectionLine) /\ Len(Append(lines, x)) = len + 1
             /\ \A i \in DOMAIN Append(lines, x) :
                  Append(lines, x)[i].kind = "more" => Append(lines, x)[i].n + (i - 2) = total
  <2> DEFINE t == Append(lines, x)
  <2>1. len \in Nat /\ DOMAIN lines = 1..len
    BY <1>1
  <2>2. t \in Seq(SectionLine) /\ Len(t) = len + 1
    BY <1>1
  <2>3. \A i \in 1..len : t[i] = lines[i]
    BY <1>1
  <2>4. t[len + 1] = x
    BY <1>1
  <2> HIDE DEF t, len
  <2>5. DOMAIN t = 1..(len + 1)
    BY <2>2
  <2>6. ASSUME NEW i \in DOMAIN t, t[i].kind = "more"
        PROVE  t[i].n + (i - 2) = total
    <3>1. CASE i = len + 1
      <4>1. x.n + (len - 1) = total
        BY <1>2, <2>4, <2>6, <3>1
      <4>2. x.n \in Int
        BY DEF SectionLine
      <4> QED BY <2>1, <2>4, <3>1, <4>1, <4>2
    <3>2. CASE i # len + 1
      <4>1. i \in 1..len
        BY <2>1, <2>5, <3>2
      <4> QED BY <1>1, <2>1, <2>3, <2>6, <4>1
    <3> QED BY <3>1, <3>2
  <2> QED BY <2>2, <2>6 DEF t
<1>3. Line("cut", 0) \in SectionLine /\ Line("cut", 0).kind # "more"
  BY LineIs DEF Kinds
<1>4. Lines \in Nat
  BY TimelineQueryAssumption
<1>5. AppendLine(buf, line) = IF buf.used < Lines THEN room ELSE IF buf.truncated THEN buf ELSE cut
  BY DEF AppendLine
<1>12. /\ Append(lines, line) \in Seq(SectionLine) /\ buf.used + 1 \in Nat /\ TRUE \in BOOLEAN
       /\ Append(lines, Line("cut", 0)) \in Seq(SectionLine)
  BY <1>1, <1>3
<1>13. buf \in [lines : Seq(SectionLine), used : Nat, truncated : BOOLEAN]
  BY DEF Bounded
<1>6. room = [lines |-> Append(lines, line), used |-> buf.used + 1, truncated |-> buf.truncated]
  <2>1. room = [buf EXCEPT !.lines = Append(lines, line), !.used = buf.used + 1]
    OBVIOUS
  <2> HIDE DEF room, cut, lines
  <2> QED BY <1>12, <1>13, <2>1, BufferWith
<1>7. cut = [lines |-> Append(lines, Line("cut", 0)), used |-> buf.used, truncated |-> TRUE]
  <2>1. cut = [buf EXCEPT !.lines = Append(lines, Line("cut", 0)), !.truncated = TRUE]
    OBVIOUS
  <2> HIDE DEF room, cut, lines
  <2> QED BY <1>12, <1>13, <2>1, BufferWith
<1> HIDE DEF room, cut
<1>8. len \in Nat
  BY <1>1
<1>9. CASE buf.used < Lines
  <2> DEFINE t == Append(lines, line)
  <2>1. /\ t \in Seq(SectionLine) /\ Len(t) = len + 1
        /\ \A i \in DOMAIN t : t[i].kind = "more" => t[i].n + (i - 2) = total
    BY <1>2
  <2> HIDE DEF t
  <2>2. AppendLine(buf, line) = [lines |-> t, used |-> buf.used + 1, truncated |-> buf.truncated]
    BY <1>5, <1>6, <1>9 DEF t
  <2> HIDE DEF len, lines
  <2>3. buf.used + 1 \in Nat /\ buf.used + 1 <= Lines
        /\ (len + 1) + 3 = (buf.used + 1) + (IF buf.truncated THEN 1 ELSE 0)
    BY <1>1, <1>4, <1>8, <1>9
  <2>4. Bounded(AppendLine(buf, line), total)
    BY <1>1, <2>1, <2>2, <2>3 DEF Bounded
  <2> QED BY <2>1, <2>2, <2>4 DEF len, lines
<1>10. CASE ~(buf.used < Lines) /\ buf.truncated
  BY <1>5, <1>10
<1>11. CASE ~(buf.used < Lines) /\ ~buf.truncated
  <2> DEFINE t == Append(lines, Line("cut", 0))
  <2>1. /\ t \in Seq(SectionLine) /\ Len(t) = len + 1
        /\ \A i \in DOMAIN t : t[i].kind = "more" => t[i].n + (i - 2) = total
    BY <1>2, <1>3
  <2> HIDE DEF t
  <2>2. AppendLine(buf, line) = [lines |-> t, used |-> buf.used, truncated |-> TRUE]
    BY <1>5, <1>7, <1>11 DEF t
  <2> HIDE DEF len, lines
  <2>3. (len + 1) + 3 = buf.used + 1
    BY <1>1, <1>8, <1>11
  <2>4. Bounded(AppendLine(buf, line), total)
    BY <1>1, <2>1, <2>2, <2>3 DEF Bounded
  <2> QED BY <2>2, <2>4
<1> QED BY <1>9, <1>10, <1>11

\* So are several, none of which counts the rest.
LEMMA AppendLinesKeeps ==
  ASSUME NEW total \in Int, NEW buf, Bounded(buf, total), NEW lines \in Seq(SectionLine),
         \A i \in DOMAIN lines : lines[i].kind # "more"
  PROVE  /\ Bounded(AppendLines(buf, lines), total)
         /\ ~AppendLines(buf, lines).truncated => /\ ~buf.truncated
                                                  /\ Len(AppendLines(buf, lines).lines) = Len(buf.lines) + Len(lines)
<1> DEFINE len == Len(lines)
           Step(x, i) == IF i = 0 THEN buf ELSE AppendLine(x, lines[i])
           Fits(f, n) == f = [i \in 0..n |-> Step(f[i - 1], i)]
           after == CHOOSE f : Fits(f, len)
           Good(x, i) == /\ Bounded(x, total)
                         /\ ~x.truncated => ~buf.truncated /\ Len(x.lines) = Len(buf.lines) + i
           S == {n \in Nat : \E f : Fits(f, n)}
<1>0. /\ \A x : Step(x, 0) = buf
      /\ \A x, y : Step(x, 0) = Step(y, 0)
      /\ \A x : \A i \in Nat \ {0} : Step(x, i) = AppendLine(x, lines[i])
  OBVIOUS
<1>4. AppendLines(buf, lines) = after[len]
  BY Zenon DEF AppendLines
<1>5. len \in Nat /\ DOMAIN lines = 1..len
  OBVIOUS
<1>6. \A i \in 1..len : lines[i] \in SectionLine /\ lines[i].kind # "more"
  OBVIOUS
<1> HIDE DEF Step, len
<1>1. S = Nat
  <2>1. 0 \in S
    <3>1. Fits([i \in 0..0 |-> Step(buf, 0)], 0)
      BY <1>0
    <3> QED BY <3>1
  <2>2. ASSUME NEW n \in Nat, n \in S PROVE n + 1 \in S
    <3>1. PICK f : Fits(f, n)
      BY <2>2
    <3> DEFINE g == [i \in 0..(n + 1) |-> Step(f[i - 1], i)]
    <3>2. \A i \in 0..(n + 1) : Step(g[i - 1], i) = Step(f[i - 1], i)
      <4>1. SUFFICES ASSUME NEW i \in 0..(n + 1) PROVE Step(g[i - 1], i) = Step(f[i - 1], i)
        OBVIOUS
      <4>2. CASE i = 0
        BY <1>0, <4>2
      <4>3. CASE i # 0
        <5>1. i - 1 \in 0..n
          BY <4>3
        <5>2. g[i - 1] = f[i - 1]
          BY <3>1, <5>1
        <5> QED BY <5>2
      <4> QED BY <4>2, <4>3
    <3>3. Fits(g, n + 1)
      BY <3>2
    <3> HIDE DEF g, Fits
    <3> QED BY <3>3
  <2> HIDE DEF S
  <2> QED BY <2>1, <2>2, Induct DEF S
<1>3. Fits(after, len)
  BY <1>1, <1>5
<1>7. /\ after[0] = buf
      /\ \A i \in 1..len : after[i] = AppendLine(after[i - 1], lines[i])
  <2> HIDE DEF after
  <2>1. \A i \in 0..len : after[i] = Step(after[i - 1], i)
    BY <1>3
  <2> QED BY <1>0, <1>5, <2>1
<1> HIDE DEF after, Fits, S
<1>8. Good(after[0], 0)
  <2>1. buf.lines \in Seq(SectionLine)
    BY DEF Bounded
  <2> QED BY <1>7, <2>1
<1>9. ASSUME NEW n \in Nat, n + 1 <= len, Good(after[n], n) PROVE Good(after[n + 1], n + 1)
  <2> DEFINE x == after[n]
  <2>1. n + 1 \in 1..len /\ (n + 1) - 1 = n
    BY <1>5, <1>9
  <2>2. after[n + 1] = AppendLine(x, lines[n + 1]) /\ lines[n + 1] \in SectionLine /\ lines[n + 1].kind # "more"
    BY <1>6, <1>7, <2>1
  <2>3. /\ Bounded(x, total)
        /\ ~x.truncated => ~buf.truncated /\ Len(x.lines) = Len(buf.lines) + n
    BY <1>9
  <2> HIDE DEF x
  <2>4. /\ Bounded(AppendLine(x, lines[n + 1]), total)
        /\ ~AppendLine(x, lines[n + 1]).truncated => /\ ~x.truncated
                                                     /\ Len(AppendLine(x, lines[n + 1]).lines) = Len(x.lines) + 1
    BY <2>2, <2>3, AppendLineKeeps
  <2>5. Len(buf.lines) \in Nat
    BY DEF Bounded
  <2> DEFINE bl == Len(buf.lines)
             y == AppendLine(x, lines[n + 1])
             yl == Len(y.lines)
             xl == Len(x.lines)
  <2>6. /\ Bounded(y, total) /\ (~y.truncated => ~x.truncated /\ yl = xl + 1)
        /\ ~x.truncated => ~buf.truncated /\ xl = bl + n
        /\ bl \in Nat
    BY <2>3, <2>4, <2>5
  <2>7. ~y.truncated => ~buf.truncated /\ yl = bl + (n + 1)
    <3> HIDE DEF bl, y, yl, xl
    <3> QED BY <2>6
  <2>8. Good(y, n + 1)
    BY <2>6, <2>7
  <2> HIDE DEF y, Good
  <2> QED BY <2>2, <2>8 DEF y
<1> HIDE DEF Good
<1>10. Good(after[len], len)
  <2> DEFINE T == {n \in Nat : n <= len => Good(after[n], n)}
  <2>1. 0 \in T
    BY <1>8
  <2>2. \A n \in Nat : n \in T => n + 1 \in T
    BY <1>5, <1>9
  <2> HIDE DEF T
  <2>3. Nat \subseteq T
    BY <2>1, <2>2, Induct
  <2>4. len \in T
    BY <1>5, <2>3
  <2> QED BY <1>5, <2>4 DEF T
<1> QED BY <1>4, <1>10 DEF Good, len

\* Symbols are numbers.
LEMMA SymbolsAreNumbers == \A s \in Symbol : s \in Int
<1>1. Symbol \subseteq Nat
  BY Zenon, TimelineDiffAssumption
<1> QED BY <1>1

\* Lines by their numbers.
LEMMA LinesAre ==
  ASSUME NEW len \in Nat, NEW f, f = [i \in 1..len |-> f[i]], \A i \in 1..len : f[i] \in SectionLine
  PROVE  f \in Seq(SectionLine) /\ DOMAIN f = 1..len /\ Len(f) = len
<1>1. f \in [1..len -> SectionLine]
  OBVIOUS
<1> QED BY <1>1

\* The first symbols of a list of events, each with its kind.
LEMMA SymbolLines ==
  ASSUME NEW rows \in Seq(EventRow), NEW n \in Nat, NEW kind \in Kinds, kind # "more",
         NEW f, f = [i \in DOMAIN First(n, rows) |-> Line(kind, First(n, rows)[i].sym)]
  PROVE  /\ f \in Seq(SectionLine) /\ Len(f) = Len(First(n, rows)) /\ Len(f) \in Nat
         /\ \A i \in DOMAIN f : f[i].kind # "more"
<1> DEFINE shown == First(n, rows)
           len == Len(shown)
<1>1. shown \in Seq(EventRow)
  BY FirstIs
<1>2. f = [i \in DOMAIN shown |-> Line(kind, shown[i].sym)]
  OBVIOUS
<1> HIDE DEF shown
<1>3. len \in Nat /\ DOMAIN shown = 1..len
  BY <1>1
<1>4. \A i \in 1..len : shown[i] \in EventRow
  BY <1>1
<1> HIDE DEF len
<1>5. f = [i \in 1..len |-> f[i]] /\ \A i \in 1..len : f[i] = Line(kind, shown[i].sym)
  BY <1>2, <1>3
<1>6. \A i \in 1..len : f[i] \in SectionLine /\ f[i].kind = kind
  <2>1. SUFFICES ASSUME NEW i \in 1..len PROVE f[i] \in SectionLine /\ f[i].kind = kind
    OBVIOUS
  <2>2. shown[i].sym \in Symbol
    BY <1>4 DEF EventRow
  <2>3. shown[i].sym \in Int
    BY <2>2, SymbolsAreNumbers
  <2> QED BY <1>5, <2>3, LineIs
<1>7. f \in Seq(SectionLine) /\ DOMAIN f = 1..len /\ Len(f) = len
  BY <1>3, <1>5, <1>6, LinesAre
<1> QED BY <1>3, <1>6, <1>7 DEF len, shown

\* The first renames of a list.
LEMMA RenameLines ==
  ASSUME NEW rows \in Seq(EdgeRow), NEW n \in Nat,
         NEW f, f = [i \in DOMAIN First(n, rows) |-> Line("rename", First(n, rows)[i].new)]
  PROVE  f \in Seq(SectionLine) /\ \A i \in DOMAIN f : f[i].kind # "more"
<1> DEFINE shown == First(n, rows)
           len == Len(shown)
<1>1. shown \in Seq(EdgeRow)
  BY FirstIs
<1>2. f = [i \in DOMAIN shown |-> Line("rename", shown[i].new)]
  OBVIOUS
<1> HIDE DEF shown
<1>3. len \in Nat /\ DOMAIN shown = 1..len
  BY <1>1
<1>4. \A i \in 1..len : shown[i] \in EdgeRow
  BY <1>1
<1> HIDE DEF len
<1>5. f = [i \in 1..len |-> f[i]] /\ \A i \in 1..len : f[i] = Line("rename", shown[i].new)
  BY <1>2, <1>3
<1>6. \A i \in 1..len : f[i] \in SectionLine /\ f[i].kind = "rename"
  <2>1. SUFFICES ASSUME NEW i \in 1..len PROVE f[i] \in SectionLine /\ f[i].kind = "rename"
    OBVIOUS
  <2>2. shown[i].new \in Symbol
    BY <1>4 DEF EdgeRow
  <2>3. shown[i].new \in Int /\ "rename" \in Kinds
    BY <2>2, SymbolsAreNumbers DEF Kinds
  <2> QED BY <1>5, <2>3, LineIs
<1>7. f \in Seq(SectionLine) /\ DOMAIN f = 1..len
  BY <1>3, <1>5, <1>6, LinesAre
<1> QED BY <1>6, <1>7

\* What is removed is rendered within the budget, and "more" counts the rest of it.
LEMMA RenderRemovedKeeps ==
  ASSUME NEW result, result.found, result.removed \in Seq(EventRow), result.renamed \in Seq(EdgeRow),
         NEW total \in Nat, result.total = total, NEW buf, Bounded(buf, total), buf.lines = <<>>
  PROVE  Bounded(RenderRemoved(result, buf), total)
<1> DEFINE shown    == First(Shown, result.removed)
           heading  == IF shown = <<>> THEN buf ELSE AppendLine(buf, Line("removed", Len(shown)))
           symbols  == [i \in DOMAIN shown |-> Line("symbol", shown[i].sym)]
           body     == AppendLines(heading, symbols)
           rest     == total - Len(shown)
           more     == IF shown # <<>> /\ (result.truncated \/ Len(shown) < Len(result.removed)) /\ rest > 0
                       THEN AppendLine(body, Line("more", rest)) ELSE body
           pairs    == First(3, result.renamed)
           renames  == [i \in DOMAIN pairs |-> Line("rename", pairs[i].new)]
           head     == AppendLine(more, Line("renamed", Len(pairs)))
<1>1. RenderRemoved(result, buf) =
        IF result.removed = <<>> /\ result.renamed = <<>> THEN AppendLine(buf, Line("none", 0))
        ELSE IF shown # <<>> /\ body.truncated THEN body
        ELSE IF pairs = <<>> THEN more ELSE AppendLines(head, renames)
  BY DEF RenderRemoved
<1>2. /\ shown \in Seq(EventRow) /\ pairs \in Seq(EdgeRow)
      /\ Len(shown) \in Nat /\ Len(pairs) \in Nat
  <2>1. shown \in Seq(EventRow)
    BY FirstIs, TimelineQueryAssumption
  <2>2. pairs \in Seq(EdgeRow)
    BY FirstIs
  <2> HIDE DEF shown, pairs
  <2> QED BY <2>1, <2>2
<1>3. symbols \in Seq(SectionLine) /\ Len(symbols) = Len(shown) /\ \A i \in DOMAIN symbols : symbols[i].kind # "more"
  <2>1. "symbol" \in Kinds /\ Shown \in Nat
    BY TimelineQueryAssumption DEF Kinds
  <2> QED BY <2>1, SymbolLines
<1>4. renames \in Seq(SectionLine) /\ \A i \in DOMAIN renames : renames[i].kind # "more"
  BY RenameLines
<1>5. \A kind \in {"none", "removed", "renamed"} : \A n \in Int : Line(kind, n) \in SectionLine /\ Line(kind, n).kind # "more"
  BY LineIs DEF Kinds
<1>6. total \in Int /\ Len(buf.lines) = 0
  OBVIOUS
<1> HIDE DEF shown, symbols, pairs, renames
<1>7. Bounded(AppendLine(buf, Line("none", 0)), total)
  BY <1>5, <1>6, AppendLineKeeps
<1>8. Bounded(heading, total) /\ (shown # <<>> /\ ~heading.truncated => Len(heading.lines) = 1)
  <2>1. CASE shown = <<>>
    BY <2>1
  <2>2. CASE shown # <<>>
    <3> DEFINE line == Line("removed", Len(shown))
    <3>1. line \in SectionLine /\ line.kind # "more"
      BY <1>2, <1>5
    <3> HIDE DEF line
    <3>2. /\ Bounded(AppendLine(buf, line), total)
          /\ ~AppendLine(buf, line).truncated => Len(AppendLine(buf, line).lines) = Len(buf.lines) + 1
      BY <1>6, <3>1, AppendLineKeeps
    <3>3. heading = AppendLine(buf, line)
      BY <2>2 DEF line
    <3> HIDE DEF heading
    <3> QED BY <1>6, <3>2, <3>3
  <2> QED BY <2>1, <2>2
<1> HIDE DEF heading
<1>9. /\ Bounded(body, total)
      /\ ~body.truncated => ~heading.truncated /\ Len(body.lines) = Len(heading.lines) + Len(shown)
  <2>0. Bounded(heading, total) /\ symbols \in Seq(SectionLine) /\ \A i \in DOMAIN symbols : symbols[i].kind # "more"
    BY <1>3, <1>8
  <2>1. /\ Bounded(AppendLines(heading, symbols), total)
        /\ ~AppendLines(heading, symbols).truncated =>
             /\ ~heading.truncated
             /\ Len(AppendLines(heading, symbols).lines) = Len(heading.lines) + Len(symbols)
    BY <1>6, <2>0, AppendLinesKeeps
  <2> QED BY <1>3, <2>1
<1> HIDE DEF body
<1>10. ASSUME ~(shown # <<>> /\ body.truncated) PROVE Bounded(more, total)
  <2>1. CASE more = body
    BY <1>9, <2>1
  <2>2. CASE more # body
    <3>1. shown # <<>> /\ more = AppendLine(body, Line("more", rest))
      BY <2>2
    <3>2. ~body.truncated /\ Len(body.lines) = 1 + Len(shown)
      BY <1>8, <1>9, <1>10, <3>1
    <3>3. rest \in Int
      BY <1>2
    <3> DEFINE line == Line("more", rest)
    <3>4. line \in SectionLine /\ line.n = rest
      BY <3>3, LineIs DEF Kinds
    <3>5. line.n + (Len(body.lines) - 1) = total
      <4> HIDE DEF line
      <4> QED BY <1>2, <3>2, <3>4
    <3> HIDE DEF line
    <3>6. Bounded(AppendLine(body, line), total)
      BY <1>6, <1>9, <3>4, <3>5, AppendLineKeeps
    <3> QED BY <3>1, <3>6 DEF line
  <2> QED BY <2>1, <2>2
<1> HIDE DEF more
<1>11. ASSUME Bounded(more, total) PROVE Bounded(AppendLines(head, renames), total)
  <2>1. Bounded(head, total)
    <3>1. Line("renamed", Len(pairs)) \in SectionLine /\ Line("renamed", Len(pairs)).kind # "more"
      BY <1>2, <1>5
    <3> QED BY <1>6, <1>11, <3>1, AppendLineKeeps
  <2> HIDE DEF head
  <2> QED BY <1>4, <1>6, <2>1, AppendLinesKeeps
<1> HIDE DEF head
<1> QED BY <1>1, <1>7, <1>9, <1>10, <1>11

\* The totals and three entries of each bucket.
LEMMA RenderDiffKeeps ==
  ASSUME NEW result,
         result.found => /\ \A f \in {"added", "modified", "removed"} : result.entries[f] \in Seq(EventRow)
                         /\ result.total["removed"] \in Int,
         NEW total \in Int, NEW buf, Bounded(buf, total)
  PROVE  Bounded(RenderDiff(result, buf), total)
<1> DEFINE Top(f) == [i \in DOMAIN First(3, result.entries[f]) |-> Line(f, First(3, result.entries[f])[i].sym)]
           a == Top("added")
           m == Top("modified")
           r == Top("removed")
           am == a \o m
           all == am \o r
           head == AppendLine(buf, Line("totals", result.total["removed"]))
           none == AppendLine(buf, Line("unresolved", 0))
<1>1. RenderDiff(result, buf) = IF ~result.found THEN none ELSE AppendLines(head, all)
  BY DEF RenderDiff
<1>2. Bounded(none, total)
  <2>1. Line("unresolved", 0) \in SectionLine /\ Line("unresolved", 0).kind # "more"
    BY LineIs DEF Kinds
  <2> QED BY <2>1, AppendLineKeeps
<1>3. CASE result.found
  <2>1. Line("totals", result.total["removed"]) \in SectionLine /\ Line("totals", result.total["removed"]).kind # "more"
    BY <1>3, LineIs DEF Kinds
  <2>2. Bounded(head, total)
    BY <2>1, AppendLineKeeps
  <2> HIDE DEF head, none
  <2> DEFINE Plain(s) == s \in Seq(SectionLine) /\ \A i \in DOMAIN s : s[i].kind # "more"
  <2>3. \A f \in {"added", "modified", "removed"} : Plain(Top(f))
    <3>1. SUFFICES ASSUME NEW f \in {"added", "modified", "removed"} PROVE Plain(Top(f))
      OBVIOUS
    <3>2. f \in Kinds /\ f # "more" /\ 3 \in Nat /\ result.entries[f] \in Seq(EventRow)
      BY <1>3 DEF Kinds
    <3> DEFINE rows == result.entries[f]
               top == Top(f)
    <3>3. top = [i \in DOMAIN First(3, rows) |-> Line(f, First(3, rows)[i].sym)]
      OBVIOUS
    <3> HIDE DEF rows, top
    <3>4. Plain(top)
      BY <3>2, <3>3, SymbolLines DEF rows
    <3> QED BY <3>4 DEF top
  <2>4. \A s, t : Plain(s) /\ Plain(t) => Plain(s \o t)
    <3>1. SUFFICES ASSUME NEW s, NEW t, Plain(s), Plain(t) PROVE Plain(s \o t)
      OBVIOUS
    <3> DEFINE ls == Len(s)
               lt == Len(t)
               u == s \o t
    <3>2. /\ s \in Seq(SectionLine) /\ t \in Seq(SectionLine)
          /\ \A i \in DOMAIN s : s[i].kind # "more"
          /\ \A i \in DOMAIN t : t[i].kind # "more"
      BY <3>1
    <3>3. ls \in Nat /\ lt \in Nat /\ DOMAIN s = 1..ls /\ DOMAIN t = 1..lt
      BY <3>2
    <3>4. u \in Seq(SectionLine) /\ Len(u) = ls + lt
      BY <3>2
    <3>5. \A i \in 1..(ls + lt) : u[i] = IF i <= ls THEN s[i] ELSE t[i - ls]
      BY <3>2
    <3> HIDE DEF ls, lt, u
    <3>6. DOMAIN u = 1..(ls + lt)
      BY <3>4
    <3>7. \A i \in DOMAIN u : u[i].kind # "more"
      <4>1. SUFFICES ASSUME NEW i \in DOMAIN u PROVE u[i].kind # "more"
        OBVIOUS
      <4>2. CASE i <= ls
        <5>1. i \in DOMAIN s /\ u[i] = s[i]
          BY <3>3, <3>5, <3>6, <4>2
        <5> QED BY <3>2, <5>1
      <4>3. CASE ~(i <= ls)
        <5>1. i - ls \in DOMAIN t /\ u[i] = t[i - ls]
          BY <3>3, <3>5, <3>6, <4>3
        <5> QED BY <3>2, <5>1
      <4> QED BY <4>2, <4>3
    <3>8. Plain(u)
      BY <3>4, <3>7
    <3> QED BY <3>8 DEF u
  <2> HIDE DEF Plain, Top
  <2>5. Plain(a) /\ Plain(m) /\ Plain(r)
    BY <2>3
  <2> HIDE DEF a, m, r
  <2>6. Plain(am)
    BY <2>4, <2>5
  <2> HIDE DEF am
  <2>7. Plain(all)
    BY <2>4, <2>5, <2>6
  <2> HIDE DEF all
  <2>8. Bounded(AppendLines(head, all), total)
    BY <2>2, <2>7, AppendLinesKeeps DEF Plain
  <2> QED BY <1>1, <1>3, <2>8
<1>4. CASE ~result.found
  <2> HIDE DEF none, head, all
  <2> QED BY <1>1, <1>2, <1>4
<1> QED BY <1>3, <1>4

\* The newest events of a symbol and the number of its renames.
LEMMA RenderSymbolHistoryKeeps ==
  ASSUME NEW result,
         result.found => /\ result.events \in Seq(EventRow)
                         /\ Cardinality(result.predecessors) \in Nat
                         /\ Cardinality(result.successors) \in Nat,
         NEW total \in Int, NEW buf, Bounded(buf, total)
  PROVE  Bounded(RenderSymbolHistory(result, buf), total)
<1> DEFINE newest  == First(3, Reverse(result.events))
           latest  == [i \in DOMAIN newest |-> Line(newest[i].type, newest[i].ts)]
           head    == AppendLine(buf, Line("events", Len(result.events)))
           body    == AppendLines(head, latest)
           renames == Cardinality(result.predecessors) + Cardinality(result.successors)
           none    == AppendLine(buf, Line("unknown", 0))
           last    == AppendLine(body, Line("renames", renames))
<1>1. RenderSymbolHistory(result, buf) =
        IF ~result.found THEN none ELSE IF body.truncated \/ renames = 0 THEN body ELSE last
  BY DEF RenderSymbolHistory
<1>2. Bounded(none, total)
  <2>1. Line("unknown", 0) \in SectionLine /\ Line("unknown", 0).kind # "more"
    BY LineIs DEF Kinds
  <2> QED BY <2>1, AppendLineKeeps
<1> HIDE DEF none
<1>3. CASE result.found
  <2>1. result.events \in Seq(EventRow) /\ Len(result.events) \in Nat /\ renames \in Nat
    BY <1>3
  <2>2. Reverse(result.events) \in Seq(EventRow)
    <3> DEFINE es == result.events
               len == Len(es)
    <3>1. len \in Nat /\ es \in [1..len -> EventRow]
      BY <2>1
    <3>2. Reverse(es) = [i \in 1..len |-> es[(len - i) + 1]]
      BY DEF Reverse
    <3> HIDE DEF len, es
    <3>3. \A i \in 1..len : (len - i) + 1 \in 1..len
      BY <3>1
    <3>4. Reverse(es) \in [1..len -> EventRow]
      BY <3>1, <3>2, <3>3
    <3>5. Reverse(es) \in Seq(EventRow)
      BY <3>1, <3>4
    <3> QED BY <3>5 DEF es
  <2>3. newest \in Seq(EventRow)
    BY <2>2, FirstIs
  <2>4. /\ Line("events", Len(result.events)) \in SectionLine /\ Line("events", Len(result.events)).kind # "more"
        /\ Line("renames", renames) \in SectionLine /\ Line("renames", renames).kind # "more"
    <3> HIDE DEF renames
    <3> QED BY <2>1, LineIs DEF Kinds
  <2> HIDE DEF newest, renames
  <2>5. latest \in Seq(SectionLine) /\ \A i \in DOMAIN latest : latest[i].kind # "more"
    <3> DEFINE len == Len(newest)
    <3>1. len \in Nat /\ DOMAIN newest = 1..len
      BY <2>3
    <3>2. \A i \in 1..len : newest[i] \in EventRow
      BY <2>3
    <3> HIDE DEF len
    <3>3. latest = [i \in 1..len |-> latest[i]] /\ \A i \in 1..len : latest[i] = Line(newest[i].type, newest[i].ts)
      BY <3>1
    <3> HIDE DEF latest
    <3>4. \A i \in 1..len : latest[i] \in SectionLine /\ latest[i].kind # "more"
      <4>1. SUFFICES ASSUME NEW i \in 1..len PROVE latest[i] \in SectionLine /\ latest[i].kind # "more"
        OBVIOUS
      <4>2. newest[i].type \in {"added", "removed", "modified", "moved"} /\ newest[i].ts \in Nat
        BY <3>2 DEF EventRow
      <4>3. newest[i].type \in Kinds /\ newest[i].type # "more" /\ newest[i].ts \in Int
        BY <4>2 DEF Kinds
      <4> QED BY <3>3, <4>3, LineIs
    <3>5. latest \in Seq(SectionLine) /\ DOMAIN latest = 1..len
      BY <3>1, <3>3, <3>4, LinesAre
    <3> QED BY <3>4, <3>5
  <2> HIDE DEF latest
  <2>6. Bounded(head, total)
    BY <2>4, AppendLineKeeps
  <2> HIDE DEF head
  <2>7. Bounded(body, total)
    BY <2>5, <2>6, AppendLinesKeeps
  <2> HIDE DEF body
  <2>8. Bounded(last, total)
    BY <2>4, <2>7, AppendLineKeeps
  <2> HIDE DEF last
  <2> QED BY <1>1, <1>3, <2>7, <2>8
<1>4. CASE ~result.found
  <2> HIDE DEF body, last, renames
  <2> QED BY <1>1, <1>2, <1>4
<1> QED BY <1>3, <1>4

-----------------------------------------------------------------------------
(* The answers.                                                            *)

\* What was removed since a commit, as FindRemovedSince answers.
LEMMA RemovedSinceIs ==
  ASSUME db \in [events : Seq(EventRow), edges : Seq(EdgeRow)], NEW ref, ref # Absent, NEW range,
         NEW result, result = FindRemovedSince(db, repo, ref, range, FALSE)
  PROVE  /\ result.found /\ result.removed \in Seq(EventRow) /\ result.renamed \in Seq(EdgeRow)
         /\ result.total \in Nat
<1> DEFINE ts      == repo.commits[ref].ts
           renamed == EdgesAfter(db, ts, range)
           gone    == {i \in Within(db.events, EventsAfter(db, ts, {"removed"}), range) :
                         FALSE \/ db.events[i].sym \notin Confirmed(renamed, "old")}
           tie     == [i \in gone |-> i]
           ranked  == Ranked(db.events, gone, tie)
           total   == Cardinality(gone)
           cut     == total > Limit
<1>1. result = [found |-> TRUE, removed |-> ranked, renamed |-> renamed, total |-> total, truncated |-> cut]
  BY DEF FindRemovedSince
<1>2. db.events \in Seq(EventRow) /\ db.edges \in Seq(EdgeRow) /\ db = [events |-> db.events, edges |-> db.edges]
  OBVIOUS
<1>3. gone \subseteq DOMAIN db.events
  BY DEF Within, EventsAfter
<1> HIDE DEF gone
<1>4. Ties(tie, gone)
  <2>1. gone \subseteq Nat
    BY <1>2, <1>3, PlacesFinite
  <2> QED BY <2>1 DEF Ties
<1> HIDE DEF tie
<1>5. ranked \in Seq(EventRow) /\ total \in Nat
  BY <1>2, <1>3, <1>4, RankedIs
<1>6. renamed \in Seq(EdgeRow)
  BY <1>2, EdgesAfterIs
<1> HIDE DEF ranked, total, renamed, cut
<1>7. \A r : r = [found |-> TRUE, removed |-> ranked, renamed |-> renamed, total |-> total, truncated |-> cut] =>
        r.found /\ r.removed = ranked /\ r.renamed = renamed /\ r.total = total
  OBVIOUS
<1>8. result.found /\ result.removed = ranked /\ result.renamed = renamed /\ result.total = total
  BY <1>1, <1>7, Zenon
<1> QED BY <1>5, <1>6, <1>8

\* The entries of a difference are rows of the buckets, and all of them where none has
\* more than the limit.
EntriesTold(entries, truncated, places, renamed) ==
  /\ DOMAIN entries = {"added", "removed", "modified"}
  /\ \A f \in DOMAIN entries :
       \A m \in DOMAIN entries[f] : \E i \in Bucket(db.events, places, renamed, f) : entries[f][m] = db.events[i]
  /\ ~truncated => \A f \in DOMAIN entries :
       \A i \in Bucket(db.events, places, renamed, f) : \E m \in DOMAIN entries[f] : entries[f][m] = db.events[i]

\* The events diff looks at.
InRange(from, range) ==
  Within(db.events, EventsAfter(db, repo.commits[from].ts, {"added", "removed", "modified", "moved"}), range)

\* The entries of the difference of two commits, as Diff answers.
LEMMA DiffIs ==
  ASSUME db \in [events : Seq(EventRow), edges : Seq(EdgeRow)], NEW from, NEW to, NEW range,
         NEW result, result = Diff(db, repo, from, to, range)
  PROVE  /\ result.found => /\ \A f \in {"added", "modified", "removed"} : result.entries[f] \in Seq(EventRow)
                            /\ result.total["removed"] \in Int
         /\ ~(from = Absent \/ to = Absent) /\ from # to =>
              /\ result.renamed = EdgesAfter(db, repo.commits[from].ts, range)
              /\ EntriesTold(result.entries, result.truncated, InRange(from, range), result.renamed)
<1> DEFINE ts      == repo.commits[from].ts
           places  == Within(db.events, EventsAfter(db, ts, {"added", "removed", "modified", "moved"}), range)
           first   == [i \in places |-> Min(SameSymbol(db.events, places, i))]
           renamed == EdgesAfter(db, ts, range)
           effects == {"added", "removed", "modified"}
           bucket  == [f \in effects |-> Bucket(db.events, places, renamed, f)]
           total   == [f \in effects |-> Cardinality(bucket[f])]
           entries == [f \in effects |-> Ranked(db.events, bucket[f], first)]
           none    == [f \in effects |-> <<>>]
           zero    == [f \in effects |-> 0]
           cut     == \E f \in effects : total[f] > Limit
<1>1. /\ DOMAIN bucket = effects
      /\ result = IF from = Absent \/ to = Absent THEN NotFound
                  ELSE IF from = to THEN [found |-> TRUE, renamed |-> <<>>, truncated |-> FALSE, total |-> zero, entries |-> none]
                  ELSE [found |-> TRUE, renamed |-> renamed, truncated |-> cut, total |-> total, entries |-> entries]
  <2>1. DOMAIN bucket = effects
    OBVIOUS
  <2>2. result = LET b == bucket IN
                 IF from = Absent \/ to = Absent THEN NotFound
                 ELSE IF from = to
                 THEN [found |-> TRUE, renamed |-> <<>>, truncated |-> FALSE, total |-> [f \in DOMAIN b |-> 0],
                       entries |-> [f \in DOMAIN b |-> <<>>]]
                 ELSE [found |-> TRUE, renamed |-> renamed,
                       truncated |-> \E f \in DOMAIN b : [g \in DOMAIN b |-> Cardinality(b[g])][f] > Limit,
                       total |-> [f \in DOMAIN b |-> Cardinality(b[f])],
                       entries |-> [f \in DOMAIN b |-> Ranked(db.events, b[f], first)]]
    BY Zenon DEF Diff
  <2> HIDE DEF first, renamed, places, NotFound
  <2> QED BY <2>1, <2>2, Zenon
<1>2. db.events \in Seq(EventRow)
  OBVIOUS
<1>3. places \subseteq DOMAIN db.events
  BY DEF Within, EventsAfter
<1>0. places = InRange(from, range) /\ renamed = EdgesAfter(db, repo.commits[from].ts, range)
  BY DEF InRange
<1> HIDE DEF places, renamed
<1>11. \A f \in effects : bucket[f] = Bucket(db.events, places, renamed, f)
  OBVIOUS
<1>4. \A f \in effects : bucket[f] \subseteq places /\ \A i \in bucket[f] : i = Max(SameSymbol(db.events, places, i))
  BY DEF Bucket
<1>5. \A i \in places : first[i] = Min(SameSymbol(db.events, places, i)) /\ first[i] \in SameSymbol(db.events, places, i)
  <2>1. SUFFICES ASSUME NEW i \in places PROVE Min(SameSymbol(db.events, places, i)) \in SameSymbol(db.events, places, i)
    OBVIOUS
  <2> DEFINE mine == SameSymbol(db.events, places, i)
  <2>2. i \in mine /\ mine \subseteq places
    BY DEF SameSymbol
  <2>3. mine \subseteq Nat
    BY <1>2, <1>3, <2>2, PlacesFinite
  <2> HIDE DEF mine
  <2>4. PICK m \in mine : \A k \in mine : m <= k
    BY <2>2, <2>3, Smallest
  <2>5. Min(mine) \in mine
    BY <2>4 DEF Min
  <2> QED BY <2>5 DEF mine
<1> HIDE DEF first, bucket
<1>6. \A f \in effects : /\ Ranked(db.events, bucket[f], first) \in Seq(EventRow) /\ Cardinality(bucket[f]) \in Nat
                         /\ RankedTold(Ranked(db.events, bucket[f], first), db.events, bucket[f])
  <2>1. SUFFICES ASSUME NEW f \in effects
                 PROVE  /\ Ranked(db.events, bucket[f], first) \in Seq(EventRow) /\ Cardinality(bucket[f]) \in Nat
                        /\ RankedTold(Ranked(db.events, bucket[f], first), db.events, bucket[f])
    OBVIOUS
  <2>2. bucket[f] \subseteq DOMAIN db.events
    BY <1>3, <1>4
  <2>3. \A i \in bucket[f] : first[i] \in Nat
    <3>1. SUFFICES ASSUME NEW i \in bucket[f] PROVE first[i] \in Nat
      OBVIOUS
    <3>2. first[i] \in places
      BY <1>4, <1>5 DEF SameSymbol
    <3> QED BY <1>2, <1>3, <3>2, PlacesFinite
  <2>4. \A i, j \in bucket[f] : first[i] = first[j] => i = j
    <3>1. SUFFICES ASSUME NEW i \in bucket[f], NEW j \in bucket[f], first[i] = first[j] PROVE i = j
      OBVIOUS
    <3>2. i \in places /\ j \in places
      BY <1>4
    <3>3. db.events[first[i]].sym = db.events[i].sym /\ db.events[first[i]].sym = db.events[j].sym
      BY <1>5, <3>1, <3>2 DEF SameSymbol
    <3>4. SameSymbol(db.events, places, i) = SameSymbol(db.events, places, j)
      BY <3>3 DEF SameSymbol
    <3>5. i = Max(SameSymbol(db.events, places, i)) /\ j = Max(SameSymbol(db.events, places, j))
      BY <1>4
    <3> QED BY <3>4, <3>5
  <2>5. Ties(first, bucket[f])
    BY <2>3, <2>4 DEF Ties
  <2> QED BY <1>2, <2>2, <2>5, RankedIs
<1>7. /\ \A f \in effects : entries[f] \in Seq(EventRow) /\ none[f] \in Seq(EventRow)
      /\ total["removed"] \in Int /\ zero["removed"] \in Int
  BY <1>6
<1>8. CASE from = Absent \/ to = Absent
  <2>1. ~result.found
    BY <1>1, <1>8 DEF NotFound
  <2> QED BY <1>8, <2>1
<1>9. CASE ~(from = Absent \/ to = Absent) /\ from = to
  <2>1. result.entries = none /\ result.total = zero
    BY <1>1, <1>9
  <2> HIDE DEF none, zero, total, entries
  <2> QED BY <1>7, <1>9, <2>1
<1>10. CASE ~(from = Absent \/ to = Absent) /\ from # to
  <2>1. result.entries = entries /\ result.total = total /\ result.renamed = renamed /\ result.truncated = cut
    <3> HIDE DEF cut, total, entries
    <3> QED BY <1>1, <1>10
  <2>2. \A f \in effects : total[f] = Cardinality(bucket[f]) /\ entries[f] = Ranked(db.events, bucket[f], first)
    OBVIOUS
  <2>3. ~cut => \A f \in effects : Cardinality(bucket[f]) <= Limit
    <3>1. SUFFICES ASSUME ~cut, NEW f \in effects PROVE Cardinality(bucket[f]) <= Limit
      OBVIOUS
    <3>2. ~(total[f] > Limit) /\ total[f] = Cardinality(bucket[f])
      BY <3>1
    <3>3. Cardinality(bucket[f]) \in Nat /\ Limit \in Nat
      BY <1>6, TimelineQueryAssumption
    <3> HIDE DEF total, cut
    <3> QED BY <3>2, <3>3
  <2>4. DOMAIN entries = effects
    OBVIOUS
  <2> HIDE DEF none, zero, total, entries, cut
  <2>5. EntriesTold(entries, cut, places, renamed)
    <3>1. ASSUME NEW f \in effects, NEW m \in DOMAIN entries[f]
          PROVE  \E i \in Bucket(db.events, places, renamed, f) : entries[f][m] = db.events[i]
      BY <1>6, <1>11, <2>2, <3>1 DEF RankedTold
    <3>2. ASSUME ~cut, NEW f \in effects, NEW i \in Bucket(db.events, places, renamed, f)
          PROVE  \E m \in DOMAIN entries[f] : entries[f][m] = db.events[i]
      BY <1>6, <1>11, <2>2, <2>3, <3>2 DEF RankedTold
    <3> QED BY <2>4, <3>1, <3>2 DEF EntriesTold
  <2> QED BY <1>0, <1>7, <2>1, <2>5
<1> QED BY <1>8, <1>9, <1>10

\* The history of a symbol, asked for by its id.
HistoryOf(s, includeOrphaned) ==
  LET places == EventsForSymbol(db, s, includeOrphaned)
  IN  [found |-> TRUE, sym |-> s, path |-> db.events[Max(places)].path,
       events |-> Rows(db.events, OldestFirst(places)),
       predecessors |-> RenamePairs(db, "new", s), successors |-> RenamePairs(db, "old", s)]

LEMMA ByIdIs ==
  ASSUME NEW s, NEW includeOrphaned
  PROVE  LET result == SymbolTimeline(db, [byId |-> TRUE, sym |-> s], includeOrphaned)
         IN  /\ result.found => result = HistoryOf(s, includeOrphaned)
             /\ s # Absent /\ EventsForSymbol(db, s, includeOrphaned) # {} => result = HistoryOf(s, includeOrphaned)
<1> DEFINE ask == [byId |-> TRUE, sym |-> s]
           result == SymbolTimeline(db, ask, includeOrphaned)
           places == IF s = Absent THEN {} ELSE EventsForSymbol(db, s, includeOrphaned)
           history(p) == [found |-> TRUE, sym |-> s, path |-> db.events[Max(p)].path,
                          events |-> Rows(db.events, OldestFirst(p)),
                          predecessors |-> RenamePairs(db, "new", s), successors |-> RenamePairs(db, "old", s)]
<1>1. ask.byId = TRUE /\ ask.sym = s
  OBVIOUS
<1> HIDE DEF ask
<1>2. result = IF places = {} THEN [found |-> FALSE, candidates |-> IF s = Absent THEN <<>> ELSE <<>>] ELSE history(places)
  BY <1>1, Zenon DEF SymbolTimeline
<1>3. places # {} => s # Absent /\ places = EventsForSymbol(db, s, includeOrphaned)
  OBVIOUS
<1>4. s # Absent => places = EventsForSymbol(db, s, includeOrphaned)
  OBVIOUS
<1>5. history(EventsForSymbol(db, s, includeOrphaned)) = HistoryOf(s, includeOrphaned)
  BY DEF HistoryOf
<1> HIDE DEF places, history, result
<1>6. places = {} => ~result.found
  BY <1>2
<1>7. places # {} => result = HistoryOf(s, includeOrphaned)
  BY <1>2, <1>3, <1>5
<1> QED BY <1>4, <1>6, <1>7 DEF result, ask

\* A symbol found by its name is the one its id tells.
LEMMA ByNameIs ==
  ASSUME NEW p, NEW byName, byName = SymbolTimeline(db, [byId |-> FALSE, partial |-> p], FALSE), byName.found
  PROVE  byName = SymbolTimeline(db, [byId |-> TRUE, sym |-> byName.sym], FALSE)
<1> DEFINE ask == [byId |-> FALSE, partial |-> p]
           candidates == FuzzySymbolLookup(db, p)
           s == IF Len(candidates) = 1 THEN candidates[1].sym ELSE Absent
           places == IF s = Absent THEN {} ELSE EventsForSymbol(db, s, FALSE)
           rest == IF s = Absent THEN candidates ELSE <<>>
           history(q) == [found |-> TRUE, sym |-> s, path |-> db.events[Max(q)].path,
                          events |-> Rows(db.events, OldestFirst(q)),
                          predecessors |-> RenamePairs(db, "new", s), successors |-> RenamePairs(db, "old", s)]
<1>1. ask.byId = FALSE /\ ask.partial = p
  OBVIOUS
<1> HIDE DEF ask
<1>2. byName = IF places = {} THEN [found |-> FALSE, candidates |-> rest] ELSE history(places)
  <2>1. byName = SymbolTimeline(db, ask, FALSE)
    BY DEF ask
  <2> QED BY <1>1, <2>1, Zenon DEF SymbolTimeline
<1>3. places # {} => s # Absent /\ places = EventsForSymbol(db, s, FALSE)
  OBVIOUS
<1>4. history(EventsForSymbol(db, s, FALSE)) = HistoryOf(s, FALSE)
  BY DEF HistoryOf
<1>5. history(places).sym = s
  OBVIOUS
<1> HIDE DEF places, history, s, rest
<1>6. places # {}
  <2>1. \A r : r = [found |-> FALSE, candidates |-> rest] => ~r.found
    OBVIOUS
  <2>2. places = {} => byName = [found |-> FALSE, candidates |-> rest]
    BY <1>2, Zenon
  <2> QED BY <2>1, <2>2, Zenon
<1>7. byName = HistoryOf(s, FALSE) /\ byName.sym = s /\ s # Absent /\ EventsForSymbol(db, s, FALSE) # {}
  BY <1>2, <1>3, <1>4, <1>5, <1>6
<1>8. SymbolTimeline(db, [byId |-> TRUE, sym |-> s], FALSE) = HistoryOf(s, FALSE)
  BY <1>7, ByIdIs
<1> QED BY <1>7, <1>8

\* The history of a symbol has its events, and finitely many renames.
LEMMA HistoryIs ==
  ASSUME db \in [events : Seq(EventRow), edges : Seq(EdgeRow)], NEW s,
         NEW result, result = SymbolTimeline(db, [byId |-> TRUE, sym |-> s], FALSE), result.found
  PROVE  /\ result.events \in Seq(EventRow)
         /\ Cardinality(result.predecessors) \in Nat /\ Cardinality(result.successors) \in Nat
<1>1. result = HistoryOf(s, FALSE)
  BY ByIdIs
<1> DEFINE places == EventsForSymbol(db, s, FALSE)
           events == Rows(db.events, OldestFirst(places))
           before == RenamePairs(db, "new", s)
           after  == RenamePairs(db, "old", s)
           path   == db.events[Max(places)].path
<1>2. result = [found |-> TRUE, sym |-> s, path |-> path, events |-> events, predecessors |-> before, successors |-> after]
  BY <1>1 DEF HistoryOf
<1>3. places \subseteq DOMAIN db.events
  BY DEF EventsForSymbol
<1>4. db.events \in Seq(EventRow) /\ db.edges \in Seq(EdgeRow)
  OBVIOUS
<1> HIDE DEF places
<1>5. events \in Seq(EventRow)
  BY <1>3, <1>4, OldestFirstIs
<1>6. before \subseteq DOMAIN db.edges /\ after \subseteq DOMAIN db.edges
  BY DEF RenamePairs
<1> HIDE DEF before, after
<1>7. IsFiniteSet(before) /\ IsFiniteSet(after)
  BY <1>4, <1>6, PlacesFinite
<1>8. Cardinality(before) \in Nat /\ Cardinality(after) \in Nat
  BY <1>7, FS_CardinalityType
<1> HIDE DEF events, path
<1>9. \A r : r = [found |-> TRUE, sym |-> s, path |-> path, events |-> events,
                 predecessors |-> before, successors |-> after] =>
        r.events = events /\ r.predecessors = before /\ r.successors = after
  OBVIOUS
<1>10. result.events = events /\ result.predecessors = before /\ result.successors = after
  BY <1>2, <1>9, Zenon
<1> QED BY <1>5, <1>8, <1>10

\* The lines of a question about the commits from one to another and part of a name.
Section(kinds, from, to, p, range, since, difference, history, lines) ==
  /\ from \in Commits /\ "removed_since" \in kinds
  /\ since = FindRemovedSince(db, repo, from, range, FALSE)
  /\ difference = Diff(db, repo, from, to, range)
  /\ history = SymbolTimeline(db, [byId |-> FALSE, partial |-> p], FALSE)
  /\ lines = Enrich(kinds, since, difference, history)

\* A section is within the budget but for one hint.
LEMMA EnrichIs ==
  ASSUME db \in [events : Seq(EventRow), edges : Seq(EdgeRow)],
         NEW kinds, NEW from, NEW to, NEW p, NEW range, NEW since, NEW difference, NEW history, NEW lines,
         Section(kinds, from, to, p, range, since, difference, history, lines)
  PROVE  /\ Len(lines) <= Lines - 3 + 1
         /\ \A i \in DOMAIN lines : lines[i].kind = "more" => lines[i].n + (i - 2) = since.total
<1> DEFINE empty == [lines |-> <<>>, used |-> 3, truncated |-> FALSE]
           total == since.total
           buf1  == RenderRemoved(since, empty)
           buf2  == IF "diff" \in kinds THEN RenderDiff(difference, buf1) ELSE buf1
           buf3  == IF "symbol_history" \in kinds THEN RenderSymbolHistory(history, buf2) ELSE buf2
<1>0. /\ from \in Commits /\ "removed_since" \in kinds
      /\ since = FindRemovedSince(db, repo, from, range, FALSE)
      /\ difference = Diff(db, repo, from, to, range)
      /\ history = SymbolTimeline(db, [byId |-> FALSE, partial |-> p], FALSE)
      /\ lines = Enrich(kinds, since, difference, history)
  BY DEF Section
<1>1. lines = buf3.lines
  BY <1>0, Zenon DEF Enrich
<1>2. /\ since.found /\ since.removed \in Seq(EventRow) /\ since.renamed \in Seq(EdgeRow)
      /\ total \in Nat
  <2>1. from # Absent
    BY <1>0, AbsentAssumption DEF Commits
  <2> QED BY <1>0, <2>1, RemovedSinceIs
<1>3. difference.found => /\ \A f \in {"added", "modified", "removed"} : difference.entries[f] \in Seq(EventRow)
                          /\ difference.total["removed"] \in Int
  BY <1>0, DiffIs
<1>4. history.found => /\ history.events \in Seq(EventRow)
                       /\ Cardinality(history.predecessors) \in Nat /\ Cardinality(history.successors) \in Nat
  <2>1. SUFFICES ASSUME history.found
                 PROVE  /\ history.events \in Seq(EventRow)
                        /\ Cardinality(history.predecessors) \in Nat /\ Cardinality(history.successors) \in Nat
    OBVIOUS
  <2>2. history = SymbolTimeline(db, [byId |-> TRUE, sym |-> history.sym], FALSE)
    BY <1>0, <2>1, ByNameIs
  <2> QED BY <2>1, <2>2, HistoryIs
<1>5. Bounded(empty, total) /\ empty.lines = <<>>
  <2>1. empty \in [lines : Seq(SectionLine), used : Nat, truncated : BOOLEAN]
    OBVIOUS
  <2>2. /\ empty.lines = <<>> /\ empty.used = 3 /\ empty.truncated = FALSE
        /\ Len(empty.lines) = 0 /\ DOMAIN empty.lines = {}
    OBVIOUS
  <2>3. 3 <= Lines
    BY TimelineQueryAssumption
  <2> HIDE DEF empty
  <2> QED BY <2>1, <2>2, <2>3 DEF Bounded
<1> HIDE DEF empty, total
<1>6. Bounded(buf1, total)
  BY <1>2, <1>5, RenderRemovedKeeps DEF total
<1> HIDE DEF buf1
<1>7. Bounded(buf2, total)
  BY <1>2, <1>3, <1>6, RenderDiffKeeps
<1> HIDE DEF buf2
<1>8. Bounded(buf3, total)
  <2>1. total \in Int
    BY <1>2
  <2>2. Bounded(RenderSymbolHistory(history, buf2), total)
    BY <1>4, <1>7, <2>1, RenderSymbolHistoryKeeps
  <2> QED BY <1>7, <2>2
<1> HIDE DEF buf3
<1> DEFINE len == Len(lines)
<1>9. /\ len \in Nat /\ buf3.used \in Nat /\ buf3.used <= Lines
      /\ len + 3 = buf3.used + (IF buf3.truncated THEN 1 ELSE 0)
  <2>1. /\ buf3 \in [lines : Seq(SectionLine), used : Nat, truncated : BOOLEAN]
        /\ buf3.used <= Lines
        /\ Len(buf3.lines) + 3 = buf3.used + (IF buf3.truncated THEN 1 ELSE 0)
    BY <1>8 DEF Bounded
  <2>2. buf3.lines \in Seq(SectionLine) /\ buf3.used \in Nat
    BY <2>1
  <2>5. len = Len(buf3.lines)
    BY <1>1, Zenon
  <2> HIDE DEF len
  <2>3. len \in Nat
    <3>1. Len(buf3.lines) \in Nat
      BY <2>2
    <3> QED BY <2>5, <3>1, Zenon
  <2>4. len + 3 = buf3.used + (IF buf3.truncated THEN 1 ELSE 0)
    BY <2>1, <2>5, Zenon
  <2> QED BY <2>1, <2>2, <2>3, <2>4
<1>10. Lines \in Nat
  BY TimelineQueryAssumption
<1>11. len <= Lines - 3 + 1
  <2> HIDE DEF len
  <2> QED BY <1>9, <1>10
<1>12. \A i \in DOMAIN lines : lines[i].kind = "more" => lines[i].n + (i - 2) = total
  BY <1>1, <1>8 DEF Bounded
<1> QED BY <1>11, <1>12 DEF total

\* A section keeps its size and counts what it leaves out, for any rows of the timeline, any
\* limits and any question (query.py, timeline_enrich.py enrich_pack_with_timeline).
THEOREM SectionsFit == Spec => []SectionFits
<1>1. TypeInv => SectionFits
  <2>1. SUFFICES ASSUME TypeInv PROVE SectionFits
    OBVIOUS
  <2>2. db \in [events : Seq(EventRow), edges : Seq(EdgeRow)]
    BY <2>1 DEF TypeInv, StoreTyped
  <2>3. ASSUME NEW from \in Commits, NEW kinds \in {{"removed_since"}, {"removed_since", "diff", "symbol_history"}},
               NEW p \in DOMAIN Contains_
        PROVE  LET range == CommitsBetween(repo, from, repo.head)
                   since == FindRemovedSince(db, repo, from, range, FALSE)
                   diff  == Diff(db, repo, from, repo.head, range)
                   lines == Enrich(kinds, since, diff, SymbolTimeline(db, [byId |-> FALSE, partial |-> p], FALSE))
               IN  /\ Len(lines) <= Lines - 3 + 1
                   /\ \A i \in DOMAIN lines : lines[i].kind = "more" => lines[i].n + (i - 2) = since.total
    <3> DEFINE range   == CommitsBetween(repo, from, repo.head)
               since   == FindRemovedSince(db, repo, from, range, FALSE)
               compare == Diff(db, repo, from, repo.head, range)
               history == SymbolTimeline(db, [byId |-> FALSE, partial |-> p], FALSE)
               lines   == Enrich(kinds, since, compare, history)
    <3>1. "removed_since" \in kinds
      BY <2>3
    <3>2. Section(kinds, from, repo.head, p, range, since, compare, history, lines)
      BY <2>3, <3>1 DEF Section
    <3> HIDE DEF range, since, compare, history, lines
    <3>3. /\ Len(lines) <= Lines - 3 + 1
          /\ \A i \in DOMAIN lines : lines[i].kind = "more" => lines[i].n + (i - 2) = since.total
      BY <2>2, <3>2, EnrichIs
    <3> QED BY <3>3 DEF range, since, compare, history, lines
  <2> QED BY <2>3, Zenon DEF SectionFits
<1> QED BY <1>1, TimelineTypeCorrect, PTL

-----------------------------------------------------------------------------
(* A straight history, scanned whole.                                      *)

Smooth == {"cut", "dirty", "rewound", "deleted"} \subseteq regular

TreeAt(c) == IF c = 0 THEN [s \in Symbol |-> Absent] ELSE repo.commits[c].tree

LastScanned == IF scanned = {} THEN 0 ELSE Max(scanned)

Straight ==
  /\ repo.head = Len(repo.commits)
  /\ \A c \in Commits : repo.commits[c].parent = c - 1 /\ repo.commits[c].ts <= clock
  /\ \A c, d \in Commits : c < d => repo.commits[c].ts < repo.commits[d].ts
  /\ scanned \subseteq Commits

\* A scan is of HEAD, and compares it with the commit scanned last.
ScanOfHead ==
  /\ pc # "idle" => /\ stamp.commit = Head_ /\ curr = BuildSnapshot(TreeAt(repo.head))
                    /\ \A c \in Commits : repo.commits[c].ts < stamp.ts
                    /\ \A x \in todo.edges : x.commit = stamp.commit
  /\ pc \in {"idle", "emit"} => LoadSnapshot = BuildSnapshot(TreeAt(LastScanned))
  /\ pc = "state" => sidecar = curr

\* A row is of a scanned commit, or of the one in progress, and later than its commit.
Placed(row) ==
  /\ row.commit \in scanned \/ (pc # "idle" /\ row.commit = repo.head)
  /\ row.commit \in Commits /\ repo.commits[row.commit].ts < row.ts

RowsPlaced ==
  /\ \A i \in DOMAIN db.events : Placed(db.events[i]) /\ ~db.events[i].orphaned
  /\ \A i \in DOMAIN db.edges : Placed(db.edges[i])
  /\ \A i, j \in DOMAIN db.events : i < j => db.events[i].commit <= db.events[j].commit

\* What the scan in progress has written or has yet to write.
Reports(type, s) ==
  \/ \E e \in todo.events : e.sym = s /\ e.type = type
  \/ \E i \in DOMAIN db.events : db.events[i].sym = s /\ db.events[i].type = type /\ db.events[i].commit = repo.head

Renames(old, new) ==
  \/ \E x \in todo.edges : ~x.candidate /\ x.old = old /\ x.new = new
  \/ \E i \in DOMAIN db.edges : /\ ~db.edges[i].candidate /\ db.edges[i].commit = repo.head
                                /\ db.edges[i].old = old /\ db.edges[i].new = new

\* Events and confirmed renames are about what is different, and leave nothing out.
ScanTells(before, after) ==
  /\ \A type \in {"added", "removed", "modified", "moved"}, s \in Symbol :
       Reports(type, s) => /\ before[s] # after[s]
                           /\ type = "added" <=> before[s] = Absent
                           /\ type = "removed" <=> after[s] = Absent
  /\ \A r, a \in Symbol :
       Renames(r, a) => before[r] # Absent /\ after[r] = Absent /\ before[a] = Absent /\ after[a] # Absent
  /\ \A s \in Symbol :
       before[s] # after[s] => \/ \E type \in {"added", "removed", "modified", "moved"} : Reports(type, s)
                              \/ \E t \in Symbol : Renames(s, t) \/ Renames(t, s)

StepTells ==
  pc # "idle" => IF repo.head \in scanned \cup {0} THEN todo = NoRows
                 ELSE ScanTells(TreeAt(LastScanned), TreeAt(repo.head))

EventsIn(s, from, to) == {i \in EventsOf(s) : db.events[i].commit \in (from + 1)..to}

RenamesIn(s, from, to) == {i \in RenamesOf(s) : db.edges[i].commit \in (from + 1)..to}

\* What the rows between two commits say of a symbol.
Exact(s, from, to) ==
  LET before == TreeAt(from)[s]
      after  == TreeAt(to)[s]
  IN  /\ EventsIn(s, from, to) = {} /\ before # after =>
           /\ before # Absent => \E i \in RenamesIn(s, from, to) : db.edges[i].old = s
           /\ after # Absent => \E i \in RenamesIn(s, from, to) : db.edges[i].new = s
      /\ RenamesIn(s, from, to) = {} =>
           \A i \in EventsIn(s, from, to) :
             /\ (\A j \in EventsIn(s, from, to) : i <= j) => (db.events[i].type = "added" <=> before = Absent)
             /\ (\A j \in EventsIn(s, from, to) : j <= i) => (db.events[i].type = "removed" <=> after = Absent)
      /\ EventsIn(s, from, to) # {} => \E c \in (from + 1)..to : TreeAt(c)[s] # before

LogIsExact == \A from, to \in scanned : from <= to => \A s \in Symbol : Exact(s, from, to)

StraightInv == Smooth => Straight /\ ScanOfHead /\ RowsPlaced /\ StepTells /\ LogIsExact

\* A set of numbers up to some has a largest.
LEMMA Largest ==
  ASSUME NEW n \in Nat, NEW T, T \subseteq 1..n, T # {}
  PROVE  Max(T) \in T /\ \A k \in T : k <= Max(T)
<1> DEFINE U == {n - k : k \in T}
<1>1. \A k \in T : k \in Nat /\ k <= n /\ n - k \in Nat
  OBVIOUS
<1>2. U \subseteq Nat /\ U # {}
  BY <1>1
<1>3. PICK m \in U : \A k \in U : m <= k
  BY <1>2, Smallest
<1>4. PICK t \in T : m = n - t
  BY <1>3
<1>5. ASSUME NEW k \in T PROVE t >= k
  <2>1. n - t <= n - k
    BY <1>3, <1>4
  <2> QED BY <1>1, <2>1
<1>6. Max(T) \in T /\ \A k \in T : Max(T) >= k
  BY <1>5 DEF Max
<1> QED BY <1>1, <1>6

\* The commit scanned last is the last of those that were.
LEMMA LastScannedIs ==
  ASSUME TypeInv, scanned \subseteq Commits
  PROVE  /\ LastScanned \in 0..Len(repo.commits) /\ LastScanned \in scanned \cup {0}
         /\ \A c \in scanned : c <= LastScanned
<1> DEFINE n == Len(repo.commits)
<1>1. n \in Nat /\ scanned \subseteq 1..n
  BY DEF TypeInv, GitTyped, Commits
<1> HIDE DEF n
<1>2. CASE scanned = {}
  BY <1>1, <1>2 DEF LastScanned, n
<1>3. CASE scanned # {}
  <2>1. LastScanned = Max(scanned)
    BY <1>3 DEF LastScanned
  <2>2. LastScanned \in scanned /\ \A c \in scanned : c <= LastScanned
    BY <1>1, <1>3, <2>1, Largest
  <2> QED BY <1>1, <2>2 DEF n
<1> QED BY <1>2, <1>3

\* What a commit holds.
LEMMA TreeAtIs ==
  ASSUME TypeInv, NEW c \in 0..Len(repo.commits)
  PROVE  TreeAt(c) \in Tree
<1> DEFINE n == Len(repo.commits)
<1>1. n \in Nat /\ repo.commits \in Seq(Commit)
  BY DEF TypeInv, GitTyped
<1>2. \A d \in 1..n : repo.commits[d] \in Commit
  BY <1>1
<1>3. CASE c = 0
  <2>1. TreeAt(c) = [s \in Symbol |-> Absent]
    BY <1>3 DEF TreeAt
  <2> QED BY <2>1, TimelineDiffAssumption
<1>4. CASE c # 0
  <2>1. c \in 1..n
    BY <1>1, <1>4
  <2>2. repo.commits[c].tree \in Tree
    BY <1>2, <2>1 DEF Commit
  <2> QED BY <1>4, <2>2 DEF TreeAt
<1> QED BY <1>3, <1>4

\* Two snapshots differ where their trees do.
LEMMA SnapshotsDiffer ==
  ASSUME NEW before \in Tree, NEW after \in Tree, NEW s \in Symbol
  PROVE  /\ s \in DOMAIN BuildSnapshot(before) <=> before[s] # Absent
         /\ s \in DOMAIN BuildSnapshot(after) <=> after[s] # Absent
         /\ before[s] # Absent /\ after[s] # Absent =>
              (BuildSnapshot(before)[s] # BuildSnapshot(after)[s] <=> before[s] # after[s])
<1>1. \A t \in Tree : /\ s \in DOMAIN BuildSnapshot(t) <=> t[s] # Absent
                      /\ t[s] # Absent => BuildSnapshot(t)[s] = [hash |-> ContentHash(s, t[s]), path |-> FilePath[s]]
  BY DEF BuildSnapshot
<1>2. ContentHash(s, before[s]) = ContentHash(s, after[s]) <=> before[s] = after[s]
  BY DEF ContentHash
<1>3. \A x, h, p : x = [hash |-> h, path |-> p] => x.hash = h
  OBVIOUS
<1>4. ASSUME before[s] # Absent, after[s] # Absent
      PROVE  BuildSnapshot(before)[s] # BuildSnapshot(after)[s] <=> before[s] # after[s]
  <2>1. /\ BuildSnapshot(before)[s] = [hash |-> ContentHash(s, before[s]), path |-> FilePath[s]]
        /\ BuildSnapshot(after)[s] = [hash |-> ContentHash(s, after[s]), path |-> FilePath[s]]
    BY <1>1, <1>4, Zenon
  <2>2. before[s] = after[s] => BuildSnapshot(before)[s] = BuildSnapshot(after)[s]
    BY <2>1, Zenon
  <2>3. BuildSnapshot(before)[s].hash = ContentHash(s, before[s]) /\ BuildSnapshot(after)[s].hash = ContentHash(s, after[s])
    BY <1>3, <2>1, Zenon
  <2> QED BY <1>2, <2>2, <2>3, Zenon
<1> QED BY <1>1, <1>4

\* What is told of two snapshots is told of their trees, as long as no row of the commit
\* was there before.
LEMMA BeginTells ==
  ASSUME TypeInv, BeginEmit, NEW before \in Tree, NEW after \in Tree,
         LoadSnapshot = BuildSnapshot(before), curr' = BuildSnapshot(after),
         \A i \in DOMAIN db.events : db.events[i].commit # repo.head,
         \A i \in DOMAIN db.edges : db.edges[i].commit # repo.head
  PROVE  ScanTells(before, after)'
<1> DEFINE prev == BuildSnapshot(before)
           snap == BuildSnapshot(after)
           types == {"added", "removed", "modified", "moved"}
<1>1. Tells(todo', prev, snap, Head_, clock + 1)
  BY Begun
<1>2. db' = db /\ repo' = repo
  BY DEF BeginEmit, storeVars, gitVars
<1>3. \A s \in Symbol : /\ s \in DOMAIN prev <=> before[s] # Absent
                        /\ s \in DOMAIN snap <=> after[s] # Absent
                        /\ before[s] # Absent /\ after[s] # Absent => (prev[s] # snap[s] <=> before[s] # after[s])
  BY SnapshotsDiffer
<1>4. DOMAIN prev \subseteq Symbol /\ DOMAIN snap \subseteq Symbol
  BY DEF BuildSnapshot
<1> HIDE DEF prev, snap
<1>5. \A type \in types, s \in Symbol : Reports(type, s)' <=> \E e \in todo'.events : e.sym = s /\ e.type = type
  BY <1>2 DEF Reports
<1>6. \A r, a \in Symbol : Renames(r, a)' <=> \E x \in todo'.edges : ~x.candidate /\ x.old = r /\ x.new = a
  BY <1>2 DEF Renames
<1>7. ASSUME NEW type \in types, NEW s \in Symbol, Reports(type, s)'
      PROVE  /\ before[s] # after[s]
             /\ type = "added" <=> before[s] = Absent
             /\ type = "removed" <=> after[s] = Absent
  <2>1. PICK e \in todo'.events : e.sym = s /\ e.type = type
    BY <1>5, <1>7
  <2>2. /\ type # "removed" <=> s \in DOMAIN snap
        /\ type # "added" <=> s \in DOMAIN prev
        /\ s \in DOMAIN prev \cap DOMAIN snap => prev[s] # snap[s]
    BY <1>1, <2>1 DEF Tells
  <2> QED BY <1>3, <2>2
<1>8. ASSUME NEW r \in Symbol, NEW a \in Symbol, Renames(r, a)'
      PROVE  before[r] # Absent /\ after[r] = Absent /\ before[a] = Absent /\ after[a] # Absent
  <2>1. PICK x \in todo'.edges : x.old = r /\ x.new = a
    BY <1>6, <1>8
  <2>2. r \in DOMAIN prev \ DOMAIN snap /\ a \in DOMAIN snap \ DOMAIN prev
    BY <1>1, <2>1 DEF Tells
  <2> QED BY <1>3, <2>2
<1>9. ASSUME NEW s \in Symbol, before[s] # after[s]
      PROVE  \/ \E type \in types : Reports(type, s)'
             \/ \E t \in Symbol : Renames(s, t)' \/ Renames(t, s)'
  <2>1. \/ \E e \in todo'.events : e.sym = s
        \/ \E x \in todo'.edges : ~x.candidate /\ s \in {x.old, x.new}
    <3>1. s \in DOMAIN prev \cup DOMAIN snap
      BY <1>3, <1>9
    <3>2. CASE s \in DOMAIN prev \cap DOMAIN snap
      <4>1. prev[s] # snap[s]
        BY <1>3, <1>9, <3>2
      <4> QED BY <1>1, <3>2, <4>1 DEF Tells
    <3>3. CASE s \notin DOMAIN prev \cap DOMAIN snap
      <4>1. s \in (DOMAIN prev \ DOMAIN snap) \cup (DOMAIN snap \ DOMAIN prev)
        BY <3>1, <3>3
      <4> QED BY <1>1, <4>1 DEF Tells
    <3> QED BY <3>2, <3>3
  <2>2. CASE \E e \in todo'.events : e.sym = s
    <3>1. PICK e \in todo'.events : e.sym = s
      BY <2>2
    <3>2. e \in EventRow
      BY <1>1 DEF Tells
    <3>3. e.type \in types
      BY <3>2 DEF EventRow
    <3> QED BY <1>5, <3>1, <3>3
  <2>3. CASE \E x \in todo'.edges : ~x.candidate /\ s \in {x.old, x.new}
    <3>1. PICK x \in todo'.edges : ~x.candidate /\ s \in {x.old, x.new}
      BY <2>3
    <3>2. x.old \in Symbol /\ x.new \in Symbol
      BY <1>1, <1>4 DEF Tells
    <3> QED BY <1>6, <3>1, <3>2
  <2> QED BY <2>1, <2>2, <2>3
<1> QED BY <1>7, <1>8, <1>9 DEF ScanTells

\* Where nothing has changed there is nothing to write.
LEMMA NothingToTell ==
  ASSUME TypeInv, BeginEmit, curr' = LoadSnapshot
  PROVE  todo' = NoRows
<1>1. Tells(todo', LoadSnapshot, LoadSnapshot, Head_, clock + 1)
  BY Begun
<1>2. todo'.events = {}
  <2>1. SUFFICES ASSUME NEW e \in todo'.events PROVE FALSE
    OBVIOUS
  <2>2. e.sym \notin DOMAIN LoadSnapshot
    BY <1>1 DEF Tells
  <2>3. e.type = "removed" /\ e.type = "added"
    BY <1>1, <2>2 DEF Tells
  <2> QED BY <2>3
<1>3. todo'.edges = {}
  BY <1>1 DEF Tells
<1>4. todo' = [events |-> todo'.events, edges |-> todo'.edges]
  BY <1>1 DEF Tells
<1> QED BY <1>2, <1>3, <1>4 DEF NoRows

\* In a straight history a commit has all before it as ancestors.
LEMMA AncestorsAre ==
  ASSUME TypeInv, Straight, NEW c \in 0..Len(repo.commits)
  PROVE  Ancestors(repo, c) = 1..c
<1> DEFINE n == Len(repo.commits)
           Fits(f) == f = [d \in 0..n |-> IF d = 0 THEN {} ELSE {d} \cup f[repo.commits[d].parent]]
           w == [d \in 0..n |-> 1..d]
           r == CHOOSE f : Fits(f)
           S == {k \in Nat : k <= n => r[k] = 1..k}
<1>1. n \in Nat /\ \A d \in 1..n : repo.commits[d].parent = d - 1
  BY DEF TypeInv, GitTyped, Straight, Commits
<1>2. Ancestors(repo, c) = r[c]
  BY DEF Ancestors
<1> HIDE DEF n
<1>3. Fits(w)
  <2>1. ASSUME NEW d \in 0..n PROVE 1..d = IF d = 0 THEN {} ELSE {d} \cup w[repo.commits[d].parent]
    <3>1. CASE d = 0
      BY <1>1, <3>1
    <3>2. CASE d # 0
      <4>1. repo.commits[d].parent = d - 1 /\ d - 1 \in 0..n
        BY <1>1, <3>2
      <4>2. w[repo.commits[d].parent] = 1..(d - 1)
        BY <4>1
      <4>3. 1..d = {d} \cup 1..(d - 1)
        BY <1>1, <3>2
      <4> QED BY <3>2, <4>2, <4>3
    <3> QED BY <3>1, <3>2
  <2> QED BY <2>1
<1> HIDE DEF w
<1>4. Fits(r)
  BY <1>3
<1> HIDE DEF r
<1>5. \A d \in 0..n : r[d] = IF d = 0 THEN {} ELSE {d} \cup r[repo.commits[d].parent]
  BY <1>4
<1>6. 0 \in S
  <2>1. 0 \in 0..n
    BY <1>1
  <2>2. r[0] = {}
    BY <1>5, <2>1
  <2>3. 1..0 = {}
    OBVIOUS
  <2> QED BY <2>2, <2>3
<1>7. ASSUME NEW k \in Nat, k \in S PROVE k + 1 \in S
  <2>1. SUFFICES ASSUME k + 1 <= n PROVE r[k + 1] = 1..(k + 1)
    OBVIOUS
  <2>2. r[k] = 1..k /\ k + 1 \in 1..n /\ k + 1 # 0
    BY <1>1, <1>7, <2>1
  <2>3. repo.commits[k + 1].parent = k
    BY <1>1, <2>2
  <2>4. r[k + 1] = {k + 1} \cup r[repo.commits[k + 1].parent]
    <3>1. k + 1 \in 0..n
      BY <1>1, <2>2
    <3> HIDE DEF Fits, S
    <3> QED BY <1>5, <2>2, <3>1, Zenon
  <2> QED BY <2>2, <2>3, <2>4
<1>8. Nat \subseteq S
  <2> HIDE DEF S
  <2> QED BY <1>6, <1>7, Induct
<1> QED BY <1>1, <1>2, <1>8 DEF n

\* The commits between two are those after the one up to the other.
LEMMA CommitsBetweenAre ==
  ASSUME TypeInv, Straight, NEW from \in 0..Len(repo.commits), NEW to \in 0..Len(repo.commits)
  PROVE  CommitsBetween(repo, from, to) = (from + 1)..to
<1>1. Ancestors(repo, from) = 1..from /\ Ancestors(repo, to) = 1..to
  BY AncestorsAre
<1>2. from \in Nat /\ to \in Nat
  BY DEF TypeInv, GitTyped
<1> QED BY <1>1, <1>2 DEF CommitsBetween

\* There is nothing to reconcile in a straight history.
LEMMA NothingToReconcile ==
  ASSUME TypeInv, Straight, \A i \in DOMAIN db.events : db.events[i].commit \in Commits
  PROVE  ~Reconcile
<1>1. SUFFICES ASSUME NEW reflogToo, db' = [db EXCEPT !.events = MarkOrphans(@, ReachableCommits(reflogToo))]
               PROVE  db' = db
  BY DEF Reconcile
<1> DEFINE shas == ReachableCommits(reflogToo)
           rows == db.events
           marked == MarkOrphans(rows, shas)
<1>2. Commits \subseteq shas
  <2>1. Ancestors(repo, repo.head) = 1..repo.head /\ repo.head = Len(repo.commits)
    BY AncestorsAre DEF TypeInv, GitTyped, Straight
  <2> QED BY <2>1 DEF ReachableCommits, Commits
<1>3. rows \in Seq(EventRow) /\ db' = [db EXCEPT !.events = marked]
  BY <1>1 DEF TypeInv, StoreTyped
<1>4. \A i \in DOMAIN rows : rows[i].commit \in shas
  BY <1>2
<1> HIDE DEF shas
<1>5. marked \in Seq(EventRow) /\ DOMAIN marked = DOMAIN rows /\ \A i \in DOMAIN rows : marked[i] = rows[i]
  BY <1>3, <1>4, MarkOrphansHas
<1> HIDE DEF marked
<1>6. marked = rows
  BY <1>3, <1>5
<1>7. db \in [events : Seq(EventRow), edges : Seq(EdgeRow)]
  BY DEF TypeInv, StoreTyped
<1> QED BY <1>3, <1>6, <1>7

-----------------------------------------------------------------------------
\* What the log says between two commits depends on their rows and files alone.
LEMMA ExactKept ==
  ASSUME NEW s, NEW from \in Int, NEW to \in Int, Exact(s, from, to),
         \A c \in from..to : TreeAt(c)' = TreeAt(c), from <= to,
         EventsIn(s, from, to)' = EventsIn(s, from, to), RenamesIn(s, from, to)' = RenamesIn(s, from, to),
         \A i \in EventsIn(s, from, to) : db'.events[i] = db.events[i],
         \A i \in RenamesIn(s, from, to) : db'.edges[i] = db.edges[i]
  PROVE  Exact(s, from, to)'
<1>1. TreeAt(from)' = TreeAt(from) /\ TreeAt(to)' = TreeAt(to)
  OBVIOUS
<1>2. \A c \in (from + 1)..to : TreeAt(c)' = TreeAt(c)
  OBVIOUS
<1> QED BY <1>1, <1>2 DEF Exact

\* No step makes up for what went wrong.
LEMMA SmoothBefore ==
  ASSUME [Next]_vars, Smooth'
  PROVE  Smooth /\ ~GitAmend /\ ~GitReset /\ ~CutShort /\ ~PruneCmd
<1>1. regular' \subseteq regular
  BY DEF Next, Edit, GitCommit, GitAmend, GitReset, GitExpire, GitTag, GitUntag, NewCommit, BeginEmit, WriteEvent, WriteEdge,
         TruncateSidecar, SaveSidecar, UpsertScanState, CutShort, Reconcile, PruneCmd, PollTags, Upsetting, historyVars, vars
<1>2. ~GitAmend /\ ~GitReset /\ ~CutShort /\ ~PruneCmd
  BY DEF Smooth, GitAmend, GitReset, CutShort, PruneCmd, Upsetting
<1> QED BY <1>1, <1>2 DEF Smooth

\* The commits are.
LEMMA CommitsAre ==
  ASSUME TypeInv
  PROVE  \A c \in Commits : repo.commits[c] \in Commit /\ repo.commits[c].ts \in Nat
<1> DEFINE n == Len(repo.commits)
<1>1. n \in Nat /\ repo.commits \in Seq(Commit) /\ Commits = 1..n
  BY DEF TypeInv, GitTyped, Commits
<1>2. \A c \in 1..n : repo.commits[c] \in Commit
  BY <1>1
<1>3. \A x \in Commit : x.ts \in Nat
  BY DEF Commit
<1> QED BY <1>1, <1>2, <1>3

\* A step that leaves commits, HEAD, rows and scanned commits as they are.
LEMMA HistoryLeft ==
  ASSUME TypeInv, Straight, RowsPlaced, LogIsExact, repo'.commits = repo.commits, repo'.head = repo.head, db' = db,
         scanned' = scanned, clock' \in Nat, clock <= clock', pc # "idle" => pc' # "idle"
  PROVE  /\ Straight' /\ RowsPlaced' /\ LogIsExact' /\ LastScanned' = LastScanned /\ Head_' = Head_
         /\ \A c : TreeAt(c)' = TreeAt(c)
<1>1. Commits' = Commits
  BY DEF Commits
<1>2. \A c \in Commits : repo.commits[c].ts \in Nat
  BY CommitsAre
<1>3. Straight'
  BY <1>1, <1>2 DEF Straight, TypeInv, GitTyped
<1>4. RowsPlaced'
  BY <1>1 DEF RowsPlaced, Placed
<1>5. \A c : TreeAt(c)' = TreeAt(c)
  BY DEF TreeAt
<1>6. LogIsExact'
  BY <1>5 DEF LogIsExact, Exact, EventsIn, RenamesIn, EventsOf, RenamesOf
<1>7. LastScanned' = LastScanned /\ Head_' = Head_
  BY DEF LastScanned, Head_
<1> QED BY <1>3, <1>4, <1>5, <1>6, <1>7

\* And what a scan is at.
LEMMA ScanAsWas ==
  ASSUME ScanOfHead, StepTells, UNCHANGED <<pc, stamp, curr, todo, sidecar, db, scanned>>, Commits' = Commits,
         repo'.commits = repo.commits, repo'.head = repo.head, LastScanned' = LastScanned, Head_' = Head_,
         \A c : TreeAt(c)' = TreeAt(c)
  PROVE  ScanOfHead' /\ StepTells'
<1>1. LoadSnapshot' = LoadSnapshot
  BY DEF LoadSnapshot
<1>2. ScanOfHead'
  BY <1>1 DEF ScanOfHead
<1>3. StepTells'
  BY DEF StepTells, ScanTells, Reports, Renames
<1> QED BY <1>2, <1>3

\* The user's edits and refs, the polls of tags, and steps of nothing.
LEMMA QuietStraight ==
  ASSUME TypeInv, StraightInv, Smooth, Edit \/ GitExpire \/ GitTag \/ GitUntag \/ PollTags \/ UNCHANGED vars
  PROVE  StraightInv'
<1>1. /\ repo'.commits = repo.commits /\ repo'.head = repo.head /\ db' = db /\ scanned' = scanned /\ clock' = clock
      /\ UNCHANGED <<pc, stamp, curr, todo, sidecar>>
  <2>1. CASE Edit
    BY <2>1 DEF Edit, scanVars, storeVars, historyVars
  <2>2. CASE GitExpire
    BY <2>2 DEF GitExpire, scanVars, storeVars, historyVars, TypeInv, GitTyped
  <2>3. CASE GitTag \/ GitUntag
    BY <2>3 DEF GitTag, GitUntag, scanVars, storeVars, historyVars, TypeInv, GitTyped
  <2>4. CASE PollTags
    BY <2>4 DEF PollTags, gitVars, scanVars, storeVars, historyVars
  <2>5. CASE UNCHANGED vars
    BY <2>5 DEF vars, gitVars, scanVars, storeVars, historyVars
  <2> QED BY <2>1, <2>2, <2>3, <2>4, <2>5
<1>2. Straight /\ ScanOfHead /\ RowsPlaced /\ StepTells /\ LogIsExact
  BY DEF StraightInv
<1>3. /\ Straight' /\ RowsPlaced' /\ LogIsExact' /\ LastScanned' = LastScanned /\ Head_' = Head_
      /\ \A c : TreeAt(c)' = TreeAt(c)
  BY <1>1, <1>2, HistoryLeft DEF TypeInv, GitTyped
<1>4. ScanOfHead' /\ StepTells'
  BY <1>1, <1>2, <1>3, ScanAsWas DEF Commits
<1> QED BY <1>3, <1>4 DEF StraightInv

\* The sidecar is truncated and filled.
LEMMA SidecarStraight ==
  ASSUME TypeInv, StraightInv, Smooth, TruncateSidecar \/ SaveSidecar
  PROVE  StraightInv'
<1>1. /\ repo' = repo /\ db' = db /\ scanned' = scanned /\ clock' = clock
      /\ UNCHANGED <<stamp, curr, todo>> /\ todo = NoRows
  BY DEF TruncateSidecar, SaveSidecar, gitVars, historyVars, TypeInv, ScanTyped
<1>2. /\ pc # "idle" /\ pc' \in {"save", "state"}
      /\ pc' = "state" => sidecar' = curr
  BY DEF TruncateSidecar, SaveSidecar
<1>3. Straight /\ ScanOfHead /\ RowsPlaced /\ StepTells /\ LogIsExact
  BY DEF StraightInv
<1>4. /\ Straight' /\ RowsPlaced' /\ LogIsExact' /\ LastScanned' = LastScanned /\ Head_' = Head_
      /\ \A c : TreeAt(c)' = TreeAt(c)
  BY <1>1, <1>2, <1>3, HistoryLeft DEF TypeInv, GitTyped
<1>5. ScanOfHead'
  BY <1>1, <1>2, <1>3, <1>4 DEF ScanOfHead, Commits
<1>6. StepTells'
  BY <1>1, <1>2, <1>3, <1>4 DEF StepTells, ScanTells, Reports, Renames
<1> QED BY <1>4, <1>5, <1>6 DEF StraightInv

\* A scan of a clean HEAD begins.
LEMMA BeginStraight ==
  ASSUME TypeInv, StraightInv, Smooth, Smooth', BeginEmit
  PROVE  StraightInv'
<1> DEFINE n == Len(repo.commits)
<1>1. /\ repo' = repo /\ db' = db /\ scanned' = scanned /\ clock' = clock + 1 /\ sidecar' = sidecar
      /\ pc = "idle" /\ pc' = "emit" /\ curr' = BuildSnapshot(work)
      /\ stamp' = [commit |-> Head_, ts |-> clock + 1]
  BY DEF BeginEmit, gitVars, storeVars
<1>2. Straight /\ ScanOfHead /\ RowsPlaced /\ StepTells /\ LogIsExact
  BY DEF StraightInv
<1>3. n \in Nat /\ repo.head = n /\ clock \in Nat /\ Commits = 1..n /\ scanned \subseteq Commits
  BY <1>2 DEF TypeInv, GitTyped, Straight, Commits
<1>4. /\ Straight' /\ RowsPlaced' /\ LogIsExact' /\ LastScanned' = LastScanned /\ Head_' = Head_
      /\ \A c : TreeAt(c)' = TreeAt(c)
  BY <1>1, <1>2, <1>3, HistoryLeft
<1>5. work = TreeAt(repo.head)
  <2>1. work = HeadTree
    BY DEF BeginEmit, Smooth
  <2> QED BY <2>1 DEF HeadTree, TreeAt
<1>6. LoadSnapshot = BuildSnapshot(TreeAt(LastScanned))
  BY <1>1, <1>2 DEF ScanOfHead
<1>7. Tells(todo', LoadSnapshot, curr', Head_, clock + 1)
  BY Begun
<1>8. ScanOfHead'
  <2>1. LoadSnapshot' = LoadSnapshot
    BY <1>1 DEF LoadSnapshot
  <2>2. stamp'.commit = Head_ /\ stamp'.ts = clock + 1
    BY <1>1
  <2>3. \A c \in Commits : repo.commits[c].ts < clock + 1
    <3>1. \A c \in Commits : repo.commits[c].ts <= clock /\ repo.commits[c].ts \in Nat
      BY <1>2, CommitsAre DEF Straight
    <3> QED BY <1>3, <3>1
  <2>4. \A x \in todo'.edges : x.commit = Head_
    BY <1>7 DEF Tells
  <2>5. Commits' = Commits
    BY <1>1 DEF Commits
  <2> QED BY <1>1, <1>4, <1>5, <1>6, <2>1, <2>2, <2>3, <2>4, <2>5 DEF ScanOfHead
<1>9. LastScanned \in 0..n /\ LastScanned \in scanned \cup {0} /\ \A c \in scanned : c <= LastScanned
  BY <1>3, LastScannedIs
<1>10. StepTells'
  <2>1. CASE repo.head \in scanned \cup {0}
    <3>1. LastScanned = repo.head
      BY <1>3, <1>9, <2>1
    <3>2. curr' = LoadSnapshot
      BY <1>1, <1>5, <1>6, <3>1
    <3>3. todo' = NoRows
      BY <3>2, NothingToTell
    <3> QED BY <1>1, <2>1, <3>3 DEF StepTells
  <2>2. CASE repo.head \notin scanned \cup {0}
    <3> DEFINE before == TreeAt(LastScanned)
               after == TreeAt(repo.head)
    <3>1. before \in Tree /\ after \in Tree
      BY <1>3, <1>9, TreeAtIs
    <3>2. /\ \A i \in DOMAIN db.events : db.events[i].commit # repo.head
          /\ \A i \in DOMAIN db.edges : db.edges[i].commit # repo.head
      BY <1>1, <1>2, <2>2 DEF RowsPlaced, Placed
    <3>3. curr' = BuildSnapshot(after) /\ LoadSnapshot = BuildSnapshot(before)
      BY <1>1, <1>5, <1>6
    <3>4. before' = before /\ after' = after
      BY <1>1, <1>4
    <3> HIDE DEF before, after
    <3>5. PICK b \in Tree, a \in Tree : b = before /\ a = after
      BY <3>1
    <3>6. ScanTells(b, a)'
      BY <3>2, <3>3, <3>5, BeginTells
    <3>7. ScanTells(before, after)'
      BY <3>4, <3>5, <3>6 DEF ScanTells, Reports, Renames
    <3> QED BY <1>1, <2>2, <3>4, <3>7 DEF StepTells, before, after
  <2> QED BY <2>1, <2>2
<1> QED BY <1>4, <1>8, <1>10 DEF StraightInv

\* A commit is added to the history.
LEMMA CommitStraight ==
  ASSUME TypeInv, StraightInv, Smooth, GitCommit
  PROVE  StraightInv'
<1> DEFINE n == Len(repo.commits)
           new == [parent |-> repo.head, tree |-> work, ts |-> clock + 1]
<1>1. /\ db' = db /\ scanned' = scanned /\ clock' = clock + 1
      /\ pc = "idle" /\ UNCHANGED <<pc, stamp, curr, todo, sidecar>>
  BY DEF GitCommit, NewCommit, scanVars, storeVars, historyVars
<1>2. repo'.commits = Append(repo.commits, new) /\ repo'.head = n + 1
  BY DEF GitCommit, NewCommit, TypeInv, GitTyped
<1>3. Straight /\ ScanOfHead /\ RowsPlaced /\ StepTells /\ LogIsExact
  BY DEF StraightInv
<1>4. n \in Nat /\ repo.head = n /\ clock \in Nat /\ Commits = 1..n /\ scanned \subseteq 1..n /\ repo.commits \in Seq(Commit)
  BY <1>3 DEF TypeInv, GitTyped, Straight, Commits
<1>5. /\ Commits' = 1..(n + 1) /\ Len(repo'.commits) = n + 1
      /\ \A c \in 1..n : repo'.commits[c] = repo.commits[c]
      /\ repo'.commits[n + 1] = new
  BY <1>2, <1>4 DEF Commits
<1>6. new.parent = n /\ new.ts = clock + 1
  BY <1>4
<1> HIDE DEF new
<1>7. \A c \in 1..n : repo.commits[c].ts \in Nat /\ repo.commits[c].ts <= clock /\ repo.commits[c].parent = c - 1
  BY <1>3, <1>4, CommitsAre DEF Straight
<1>8. \A c, d \in 1..n : c < d => repo.commits[c].ts < repo.commits[d].ts
  BY <1>3, <1>4 DEF Straight
<1> HIDE DEF n
<1>9. \A c \in 1..(n + 1) : c \in 1..n \/ c = n + 1
  BY <1>4
<1>10. Straight'
  <2>1. \A c \in 1..(n + 1) : repo'.commits[c].parent = c - 1 /\ repo'.commits[c].ts <= clock'
    <3>1. SUFFICES ASSUME NEW c \in 1..(n + 1) PROVE repo'.commits[c].parent = c - 1 /\ repo'.commits[c].ts <= clock'
      OBVIOUS
    <3>2. CASE c \in 1..n
      <4>1. repo'.commits[c] = repo.commits[c]
        BY <1>5, <3>2
      <4>2. repo.commits[c].ts \in Nat /\ repo.commits[c].ts <= clock /\ repo.commits[c].parent = c - 1
        BY <1>7, <3>2
      <4> QED BY <1>1, <1>4, <4>1, <4>2
    <3>3. CASE c = n + 1
      BY <1>1, <1>4, <1>5, <1>6, <3>3
    <3> QED BY <1>9, <3>2, <3>3
  <2>2. \A c, d \in 1..(n + 1) : c < d => repo'.commits[c].ts < repo'.commits[d].ts
    <3>1. SUFFICES ASSUME NEW c \in 1..(n + 1), NEW d \in 1..(n + 1), c < d PROVE repo'.commits[c].ts < repo'.commits[d].ts
      OBVIOUS
    <3>2. c \in 1..n
      BY <1>4, <3>1
    <3>3. CASE d \in 1..n
      BY <1>5, <1>8, <3>1, <3>2, <3>3
    <3>4. CASE d = n + 1
      <4>1. repo'.commits[c].ts = repo.commits[c].ts /\ repo'.commits[d].ts = clock + 1
        BY <1>5, <1>6, <3>2, <3>4
      <4> QED BY <1>4, <1>7, <3>2, <4>1
    <3> QED BY <1>9, <3>3, <3>4
  <2>3. scanned' \subseteq Commits'
    BY <1>1, <1>4, <1>5
  <2>4. repo'.head = Len(repo'.commits)
    BY <1>2, <1>5
  <2> QED BY <1>5, <2>1, <2>2, <2>3, <2>4 DEF Straight
<1>11. \A c \in 0..n : TreeAt(c)' = TreeAt(c)
  <2>1. SUFFICES ASSUME NEW c \in 0..n PROVE TreeAt(c)' = TreeAt(c)
    OBVIOUS
  <2>2. c # 0 => c \in 1..n
    BY <1>4
  <2> QED BY <1>5, <2>2 DEF TreeAt
<1>12. LastScanned' = LastScanned /\ LastScanned \in 0..n
  BY <1>1, <1>4, LastScannedIs DEF LastScanned, n
<1>13. ScanOfHead'
  <2>1. LoadSnapshot' = LoadSnapshot
    BY <1>1 DEF LoadSnapshot
  <2>2. TreeAt(LastScanned)' = TreeAt(LastScanned)
    <3> DEFINE l == LastScanned
    <3>1. l \in 0..n /\ l' = l
      BY <1>12
    <3>2. TreeAt(l)' = IF l' = 0 THEN [s \in Symbol |-> Absent] ELSE repo'.commits[l'].tree
      BY DEF TreeAt
    <3>3. l # 0 => l \in 1..n
      BY <1>4, <3>1
    <3> HIDE DEF l
    <3>4. TreeAt(l)' = TreeAt(l)
      BY <1>5, <3>1, <3>2, <3>3 DEF TreeAt
    <3> QED BY <3>4 DEF l
  <2> QED BY <1>1, <1>3, <2>1, <2>2 DEF ScanOfHead
<1>14. RowsPlaced'
  <2>1. ASSUME NEW row, Placed(row) PROVE Placed(row)'
    <3>1. row.commit \in scanned /\ row.commit \in 1..n /\ repo.commits[row.commit].ts < row.ts
      BY <1>1, <1>4, <2>1 DEF Placed
    <3>2. row.commit \in Commits' /\ repo'.commits[row.commit] = repo.commits[row.commit]
      BY <1>4, <1>5, <3>1
    <3> QED BY <1>1, <3>1, <3>2 DEF Placed
  <2>2. /\ \A i \in DOMAIN db.events : Placed(db.events[i])' /\ ~db.events[i].orphaned
        /\ \A i \in DOMAIN db.edges : Placed(db.edges[i])'
        /\ \A i, j \in DOMAIN db.events : i < j => db.events[i].commit <= db.events[j].commit
    BY <1>1, <1>3, <2>1 DEF RowsPlaced, Placed
  <2> QED BY <1>1, <2>2 DEF RowsPlaced, Placed
<1>15. LogIsExact'
  <2>1. SUFFICES ASSUME NEW from \in scanned, NEW to \in scanned, from <= to, NEW s \in Symbol
                 PROVE  Exact(s, from, to)'
    BY <1>1 DEF LogIsExact
  <2>2. from \in 1..n /\ to \in 1..n /\ from \in Int /\ to \in Int
    BY <1>4
  <2>3. \A c \in from..to : TreeAt(c)' = TreeAt(c)
    BY <1>4, <1>11, <2>2
  <2>4. EventsIn(s, from, to)' = EventsIn(s, from, to) /\ RenamesIn(s, from, to)' = RenamesIn(s, from, to)
    BY <1>1 DEF EventsIn, RenamesIn, EventsOf, RenamesOf
  <2>5. Exact(s, from, to)
    BY <1>3, <2>1 DEF LogIsExact
  <2> QED BY <1>1, <2>1, <2>2, <2>3, <2>4, <2>5, ExactKept
<1>16. StepTells'
  BY <1>1 DEF StepTells
<1> QED BY <1>10, <1>13, <1>14, <1>15, <1>16 DEF StraightInv

\* A scan that has rows to write is of a commit later than those scanned.
LEMMA HeadIsNew ==
  ASSUME TypeInv, StraightInv, Smooth, pc # "idle", repo.head \notin scanned \cup {0}
  PROVE  /\ repo.head \in Commits /\ repo.head \in Nat /\ Commits \subseteq 1..repo.head /\ stamp.commit = repo.head
         /\ \A c \in scanned : c \in Nat /\ c < repo.head
         /\ LastScanned \in Nat /\ LastScanned < repo.head
         /\ ScanTells(TreeAt(LastScanned), TreeAt(repo.head))
<1> DEFINE n == Len(repo.commits)
<1>1. Straight /\ ScanOfHead /\ StepTells
  BY DEF StraightInv
<1>2. n \in Nat /\ repo.head = n /\ Commits = 1..n /\ scanned \subseteq 1..n
  BY <1>1 DEF TypeInv, GitTyped, Straight, Commits
<1>3. LastScanned \in scanned \cup {0}
  BY <1>2, LastScannedIs
<1>4. stamp.commit = Head_
  BY <1>1 DEF ScanOfHead
<1> HIDE DEF n
<1>5. \A c \in scanned : c \in Nat /\ c < n
  BY <1>2
<1>6. LastScanned \in Nat /\ LastScanned < n
  BY <1>2, <1>3, <1>5
<1> QED BY <1>1, <1>2, <1>4, <1>5, <1>6 DEF StepTells, Head_

\* A row of the scan in progress is written, whichever it is.
LEMMA RowWritten ==
  ASSUME TypeInv, StraightInv, Smooth, pc = "emit", pc' = "emit", repo.head \notin scanned \cup {0},
         UNCHANGED <<repo, scanned, clock, stamp, curr, sidecar>>, todo'.edges \subseteq todo.edges,
         DOMAIN db.events \subseteq DOMAIN db'.events, DOMAIN db.edges \subseteq DOMAIN db'.edges,
         \A i \in DOMAIN db.events : db'.events[i] = db.events[i],
         \A i \in DOMAIN db.edges : db'.edges[i] = db.edges[i],
         \A i \in DOMAIN db'.events \ DOMAIN db.events :
           /\ db'.events[i].commit = stamp.commit /\ db'.events[i].ts = stamp.ts /\ ~db'.events[i].orphaned
           /\ \A j \in DOMAIN db.events : ~(i < j),
         \A i \in DOMAIN db'.edges \ DOMAIN db.edges : db'.edges[i].commit = stamp.commit /\ db'.edges[i].ts = stamp.ts,
         \A type, s : Reports(type, s)' <=> Reports(type, s),
         \A r, a : Renames(r, a)' <=> Renames(r, a)
  PROVE  StraightInv'
<1>1. Straight /\ ScanOfHead /\ RowsPlaced /\ StepTells /\ LogIsExact
  BY DEF StraightInv
<1>2. /\ repo.head \in Commits /\ repo.head \in Nat /\ Commits \subseteq 1..repo.head /\ stamp.commit = repo.head
      /\ \A c \in scanned : c \in Nat /\ c < repo.head
      /\ ScanTells(TreeAt(LastScanned), TreeAt(repo.head))
  BY HeadIsNew
<1>3. Commits' = Commits /\ LastScanned' = LastScanned /\ Head_' = Head_ /\ \A c : TreeAt(c)' = TreeAt(c)
  BY DEF Commits, LastScanned, Head_, TreeAt
<1>4. Straight'
  BY <1>1, <1>3 DEF Straight
<1>5. ScanOfHead'
  <2>1. LoadSnapshot' = LoadSnapshot
    BY DEF LoadSnapshot
  <2> QED BY <1>1, <1>3, <2>1 DEF ScanOfHead
<1>6. RowsPlaced'
  <2>1. \A row : Placed(row)' <=> Placed(row)
    BY <1>3 DEF Placed
  <2>2. repo.commits[repo.head].ts < stamp.ts
    BY <1>1, <1>2 DEF ScanOfHead
  <2>3. \A row : row.commit = stamp.commit /\ row.ts = stamp.ts => Placed(row)
    BY <1>2, <2>2 DEF Placed
  <2>4. \A i \in DOMAIN db'.events : Placed(db'.events[i]) /\ ~db'.events[i].orphaned
    BY <1>1, <2>3 DEF RowsPlaced
  <2>5. \A i \in DOMAIN db'.edges : Placed(db'.edges[i])
    BY <1>1, <2>3 DEF RowsPlaced
  <2>6. ASSUME NEW i \in DOMAIN db'.events, NEW j \in DOMAIN db'.events, i < j
        PROVE  db'.events[i].commit <= db'.events[j].commit
    <3>1. db'.events[i].commit \in Commits
      BY <2>4 DEF Placed
    <3>2. CASE j \in DOMAIN db.events
      BY <1>1, <2>6, <3>2 DEF RowsPlaced
    <3>3. CASE j \notin DOMAIN db.events
      <4>1. db'.events[j].commit = repo.head
        BY <1>2, <3>3
      <4>2. db'.events[i].commit \in 1..repo.head
        BY <1>2, <3>1
      <4>3. \A k \in 1..repo.head : k <= repo.head
        BY <1>2
      <4> QED BY <4>1, <4>2, <4>3
    <3> QED BY <3>2, <3>3
  <2> QED BY <2>1, <2>4, <2>5, <2>6 DEF RowsPlaced
<1>7. StepTells'
  <2>1. ScanTells(TreeAt(LastScanned), TreeAt(repo.head))'
    BY <1>2, <1>3 DEF ScanTells
  <2> QED BY <2>1 DEF StepTells
<1>8. LogIsExact'
  <2>1. SUFFICES ASSUME NEW from \in scanned, NEW to \in scanned, from <= to, NEW s \in Symbol
                 PROVE  Exact(s, from, to)'
    BY DEF LogIsExact
  <2>2. from \in Int /\ to \in Int /\ repo.head \notin (from + 1)..to
    BY <1>2
  <2>3. EventsIn(s, from, to)' = EventsIn(s, from, to)
    <3>1. ASSUME NEW i PROVE i \in EventsIn(s, from, to)' <=> i \in EventsIn(s, from, to)
      <4>1. CASE i \in DOMAIN db.events
        BY <4>1 DEF EventsIn, EventsOf
      <4>2. CASE i \notin DOMAIN db.events
        BY <1>2, <2>2, <4>2 DEF EventsIn, EventsOf
      <4> QED BY <4>1, <4>2
    <3> QED BY <3>1
  <2>4. RenamesIn(s, from, to)' = RenamesIn(s, from, to)
    <3>1. ASSUME NEW i PROVE i \in RenamesIn(s, from, to)' <=> i \in RenamesIn(s, from, to)
      <4>1. CASE i \in DOMAIN db.edges
        BY <4>1 DEF RenamesIn, RenamesOf
      <4>2. CASE i \notin DOMAIN db.edges
        BY <1>2, <2>2, <4>2 DEF RenamesIn, RenamesOf
      <4> QED BY <4>1, <4>2
    <3> QED BY <3>1
  <2>5. Exact(s, from, to)
    BY <1>1, <2>1 DEF LogIsExact
  <2>6. /\ \A i \in EventsIn(s, from, to) : db'.events[i] = db.events[i]
        /\ \A i \in RenamesIn(s, from, to) : db'.edges[i] = db.edges[i]
    BY DEF EventsIn, RenamesIn, EventsOf, RenamesOf
  <2>7. \A c \in from..to : TreeAt(c)' = TreeAt(c)
    BY <1>3
  <2> QED BY <2>1, <2>2, <2>3, <2>4, <2>5, <2>6, <2>7, ExactKept
<1> QED BY <1>4, <1>5, <1>6, <1>7, <1>8 DEF StraightInv

\* An event is written.
LEMMA WriteEventStraight ==
  ASSUME TypeInv, StraightInv, Smooth, Smooth', WriteEvent
  PROVE  StraightInv'
<1> DEFINE row == FirstEvent(todo.events)
           rows == db.events
           n == Len(rows) + 1
<1>1. /\ row \in todo.events /\ row \in EventRow /\ pc = "emit" /\ pc' = "emit"
      /\ row.commit = stamp.commit /\ row.ts = stamp.ts /\ ~row.orphaned
      /\ rows \in Seq(EventRow) /\ db.edges \in Seq(EdgeRow)
  BY FirstEventIn DEF WriteEvent, TypeInv, ScanTyped, StoreTyped
<1>2. /\ db'.events = Append(rows, row) /\ db'.edges = db.edges
      /\ todo'.events = todo.events \ {row} /\ todo'.edges = todo.edges
      /\ UNCHANGED <<repo, scanned, clock, stamp, curr, sidecar>>
  BY DEF WriteEvent, TypeInv, ScanTyped, StoreTyped, gitVars, Smooth
<1> HIDE DEF row
<1>3. repo.head \notin scanned \cup {0}
  <2>1. todo # NoRows
    BY <1>1 DEF NoRows
  <2> QED BY <1>1, <2>1 DEF StraightInv, StepTells
<1>4. repo.head = stamp.commit
  BY <1>1, <1>3, HeadIsNew
<1>5. /\ DOMAIN rows = 1..(n - 1) /\ DOMAIN db'.events = 1..n /\ n \in Nat /\ n \in DOMAIN db'.events
      /\ db'.events[n] = row
      /\ \A i \in 1..(n - 1) : db'.events[i] = rows[i]
  BY <1>1, <1>2
<1> HIDE DEF n
<1>6. DOMAIN rows \subseteq DOMAIN db'.events /\ \A i \in DOMAIN db'.events \ DOMAIN rows : i = n
  BY <1>5
<1>7. \A type, s : Reports(type, s)' <=> Reports(type, s)
  <2>1. SUFFICES ASSUME NEW type, NEW s PROVE Reports(type, s)' <=> Reports(type, s)
    OBVIOUS
  <2>2. ASSUME Reports(type, s) PROVE Reports(type, s)'
    <3>1. CASE \E e \in todo.events : e.sym = s /\ e.type = type
      <4>1. PICK e \in todo.events : e.sym = s /\ e.type = type
        BY <3>1
      <4>2. CASE e = row
        <5>1. n \in DOMAIN db'.events /\ db'.events[n].sym = s /\ db'.events[n].type = type /\ db'.events[n].commit = repo.head
          BY <1>1, <1>4, <1>5, <4>1, <4>2
        <5> QED BY <1>2, <5>1 DEF Reports
      <4>3. CASE e # row
        BY <1>2, <4>1, <4>3 DEF Reports
      <4> QED BY <4>2, <4>3
    <3>2. CASE \E i \in DOMAIN db.events : db.events[i].sym = s /\ db.events[i].type = type /\ db.events[i].commit = repo.head
      <4>1. PICK i \in DOMAIN rows : rows[i].sym = s /\ rows[i].type = type /\ rows[i].commit = repo.head
        BY <3>2
      <4>2. i \in DOMAIN db'.events /\ db'.events[i] = rows[i]
        BY <1>5, <1>6, <4>1
      <4> QED BY <1>2, <4>1, <4>2 DEF Reports
    <3> QED BY <2>2, <3>1, <3>2 DEF Reports
  <2>3. ASSUME Reports(type, s)' PROVE Reports(type, s)
    <3>1. CASE \E e \in todo'.events : e.sym = s /\ e.type = type
      BY <1>2, <3>1 DEF Reports
    <3>2. CASE \E i \in DOMAIN db'.events : db'.events[i].sym = s /\ db'.events[i].type = type /\ db'.events[i].commit = repo'.head
      <4>1. PICK i \in DOMAIN db'.events : db'.events[i].sym = s /\ db'.events[i].type = type /\ db'.events[i].commit = repo.head
        BY <1>2, <3>2
      <4>2. CASE i = n
        BY <1>1, <1>5, <4>1, <4>2 DEF Reports
      <4>3. CASE i # n
        BY <1>5, <1>6, <4>1, <4>3 DEF Reports
      <4> QED BY <4>2, <4>3
    <3> QED BY <2>3, <3>1, <3>2 DEF Reports
  <2> QED BY <2>2, <2>3
<1>8. \A r, a : Renames(r, a)' <=> Renames(r, a)
  BY <1>2 DEF Renames
<1>9. \A i \in DOMAIN rows : db'.events[i] = rows[i] /\ ~(n < i)
  BY <1>5
<1>10. /\ DOMAIN db.edges \subseteq DOMAIN db'.edges /\ \A i \in DOMAIN db.edges : db'.edges[i] = db.edges[i]
       /\ DOMAIN db'.edges \ DOMAIN db.edges = {} /\ todo'.edges \subseteq todo.edges
  BY <1>2
<1>11. \A i \in DOMAIN db'.events \ DOMAIN db.events :
           /\ db'.events[i].commit = stamp.commit /\ db'.events[i].ts = stamp.ts /\ ~db'.events[i].orphaned
           /\ \A j \in DOMAIN db.events : ~(i < j)
  BY <1>1, <1>5, <1>6, <1>9
<1> HIDE DEF rows
<1> QED BY <1>1, <1>2, <1>3, <1>6, <1>7, <1>8, <1>9, <1>10, <1>11, RowWritten DEF rows

\* An edge is written.
LEMMA WriteEdgeStraight ==
  ASSUME TypeInv, StraightInv, Smooth, WriteEdge
  PROVE  StraightInv'
<1> DEFINE row == FirstEdge(todo.edges)
           rows == db.edges
           n == Len(rows) + 1
<1>1. /\ row \in todo.edges /\ row \in EdgeRow /\ pc = "emit" /\ pc' = "emit" /\ row.ts = stamp.ts
      /\ row.commit = stamp.commit
      /\ rows \in Seq(EdgeRow) /\ db.events \in Seq(EventRow)
  BY FirstEdgeIn DEF WriteEdge, TypeInv, ScanTyped, StoreTyped, StraightInv, ScanOfHead
<1>2. /\ db'.edges = Append(rows, row) /\ db'.events = db.events
      /\ todo'.edges = todo.edges \ {row} /\ todo'.events = todo.events
      /\ UNCHANGED <<repo, scanned, clock, stamp, curr, sidecar>>
  BY DEF WriteEdge, TypeInv, ScanTyped, StoreTyped, gitVars, historyVars
<1> HIDE DEF row
<1>3. repo.head \notin scanned \cup {0}
  <2>1. todo # NoRows
    BY <1>1 DEF NoRows
  <2> QED BY <1>1, <2>1 DEF StraightInv, StepTells
<1>4. repo.head = stamp.commit
  BY <1>1, <1>3, HeadIsNew
<1>5. /\ DOMAIN rows = 1..(n - 1) /\ DOMAIN db'.edges = 1..n /\ n \in Nat /\ n \in DOMAIN db'.edges
      /\ db'.edges[n] = row
      /\ \A i \in 1..(n - 1) : db'.edges[i] = rows[i]
  BY <1>1, <1>2
<1> HIDE DEF n
<1>6. DOMAIN rows \subseteq DOMAIN db'.edges /\ \A i \in DOMAIN db'.edges \ DOMAIN rows : i = n
  BY <1>5
<1>7. \A r, a : Renames(r, a)' <=> Renames(r, a)
  <2>1. SUFFICES ASSUME NEW r, NEW a PROVE Renames(r, a)' <=> Renames(r, a)
    OBVIOUS
  <2>2. ASSUME Renames(r, a) PROVE Renames(r, a)'
    <3>1. CASE \E x \in todo.edges : ~x.candidate /\ x.old = r /\ x.new = a
      <4>1. PICK x \in todo.edges : ~x.candidate /\ x.old = r /\ x.new = a
        BY <3>1
      <4>2. CASE x = row
        <5>1. /\ n \in DOMAIN db'.edges /\ ~db'.edges[n].candidate /\ db'.edges[n].commit = repo.head
              /\ db'.edges[n].old = r /\ db'.edges[n].new = a
          BY <1>1, <1>4, <1>5, <4>1, <4>2
        <5> QED BY <1>2, <5>1 DEF Renames
      <4>3. CASE x # row
        BY <1>2, <4>1, <4>3 DEF Renames
      <4> QED BY <4>2, <4>3
    <3>2. CASE \E i \in DOMAIN rows : ~rows[i].candidate /\ rows[i].commit = repo.head /\ rows[i].old = r /\ rows[i].new = a
      <4>1. PICK i \in DOMAIN rows : ~rows[i].candidate /\ rows[i].commit = repo.head /\ rows[i].old = r /\ rows[i].new = a
        BY <3>2
      <4>2. i \in DOMAIN db'.edges /\ db'.edges[i] = rows[i]
        BY <1>5, <1>6, <4>1
      <4> QED BY <1>2, <4>1, <4>2 DEF Renames
    <3> QED BY <2>2, <3>1, <3>2 DEF Renames
  <2>3. ASSUME Renames(r, a)' PROVE Renames(r, a)
    <3>1. CASE \E x \in todo'.edges : ~x.candidate /\ x.old = r /\ x.new = a
      BY <1>2, <3>1 DEF Renames
    <3>2. CASE \E i \in DOMAIN db'.edges : /\ ~db'.edges[i].candidate /\ db'.edges[i].commit = repo'.head
                                          /\ db'.edges[i].old = r /\ db'.edges[i].new = a
      <4>1. PICK i \in DOMAIN db'.edges : /\ ~db'.edges[i].candidate /\ db'.edges[i].commit = repo.head
                                          /\ db'.edges[i].old = r /\ db'.edges[i].new = a
        BY <1>2, <3>2
      <4>2. CASE i = n
        BY <1>1, <1>5, <4>1, <4>2 DEF Renames
      <4>3. CASE i # n
        BY <1>5, <1>6, <4>1, <4>3 DEF Renames
      <4> QED BY <4>2, <4>3
    <3> QED BY <2>3, <3>1, <3>2 DEF Renames
  <2> QED BY <2>2, <2>3
<1>8. \A type, s : Reports(type, s)' <=> Reports(type, s)
  BY <1>2 DEF Reports
<1>9. \A i \in DOMAIN rows : db'.edges[i] = rows[i]
  BY <1>5
<1>10. /\ DOMAIN db.events \subseteq DOMAIN db'.events /\ \A i \in DOMAIN db.events : db'.events[i] = db.events[i]
       /\ DOMAIN db'.events \ DOMAIN db.events = {} /\ todo'.edges \subseteq todo.edges
  BY <1>2
<1>11. \A i \in DOMAIN db'.edges \ DOMAIN rows : db'.edges[i].commit = stamp.commit /\ db'.edges[i].ts = stamp.ts
  BY <1>1, <1>5, <1>6
<1> HIDE DEF rows
<1> QED BY <1>1, <1>2, <1>3, <1>6, <1>7, <1>8, <1>9, <1>10, <1>11, RowWritten DEF rows

\* What the rows up to the commit scanned last say, and those of the scan that has
\* written all of its own, is what the rows up to its commit say.
LEMMA ExactOver ==
  ASSUME TypeInv, StraightInv, Smooth, pc # "idle", todo = NoRows, repo.head \notin scanned \cup {0},
         NEW from \in scanned, NEW s \in Symbol
  PROVE  Exact(s, from, repo.head)
<1> DEFINE last == LastScanned
           head == repo.head
           b == TreeAt(from)[s]
           m == TreeAt(last)[s]
           a == TreeAt(head)[s]
           E1 == EventsIn(s, from, last)
           E2 == EventsIn(s, from, head)
           H  == {i \in EventsOf(s) : db.events[i].commit = head}
           R1 == RenamesIn(s, from, last)
           R2 == RenamesIn(s, from, head)
           types == {"added", "removed", "modified", "moved"}
<1>1. Straight /\ RowsPlaced /\ LogIsExact
  BY DEF StraightInv
<1>2. /\ head \in Nat /\ Commits \subseteq 1..head /\ last \in Nat /\ last < head
      /\ \A c \in scanned : c \in Nat /\ c < head
      /\ ScanTells(TreeAt(last), TreeAt(head))
  BY HeadIsNew
<1>3. last \in scanned /\ \A c \in scanned : c <= last
  <2>1. last \in scanned \cup {0} /\ \A c \in scanned : c <= last
    BY <1>1, LastScannedIs DEF Straight
  <2>2. from \in Nat /\ from # 0 /\ from <= last
    <3>1. from \in 1..head
      BY <1>1, <1>2 DEF Straight
    <3> QED BY <1>2, <2>1, <3>1
  <2> QED BY <2>1, <2>2
<1>4. from \in Nat /\ from <= last
  BY <1>2, <1>3
<1>5. Exact(s, from, last)
  BY <1>1, <1>3, <1>4 DEF LogIsExact
<1>6. \A type \in types, t \in Symbol : Reports(type, t) <=>
        \E i \in DOMAIN db.events : db.events[i].sym = t /\ db.events[i].type = type /\ db.events[i].commit = head
  BY DEF Reports, NoRows
<1>7. \A r, t \in Symbol : Renames(r, t) <=>
        \E i \in DOMAIN db.edges : /\ ~db.edges[i].candidate /\ db.edges[i].commit = head
                                   /\ db.edges[i].old = r /\ db.edges[i].new = t
  BY DEF Renames, NoRows
<1>8. /\ \A type \in types : Reports(type, s) => /\ m # a
                                                 /\ type = "added" <=> m = Absent
                                                 /\ type = "removed" <=> a = Absent
      /\ \A t \in Symbol : Renames(s, t) => m # Absent /\ a = Absent
      /\ \A t \in Symbol : Renames(t, s) => m = Absent /\ a # Absent
      /\ m # a => \/ \E type \in types : Reports(type, s)
                  \/ \E t \in Symbol : Renames(s, t) \/ Renames(t, s)
  BY <1>2 DEF ScanTells
<1>9. \A i \in DOMAIN db.events : db.events[i].type \in types
  <2>1. \A i \in DOMAIN db.events : db.events[i] \in EventRow
    BY DEF TypeInv, StoreTyped
  <2>2. \A e \in EventRow : e.type \in types
    BY DEF EventRow
  <2> QED BY <2>1, <2>2
<1>10. /\ \A i \in DOMAIN db.events : db.events[i].commit \in scanned \cup {head}
       /\ \A i \in DOMAIN db.edges : db.edges[i].commit \in scanned \cup {head}
  BY <1>1 DEF RowsPlaced, Placed
<1>11. \A c \in scanned \cup {head} : /\ c \in Nat /\ (c <= last \/ c = head)
                                      /\ c \in (from + 1)..head <=> c \in (from + 1)..last \/ c = head
  BY <1>2, <1>3, <1>4
<1>12. E2 = E1 \cup H
  BY <1>10, <1>11 DEF EventsIn, EventsOf
<1>13. /\ R1 \subseteq R2
       /\ \A i \in RenamesOf(s) : db.edges[i].commit = head => i \in R2
  BY <1>10, <1>11 DEF RenamesIn, RenamesOf
<1>14. \A i \in E1, j \in H : i < j /\ ~(j <= i)
  <2>1. SUFFICES ASSUME NEW i \in E1, NEW j \in H PROVE i < j /\ ~(j <= i)
    OBVIOUS
  <2>2. i \in DOMAIN db.events /\ j \in DOMAIN db.events /\ db.events[j].commit = head /\ db.events[i].commit \in (from + 1)..last
    BY DEF EventsIn, EventsOf
  <2>3. DOMAIN db.events \subseteq Nat
    <3>1. db.events \in Seq(EventRow)
      BY DEF TypeInv, StoreTyped
    <3> QED BY <3>1
  <2>4. ~(db.events[j].commit <= db.events[i].commit)
    BY <1>2, <1>4, <2>2
  <2>5. ~(j < i) /\ i # j
    BY <1>1, <2>2, <2>4 DEF RowsPlaced
  <2> QED BY <2>2, <2>3, <2>5
<1>15. \A i \in H : Reports(db.events[i].type, s) /\ db.events[i].type \in types
  BY <1>6, <1>9 DEF EventsOf
<1>16. /\ \A t \in Symbol : Renames(s, t) => \E i \in R2 : db.edges[i].old = s
       /\ \A t \in Symbol : Renames(t, s) => \E i \in R2 : db.edges[i].new = s
  BY <1>7, <1>13 DEF RenamesOf
<1>17. /\ E1 = {} /\ b # m => /\ b # Absent => \E i \in R1 : db.edges[i].old = s
                              /\ m # Absent => \E i \in R1 : db.edges[i].new = s
       /\ R1 = {} => \A i \in E1 :
            /\ (\A j \in E1 : i <= j) => (db.events[i].type = "added" <=> b = Absent)
            /\ (\A j \in E1 : j <= i) => (db.events[i].type = "removed" <=> m = Absent)
       /\ E1 # {} => \E c \in (from + 1)..last : TreeAt(c)[s] # b
  BY <1>5 DEF Exact
<1>18. from = last => b = m
  OBVIOUS
<1>19. from # last => last \in (from + 1)..head
  BY <1>2, <1>4
<1>20. head \in (from + 1)..head /\ (from + 1)..last \subseteq (from + 1)..head
  BY <1>2, <1>4
<1>21. \A type \in types : Reports(type, s) => H # {}
  BY <1>6 DEF EventsOf
<1>22. ASSUME E2 = {}, b # a
       PROVE  /\ b # Absent => \E i \in R2 : db.edges[i].old = s
              /\ a # Absent => \E i \in R2 : db.edges[i].new = s
  <2>1. E1 = {} /\ H = {}
    BY <1>12, <1>22
  <2>2. m # a => \E t \in Symbol : Renames(s, t) \/ Renames(t, s)
    BY <1>8, <1>21, <2>1
  <2> HIDE DEF E1, E2, H, R1, R2, b, m, a
  <2>3. CASE b # m /\ m = a
    BY <1>13, <1>17, <2>1, <2>3
  <2>4. CASE b = m /\ m # a
    BY <1>8, <1>16, <2>2, <2>4
  <2>5. CASE b # m /\ m # a
    <3>1. b # Absent => \E i \in R2 : db.edges[i].old = s
      BY <1>13, <1>17, <2>1, <2>5
    <3>2. a # Absent => \E i \in R2 : db.edges[i].new = s
      BY <1>8, <1>16, <2>2, <2>5
    <3> QED BY <3>1, <3>2
  <2> QED BY <1>22, <2>3, <2>4, <2>5
<1>23. ASSUME R2 = {}, NEW i \in E2, \A j \in E2 : i <= j
       PROVE  db.events[i].type = "added" <=> b = Absent
  <2>1. R1 = {}
    BY <1>13, <1>23
  <2> HIDE DEF E1, E2, H, R1, R2, b, m, a
  <2>2. CASE E1 # {}
    <3>1. i \in E1
      BY <1>12, <1>14, <1>23, <2>2
    <3> QED BY <1>12, <1>17, <1>23, <2>1, <3>1
  <2>3. CASE E1 = {}
    <3>1. b = m
      BY <1>17, <2>1, <2>3
    <3>2. i \in H
      BY <1>12, <2>3
    <3> QED BY <1>8, <1>15, <3>1, <3>2
  <2> QED BY <2>2, <2>3
<1>24. ASSUME R2 = {}, NEW i \in E2, \A j \in E2 : j <= i
       PROVE  db.events[i].type = "removed" <=> a = Absent
  <2>1. R1 = {}
    BY <1>13, <1>24
  <2>2. \A t \in Symbol : ~Renames(s, t) /\ ~Renames(t, s)
    BY <1>16, <1>24
  <2> HIDE DEF E1, E2, H, R1, R2, b, m, a
  <2>3. CASE i \in H
    BY <1>8, <1>15, <2>3
  <2>4. CASE i \notin H
    <3>1. i \in E1
      BY <1>12, <2>4
    <3>2. H = {}
      BY <1>12, <1>14, <1>24, <3>1
    <3>3. m = a
      BY <1>8, <1>21, <2>2, <3>2
    <3> QED BY <1>12, <1>17, <1>24, <2>1, <3>1, <3>3
  <2> QED BY <2>3, <2>4
<1>25. ASSUME E2 # {} PROVE \E c \in (from + 1)..head : TreeAt(c)[s] # b
  <2>1. CASE E1 # {}
    <3>1. PICK c \in (from + 1)..last : TreeAt(c)[s] # b
      BY <1>17, <2>1
    <3>2. c \in (from + 1)..head
      BY <1>20
    <3> QED BY <3>1, <3>2
  <2>2. CASE E1 = {}
    <3>1. PICK i \in H : TRUE
      BY <1>12, <1>25, <2>2
    <3>2. m # a
      BY <1>8, <1>15
    <3>3. a # b \/ (m # b /\ from # last)
      BY <1>18, <3>2
    <3> QED BY <1>19, <1>20, <3>3
  <2> QED BY <2>1, <2>2
<1> QED BY <1>22, <1>23, <1>24, <1>25 DEF Exact

\* A commit with itself.
LEMMA ExactAlone ==
  ASSUME NEW c \in Nat, NEW s
  PROVE  Exact(s, c, c)
<1>1. (c + 1)..c = {}
  OBVIOUS
<1>2. EventsIn(s, c, c) = {} /\ RenamesIn(s, c, c) = {}
  BY <1>1 DEF EventsIn, RenamesIn
<1> QED BY <1>2 DEF Exact

\* A scan ends and its commit is scanned.
LEMMA EndStraight ==
  ASSUME TypeInv, StraightInv, Smooth, UpsertScanState
  PROVE  StraightInv'
<1> DEFINE head == repo.head
<1>1. /\ repo' = repo /\ db' = db /\ clock' = clock /\ sidecar' = sidecar /\ todo' = todo
      /\ pc = "state" /\ pc' = "idle" /\ todo = NoRows
  BY DEF UpsertScanState, gitVars, TypeInv, ScanTyped
<1>2. Straight /\ ScanOfHead /\ RowsPlaced /\ StepTells /\ LogIsExact
  BY DEF StraightInv
<1>3. head \in Nat /\ Commits = 1..head /\ scanned \subseteq 1..head
  BY <1>2 DEF TypeInv, GitTyped, Straight, Commits
<1>4. stamp.commit = Head_ /\ curr = BuildSnapshot(TreeAt(head)) /\ sidecar = curr
  BY <1>1, <1>2 DEF ScanOfHead
<1>5. Absent \notin Nat
  BY AbsentAssumption
<1>6. scanned' = IF head = 0 THEN scanned ELSE scanned \cup {head}
  <2>1. head = 0 => stamp.commit = Absent
    BY <1>4 DEF Head_
  <2>2. head # 0 => stamp.commit = head /\ stamp.commit # Absent /\ curr = BuildSnapshot(repo.commits[stamp.commit].tree)
    BY <1>3, <1>4, <1>5 DEF Head_, TreeAt
  <2> QED BY <2>1, <2>2 DEF UpsertScanState
<1> HIDE DEF head
<1>7. Commits' = Commits /\ \A c : TreeAt(c)' = TreeAt(c)
  BY <1>1 DEF Commits, TreeAt
<1>8. scanned' \subseteq 1..head /\ scanned \subseteq scanned'
  BY <1>3, <1>6
<1>9. Straight'
  BY <1>1, <1>2, <1>3, <1>7, <1>8 DEF Straight
<1>10. LastScanned' = head
  <2>1. CASE head = 0
    <3>1. scanned' = {}
      BY <1>3, <1>6, <2>1
    <3> QED BY <2>1, <3>1 DEF LastScanned
  <2>2. CASE head # 0
    <3> DEFINE T == scanned'
    <3>1. T \subseteq 1..head /\ head \in T /\ T # {}
      BY <1>6, <1>8, <2>2
    <3>2. LastScanned' = Max(T)
      BY <3>1 DEF LastScanned
    <3> HIDE DEF T
    <3>3. Max(T) \in T /\ \A k \in T : k <= Max(T)
      BY <1>3, <3>1, Largest
    <3>4. Max(T) \in 1..head /\ head <= Max(T)
      BY <3>1, <3>3
    <3>5. \A k \in 1..head : head <= k => k = head
      BY <1>3
    <3> QED BY <3>2, <3>4, <3>5
  <2> QED BY <2>1, <2>2
<1>11. ScanOfHead'
  <2>1. curr \in Snapshots
    BY <1>1 DEF TypeInv, ScanTyped
  <2>2. sidecar # Absent
    BY <1>4, <2>1, SnapshotTyped
  <2>3. LoadSnapshot' = curr
    BY <1>1, <1>4, <2>2 DEF LoadSnapshot
  <2>4. TreeAt(LastScanned)' = TreeAt(head)
    BY <1>1, <1>10 DEF TreeAt, head
  <2> QED BY <1>1, <1>4, <2>3, <2>4 DEF ScanOfHead
<1>12. RowsPlaced'
  <2>1. ASSUME NEW row, Placed(row) PROVE Placed(row)'
    <3>1. row.commit \in scanned \/ row.commit = head
      BY <2>1 DEF Placed, head
    <3>2. row.commit \in Commits
      BY <2>1 DEF Placed
    <3>3. row.commit \in scanned'
      BY <1>3, <1>6, <3>1, <3>2
    <3> QED BY <1>1, <1>7, <2>1, <3>3 DEF Placed
  <2>2. /\ \A i \in DOMAIN db.events : Placed(db.events[i])' /\ ~db.events[i].orphaned
        /\ \A i \in DOMAIN db.edges : Placed(db.edges[i])'
        /\ \A i, j \in DOMAIN db.events : i < j => db.events[i].commit <= db.events[j].commit
    BY <1>1, <1>2, <2>1 DEF RowsPlaced, Placed
  <2> QED BY <1>1, <2>2 DEF RowsPlaced, Placed
<1>13. LogIsExact'
  <2>1. SUFFICES ASSUME NEW from \in scanned', NEW to \in scanned', from <= to, NEW s \in Symbol
                 PROVE  Exact(s, from, to)'
    BY DEF LogIsExact
  <2>2. PICK f \in Nat, t \in Nat : f = from /\ t = to
    BY <1>3, <1>8
  <2>3. Exact(s, f, t)
    <3>1. CASE f = t
      BY <2>2, <3>1, ExactAlone
    <3>2. CASE f # t /\ f \in scanned /\ t \in scanned
      BY <1>2, <2>1, <2>2, <3>2 DEF LogIsExact
    <3>3. CASE f # t /\ ~(f \in scanned /\ t \in scanned)
      <4>1. f \in scanned' /\ t \in scanned' /\ f < t /\ f <= head /\ t <= head
        BY <1>3, <1>8, <2>1, <2>2, <3>3
      <4>2. t = head /\ head \notin scanned \cup {0} /\ f \in scanned
        BY <1>3, <1>6, <3>3, <4>1
      <4> QED BY <1>1, <4>2, ExactOver DEF head
    <3> QED BY <3>1, <3>2, <3>3
  <2>4. EventsIn(s, f, t)' = EventsIn(s, f, t) /\ RenamesIn(s, f, t)' = RenamesIn(s, f, t)
    BY <1>1 DEF EventsIn, RenamesIn, EventsOf, RenamesOf
  <2>5. f \in Int /\ t \in Int /\ f <= t
    BY <2>1, <2>2
  <2>6. Exact(s, f, t)'
    BY <1>1, <1>7, <2>3, <2>4, <2>5, ExactKept
  <2> QED BY <2>2, <2>6
<1>14. StepTells'
  BY <1>1 DEF StepTells
<1> QED BY <1>9, <1>11, <1>12, <1>13, <1>14 DEF StraightInv

\* There is no history at first.
LEMMA InitStraight == Init => StraightInv
<1> SUFFICES ASSUME Init PROVE StraightInv
  OBVIOUS
<1>1. /\ repo.commits = <<>> /\ repo.head = 0 /\ scanned = {} /\ pc = "idle" /\ sidecar = Absent
      /\ db.events = <<>> /\ db.edges = <<>> /\ Commits = {}
  BY DEF Init, Commits
<1>2. Straight /\ RowsPlaced /\ StepTells /\ LogIsExact
  BY <1>1 DEF Straight, RowsPlaced, StepTells, LogIsExact
<1>3. ScanOfHead
  <2> DEFINE none == [s \in Symbol |-> Absent]
  <2>1. TreeAt(LastScanned) = none
    BY <1>1 DEF LastScanned, TreeAt
  <2>2. {s \in Symbol : none[s] # Absent} = {}
    OBVIOUS
  <2>3. BuildSnapshot(none) = NoSymbols
    BY <2>2 DEF BuildSnapshot, NoSymbols
  <2> HIDE DEF none
  <2>4. LoadSnapshot = NoSymbols
    BY <1>1 DEF LoadSnapshot
  <2> QED BY <1>1, <2>1, <2>3, <2>4 DEF ScanOfHead
<1> QED BY <1>2, <1>3 DEF StraightInv

\* Every step of a straight history keeps it.
LEMMA NextStraight == TypeInv /\ StraightInv /\ [Next]_vars => StraightInv'
<1> SUFFICES ASSUME TypeInv, StraightInv, [Next]_vars, Smooth' PROVE StraightInv'
  BY DEF StraightInv
<1>1. Smooth /\ ~GitAmend /\ ~GitReset /\ ~CutShort /\ ~PruneCmd
  BY SmoothBefore
<1>2. CASE Edit \/ GitExpire \/ GitTag \/ GitUntag \/ PollTags \/ UNCHANGED vars
  BY <1>1, <1>2, QuietStraight
<1>3. CASE TruncateSidecar \/ SaveSidecar
  BY <1>1, <1>3, SidecarStraight
<1>4. ~Reconcile
  <2>1. Straight /\ \A i \in DOMAIN db.events : db.events[i].commit \in Commits
    BY <1>1 DEF StraightInv, RowsPlaced, Placed
  <2> QED BY <2>1, NothingToReconcile
<1> QED BY <1>1, <1>2, <1>3, <1>4, BeginStraight, CommitStraight, WriteEventStraight, WriteEdgeStraight, EndStraight
        DEF Next

-----------------------------------------------------------------------------
(* What diff and removed_since tell.                                       *)

\* The least of a set of numbers.
LEMMA MinIs ==
  ASSUME NEW T \in SUBSET Nat, T # {}
  PROVE  Min(T) \in T /\ \A k \in T : Min(T) <= k
<1>1. PICK m \in T : \A k \in T : m <= k
  BY Smallest
<1> QED BY <1>1 DEF Min

\* The rows of a range of commits.
RowsIn(from, to) == {i \in DOMAIN db.events : db.events[i].commit \in (from + 1)..to}

EdgesIn(from, to) == {i \in DOMAIN db.edges : db.edges[i].commit \in (from + 1)..to}

\* In a straight history the time of the first commit filters nothing more.
LEMMA RangeIs ==
  ASSUME TypeInv, StraightInv, Smooth, NEW from \in Commits, NEW to \in Commits
  PROVE  LET range == CommitsBetween(repo, from, to)
             ts    == repo.commits[from].ts
         IN  /\ range = (from + 1)..to
             /\ Within(db.events, EventsAfter(db, ts, {"added", "removed", "modified", "moved"}), range) = RowsIn(from, to)
             /\ Within(db.events, DOMAIN db.events, range) = RowsIn(from, to)
             /\ Within(db.events, EventsAfter(db, ts, {"removed"}), range)
                  = {i \in RowsIn(from, to) : db.events[i].type = "removed"}
             /\ \A i \in EdgesIn(from, to) : db.edges[i].ts > ts
<1> DEFINE n == Len(repo.commits)
           ts == repo.commits[from].ts
           range == CommitsBetween(repo, from, to)
           types == {"added", "removed", "modified", "moved"}
<1>1. Straight /\ RowsPlaced
  BY DEF StraightInv
<1>2. n \in Nat /\ Commits = 1..n /\ from \in 1..n /\ to \in 1..n /\ from \in 0..n /\ to \in 0..n
  BY DEF TypeInv, GitTyped, Commits
<1>3. range = (from + 1)..to
  BY <1>1, <1>2, CommitsBetweenAre
<1> HIDE DEF range
<1>4. \A c \in Commits : c \in (from + 1)..to => ts < repo.commits[c].ts /\ ts \in Nat /\ repo.commits[c].ts \in Nat
  <2>1. \A c \in Commits : c \in (from + 1)..to => from < c
    BY <1>2
  <2> QED BY <1>1, <2>1, CommitsAre DEF Straight
<1> HIDE DEF ts, n
<1>5. ASSUME NEW row, Placed(row), row.commit \in (from + 1)..to, row.ts \in Nat PROVE row.ts > ts
  <2>1. row.commit \in Commits /\ repo.commits[row.commit].ts < row.ts
    BY <1>5 DEF Placed
  <2>2. ts < repo.commits[row.commit].ts /\ ts \in Nat /\ repo.commits[row.commit].ts \in Nat
    BY <1>4, <1>5, <2>1
  <2> QED BY <1>5, <2>1, <2>2
<1>6. \A i \in DOMAIN db.events : db.events[i].ts \in Nat /\ db.events[i].type \in types
  <2>1. \A i \in DOMAIN db.events : db.events[i] \in EventRow
    BY DEF TypeInv, StoreTyped
  <2>2. \A e \in EventRow : e.ts \in Nat /\ e.type \in types
    BY DEF EventRow
  <2> QED BY <2>1, <2>2
<1>7. \A i \in DOMAIN db.edges : db.edges[i].ts \in Nat
  <2>1. \A i \in DOMAIN db.edges : db.edges[i] \in EdgeRow
    BY DEF TypeInv, StoreTyped
  <2>2. \A e \in EdgeRow : e.ts \in Nat
    BY DEF EdgeRow
  <2> QED BY <2>1, <2>2
<1>8. \A i \in RowsIn(from, to) : db.events[i].ts > ts /\ ~db.events[i].orphaned
  BY <1>1, <1>5, <1>6 DEF RowsPlaced, RowsIn
<1>9. \A i \in EdgesIn(from, to) : db.edges[i].ts > ts
  BY <1>1, <1>5, <1>7 DEF RowsPlaced, EdgesIn
<1>10. Within(db.events, EventsAfter(db, ts, types), range) = RowsIn(from, to)
  BY <1>3, <1>6, <1>8 DEF Within, EventsAfter, RowsIn
<1>11. Within(db.events, DOMAIN db.events, range) = RowsIn(from, to)
  BY <1>3 DEF Within, RowsIn
<1>12. Within(db.events, EventsAfter(db, ts, {"removed"}), range) = {i \in RowsIn(from, to) : db.events[i].type = "removed"}
  BY <1>3, <1>8 DEF Within, EventsAfter, RowsIn
<1> QED BY <1>3, <1>9, <1>10, <1>11, <1>12 DEF range, ts

\* The confirmed renames of a range, as EdgesAfter returns them.
LEMMA ConfirmedIs ==
  ASSUME TypeInv, StraightInv, Smooth, NEW from \in Commits, NEW to \in Commits, NEW side \in {"old", "new"}, NEW s
  PROVE  s \in Confirmed(EdgesAfter(db, repo.commits[from].ts, CommitsBetween(repo, from, to)), side)
           <=> \E i \in EdgesIn(from, to) : ~db.edges[i].candidate /\ db.edges[i][side] = s
<1> DEFINE ts == repo.commits[from].ts
           range == CommitsBetween(repo, from, to)
           renamed == EdgesAfter(db, ts, range)
           edges == db.edges
<1>1. edges \in Seq(EdgeRow)
  BY DEF TypeInv, StoreTyped
<1>2. range = (from + 1)..to /\ \A i \in EdgesIn(from, to) : edges[i].ts > ts
  BY RangeIs
<1> HIDE DEF range, ts
<1>3. EdgesTold(renamed, edges, ts, range)
  BY <1>1, EdgesAfterIs
<1> HIDE DEF edges
<1> HIDE DEF renamed
<1>4. \A i : i \in EdgesIn(from, to) <=> i \in DOMAIN edges /\ edges[i].commit \in range
  BY <1>2 DEF EdgesIn, edges
<1>5. (\E m \in DOMAIN renamed : ~renamed[m].candidate /\ renamed[m][side] = s)
        <=> \E i \in EdgesIn(from, to) : ~edges[i].candidate /\ edges[i][side] = s
  BY <1>2, <1>3, <1>4 DEF EdgesTold
<1>6. s \in Confirmed(renamed, side) <=> \E m \in DOMAIN renamed : ~renamed[m].candidate /\ renamed[m][side] = s
  BY DEF Confirmed
<1> QED BY <1>5, <1>6 DEF renamed, ts, range, edges

\* A symbol with events and without renames is in the bucket of its net effect.
LEMMA NetTells ==
  ASSUME TypeInv, StraightInv, Smooth, NEW from \in scanned, NEW to \in scanned, from < to, NEW s \in Symbol,
         EventsIn(s, from, to) # {}, RenamesIn(s, from, to) = {}
  PROVE  \E i \in Bucket(db.events, RowsIn(from, to),
                         EdgesAfter(db, repo.commits[from].ts, CommitsBetween(repo, from, to)),
                         IF TreeAt(to)[s] = Absent THEN "removed"
                         ELSE IF TreeAt(from)[s] = Absent THEN "added" ELSE "modified") : db.events[i].sym = s
<1> DEFINE E == EventsIn(s, from, to)
           renamed == EdgesAfter(db, repo.commits[from].ts, CommitsBetween(repo, from, to))
           effect == IF TreeAt(to)[s] = Absent THEN "removed" ELSE IF TreeAt(from)[s] = Absent THEN "added" ELSE "modified"
           places == RowsIn(from, to)
           n == Len(db.events)
<1>1. Straight /\ LogIsExact /\ from \in Commits /\ to \in Commits
  BY DEF StraightInv, Straight
<1>2. from \in Int /\ to \in Int /\ from <= to
  BY <1>1 DEF Commits
<1>3. Exact(s, from, to)
  BY <1>1, <1>2 DEF LogIsExact
<1>4. n \in Nat /\ DOMAIN db.events = 1..n
  <2>1. db.events \in Seq(EventRow)
    BY DEF TypeInv, StoreTyped
  <2> QED BY <2>1
<1>5. E \subseteq 1..n /\ E # {} /\ E \subseteq places /\ \A i : i \in E <=> i \in places /\ db.events[i].sym = s
  BY <1>4 DEF EventsIn, EventsOf, RowsIn
<1>6. \A i \in E :
        /\ (\A j \in E : i <= j) => (db.events[i].type = "added" <=> TreeAt(from)[s] = Absent)
        /\ (\A j \in E : j <= i) => (db.events[i].type = "removed" <=> TreeAt(to)[s] = Absent)
  BY <1>3 DEF Exact
<1>7. s \notin Confirmed(renamed, "old") /\ s \notin Confirmed(renamed, "new")
  <2>1. \A i \in EdgesIn(from, to) : ~db.edges[i].candidate => db.edges[i].old # s /\ db.edges[i].new # s
    BY DEF RenamesIn, RenamesOf, EdgesIn
  <2>2. /\ s \in Confirmed(renamed, "old") <=> \E i \in EdgesIn(from, to) : ~db.edges[i].candidate /\ db.edges[i]["old"] = s
        /\ s \in Confirmed(renamed, "new") <=> \E i \in EdgesIn(from, to) : ~db.edges[i].candidate /\ db.edges[i]["new"] = s
    <3>1. ASSUME NEW side \in {"old", "new"}
          PROVE  s \in Confirmed(renamed, side)
                   <=> \E i \in EdgesIn(from, to) : ~db.edges[i].candidate /\ db.edges[i][side] = s
      <4> HIDE DEF E, places, n, effect
      <4> QED BY <1>1, ConfirmedIs
    <3> HIDE DEF renamed
    <3> QED BY <3>1
  <2> QED BY <2>1, <2>2
<1> HIDE DEF E, renamed, places, n
<1>8. Max(E) \in E /\ \A k \in E : k <= Max(E)
  BY <1>4, <1>5, Largest
<1>9. Min(E) \in E /\ \A k \in E : Min(E) <= k
  <2>1. E \in SUBSET Nat
    BY <1>4, <1>5
  <2> QED BY <1>5, <2>1, MinIs
<1>10. SameSymbol(db.events, places, Max(E)) = E
  BY <1>5, <1>8 DEF SameSymbol
<1>11. NetEffect(db.events, E) = effect
  <2>1. db.events[Max(E)].type = "removed" <=> TreeAt(to)[s] = Absent
    BY <1>6, <1>8
  <2>2. db.events[Min(E)].type = "added" <=> TreeAt(from)[s] = Absent
    BY <1>6, <1>9
  <2> QED BY <2>1, <2>2 DEF NetEffect
<1>12. s \notin Hidden(renamed, effect)
  BY <1>7 DEF Hidden
<1> HIDE DEF effect
<1>13. Max(E) \in Bucket(db.events, places, renamed, effect) /\ db.events[Max(E)].sym = s
  BY <1>5, <1>8, <1>10, <1>11, <1>12 DEF Bucket
<1> QED BY <1>13 DEF places, renamed, effect

\* removed_since leaves nothing out below its limit.
RemovedTold(since, places) ==
  ~since.truncated => \A i \in places : \E m \in DOMAIN since.removed : since.removed[m] = db.events[i]

LEMMA SinceIs ==
  ASSUME db \in [events : Seq(EventRow), edges : Seq(EdgeRow)], NEW ref, ref # Absent, NEW range
  PROVE  RemovedTold(FindRemovedSince(db, repo, ref, range, TRUE),
                     Within(db.events, EventsAfter(db, repo.commits[ref].ts, {"removed"}), range))
<1> DEFINE ts      == repo.commits[ref].ts
           renamed == EdgesAfter(db, ts, range)
           gone    == {k \in Within(db.events, EventsAfter(db, ts, {"removed"}), range) :
                         TRUE \/ db.events[k].sym \notin Confirmed(renamed, "old")}
           tie     == [k \in gone |-> k]
           ranked  == Ranked(db.events, gone, tie)
           total   == Cardinality(gone)
           cut     == total > Limit
           result  == FindRemovedSince(db, repo, ref, range, TRUE)
           places  == Within(db.events, EventsAfter(db, ts, {"removed"}), range)
<1>1. result = [found |-> TRUE, removed |-> ranked, renamed |-> renamed, total |-> total, truncated |-> cut]
  BY DEF FindRemovedSince
<1>2. db.events \in Seq(EventRow)
  OBVIOUS
<1>3. gone \subseteq DOMAIN db.events
  BY DEF Within, EventsAfter
<1>4. places \subseteq gone
  OBVIOUS
<1> HIDE DEF gone
<1>5. Ties(tie, gone)
  <2>1. gone \subseteq Nat
    BY <1>2, <1>3, PlacesFinite
  <2> QED BY <2>1 DEF Ties
<1> HIDE DEF tie
<1>6. RankedTold(ranked, db.events, gone) /\ total \in Nat
  BY <1>2, <1>3, <1>5, RankedIs
<1>7. Limit \in Nat /\ (~cut => total <= Limit)
  BY <1>6, TimelineQueryAssumption
<1> HIDE DEF ranked, renamed, cut, result
<1>8. \A r : r = [found |-> TRUE, removed |-> ranked, renamed |-> renamed, total |-> total, truncated |-> cut] =>
        r.removed = ranked /\ r.truncated = cut
  OBVIOUS
<1>9. result.removed = ranked /\ result.truncated = cut
  BY <1>1, <1>8, Zenon
<1>10. RemovedTold(result, places)
  <2> HIDE DEF places
  <2> QED BY <1>4, <1>6, <1>7, <1>9 DEF RankedTold, RemovedTold
<1> QED BY <1>10 DEF result

\* The straight log tells every difference of two scanned commits and nothing else.
LEMMA StraightIsExact == TypeInv /\ StraightInv => DiffIsExact
<1> SUFFICES ASSUME TypeInv, StraightInv, Smooth, NEW from \in scanned, NEW to \in scanned, from < to
             PROVE  LET range  == CommitsBetween(repo, from, to)
                        d      == Diff(db, repo, from, to, range)
                        since  == FindRemovedSince(db, repo, from, CommitsBetween(repo, from, repo.head), TRUE)
                        before == repo.commits[from].tree
                        after  == repo.commits[to].tree
                        Told(effect, side) == Names(d.entries[effect]) \cup Confirmed(d.renamed, side)
                        listed == UNION {Names(d.entries[effect]) : effect \in DOMAIN d.entries}
                        events == {db.events[i].sym : i \in Within(db.events, DOMAIN db.events, range)}
                        mixed  == events \cap (Confirmed(d.renamed, "old") \cup Confirmed(d.renamed, "new"))
                    IN  ~d.truncated =>
                        /\ \A s \in Symbol \ mixed :
                             /\ before[s] = Absent /\ after[s] # Absent => s \in Told("added", "new")
                             /\ before[s] # Absent /\ after[s] = Absent => s \in Told("removed", "old")
                             /\ Absent \notin {before[s], after[s]} /\ before[s] # after[s] => s \in Told("modified", "old")
                        /\ \A s \in listed : \E c \in (from + 1)..to : repo.commits[c].tree[s] # before[s]
                        /\ ~since.truncated => Names(d.entries["removed"]) \subseteq Names(since.removed)
  BY DEF DiffIsExact, Smooth
<1> DEFINE range   == CommitsBetween(repo, from, to)
           onward  == CommitsBetween(repo, from, repo.head)
           d       == Diff(db, repo, from, to, range)
           since   == FindRemovedSince(db, repo, from, onward, TRUE)
           before  == repo.commits[from].tree
           after   == repo.commits[to].tree
           renamed == EdgesAfter(db, repo.commits[from].ts, range)
           places  == RowsIn(from, to)
           events  == {db.events[i].sym : i \in Within(db.events, DOMAIN db.events, range)}
           effects == {"added", "removed", "modified"}
           Net(f)  == Bucket(db.events, places, renamed, f)
<1>1. Straight /\ RowsPlaced /\ LogIsExact /\ from \in Commits /\ to \in Commits
  BY DEF StraightInv, Straight
<1>2. from \in Nat /\ to \in Nat /\ from # 0 /\ to # 0 /\ from <= to /\ from # to /\ from # Absent /\ to # Absent
  BY <1>1, AbsentAssumption DEF Commits
<1>3. db \in [events : Seq(EventRow), edges : Seq(EdgeRow)] /\ \A i \in DOMAIN db.events : db.events[i] \in EventRow
  BY DEF TypeInv, StoreTyped
<1>4. /\ range = (from + 1)..to /\ InRange(from, range) = places
      /\ Within(db.events, DOMAIN db.events, range) = places
  BY <1>1, RangeIs DEF InRange
<1>5. before = TreeAt(from) /\ after = TreeAt(to) /\ \A c \in (from + 1)..to : TreeAt(c) = repo.commits[c].tree
  BY <1>2 DEF TreeAt
<1>6. d.renamed = renamed /\ EntriesTold(d.entries, d.truncated, places, renamed)
  BY <1>2, <1>3, <1>4, DiffIs
<1>7. \A s \in Symbol :
        /\ s \in Confirmed(renamed, "old") <=> \E i \in EdgesIn(from, to) : ~db.edges[i].candidate /\ db.edges[i]["old"] = s
        /\ s \in Confirmed(renamed, "new") <=> \E i \in EdgesIn(from, to) : ~db.edges[i].candidate /\ db.edges[i]["new"] = s
  BY <1>1, ConfirmedIs
<1>8. \A s \in Symbol : EventsIn(s, from, to) # {} /\ RenamesIn(s, from, to) = {} =>
        \E i \in Net(IF after[s] = Absent THEN "removed" ELSE IF before[s] = Absent THEN "added" ELSE "modified") :
          db.events[i].sym = s
  BY <1>5, NetTells
<1>9. \A f \in effects : \A i \in Net(f) : i \in places
  BY DEF Bucket
<1>10. \A i \in Net("removed") : db.events[i].type = "removed"
  BY DEF Bucket, NetEffect
<1>11. \A s \in Symbol : Exact(s, from, to)
  BY <1>1, <1>2 DEF LogIsExact
<1> HIDE DEF d, since, before, after, renamed, Net, range, onward
<1>12. ASSUME ~d.truncated, NEW s \in Symbol, s \notin events \cap (Confirmed(renamed, "old") \cup Confirmed(renamed, "new"))
       PROVE  /\ before[s] = Absent /\ after[s] # Absent => s \in Names(d.entries["added"]) \cup Confirmed(renamed, "new")
              /\ before[s] # Absent /\ after[s] = Absent => s \in Names(d.entries["removed"]) \cup Confirmed(renamed, "old")
              /\ Absent \notin {before[s], after[s]} /\ before[s] # after[s] =>
                   s \in Names(d.entries["modified"]) \cup Confirmed(renamed, "old")
  <2>1. EventsIn(s, from, to) # {} => s \in events
    BY <1>4 DEF EventsIn, EventsOf, RowsIn
  <2>2. \A i \in RenamesIn(s, from, to) :
          i \in EdgesIn(from, to) /\ ~db.edges[i].candidate /\ (db.edges[i]["old"] = s \/ db.edges[i]["new"] = s)
    BY DEF RenamesIn, RenamesOf, EdgesIn
  <2>3. RenamesIn(s, from, to) # {} => s \in Confirmed(renamed, "old") \cup Confirmed(renamed, "new")
    BY <1>7, <2>2
  <2>4. CASE EventsIn(s, from, to) = {}
    <3>1. before[s] # after[s] => /\ before[s] # Absent => \E i \in RenamesIn(s, from, to) : db.edges[i].old = s
                                  /\ after[s] # Absent => \E i \in RenamesIn(s, from, to) : db.edges[i].new = s
      BY <1>5, <1>11, <2>4 DEF Exact
    <3>2. /\ (\E i \in RenamesIn(s, from, to) : db.edges[i].old = s) => s \in Confirmed(renamed, "old")
          /\ (\E i \in RenamesIn(s, from, to) : db.edges[i].new = s) => s \in Confirmed(renamed, "new")
      BY <1>7, <2>2
    <3> QED BY <3>1, <3>2
  <2>5. CASE EventsIn(s, from, to) # {}
    <3>1. RenamesIn(s, from, to) = {}
      BY <1>12, <2>1, <2>3, <2>5
    <3>2. PICK i \in Net(IF after[s] = Absent THEN "removed" ELSE IF before[s] = Absent THEN "added" ELSE "modified") :
            db.events[i].sym = s
      BY <1>8, <2>5, <3>1
    <3>3. \A f \in effects : i \in Net(f) => s \in Names(d.entries[f])
      <4>1. SUFFICES ASSUME NEW f \in effects, i \in Net(f) PROVE s \in Names(d.entries[f])
        OBVIOUS
      <4>2. PICK m \in DOMAIN d.entries[f] : d.entries[f][m] = db.events[i]
        BY <1>6, <1>12, <4>1 DEF EntriesTold, Net
      <4> QED BY <3>2, <4>2 DEF Names
    <3> QED BY <3>2, <3>3
  <2> QED BY <2>4, <2>5
<1>13. ASSUME NEW f \in effects, NEW s \in Names(d.entries[f]) PROVE \E i \in Net(f) : db.events[i].sym = s
  <2>1. PICK m \in DOMAIN d.entries[f] : d.entries[f][m].sym = s
    BY DEF Names
  <2>2. DOMAIN d.entries = effects
    BY <1>6 DEF EntriesTold
  <2>3. \E i \in Net(f) : d.entries[f][m] = db.events[i]
    BY <1>6, <2>2 DEF EntriesTold, Net
  <2> QED BY <2>1, <2>3
<1>14. ASSUME NEW f \in effects, NEW s \in Names(d.entries[f])
       PROVE  \E c \in (from + 1)..to : repo.commits[c].tree[s] # before[s]
  <2>1. PICK i \in Net(f) : db.events[i].sym = s
    BY <1>13
  <2>2. i \in places /\ i \in DOMAIN db.events
    BY <1>9 DEF RowsIn
  <2>3. s \in Symbol
    BY <1>3, <2>1, <2>2 DEF EventRow
  <2>4. EventsIn(s, from, to) # {}
    BY <2>1, <2>2 DEF EventsIn, EventsOf, RowsIn
  <2>5. \E c \in (from + 1)..to : TreeAt(c)[s] # TreeAt(from)[s]
    BY <1>11, <2>3, <2>4 DEF Exact
  <2> QED BY <1>5, <2>5
<1>15. ASSUME ~since.truncated, NEW s \in Names(d.entries["removed"]) PROVE s \in Names(since.removed)
  <2>1. PICK i \in Net("removed") : db.events[i].sym = s
    BY <1>13
  <2>2. i \in RowsIn(from, to) /\ db.events[i].type = "removed"
    BY <1>9, <1>10
  <2>3. repo.head \in Commits /\ to <= repo.head /\ repo.head \in Nat
    BY <1>1, <1>2 DEF Straight, Commits, TypeInv, GitTyped
  <2>4. i \in RowsIn(from, repo.head)
    BY <1>2, <2>2, <2>3 DEF RowsIn
  <2>5. i \in Within(db.events, EventsAfter(db, repo.commits[from].ts, {"removed"}), onward)
    BY <1>1, <2>2, <2>3, <2>4, RangeIs DEF onward
  <2>6. \E m \in DOMAIN since.removed : since.removed[m] = db.events[i]
    <3>1. RemovedTold(since, Within(db.events, EventsAfter(db, repo.commits[from].ts, {"removed"}), onward))
      BY <1>2, <1>3, SinceIs DEF since
    <3> QED BY <1>15, <2>5, <3>1 DEF RemovedTold
  <2> QED BY <2>1, <2>6 DEF Names
<1>16. DOMAIN d.entries = effects
  BY <1>6 DEF EntriesTold
<1>17. ~d.truncated =>
         /\ \A s \in Symbol \ (events \cap (Confirmed(d.renamed, "old") \cup Confirmed(d.renamed, "new"))) :
              /\ before[s] = Absent /\ after[s] # Absent => s \in Names(d.entries["added"]) \cup Confirmed(d.renamed, "new")
              /\ before[s] # Absent /\ after[s] = Absent => s \in Names(d.entries["removed"]) \cup Confirmed(d.renamed, "old")
              /\ Absent \notin {before[s], after[s]} /\ before[s] # after[s] =>
                   s \in Names(d.entries["modified"]) \cup Confirmed(d.renamed, "old")
         /\ \A s \in UNION {Names(d.entries[effect]) : effect \in DOMAIN d.entries} :
              \E c \in (from + 1)..to : repo.commits[c].tree[s] # before[s]
         /\ ~since.truncated => Names(d.entries["removed"]) \subseteq Names(since.removed)
  BY <1>6, <1>12, <1>14, <1>15, <1>16
<1> QED BY <1>17, Zenon DEF d, since, before, after, range, onward

\* diff and removed_since between two scanned commits of a straight history tell every
\* difference of their files and nothing of a symbol that stayed as it was: for any
\* symbols, similarity, number of commits and scans, and any limit.
THEOREM DiffsAreExact == Spec => []DiffIsExact
<1>1. Init => TypeInv /\ StraightInv
  BY InitTypeInv, InitStraight
<1>2. TypeInv /\ StraightInv /\ [Next]_vars => (TypeInv /\ StraightInv)'
  BY NextTypeInv, NextStraight
<1>3. TypeInv /\ StraightInv => DiffIsExact
  BY StraightIsExact
<1> QED BY <1>1, <1>2, <1>3, PTL DEF Spec

=============================================================================
