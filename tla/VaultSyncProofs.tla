--------------------------- MODULE VaultSyncProofs ---------------------------
(***************************************************************************)
(* CleanSyncIsExact and DeletesOnlyDrift of VaultSync, for any projects,   *)
(* files and articles, any number of changes, errors, kills and syncs.     *)
(*                                                                         *)
(* Both speak of the last steps of a sync that was alone.  The invariant   *)
(* says what such a sync has achieved so far (Stage): what it has read is  *)
(* what the index says, and each page and each article is in the vault or  *)
(* still to be written.  That other syncs do not undo this is because a    *)
(* sync that is alone is the only one of its project (Apart).              *)
(***************************************************************************)
EXTENDS VaultSync, FiniteSetTheorems, TLAPS

-----------------------------------------------------------------------------
(* Sequences that list a set.                                              *)

Listed(s, x) == \E i \in DOMAIN s : s[i] = x

Lists(s, S) == s \in Seq(S) /\ \A x \in S : Listed(s, x)

LEMMA ListsEmpty == Lists(<<>>, {})
BY DEF Lists

LEMMA ListsOne == ASSUME NEW x PROVE Lists(<<x>>, {x})
<1>1. <<x>> \in Seq({x}) /\ 1 \in DOMAIN <<x>> /\ <<x>>[1] = x
  OBVIOUS
<1> QED
  BY <1>1 DEF Lists, Listed

LEMMA ListsBoth ==
  ASSUME NEW S, NEW T, NEW s, NEW t, Lists(s, S), Lists(t, T)
  PROVE  Lists(s \o t, S \cup T)
<1>1. s \in Seq(S \cup T) /\ t \in Seq(S \cup T)
  BY DEF Lists
<1>2. s \o t \in Seq(S \cup T)
  BY <1>1
<1>3. ASSUME NEW x \in S PROVE Listed(s \o t, x)
  <2>1. PICK i \in DOMAIN s : s[i] = x
    BY DEF Lists, Listed
  <2>2. i \in DOMAIN (s \o t) /\ (s \o t)[i] = x
    BY <1>1, <2>1
  <2> QED
    BY <2>2 DEF Listed
<1>4. ASSUME NEW x \in T PROVE Listed(s \o t, x)
  <2>1. PICK i \in DOMAIN t : t[i] = x
    BY DEF Lists, Listed
  <2>2. Len(s) + i \in DOMAIN (s \o t) /\ (s \o t)[Len(s) + i] = x
    BY <1>1, <2>1
  <2> QED
    BY <2>2 DEF Listed
<1> QED
  BY <1>2, <1>3, <1>4 DEF Lists

\* SetToSeq chooses a sequence that lists the set.
LEMMA SetToSeqLists ==
  ASSUME NEW S, IsFiniteSet(S)
  PROVE  Lists(SetToSeq(S), S)
<1> DEFINE n == Cardinality(S)
           s == SetToSeq(S)
<1>1. n \in Nat /\ ExistsBijection(1..n, S)
  BY FS_CardinalityType
<1>2. \E f \in [1..n -> S] : IsInjective(f)
  BY <1>1 DEF ExistsBijection, Bijection, Injection
<1>3. s \in [1..n -> S] /\ IsInjective(s)
  BY <1>2 DEF SetToSeq
<1>4. s \in Injection(1..n, S)
  BY <1>3 DEF Injection
<1>5. IsFiniteSet(1..n) /\ Cardinality(1..n) = n
  BY <1>1, FS_Interval
<1>6. s \in Surjection(1..n, S)
  BY <1>4, <1>5, FS_Injection
<1>7. \A x \in S : \E i \in 1..n : s[i] = x
  BY <1>6 DEF Surjection
<1>8. s \in Seq(S) /\ DOMAIN s = 1..n
  BY <1>1, <1>3
<1> QED
  BY <1>7, <1>8 DEF Lists, Listed

\* The rest of a list has what its head is not.
LEMMA OneOff ==
  ASSUME NEW S, NEW s \in Seq(S), s # <<>>
  PROVE  /\ Head(s) \in S /\ Tail(s) \in Seq(S)
         /\ Listed(s, Head(s))
         /\ \A x : Listed(Tail(s), x) => Listed(s, x)
         /\ \A x : Listed(s, x) => x = Head(s) \/ Listed(Tail(s), x)
<1>1. /\ Len(s) \in Nat \ {0} /\ DOMAIN s = 1..Len(s)
      /\ Head(s) = s[1] /\ Tail(s) \in Seq(S)
      /\ DOMAIN Tail(s) = 1..(Len(s) - 1)
      /\ \A i \in 1..(Len(s) - 1) : Tail(s)[i] = s[i + 1]
  OBVIOUS
<1>2. ASSUME NEW x, Listed(Tail(s), x) PROVE Listed(s, x)
  <2>1. PICK i \in 1..(Len(s) - 1) : Tail(s)[i] = x
    BY <1>1, <1>2 DEF Listed
  <2>2. i + 1 \in DOMAIN s /\ s[i + 1] = x
    BY <1>1, <2>1
  <2> QED
    BY <2>2 DEF Listed
<1>3. ASSUME NEW x, Listed(s, x), x # Head(s) PROVE Listed(Tail(s), x)
  <2>1. PICK i \in 1..Len(s) : s[i] = x
    BY <1>1, <1>3 DEF Listed
  <2>2. i # 1 /\ i - 1 \in 1..(Len(s) - 1)
    BY <1>1, <1>3, <2>1
  <2>3. i - 1 \in DOMAIN Tail(s) /\ Tail(s)[i - 1] = x
    BY <1>1, <2>1, <2>2
  <2> QED
    BY <2>3 DEF Listed
<1>4. 1 \in DOMAIN s /\ s[1] = Head(s)
  BY <1>1
<1>5. Listed(s, Head(s)) /\ Head(s) \in S
  BY <1>1, <1>4 DEF Listed
<1> QED
  BY <1>1, <1>2, <1>3, <1>5

-----------------------------------------------------------------------------
(* The pages of a snapshot.                                                *)

Snaps == [files : SUBSET File, parsed : SUBSET File]

Names(files) == {Dir[f] : f \in files}

PageSet(snap) == {IndexPage(p, snap) : p \in Shown} \cup {ModulePage(m, snap) : m \in Names(snap.files)}

LEMMA NamesFinite ==
  ASSUME NEW files \in SUBSET File
  PROVE  IsFiniteSet(Names(files))
<1> DEFINE name == [f \in files |-> Dir[f]]
<1>1. IsFiniteSet(files)
  BY VaultSyncAssumption, FS_Subset
<1>2. name \in Surjection(files, Names(files))
  BY DEF Surjection, Names
<1> QED
  BY <1>1, <1>2, FS_Surjection

LEMMA PagesListed ==
  ASSUME NEW snap \in Snaps
  PROVE  Lists(IndexPages(snap), PageSet(snap))
<1> DEFINE modules == SetToSeq(Names(snap.files))
           pages == [i \in DOMAIN modules |-> ModulePage(modules[i], snap)]
           If(p) == IF p \in Shown THEN <<IndexPage(p, snap)>> ELSE <<>>
           Of(p) == IF p \in Shown THEN {IndexPage(p, snap)} ELSE {}
           Modules == {ModulePage(m, snap) : m \in Names(snap.files)}
<1>1. ASSUME NEW p PROVE Lists(If(p), Of(p))
  BY ListsEmpty, ListsOne
<1>2. Lists(pages, Modules)
  <2>1. modules \in Seq(Names(snap.files)) /\ \A m \in Names(snap.files) : Listed(modules, m)
    BY NamesFinite, SetToSeqLists DEF Snaps, Lists
  <2>2. \A i \in DOMAIN modules : modules[i] \in Names(snap.files)
    BY <2>1
  <2>3. DOMAIN modules = 1..Len(modules) /\ Len(modules) \in Nat
    BY <2>1
  <2> HIDE DEF modules
  <2>4. \A i \in DOMAIN modules : pages[i] = ModulePage(modules[i], snap) /\ pages[i] \in Modules
    BY <2>2
  <2>5. pages \in Seq(Modules)
    <3>1. pages \in [1..Len(modules) -> Modules]
      BY <2>3, <2>4
    <3> QED
      BY <2>3, <3>1
  <2>6. ASSUME NEW x \in Modules PROVE Listed(pages, x)
    <3>1. PICK m \in Names(snap.files) : x = ModulePage(m, snap)
      OBVIOUS
    <3>2. PICK i \in DOMAIN modules : modules[i] = m
      BY <2>1 DEF Listed
    <3>3. i \in DOMAIN pages /\ pages[i] = x
      BY <3>1, <3>2, <2>4
    <3> QED
      BY <3>3 DEF Listed
  <2> QED
    BY <2>5, <2>6 DEF Lists
<1>3. IndexPages(snap) = ((If("Home") \o pages) \o If("Recent_Changes")) \o If("Tech_Debt")
  BY DEF IndexPages, Names
<1>4. PageSet(snap) = ((Of("Home") \cup Modules) \cup Of("Recent_Changes")) \cup Of("Tech_Debt")
  <2>1. {IndexPage(p, snap) : p \in Shown} = Of("Home") \cup Of("Recent_Changes") \cup Of("Tech_Debt")
    BY VaultSyncAssumption
  <2> QED
    BY <2>1 DEF PageSet
<1> HIDE DEF pages, If, Of, Modules
<1>5. Lists(If("Home") \o pages, Of("Home") \cup Modules)
  BY <1>1, <1>2, ListsBoth
<1>6. Lists((If("Home") \o pages) \o If("Recent_Changes"), (Of("Home") \cup Modules) \cup Of("Recent_Changes"))
  BY <1>1, <1>5, ListsBoth
<1>7. Lists(((If("Home") \o pages) \o If("Recent_Changes")) \o If("Tech_Debt"),
            ((Of("Home") \cup Modules) \cup Of("Recent_Changes")) \cup Of("Tech_Debt"))
  BY <1>1, <1>6, ListsBoth
<1> QED
  BY <1>3, <1>4, <1>7

LEMMA KindsDiffer ==
  ASSUME NEW m, NEW p, NEW a
  PROVE  /\ <<"module", m>> # <<"page", p>>
         /\ <<"wiki", a>> # <<"page", p>>
         /\ <<"wiki", a>> # <<"module", m>>
OBVIOUS

\* A page is known by its key.
LEMMA OneKey ==
  ASSUME NEW snap, NEW x \in PageSet(snap), NEW y \in PageSet(snap), x.key = y.key
  PROVE  x = y
<1>1. CASE \E p \in Shown : x = IndexPage(p, snap)
  <2>1. PICK p \in Shown : x = IndexPage(p, snap)
    BY <1>1
  <2>2. x.key = <<"page", p>>
    BY <2>1 DEF IndexPage
  <2>3. ASSUME NEW m, y = ModulePage(m, snap) PROVE FALSE
    <3>1. y.key = <<"module", m>>
      BY <2>3 DEF ModulePage
    <3> QED
      BY <2>2, <3>1, KindsDiffer
  <2>4. PICK q \in Shown : y = IndexPage(q, snap)
    BY <2>3 DEF PageSet
  <2>5. y.key = <<"page", q>>
    BY <2>4 DEF IndexPage
  <2> QED
    BY <2>1, <2>2, <2>4, <2>5
<1>2. CASE \E m \in Names(snap.files) : x = ModulePage(m, snap)
  <2>1. PICK m \in Names(snap.files) : x = ModulePage(m, snap)
    BY <1>2
  <2>2. x.key = <<"module", m>>
    BY <2>1 DEF ModulePage
  <2>3. ASSUME NEW p, y = IndexPage(p, snap) PROVE FALSE
    <3>1. y.key = <<"page", p>>
      BY <2>3 DEF IndexPage
    <3> QED
      BY <2>2, <3>1, KindsDiffer
  <2>4. PICK n \in Names(snap.files) : y = ModulePage(n, snap)
    BY <2>3 DEF PageSet
  <2>5. y.key = <<"module", n>>
    BY <2>4 DEF ModulePage
  <2> QED
    BY <2>1, <2>2, <2>4, <2>5
<1> QED
  BY <1>1, <1>2 DEF PageSet

-----------------------------------------------------------------------------
(* The invariant.                                                          *)

Pages == UNION {PageSet(snap) : snap \in Snaps}

Keys == {<<"page", p>> : p \in Shown} \cup {<<"module", m>> : m \in Names(File)} \cup {<<"wiki", a>> : a \in Wikis}

Syncs ==
  {s \in [pc : {"files", "rest", "pages", "wiki", "done"}, project : Project, snap : Snaps,
          todo : Seq(Pages \cup Wikis), kept : SUBSET {<<"wiki", a>> : a \in Wikis},
          errors : BOOLEAN, age : 0..MaxAge, alone : BOOLEAN] :
     s.pc = "pages" => s.todo \in Seq(Pages)}

TypeInv ==
  /\ index \in [Project -> Snaps]
  /\ wiki = [p \in Project |-> wiki[p]]
  /\ \A p \in Project : wiki[p] # Absent => DOMAIN wiki[p] \subseteq Wikis
  /\ vault = [p \in Project |-> vault[p]]
  /\ \A p \in Project : DOMAIN vault[p] \subseteq Keys
  /\ queue \in Seq(Project)
  /\ plan \in Seq(Project)
  /\ sync \in [Runner -> Syncs \cup {Idle}]

\* Who is alone has no other sync of the project beside it.
Apart(r) ==
  Active(r) /\ sync[r].alone =>
    \A q \in Runner \ {r} : Active(q) => sync[q].project # sync[r].project

\* A page is in the vault v as it should be.
Shows(v, x) == x.key \in DOMAIN v /\ v[x.key] = x.content

\* The vault v holds the articles of the wiki w, and no other.
Mirrors(v, w) ==
  /\ \A a \in DOMAIN w : <<"wiki", a>> \in DOMAIN v /\ v[<<"wiki", a>>] = Mirrored(a, w[a])
  /\ \A a \in Wikis : <<"wiki", a>> \in DOMAIN v => a \in DOMAIN w

\* What a sync s that is alone has achieved, if i, w and v are the index, the wiki and
\* the vault of its project.
Stage(s, i, w, v) ==
  /\ s.pc \in {"files", "rest", "pages"} => s.kept = {}
  /\ s.pc = "rest" => s.snap.files = i.files
  /\ s.pc \in {"pages", "wiki", "done"} => s.snap = i
  /\ s.pc = "pages" => \A n \in DOMAIN s.todo : s.todo[n] \in PageSet(i)
  /\ s.pc = "wiki" =>
       /\ w # Absent
       /\ \A n \in DOMAIN s.todo : s.todo[n] \in DOMAIN w
       /\ \A a \in Wikis : <<"wiki", a>> \in s.kept =>
            /\ a \in DOMAIN w
            /\ <<"wiki", a>> \in DOMAIN v /\ v[<<"wiki", a>>] = Mirrored(a, w[a])
  /\ s.errors = FALSE =>
       /\ s.pc = "pages" => \A x \in PageSet(i) : Shows(v, x) \/ Listed(s.todo, x)
       /\ s.pc \in {"wiki", "done"} => \A x \in PageSet(i) : Shows(v, x)
       /\ s.pc = "wiki" => \A a \in DOMAIN w : <<"wiki", a>> \in s.kept \/ Listed(s.todo, a)
       /\ s.pc = "done" /\ w # Absent => Mirrors(v, w)

Reached(r) ==
  LET p == sync[r].project
  IN  Active(r) /\ sync[r].alone => Stage(sync[r], index[p], wiki[p], vault[p])

Inv == TypeInv /\ \A r \in Runner : Apart(r) /\ Reached(r)

LEMMA Fields ==
  ASSUME NEW s \in Syncs \cup {Idle}, s.pc # "idle"
  PROVE  s \in Syncs
BY DEF Idle

LEMMA InitInv == Init => Inv
<1> SUFFICES ASSUME Init PROVE Inv
  OBVIOUS
<1>1. [files |-> {}, parsed |-> {}] \in Snaps
  BY DEF Snaps
<1>2. \A p \in Project : wiki[p] = Absent
  BY DEF Init
<1>3. \A p \in Project : DOMAIN vault[p] = {}
  <2>1. \A p \in Project : vault[p] = <<>>
    BY DEF Init
  <2> QED
    BY <2>1
<1>4. TypeInv
  BY <1>1, <1>2, <1>3 DEF TypeInv, Init
<1>5. \A r \in Runner : ~Active(r)
  BY DEF Init, Active, Idle
<1> QED
  BY <1>4, <1>5 DEF Inv, Apart, Reached

-----------------------------------------------------------------------------
(* What a step leaves alone.                                               *)

\* The others of the project are no longer alone, and nothing else changes.
LEMMA DisturbedMeans ==
  ASSUME TypeInv, NEW p, NEW e, NEW r \in Runner
  PROVE  LET d == Disturbed(p, e) IN
         /\ d \in [Runner -> Syncs \cup {Idle}]
         /\ r = e => d[r] = sync[r]
         /\ d[r].pc = sync[r].pc
         /\ Active(r) => d[r].project = sync[r].project
         /\ Active(r) /\ d[r].alone /\ r # e => d[r] = sync[r] /\ sync[r].project # p
<1> DEFINE d == Disturbed(p, e)
<1>1. ASSUME NEW q \in Runner
      PROVE  d[q] \in Syncs \cup {Idle} /\ d[q].pc = sync[q].pc
             /\ (Active(q) => d[q].project = sync[q].project)
  <2>1. CASE Active(q) /\ q # e /\ sync[q].project = p
    <3>1. sync[q] \in Syncs
      BY <2>1, Fields DEF Active, TypeInv
    <3>2. d[q] = [sync[q] EXCEPT !.alone = FALSE]
      BY <2>1 DEF Disturbed
    <3> QED
      BY <3>1, <3>2 DEF Syncs
  <2>2. CASE ~(Active(q) /\ q # e /\ sync[q].project = p)
    <3>1. d[q] = sync[q]
      BY <2>2 DEF Disturbed
    <3> QED
      BY <3>1 DEF TypeInv
  <2> QED
    BY <2>1, <2>2
<1>2. d \in [Runner -> Syncs \cup {Idle}]
  <2>1. d = [q \in Runner |-> d[q]]
    BY DEF Disturbed
  <2> QED
    BY <1>1, <2>1
<1>3. r = e => d[r] = sync[r]
  BY DEF Disturbed
<1>4. ASSUME Active(r), d[r].alone, r # e PROVE d[r] = sync[r] /\ sync[r].project # p
  <2>1. sync[r] \in Syncs
    BY <1>4, Fields DEF Active, TypeInv
  <2>2. ASSUME sync[r].project = p PROVE FALSE
    <3>1. d[r] = [sync[r] EXCEPT !.alone = FALSE]
      BY <1>4, <2>2 DEF Disturbed
    <3>2. d[r].alone = FALSE
      BY <2>1, <3>1 DEF Syncs
    <3> QED
      BY <1>4, <3>2
  <2> QED
    BY <2>2 DEF Disturbed
<1> QED
  BY <1>1, <1>2, <1>3, <1>4

\* Nothing of q and of what it is about has changed.
Same(q) ==
  LET p == sync[q].project
  IN  /\ sync'[q] = sync[q]
      /\ index'[p] = index[p] /\ wiki'[p] = wiki[p] /\ vault'[p] = vault[p]

LEMMA SameReached ==
  ASSUME NEW q \in Runner, Reached(q), Same(q)
  PROVE  Reached(q)'
BY DEF Reached, Same, Active

\* A change of the project p from outside.
LEMMA ChangeKeeps ==
  ASSUME Inv, NEW p \in Project, TypeInv', sync' = Disturbed(p, "none"),
         \A o \in Project \ {p} : index'[o] = index[o] /\ wiki'[o] = wiki[o],
         vault' = vault
  PROVE  Inv'
<1> SUFFICES ASSUME NEW r \in Runner, Active(r)', sync'[r].alone
             PROVE  Apart(r)' /\ Reached(r)'
  BY DEF Inv, Apart, Reached
<1>1. r # "none"
  BY DEF Runner
<1>2. Active(r) /\ sync'[r] = sync[r] /\ sync[r].project # p
  BY <1>1, DisturbedMeans DEF Inv, Active
<1>3. sync[r].project \in Project
  BY <1>2, Fields DEF Inv, TypeInv, Active, Syncs
<1>4. Reached(r)'
  BY <1>2, <1>3, SameReached DEF Same, Inv
<1>5. ASSUME NEW q \in Runner \ {r}, Active(q)' PROVE sync'[q].project # sync'[r].project
  <2>1. Active(q) /\ sync'[q].project = sync[q].project
    BY <1>5, DisturbedMeans DEF Inv, Active
  <2> QED
    BY <1>2, <2>1 DEF Inv, Apart
<1> QED
  BY <1>4, <1>5 DEF Apart

\* A step of the sync of r, which changes only the vault of its project.
LEMMA StepKeeps ==
  ASSUME Inv, NEW r \in Runner, Active(r), TypeInv',
         sync'[r].pc # "idle" => sync'[r].project = sync[r].project /\ sync'[r].alone = sync[r].alone,
         \A q \in Runner \ {r} : sync'[q] = sync[q] \/ sync'[q] = Disturbed(sync[r].project, r)[q],
         index' = index, wiki' = wiki,
         \A o \in Project \ {sync[r].project} : vault'[o] = vault[o],
         Reached(r)'
  PROVE  Inv'
<1> DEFINE p == sync[r].project
<1>1. ASSUME NEW q \in Runner, Active(q)'
      PROVE  Active(q) /\ sync'[q].project = sync[q].project
  <2>1. CASE q = r
    BY <1>1, <2>1 DEF Active
  <2>2. CASE q # r
    BY <1>1, <2>2, DisturbedMeans DEF Active, Inv
  <2> QED
    BY <2>1, <2>2
<1>2. ASSUME NEW q \in Runner, Active(q)', sync'[q].alone
      PROVE  Active(q) /\ sync[q].alone /\ (q # r => sync'[q] = sync[q])
  <2>1. CASE q = r
    BY <1>1, <1>2, <2>1 DEF Active
  <2>2. CASE q # r
    BY <1>1, <1>2, <2>2, DisturbedMeans DEF Active, Inv
  <2> QED
    BY <2>1, <2>2
<1>3. ASSUME NEW q \in Runner PROVE Apart(q)'
  <2> SUFFICES ASSUME Active(q)', sync'[q].alone, NEW o \in Runner \ {q}, Active(o)'
               PROVE  sync'[o].project # sync'[q].project
    BY DEF Apart
  <2>1. Active(q) /\ sync[q].alone /\ sync'[q].project = sync[q].project
    BY <1>1, <1>2
  <2>2. Active(o) /\ sync'[o].project = sync[o].project
    BY <1>1
  <2> QED
    BY <2>1, <2>2 DEF Inv, Apart
<1>4. ASSUME NEW q \in Runner \ {r} PROVE Reached(q)'
  <2> SUFFICES ASSUME Active(q)', sync'[q].alone PROVE Reached(q)'
    BY DEF Reached
  <2>1. Active(q) /\ sync[q].alone /\ sync'[q] = sync[q]
    BY <1>2
  <2>2. sync[q].project # p
    BY <2>1 DEF Inv, Apart
  <2>3. sync[q].project \in Project
    BY <2>1, Fields DEF Inv, TypeInv, Active, Syncs
  <2> QED
    BY <2>1, <2>2, <2>3, SameReached DEF Same, Inv
<1> QED
  BY <1>3, <1>4 DEF Inv

\* The same for a step that changes no other sync and no vault.
LEMMA QuietStepKeeps ==
  ASSUME Inv, NEW r \in Runner, Active(r), NEW s \in Syncs, sync' = [sync EXCEPT ![r] = s],
         s.project = sync[r].project, s.alone = sync[r].alone,
         UNCHANGED <<index, wiki, vault, queue, plan>>,
         LET p == s.project IN s.alone => Stage(s, index[p], wiki[p], vault[p])
  PROVE  Inv'
<1>1. TypeInv' /\ sync'[r] = s
  BY DEF Inv, TypeInv
<1>2. Reached(r)'
  BY <1>1 DEF Reached
<1>3. \A q \in Runner \ {r} : sync'[q] = sync[q]
  BY DEF Inv, TypeInv
<1> QED
  BY <1>1, <1>2, <1>3, StepKeeps

-----------------------------------------------------------------------------
(* The world around, and the beginning and end of a sync.                  *)

\* A change of the index or the wiki makes the syncs of the project no longer alone.
LEMMA ScanKeeps == ASSUME Inv, NEW p \in Project, Scan(p) PROVE Inv'
<1>1. PICK files \in SUBSET {f \in File : Owner[f] = p}, parsed \in SUBSET File :
        index' = [index EXCEPT ![p] = [files |-> files, parsed |-> parsed]]
  BY DEF Scan
<1>2. [files |-> files, parsed |-> parsed] \in Snaps
  BY DEF Snaps
<1>3. /\ sync' = Disturbed(p, "none") /\ UNCHANGED <<wiki, vault, plan>>
      /\ queue' \in {queue, Append(queue, p)}
  BY DEF Scan
<1>4. \A r \in Runner : sync'[r] \in Syncs \cup {Idle}
  BY <1>3, DisturbedMeans DEF Inv
<1>5. sync' \in [Runner -> Syncs \cup {Idle}]
  BY <1>3, <1>4 DEF Disturbed
<1>6. index' \in [Project -> Snaps] /\ queue' \in Seq(Project)
  BY <1>1, <1>2, <1>3 DEF Inv, TypeInv
<1>7. TypeInv'
  BY <1>3, <1>5, <1>6 DEF Inv, TypeInv
<1>8. \A o \in Project \ {p} : index'[o] = index[o] /\ wiki'[o] = wiki[o]
  BY <1>1, <1>3 DEF Inv, TypeInv
<1> QED
  BY <1>3, <1>7, <1>8, ChangeKeeps

LEMMA ChangeWikiKeeps == ASSUME Inv, NEW p \in Project, ChangeWiki(p) PROVE Inv'
<1> DEFINE old == IF wiki[p] = Absent THEN <<>> ELSE wiki[p]
<1>1. /\ sync' = Disturbed(p, "none") /\ UNCHANGED <<index, vault, queue, plan>>
      /\ \/ \E a \in Wikis, v \in Versions : wiki' = [wiki EXCEPT ![p] = With(old, a, v)]
         \/ \E a \in DOMAIN old : wiki' = [wiki EXCEPT ![p] = Restrict(old, DOMAIN old \ {a})]
         \/ wiki' = [wiki EXCEPT ![p] = Absent]
  BY DEF ChangeWiki
<1>2. DOMAIN old \subseteq Wikis
  BY DEF Inv, TypeInv
<1> HIDE DEF old
<1>3. /\ wiki' = [o \in Project |-> wiki'[o]]
      /\ \A o \in Project \ {p} : wiki'[o] = wiki[o]
      /\ wiki'[p] # Absent => DOMAIN wiki'[p] \subseteq Wikis
  <2>1. CASE \E a \in Wikis, v \in Versions : wiki' = [wiki EXCEPT ![p] = With(old, a, v)]
    <3>1. PICK a \in Wikis, v \in Versions : wiki' = [wiki EXCEPT ![p] = With(old, a, v)]
      BY <2>1
    <3>2. DOMAIN With(old, a, v) = DOMAIN old \cup {a}
      BY DEF With
    <3> QED
      BY <1>2, <3>1, <3>2 DEF Inv, TypeInv
  <2>2. CASE \E a \in DOMAIN old : wiki' = [wiki EXCEPT ![p] = Restrict(old, DOMAIN old \ {a})]
    <3>1. PICK a \in DOMAIN old : wiki' = [wiki EXCEPT ![p] = Restrict(old, DOMAIN old \ {a})]
      BY <2>2
    <3>2. DOMAIN Restrict(old, DOMAIN old \ {a}) \subseteq DOMAIN old
      BY DEF Restrict
    <3> QED
      BY <1>2, <3>1, <3>2 DEF Inv, TypeInv
  <2>3. CASE wiki' = [wiki EXCEPT ![p] = Absent]
    BY <2>3 DEF Inv, TypeInv
  <2> QED
    BY <1>1, <2>1, <2>2, <2>3
<1>4. \A r \in Runner : sync'[r] \in Syncs \cup {Idle}
  BY <1>1, DisturbedMeans DEF Inv
<1>5. sync' \in [Runner -> Syncs \cup {Idle}]
  BY <1>1, <1>4 DEF Disturbed
<1>6. \A o \in Project : wiki'[o] # Absent => DOMAIN wiki'[o] \subseteq Wikis
  BY <1>3 DEF Inv, TypeInv
<1>7. TypeInv'
  BY <1>1, <1>3, <1>5, <1>6 DEF Inv, TypeInv
<1>8. \A o \in Project \ {p} : index'[o] = index[o] /\ wiki'[o] = wiki[o]
  BY <1>1, <1>3
<1> QED
  BY <1>1, <1>7, <1>8, ChangeKeeps

\* Nothing a sync has achieved depends on its age.
LEMMA TickKeeps == ASSUME Inv, Tick PROVE Inv'
<1>1. /\ sync' = [r \in Runner |-> IF r = "worker" /\ Active(r) THEN [sync[r] EXCEPT !.age = Older(@)] ELSE sync[r]]
      /\ UNCHANGED <<index, wiki, vault, queue, plan>>
  BY DEF Tick
<1>2. ASSUME NEW r \in Runner
      PROVE  /\ sync'[r] \in Syncs \cup {Idle}
             /\ sync'[r].pc = sync[r].pc
             /\ Active(r) => /\ sync'[r].project = sync[r].project
                             /\ sync'[r].alone = sync[r].alone
                             /\ sync'[r].snap = sync[r].snap
                             /\ sync'[r].todo = sync[r].todo
                             /\ sync'[r].kept = sync[r].kept
                             /\ sync'[r].errors = sync[r].errors
  <2>1. CASE r = "worker" /\ Active(r)
    <3>1. sync[r] \in Syncs
      BY <2>1, Fields DEF Active, Inv, TypeInv
    <3>2. Older(sync[r].age) \in 0..MaxAge
      BY <3>1, VaultSyncAssumption DEF Older, Syncs, MaxAge
    <3>3. sync'[r] = [sync[r] EXCEPT !.age = Older(sync[r].age)]
      BY <1>1, <2>1
    <3> QED
      BY <3>1, <3>2, <3>3 DEF Syncs
  <2>2. CASE ~(r = "worker" /\ Active(r))
    BY <1>1, <2>2 DEF Inv, TypeInv
  <2> QED
    BY <2>1, <2>2
<1>3. sync' \in [Runner -> Syncs \cup {Idle}]
  BY <1>1, <1>2
<1>4. TypeInv'
  BY <1>1, <1>3 DEF Inv, TypeInv
<1>5. ASSUME NEW r \in Runner PROVE Apart(r)'
  BY <1>2 DEF Inv, Apart, Active
<1>6. ASSUME NEW r \in Runner PROVE Reached(r)'
  BY <1>1, <1>2 DEF Inv, Reached, Active, Stage
<1> QED
  BY <1>4, <1>5, <1>6 DEF Inv

LEMMA EndKeeps ==
  ASSUME Inv, NEW r \in Runner, sync' = [sync EXCEPT ![r] = Idle],
         UNCHANGED <<index, wiki, vault>>, queue' \in Seq(Project), plan' \in Seq(Project)
  PROVE  Inv'
<1>1. TypeInv'
  BY DEF Inv, TypeInv
<1>2. ASSUME NEW q \in Runner, Active(q)' PROVE sync'[q] = sync[q] /\ Active(q)
  BY <1>2 DEF Inv, TypeInv, Active, Idle
<1>3. ASSUME NEW q \in Runner PROVE Apart(q)'
  BY <1>2 DEF Inv, Apart
<1>4. ASSUME NEW q \in Runner PROVE Reached(q)'
  BY <1>2 DEF Inv, Reached
<1> QED
  BY <1>1, <1>3, <1>4 DEF Inv

LEMMA StartKeeps ==
  ASSUME Inv, NEW r \in Runner, NEW p \in Project, ~Active(r), sync' = Started(r, p),
         UNCHANGED <<index, wiki, vault>>, queue' \in Seq(Project), plan' \in Seq(Project)
  PROVE  Inv'
<1> DEFINE free == \A q \in Runner \ {r} : Active(q) => sync[q].project # p
           s == [pc |-> "files", project |-> p, snap |-> [files |-> {}, parsed |-> {}], todo |-> <<>>,
                 kept |-> {}, errors |-> FALSE, age |-> 0, alone |-> free]
           d == Disturbed(p, r)
<1>1. d \in [Runner -> Syncs \cup {Idle}]
  BY DisturbedMeans DEF Inv
<1>2. s \in Syncs
  <2>1. [files |-> {}, parsed |-> {}] \in Snaps /\ 0 \in 0..MaxAge
    BY VaultSyncAssumption DEF Snaps, MaxAge
  <2>2. <<>> \in Seq(Pages \cup Wikis)
    OBVIOUS
  <2>3. free \in BOOLEAN
    OBVIOUS
  <2> HIDE DEF free
  <2> QED
    BY <2>1, <2>2, <2>3 DEF Syncs
<1>3. sync' = [d EXCEPT ![r] = s]
  BY DEF Started
<1>4. sync'[r] = s /\ (\A q \in Runner \ {r} : sync'[q] = d[q]) /\ sync' \in [Runner -> Syncs \cup {Idle}]
  BY <1>1, <1>2, <1>3
<1>5. s.pc = "files" /\ s.project = p /\ (s.alone = TRUE => free)
  <2> HIDE DEF free
  <2> QED
    OBVIOUS
<1> HIDE DEF s, d
<1>6. TypeInv'
  BY <1>4 DEF Inv, TypeInv
<1>7. ASSUME NEW q \in Runner \ {r}, Active(q)'
      PROVE  /\ Active(q) /\ sync'[q].project = sync[q].project
             /\ sync'[q].alone => sync'[q] = sync[q] /\ sync[q].project # p
  BY <1>4, <1>7, DisturbedMeans DEF d, Inv, Active
<1>8. ASSUME NEW q \in Runner PROVE Apart(q)'
  <2> SUFFICES ASSUME Active(q)', sync'[q].alone, NEW o \in Runner \ {q}, Active(o)'
               PROVE  sync'[o].project # sync'[q].project
    BY DEF Apart
  <2>1. CASE q = r
    <3>1. sync'[r].alone = TRUE
      BY <1>2, <1>4, <2>1 DEF Syncs
    <3> QED
      BY <1>4, <1>5, <1>7, <2>1, <3>1
  <2>2. CASE q # r /\ o = r
    BY <1>4, <1>5, <1>7, <2>2
  <2>3. CASE q # r /\ o # r
    BY <1>7, <2>3 DEF Inv, Apart
  <2> QED
    BY <2>1, <2>2, <2>3
<1>9. ASSUME NEW q \in Runner PROVE Reached(q)'
  <2>1. CASE q = r
    BY <1>4, <1>5, <2>1 DEF Reached, Stage, s
  <2>2. CASE q # r
    BY <1>7, <2>2 DEF Inv, Reached
  <2> QED
    BY <2>1, <2>2
<1> QED
  BY <1>6, <1>8, <1>9 DEF Inv

LEMMA RestOf == ASSUME NEW S, NEW s \in Seq(S), s # <<>> PROVE Head(s) \in S /\ Tail(s) \in Seq(S)
BY OneOff

LEMMA RunnersKeep == ASSUME Inv, WorkerTakes \/ MakePlan \/ RunPlan \/ ByHand \/ DaemonStops PROVE Inv'
<1>1. queue \in Seq(Project) /\ plan \in Seq(Project) /\ {"worker", "nightly", "user"} = Runner
  BY DEF Inv, TypeInv, Runner
<1>2. CASE WorkerTakes
  <2>1. queue # <<>> /\ Head(queue) \in Project /\ queue' \in Seq(Project)
    BY <1>1, <1>2, RestOf DEF WorkerTakes
  <2>2. CASE sync' = sync
    <3>1. UNCHANGED <<index, wiki, vault, plan>>
      BY <1>2 DEF WorkerTakes
    <3>2. TypeInv'
      BY <2>1, <2>2, <3>1 DEF Inv, TypeInv
    <3>3. \A r \in Runner : Apart(r)' /\ Reached(r)'
      BY <2>2, <3>1 DEF Inv, Apart, Reached, Active
    <3> QED
      BY <3>2, <3>3 DEF Inv
  <2>3. CASE sync' = Started("worker", Head(queue))
    <3>1. ~Active("worker") /\ UNCHANGED <<index, wiki, vault, plan>>
      BY <1>2 DEF WorkerTakes, MayStart
    <3> QED
      BY <1>1, <2>1, <2>3, <3>1, StartKeeps
  <2> QED
    BY <1>2, <2>2, <2>3 DEF WorkerTakes
<1>3. CASE MakePlan
  <2>1. IsFiniteSet({p \in Project : IsStale(p)})
    BY VaultSyncAssumption, FS_Subset
  <2>2. plan' \in Seq({p \in Project : IsStale(p)})
    BY <1>3, <2>1, SetToSeqLists DEF MakePlan, Lists
  <2>3. plan' \in Seq(Project)
    BY <2>2
  <2>4. UNCHANGED <<index, wiki, vault, queue, sync>>
    BY <1>3 DEF MakePlan
  <2>5. TypeInv'
    BY <2>3, <2>4 DEF Inv, TypeInv
  <2>6. \A r \in Runner : Apart(r)' /\ Reached(r)'
    BY <2>4 DEF Inv, Apart, Reached, Active
  <2> QED
    BY <2>5, <2>6 DEF Inv
<1>4. CASE RunPlan
  <2>1. plan # <<>> /\ Head(plan) \in Project /\ plan' \in Seq(Project)
    BY <1>1, <1>4, RestOf DEF RunPlan
  <2>2. /\ ~Active("nightly") /\ UNCHANGED <<index, wiki, vault, queue>>
        /\ sync' = Started("nightly", Head(plan))
    BY <1>4 DEF RunPlan, MayStart
  <2> QED
    BY <1>1, <2>1, <2>2, StartKeeps
<1>5. CASE ByHand
  <2>1. PICK p \in Project : sync' = Started("user", p)
    BY <1>5 DEF ByHand
  <2>2. ~Active("user") /\ UNCHANGED <<index, wiki, vault, queue, plan>>
    BY <1>5 DEF ByHand, MayStart
  <2> QED
    BY <1>1, <2>1, <2>2, StartKeeps
<1>6. CASE DaemonStops
  <2>1. /\ queue' = <<>> /\ sync' = [sync EXCEPT !["worker"] = Idle]
        /\ UNCHANGED <<index, wiki, vault, plan>>
    BY <1>6 DEF DaemonStops
  <2>2. queue' \in Seq(Project)
    BY <2>1
  <2> QED
    BY <1>1, <2>1, <2>2, EndKeeps
<1> QED
  BY <1>2, <1>3, <1>4, <1>5, <1>6

LEMMA FinishKeeps == ASSUME Inv, NEW r \in Runner, Finish(r) \/ Die(r) PROVE Inv'
<1>1. sync' = [sync EXCEPT ![r] = Idle] /\ UNCHANGED <<index, wiki, vault, queue, plan>>
  BY DEF Finish, Die
<1> QED
  BY <1>1, EndKeeps DEF Inv, TypeInv

-----------------------------------------------------------------------------
(* The sync of one project.                                                *)

\* What is known of a sync that takes a step.
LEMMA Running ==
  ASSUME Inv, NEW r \in Runner, sync[r].pc # "idle"
  PROVE  /\ Active(r) /\ sync[r] \in Syncs /\ sync[r].project \in Project
         /\ index[sync[r].project] \in Snaps
         /\ sync[r].alone => Stage(sync[r], index[sync[r].project], wiki[sync[r].project], vault[sync[r].project])
<1>1. Active(r) /\ sync[r] \in Syncs
  BY Fields DEF Inv, TypeInv, Active
<1> QED
  BY <1>1 DEF Inv, TypeInv, Syncs, Reached

LEMMA ReadFilesKeeps == ASSUME Inv, NEW r \in Runner, ReadFiles(r) PROVE Inv'
<1> DEFINE p == sync[r].project
           s == [sync[r] EXCEPT !.snap.files = index[p].files, !.pc = "rest"]
<1>1. /\ sync[r].pc = "files" /\ UNCHANGED <<index, wiki, vault, queue, plan>>
      /\ sync' = [sync EXCEPT ![r] = s]
  BY DEF ReadFiles
<1>2. Active(r) /\ sync[r] \in Syncs /\ index[p] \in Snaps
  BY <1>1, Running
<1>3. /\ s \in Syncs /\ s.project = p /\ s.alone = sync[r].alone
      /\ s.pc = "rest" /\ s.snap.files = index[p].files /\ s.kept = sync[r].kept
  BY <1>2 DEF Syncs, Snaps
<1>4. sync[r].alone => sync[r].kept = {}
  BY <1>1, Running DEF Stage
<1> HIDE DEF s
<1>5. ASSUME s.alone PROVE Stage(s, index[p], wiki[p], vault[p])
  BY <1>3, <1>4, <1>5 DEF Stage
<1> QED
  BY <1>1, <1>2, <1>3, <1>5, QuietStepKeeps

LEMMA ReadRestKeeps == ASSUME Inv, NEW r \in Runner, ReadRest(r) PROVE Inv'
<1> DEFINE p == sync[r].project
           snap == [sync[r].snap EXCEPT !.parsed = index[p].parsed]
           s == [sync[r] EXCEPT !.snap = snap, !.todo = IndexPages(snap), !.pc = "pages"]
<1>1. /\ sync[r].pc = "rest" /\ UNCHANGED <<index, wiki, vault, queue, plan>>
      /\ sync' = [sync EXCEPT ![r] = s]
  BY DEF ReadRest
<1>2. /\ Active(r) /\ sync[r] \in Syncs /\ index[p] \in Snaps
      /\ sync[r].alone => sync[r].snap.files = index[p].files /\ sync[r].kept = {}
  BY <1>1, Running DEF Stage
<1>3. snap \in Snaps /\ snap.files = sync[r].snap.files /\ snap.parsed = index[p].parsed
  BY <1>2 DEF Syncs, Snaps
<1>4. sync[r].alone => snap = index[p]
  BY <1>2, <1>3 DEF Snaps
<1>5. /\ Lists(IndexPages(snap), PageSet(snap)) /\ IndexPages(snap) \in Seq(Pages)
      /\ IndexPages(snap) \in Seq(Pages \cup Wikis)
  <2>1. Lists(IndexPages(snap), PageSet(snap))
    BY <1>3, PagesListed
  <2>2. PageSet(snap) \subseteq Pages
    BY <1>3 DEF Pages
  <2> QED
    BY <2>1, <2>2 DEF Lists
<1> HIDE DEF snap
<1>6. /\ s \in Syncs /\ s.project = p /\ s.alone = sync[r].alone
      /\ s.pc = "pages" /\ s.snap = snap /\ s.todo = IndexPages(snap) /\ s.kept = sync[r].kept
  BY <1>2, <1>3, <1>5 DEF Syncs
<1> HIDE DEF s
<1>7. ASSUME s.alone PROVE Stage(s, index[p], wiki[p], vault[p])
  <2>1. s.snap = index[p] /\ s.kept = {} /\ Lists(s.todo, PageSet(index[p]))
    BY <1>2, <1>4, <1>5, <1>6, <1>7
  <2> QED
    BY <1>6, <2>1 DEF Stage, Lists
<1> QED
  BY <1>1, <1>2, <1>6, <1>7, QuietStepKeeps

\* A step of r that writes or deletes a page of its project.
LEMMA WritingStepKeeps ==
  ASSUME Inv, NEW r \in Runner, Active(r), NEW s \in Syncs, NEW v,
         sync' = [Disturbed(sync[r].project, r) EXCEPT ![r] = s],
         vault' = [vault EXCEPT ![sync[r].project] = v], DOMAIN v \subseteq Keys,
         s.project = sync[r].project, s.alone = sync[r].alone,
         UNCHANGED <<index, wiki, queue, plan>>,
         LET p == s.project IN s.alone => Stage(s, index[p], wiki[p], v)
  PROVE  Inv'
<1> DEFINE p == sync[r].project
           d == Disturbed(p, r)
<1>1. d \in [Runner -> Syncs \cup {Idle}]
  BY DisturbedMeans DEF Inv
<1>2. sync'[r] = s /\ (\A q \in Runner \ {r} : sync'[q] = d[q]) /\ sync' \in [Runner -> Syncs \cup {Idle}]
  BY <1>1
<1>3. p \in Project
  BY Running DEF Active
<1>4. /\ vault' = [o \in Project |-> vault'[o]]
      /\ vault'[p] = v /\ \A o \in Project \ {p} : vault'[o] = vault[o]
  BY <1>3 DEF Inv, TypeInv
<1>5. TypeInv'
  BY <1>2, <1>4 DEF Inv, TypeInv
<1>6. Reached(r)'
  BY <1>2, <1>4 DEF Reached
<1> QED
  BY <1>2, <1>4, <1>5, <1>6, StepKeeps

LEMMA KeysOfPages == ASSUME NEW x \in Pages PROVE x.key \in Keys
<1>1. PICK snap \in Snaps : x \in PageSet(snap)
  BY DEF Pages
<1>2. CASE \E p \in Shown : x = IndexPage(p, snap)
  <2>1. PICK p \in Shown : x = IndexPage(p, snap)
    BY <1>2
  <2>2. x.key = <<"page", p>>
    BY <2>1 DEF IndexPage
  <2> QED
    BY <2>2 DEF Keys
<1>3. CASE \E m \in Names(snap.files) : x = ModulePage(m, snap)
  <2>1. PICK m \in Names(snap.files) : x = ModulePage(m, snap)
    BY <1>3
  <2>2. x.key = <<"module", m>>
    BY <2>1 DEF ModulePage
  <2>3. m \in Names(File)
    BY <1>1 DEF Snaps, Names
  <2> QED
    BY <2>2, <2>3 DEF Keys
<1> QED
  BY <1>1, <1>2, <1>3 DEF PageSet

LEMMA WritePageKeeps == ASSUME Inv, NEW r \in Runner, WritePage(r) PROVE Inv'
<1> DEFINE p == sync[r].project
           page == Head(sync[r].todo)
           rest == Tail(sync[r].todo)
           i == index[p]
           w == wiki[p]
<1>1. sync[r].pc = "pages" /\ sync[r].todo # <<>> /\ UNCHANGED <<index, wiki, queue, plan>>
  BY DEF WritePage
<1>2. /\ Active(r) /\ sync[r] \in Syncs /\ p \in Project /\ i \in Snaps
      /\ sync[r].alone => Stage(sync[r], i, w, vault[p])
  BY <1>1, Running
<1>3. /\ sync[r].todo \in Seq(Pages) /\ page \in Pages
      /\ rest \in Seq(Pages) /\ rest \in Seq(Pages \cup Wikis)
      /\ Listed(sync[r].todo, page)
      /\ \A x : Listed(rest, x) => Listed(sync[r].todo, x)
      /\ \A x : Listed(sync[r].todo, x) => x = page \/ Listed(rest, x)
  BY <1>1, <1>2, OneOff DEF Syncs
<1>4. sync[r].alone => \A x : Listed(sync[r].todo, x) => x \in PageSet(i)
  BY <1>1, <1>2 DEF Stage, Listed
<1>5. sync[r].alone => \A n \in DOMAIN rest : rest[n] \in PageSet(i)
  BY <1>3, <1>4 DEF Listed
<1>6. sync[r].alone => sync[r].snap = i /\ sync[r].kept = {}
  BY <1>1, <1>2 DEF Stage
<1>7. sync[r].alone /\ sync[r].errors = FALSE => \A x \in PageSet(i) : Shows(vault[p], x) \/ x = page \/ Listed(rest, x)
  BY <1>1, <1>2, <1>3 DEF Stage
<1>8. CASE /\ vault' = [vault EXCEPT ![p] = With(@, page.key, page.content)]
           /\ sync' = [Disturbed(p, r) EXCEPT ![r].todo = Tail(@)]
  <2> DEFINE s == [sync[r] EXCEPT !.todo = rest]
             v == With(vault[p], page.key, page.content)
  <2>1. Disturbed(p, r)[r] = sync[r]
    BY DisturbedMeans DEF Inv
  <2>2. sync' = [Disturbed(p, r) EXCEPT ![r] = s] /\ vault' = [vault EXCEPT ![p] = v]
    BY <1>8, <2>1
  <2>3. /\ s \in Syncs /\ s.project = p /\ s.alone = sync[r].alone /\ s.errors = sync[r].errors
        /\ s.pc = "pages" /\ s.snap = sync[r].snap /\ s.kept = sync[r].kept /\ s.todo = rest
    BY <1>1, <1>2, <1>3 DEF Syncs
  <2>4. DOMAIN v = DOMAIN vault[p] \cup {page.key} /\ v[page.key] = page.content
        /\ \A o \in DOMAIN vault[p] : o # page.key => v[o] = vault[p][o]
    BY DEF With
  <2>5. DOMAIN v \subseteq Keys
    BY <1>2, <1>3, <2>4, KeysOfPages DEF Inv, TypeInv
  <2> HIDE DEF v
  <2>6. ASSUME sync[r].alone, NEW x \in PageSet(i), Shows(vault[p], x) \/ x = page PROVE Shows(v, x)
    <3>1. CASE x = page
      BY <2>4, <3>1 DEF Shows
    <3>2. CASE x # page /\ Shows(vault[p], x)
      <4>1. page \in PageSet(i)
        BY <1>3, <1>4, <2>6
      <4>2. x.key # page.key
        BY <3>2, <4>1, OneKey
      <4> QED
        BY <2>4, <3>2, <4>2 DEF Shows
    <3> QED
      BY <2>6, <3>1, <3>2
  <2> HIDE DEF s
  <2>7. ASSUME s.alone PROVE Stage(s, i, w, v)
    <3>1. s.errors = FALSE => \A x \in PageSet(i) : Shows(v, x) \/ Listed(s.todo, x)
      BY <1>7, <2>3, <2>6, <2>7
    <3> QED
      BY <1>5, <1>6, <2>3, <2>7, <3>1 DEF Stage
  <2> QED
    BY <1>1, <1>2, <2>2, <2>3, <2>5, <2>7, WritingStepKeeps
<1>9. CASE /\ sync' = [sync EXCEPT ![r].todo = Tail(@), ![r].errors = TRUE]
           /\ UNCHANGED vault
  <2> DEFINE s == [sync[r] EXCEPT !.todo = rest, !.errors = TRUE]
  <2>1. sync' = [sync EXCEPT ![r] = s]
    BY <1>9
  <2>2. /\ s \in Syncs /\ s.project = p /\ s.alone = sync[r].alone /\ s.errors = TRUE
        /\ s.pc = "pages" /\ s.snap = sync[r].snap /\ s.kept = sync[r].kept /\ s.todo = rest
    BY <1>1, <1>2, <1>3 DEF Syncs
  <2> HIDE DEF s
  <2>3. ASSUME s.alone PROVE Stage(s, i, w, vault[p])
    BY <1>5, <1>6, <2>2, <2>3 DEF Stage
  <2> QED
    BY <1>1, <1>2, <1>9, <2>1, <2>2, <2>3, QuietStepKeeps
<1> QED
  BY <1>8, <1>9 DEF WritePage

LEMMA ArticlesListed ==
  ASSUME NEW D \in SUBSET Wikis
  PROVE  Lists(SetToSeq({"INDEX"} \cap D) \o SetToSeq({"architecture"} \cap D) \o SetToSeq(D \ Range(Special)), D)
<1> DEFINE A == {"INDEX"} \cap D
           B == {"architecture"} \cap D
           C == D \ Range(Special)
<1>1. IsFiniteSet(A) /\ IsFiniteSet(B) /\ IsFiniteSet(C)
  BY VaultSyncAssumption, FS_Subset
<1>2. Lists(SetToSeq(A), A) /\ Lists(SetToSeq(B), B) /\ Lists(SetToSeq(C), C)
  BY <1>1, SetToSeqLists
<1>3. (A \cup B) \cup C = D
  <2>1. Range(Special) \subseteq {"INDEX", "architecture"} /\ {"INDEX", "architecture"} \subseteq Range(Special)
    <3>1. DOMAIN Special = 1..2 /\ Special[1] = "INDEX" /\ Special[2] = "architecture"
      BY DEF Special
    <3> QED
      BY <3>1 DEF Range
  <2> QED
    BY <2>1
<1> HIDE DEF A, B, C
<1>4. Lists(SetToSeq(A) \o SetToSeq(B), A \cup B)
  BY <1>2, ListsBoth
<1>5. Lists(SetToSeq(A) \o SetToSeq(B) \o SetToSeq(C), (A \cup B) \cup C)
  BY <1>2, <1>4, ListsBoth
<1> QED
  BY <1>3, <1>5 DEF A, B, C

LEMMA BeginMirrorKeeps == ASSUME Inv, NEW r \in Runner, BeginMirror(r) PROVE Inv'
<1> DEFINE p == sync[r].project
           i == index[p]
           w == wiki[p]
<1>1. sync[r].pc = "pages" /\ sync[r].todo = <<>> /\ UNCHANGED <<index, wiki, vault, queue, plan>>
  BY DEF BeginMirror
<1>2. /\ Active(r) /\ sync[r] \in Syncs /\ p \in Project
      /\ sync[r].alone => Stage(sync[r], i, w, vault[p])
  BY <1>1, Running
<1>3. \A x : ~Listed(sync[r].todo, x)
  BY <1>1 DEF Listed
<1>4. /\ sync[r].alone => sync[r].snap = i /\ sync[r].kept = {}
      /\ sync[r].alone /\ sync[r].errors = FALSE => \A x \in PageSet(i) : Shows(vault[p], x)
  BY <1>1, <1>2, <1>3 DEF Stage
<1>5. CASE w = Absent
  <2> DEFINE s == [sync[r] EXCEPT !.pc = "done"]
  <2>1. sync' = [sync EXCEPT ![r] = s]
    BY <1>5 DEF BeginMirror
  <2>2. /\ s \in Syncs /\ s.project = p /\ s.alone = sync[r].alone /\ s.errors = sync[r].errors
        /\ s.pc = "done" /\ s.snap = sync[r].snap
    BY <1>2 DEF Syncs
  <2> HIDE DEF s
  <2>3. ASSUME s.alone PROVE Stage(s, i, w, vault[p])
    BY <1>4, <1>5, <2>2, <2>3 DEF Stage
  <2> QED
    BY <1>1, <1>2, <2>1, <2>2, <2>3, QuietStepKeeps
<1>6. CASE w # Absent
  <2> DEFINE todo == SetToSeq({"INDEX"} \cap DOMAIN w) \o SetToSeq({"architecture"} \cap DOMAIN w)
                       \o SetToSeq(DOMAIN w \ Range(Special))
             s == [sync[r] EXCEPT !.pc = "wiki", !.todo = todo]
  <2>1. sync' = [sync EXCEPT ![r] = s]
    BY <1>6 DEF BeginMirror
  <2>2. DOMAIN w \in SUBSET Wikis
    BY <1>2, <1>6 DEF Inv, TypeInv
  <2>3. Lists(todo, DOMAIN w)
    BY <2>2, ArticlesListed
  <2> HIDE DEF todo
  <2>4. todo \in Seq(DOMAIN w) /\ todo \in Seq(Pages \cup Wikis)
    BY <2>2, <2>3 DEF Lists
  <2>5. /\ s \in Syncs /\ s.project = p /\ s.alone = sync[r].alone /\ s.errors = sync[r].errors
        /\ s.pc = "wiki" /\ s.snap = sync[r].snap /\ s.todo = todo /\ s.kept = sync[r].kept
    BY <1>2, <2>4 DEF Syncs
  <2> HIDE DEF s
  <2>6. \A n \in DOMAIN todo : todo[n] \in DOMAIN w
    BY <2>4
  <2>7. ASSUME s.alone PROVE Stage(s, i, w, vault[p])
    BY <1>4, <1>6, <2>3, <2>5, <2>6, <2>7 DEF Stage, Lists
  <2> QED
    BY <1>1, <1>2, <2>1, <2>5, <2>7, QuietStepKeeps
<1> QED
  BY <1>5, <1>6

\* The pages of the index are no articles.
LEMMA NoArticle ==
  ASSUME NEW snap, NEW x \in PageSet(snap)
  PROVE  x.key[1] # "wiki" /\ \A a : x.key # <<"wiki", a>>
<1>1. CASE \E p \in Shown : x = IndexPage(p, snap)
  <2>1. PICK p \in Shown : x = IndexPage(p, snap)
    BY <1>1
  <2>2. x.key = <<"page", p>>
    BY <2>1 DEF IndexPage
  <2> QED
    BY <2>2, KindsDiffer
<1>2. CASE \E m \in Names(snap.files) : x = ModulePage(m, snap)
  <2>1. PICK m \in Names(snap.files) : x = ModulePage(m, snap)
    BY <1>2
  <2>2. x.key = <<"module", m>>
    BY <2>1 DEF ModulePage
  <2> QED
    BY <2>2, KindsDiffer
<1> QED
  BY <1>1, <1>2 DEF PageSet

LEMMA MirrorArticleKeeps == ASSUME Inv, NEW r \in Runner, MirrorArticle(r) PROVE Inv'
<1> DEFINE p == sync[r].project
           a == Head(sync[r].todo)
           rest == Tail(sync[r].todo)
           i == index[p]
           w == wiki[p]
           k == <<"wiki", a>>
           there == w # Absent /\ a \in DOMAIN w
<1>1. sync[r].pc = "wiki" /\ sync[r].todo # <<>> /\ UNCHANGED <<index, wiki, queue, plan>>
  BY DEF MirrorArticle
<1>2. /\ Active(r) /\ sync[r] \in Syncs /\ p \in Project
      /\ sync[r].alone => Stage(sync[r], i, w, vault[p])
      /\ w # Absent => DOMAIN w \subseteq Wikis
  BY <1>1, Running DEF Inv, TypeInv
<1>3. /\ rest \in Seq(Pages \cup Wikis)
      /\ Listed(sync[r].todo, a)
      /\ \A x : Listed(rest, x) => Listed(sync[r].todo, x)
      /\ \A x : Listed(sync[r].todo, x) => x = a \/ Listed(rest, x)
  BY <1>1, <1>2, OneOff DEF Syncs
<1>4. sync[r].alone => /\ sync[r].snap = i /\ w # Absent /\ there
                       /\ \A n \in DOMAIN rest : rest[n] \in DOMAIN w
  <2>1. sync[r].alone => /\ sync[r].snap = i /\ w # Absent
                         /\ \A x : Listed(sync[r].todo, x) => x \in DOMAIN w
    BY <1>1, <1>2 DEF Stage, Listed
  <2> QED
    BY <1>3, <2>1 DEF Listed
<1>5. sync[r].alone => \A b \in Wikis : <<"wiki", b>> \in sync[r].kept =>
                          /\ b \in DOMAIN w
                          /\ <<"wiki", b>> \in DOMAIN vault[p] /\ vault[p][<<"wiki", b>>] = Mirrored(b, w[b])
  BY <1>1, <1>2 DEF Stage
<1>6. sync[r].alone /\ sync[r].errors = FALSE =>
        /\ \A x \in PageSet(i) : Shows(vault[p], x)
        /\ \A b \in DOMAIN w : <<"wiki", b>> \in sync[r].kept \/ b = a \/ Listed(rest, b)
  BY <1>1, <1>2, <1>3 DEF Stage
<1>7. CASE /\ there
           /\ vault' = [vault EXCEPT ![p] = With(@, k, Mirrored(a, w[a]))]
           /\ sync' = [Disturbed(p, r) EXCEPT ![r].todo = Tail(@), ![r].kept = @ \cup {k}]
  <2> DEFINE s == [sync[r] EXCEPT !.todo = rest, !.kept = @ \cup {k}]
             v == With(vault[p], k, Mirrored(a, w[a]))
  <2>1. Disturbed(p, r)[r] = sync[r]
    BY DisturbedMeans DEF Inv
  <2>2. sync' = [Disturbed(p, r) EXCEPT ![r] = s] /\ vault' = [vault EXCEPT ![p] = v]
    BY <1>7, <2>1
  <2>3. a \in Wikis
    BY <1>2, <1>7
  <2>4. /\ s \in Syncs /\ s.project = p /\ s.alone = sync[r].alone /\ s.errors = sync[r].errors
        /\ s.pc = "wiki" /\ s.snap = sync[r].snap /\ s.todo = rest /\ s.kept = sync[r].kept \cup {k}
    BY <1>1, <1>2, <1>3, <2>3 DEF Syncs
  <2>5. DOMAIN v = DOMAIN vault[p] \cup {k} /\ v[k] = Mirrored(a, w[a])
        /\ \A o \in DOMAIN vault[p] : o # k => v[o] = vault[p][o]
    BY DEF With
  <2> HIDE DEF v, s
  <2>6. DOMAIN v \subseteq Keys
    BY <1>2, <2>3, <2>5 DEF Inv, TypeInv, Keys
  <2>7. ASSUME s.alone, s.errors = FALSE, NEW x \in PageSet(i) PROVE Shows(v, x)
    <3>1. Shows(vault[p], x) /\ x.key # k
      BY <1>6, <2>4, <2>7, NoArticle
    <3> QED
      BY <2>5, <3>1 DEF Shows
  <2>8. ASSUME s.alone, NEW b \in Wikis, <<"wiki", b>> \in s.kept
        PROVE  /\ b \in DOMAIN w
               /\ <<"wiki", b>> \in DOMAIN v /\ v[<<"wiki", b>>] = Mirrored(b, w[b])
    <3>1. CASE b = a
      BY <1>7, <2>5, <3>1
    <3>2. CASE b # a
      <4>1. <<"wiki", b>> # k
        BY <3>2
      <4> QED
        BY <1>5, <2>4, <2>5, <2>8, <4>1
    <3> QED
      BY <3>1, <3>2
  <2>9. ASSUME s.alone, s.errors = FALSE, NEW b \in DOMAIN w PROVE <<"wiki", b>> \in s.kept \/ Listed(rest, b)
    BY <1>6, <2>4, <2>9
  <2>10. ASSUME s.alone PROVE Stage(s, i, w, v)
    BY <1>4, <2>4, <2>7, <2>8, <2>9, <2>10 DEF Stage
  <2> QED
    BY <1>1, <1>2, <2>2, <2>4, <2>6, <2>10, WritingStepKeeps
<1>8. CASE /\ sync' = [sync EXCEPT ![r].todo = Tail(@), ![r].errors = @ \/ there \/ a \notin Range(Special)]
           /\ UNCHANGED vault
  <2> DEFINE failed == sync[r].errors \/ there \/ a \notin Range(Special)
             s == [sync[r] EXCEPT !.todo = rest, !.errors = failed]
  <2>1. sync' = [sync EXCEPT ![r] = s]
    BY <1>8
  <2>2. failed \in BOOLEAN /\ (there => failed = TRUE)
    OBVIOUS
  <2> HIDE DEF failed
  <2>3. /\ s \in Syncs /\ s.project = p /\ s.alone = sync[r].alone /\ s.errors = failed
        /\ s.pc = "wiki" /\ s.snap = sync[r].snap /\ s.todo = rest /\ s.kept = sync[r].kept
    BY <1>1, <1>2, <1>3, <2>2 DEF Syncs
  <2> HIDE DEF s
  <2>4. ASSUME s.alone PROVE Stage(s, i, w, vault[p])
    BY <1>4, <1>5, <2>2, <2>3, <2>4 DEF Stage
  <2> QED
    BY <1>1, <1>2, <1>8, <2>1, <2>3, <2>4, QuietStepKeeps
<1> QED
  BY <1>7, <1>8 DEF MirrorArticle

\* What the cleanup deletes: articles that were not kept.
Drift(r) == {k \in DOMAIN vault[sync[r].project] : k[1] = "wiki" /\ k \notin sync[r].kept}

LEMMA CleanUpKeeps == ASSUME Inv, NEW r \in Runner, CleanUp(r) PROVE Inv'
<1> DEFINE p == sync[r].project
           i == index[p]
           w == wiki[p]
<1>0. PICK gone \in SUBSET Drift(r) :
        /\ vault' = [vault EXCEPT ![p] = Restrict(@, DOMAIN @ \ gone)]
        /\ sync' = [Disturbed(p, r) EXCEPT ![r].pc = "done", ![r].errors = @ \/ gone # Drift(r)]
  BY DEF CleanUp, Drift
<1> DEFINE failed == sync[r].errors \/ gone # Drift(r)
           s == [sync[r] EXCEPT !.pc = "done", !.errors = failed]
           v == Restrict(vault[p], DOMAIN vault[p] \ gone)
<1>1. sync[r].pc = "wiki" /\ sync[r].todo = <<>> /\ UNCHANGED <<index, wiki, queue, plan>>
  BY DEF CleanUp
<1>2. /\ Active(r) /\ sync[r] \in Syncs /\ p \in Project
      /\ sync[r].alone => Stage(sync[r], i, w, vault[p])
      /\ w # Absent => DOMAIN w \subseteq Wikis
  BY <1>1, Running DEF Inv, TypeInv
<1>3. Disturbed(p, r)[r] = sync[r]
  BY DisturbedMeans DEF Inv
<1>4. sync' = [Disturbed(p, r) EXCEPT ![r] = s] /\ vault' = [vault EXCEPT ![p] = v]
  BY <1>0, <1>3
<1>5. /\ s \in Syncs /\ s.project = p /\ s.alone = sync[r].alone /\ s.errors = failed
      /\ s.pc = "done" /\ s.snap = sync[r].snap
  <2>1. failed \in BOOLEAN
    OBVIOUS
  <2> HIDE DEF failed
  <2> QED BY <1>2, <2>1 DEF Syncs
<1>6. DOMAIN v = DOMAIN vault[p] \ gone /\ \A k \in DOMAIN v : v[k] = vault[p][k]
  BY DEF Restrict
<1> HIDE DEF v, s
<1>7. DOMAIN v \subseteq Keys
  BY <1>2, <1>6 DEF Inv, TypeInv
<1>8. ASSUME s.alone, s.errors = FALSE PROVE Mirrors(v, w) /\ \A x \in PageSet(i) : Shows(v, x)
  <2>0. gone = Drift(r) /\ sync[r].errors = FALSE
    <3>1. sync[r].errors \in BOOLEAN
      BY <1>2 DEF Syncs
    <3> QED BY <1>5, <1>8, <3>1
  <2>1. /\ w # Absent
        /\ \A x \in PageSet(i) : Shows(vault[p], x)
        /\ \A a \in Wikis : <<"wiki", a>> \in sync[r].kept =>
              /\ a \in DOMAIN w
              /\ <<"wiki", a>> \in DOMAIN vault[p] /\ vault[p][<<"wiki", a>>] = Mirrored(a, w[a])
        /\ \A a \in DOMAIN w : <<"wiki", a>> \in sync[r].kept
    <3>1. \A x : ~Listed(sync[r].todo, x)
      BY <1>1 DEF Listed
    <3> QED
      BY <1>1, <1>2, <1>5, <1>8, <2>0, <3>1 DEF Stage
  <2>2. ASSUME NEW a \in DOMAIN w
        PROVE  <<"wiki", a>> \in DOMAIN v /\ v[<<"wiki", a>>] = Mirrored(a, w[a])
    <3>1. a \in Wikis /\ <<"wiki", a>> \in sync[r].kept
      BY <1>2, <2>1
    <3>2. <<"wiki", a>> \notin Drift(r)
      BY <3>1 DEF Drift
    <3> QED
      BY <1>6, <2>0, <2>1, <3>1, <3>2
  <2>3. ASSUME NEW a \in Wikis, <<"wiki", a>> \in DOMAIN v PROVE a \in DOMAIN w
    <3>1. <<"wiki", a>> \in DOMAIN vault[p] /\ <<"wiki", a>> \notin Drift(r)
      BY <1>6, <2>0, <2>3
    <3>2. <<"wiki", a>> \in sync[r].kept
      BY <3>1 DEF Drift
    <3> QED
      BY <2>1, <3>2
  <2>4. ASSUME NEW x \in PageSet(i) PROVE Shows(v, x)
    <3>1. x.key \in DOMAIN vault[p] /\ vault[p][x.key] = x.content
      BY <2>1 DEF Shows
    <3>2. x.key \notin Drift(r)
      BY NoArticle DEF Drift
    <3> QED
      BY <1>6, <2>0, <3>1, <3>2 DEF Shows
  <2> QED
    BY <2>2, <2>3, <2>4 DEF Mirrors
<1>9. ASSUME s.alone PROVE Stage(s, i, w, v)
  <2>1. sync[r].snap = i
    BY <1>1, <1>2, <1>5, <1>9 DEF Stage
  <2> QED
    BY <1>5, <1>8, <1>9, <2>1 DEF Stage
<1> QED
  BY <1>1, <1>2, <1>4, <1>5, <1>7, <1>9, WritingStepKeeps

LEMMA GiveUpKeeps == ASSUME Inv, NEW r \in Runner, GiveUp(r) PROVE Inv'
<1> DEFINE p == sync[r].project
           s == [sync[r] EXCEPT !.pc = "done", !.errors = TRUE]
<1>1. /\ sync[r].pc \in {"pages", "wiki"} /\ sync' = [sync EXCEPT ![r] = s]
      /\ UNCHANGED <<index, wiki, vault, queue, plan>>
  BY DEF GiveUp
<1>2. /\ Active(r) /\ sync[r] \in Syncs
      /\ sync[r].alone => Stage(sync[r], index[p], wiki[p], vault[p])
  BY <1>1, Running
<1>3. /\ s \in Syncs /\ s.project = p /\ s.alone = sync[r].alone /\ s.errors = TRUE
      /\ s.pc = "done" /\ s.snap = sync[r].snap
  BY <1>2 DEF Syncs
<1> HIDE DEF s
<1>4. ASSUME s.alone PROVE Stage(s, index[p], wiki[p], vault[p])
  BY <1>1, <1>2, <1>3, <1>4 DEF Stage
<1> QED
  BY <1>1, <1>2, <1>3, <1>4, QuietStepKeeps

LEMMA NextInv == Inv /\ [Next]_vars => Inv'
<1> SUFFICES ASSUME Inv, [Next]_vars PROVE Inv'
  OBVIOUS
<1>1. ASSUME NEW p \in Project, Scan(p) \/ ChangeWiki(p) PROVE Inv'
  BY <1>1, ScanKeeps, ChangeWikiKeeps
<1>2. ASSUME NEW r \in Runner, SyncStep(r) \/ GiveUp(r) \/ Die(r) PROVE Inv'
  BY <1>2, ReadFilesKeeps, ReadRestKeeps, WritePageKeeps, BeginMirrorKeeps, MirrorArticleKeeps, CleanUpKeeps,
     GiveUpKeeps, FinishKeeps DEF SyncStep
<1>3. ASSUME UNCHANGED vars PROVE Inv'
  <2>1. TypeInv'
    BY <1>3 DEF vars, Inv, TypeInv
  <2>2. \A r \in Runner : Apart(r)' /\ Reached(r)'
    BY <1>3 DEF vars, Inv, Apart, Reached, Active
  <2> QED
    BY <2>1, <2>2 DEF Inv
<1> QED
  BY <1>1, <1>2, <1>3, TickKeeps, RunnersKeep DEF Next

LEMMA Always == Spec => []Inv
BY InitInv, NextInv, PTL DEF Spec

-----------------------------------------------------------------------------
(* The theorems.                                                           *)

\* At its end a sync that is alone and has no errors has published the project.
LEMMA DoneIsExact ==
  ASSUME Inv, NEW r \in Runner, sync[r].pc = "done", sync[r].alone, ~sync[r].errors
  PROVE  LET p == sync[r].project IN
         /\ Published(p)
         /\ wiki[p] # Absent => \A a \in DOMAIN wiki[p], f \in index[p].files :
              Words[a][1] = Dir[f] => Mirrored(a, 1).footer \in {Absent} \cup {k[2] : k \in DOMAIN vault[p]}
<1> DEFINE p == sync[r].project
           i == index[p]
           w == wiki[p]
           v == vault[p]
<1>1. sync[r] \in Syncs /\ p \in Project /\ i \in Snaps /\ Stage(sync[r], i, w, v)
  BY Running
<1>2. sync[r].errors = FALSE
  BY <1>1 DEF Syncs
<1>3. (\A x \in PageSet(i) : Shows(v, x)) /\ (w # Absent => Mirrors(v, w))
  BY <1>1, <1>2 DEF Stage
<1>4. ASSUME NEW n \in DOMAIN IndexPages(i)
      PROVE  IndexPages(i)[n].key \in DOMAIN v /\ v[IndexPages(i)[n].key] = IndexPages(i)[n].content
  <2>1. IndexPages(i)[n] \in PageSet(i)
    BY <1>1, PagesListed DEF Lists
  <2> QED
    BY <1>3, <2>1 DEF Shows
<1>5. ASSUME w # Absent
      PROVE  [a \in {a \in Wikis : <<"wiki", a>> \in DOMAIN v} |-> v[<<"wiki", a>>]]
                = [a \in DOMAIN w |-> Mirrored(a, w[a])]
  <2>1. DOMAIN w \subseteq Wikis
    BY <1>1, <1>5 DEF Inv, TypeInv
  <2>2. {a \in Wikis : <<"wiki", a>> \in DOMAIN v} = DOMAIN w
    BY <1>3, <1>5, <2>1 DEF Mirrors
  <2>3. \A a \in DOMAIN w : v[<<"wiki", a>>] = Mirrored(a, w[a])
    BY <1>3, <1>5 DEF Mirrors
  <2> QED
    BY <2>2, <2>3
<1>6. Published(p)
  BY <1>4, <1>5 DEF Published
<1>7. ASSUME NEW a, NEW f \in i.files, Words[a][1] = Dir[f]
      PROVE  Mirrored(a, 1).footer \in {Absent} \cup {k[2] : k \in DOMAIN v}
  <2>1. Mirrored(a, 1).footer \in {Absent, Dir[f]}
    BY <1>7 DEF Mirrored, Footer, ShortModule
  <2>2. ModulePage(Dir[f], i) \in PageSet(i)
    BY DEF PageSet, Names
  <2>3. <<"module", Dir[f]>> \in DOMAIN v
    <3>1. ModulePage(Dir[f], i).key = <<"module", Dir[f]>>
      BY DEF ModulePage
    <3> QED
      BY <1>3, <2>2, <3>1 DEF Shows
  <2>4. Dir[f] \in {k[2] : k \in DOMAIN v}
    BY <2>3
  <2> QED
    BY <2>1, <2>4
<1> QED
  BY <1>6, <1>7

\* For any number of projects, a sync that reports no error and that nothing disturbed
\* leaves the vault exactly as index and wiki are when it ends, and its footers lead to
\* pages that are there (publisher.py sync_project, _mirror_wiki).
THEOREM UndisturbedSyncIsExact == Spec => CleanSyncIsExact
<1>1. Inv /\ [Next]_vars =>
        [\A r \in Runner :
           sync[r].pc = "done" /\ sync'[r].pc = "idle" /\ sync[r].alone /\ ~sync[r].errors =>
             LET p == sync[r].project IN
               /\ Published(p)
               /\ wiki[p] # Absent => \A a \in DOMAIN wiki[p], f \in index[p].files :
                    Words[a][1] = Dir[f] => Mirrored(a, 1).footer \in {Absent} \cup {k[2] : k \in DOMAIN vault[p]}]_vars
  BY DoneIsExact
<1> QED
  BY <1>1, Always, PTL DEF Spec, CleanSyncIsExact

\* Only the cleanup of a sync takes pages out of the vault.
LEMMA OnlyCleanUpDeletes ==
  ASSUME Inv, [Next]_vars, NEW p \in Project, NEW k \in DOMAIN vault[p], k \notin DOMAIN vault'[p]
  PROVE  \E r \in Runner : CleanUp(r) /\ sync[r].project = p /\ k \in Drift(r)
<1>1. vault' # vault
  OBVIOUS
<1>2. PICK r \in Runner : WritePage(r) \/ MirrorArticle(r) \/ CleanUp(r)
  BY <1>1 DEF Next, vars, Scan, ChangeWiki, Tick, WorkerTakes, MakePlan, RunPlan, ByHand, DaemonStops, SyncStep,
              ReadFiles, ReadRest, BeginMirror, GiveUp, Finish, Die
<1> DEFINE q == sync[r].project
<1>3. q \in Project /\ vault = [o \in Project |-> vault[o]]
  <2>1. sync[r].pc # "idle"
    BY <1>2 DEF WritePage, MirrorArticle, CleanUp
  <2> QED
    BY <2>1, Running DEF Inv, TypeInv
<1>4. ASSUME NEW key, NEW content, vault' = [vault EXCEPT ![q] = With(@, key, content)] PROVE FALSE
  <2>1. DOMAIN With(vault[q], key, content) = DOMAIN vault[q] \cup {key}
    BY DEF With
  <2>2. DOMAIN vault[p] \subseteq DOMAIN vault'[p]
    BY <1>3, <1>4, <2>1
  <2> QED
    BY <2>2
<1>5. ~WritePage(r) /\ ~MirrorArticle(r)
  BY <1>1, <1>4 DEF WritePage, MirrorArticle
<1>6. PICK gone \in SUBSET Drift(r) : CleanUp(r) /\ vault' = [vault EXCEPT ![q] = Restrict(@, DOMAIN @ \ gone)]
  BY <1>2, <1>5 DEF CleanUp, Drift
<1>7. DOMAIN Restrict(vault[q], DOMAIN vault[q] \ gone) = DOMAIN vault[q] \ gone
  BY DEF Restrict
<1>8. p = q /\ k \in Drift(r)
  BY <1>3, <1>6, <1>7
<1> QED
  BY <1>6, <1>8

\* For any number of projects, a page is deleted only if its article is gone, or by a sync
\* that reported an error or was not alone (publisher.py _mirror_wiki).
THEOREM OnlyDriftIsDeleted == Spec => DeletesOnlyDrift
<1>1. ASSUME Inv, [Next]_vars, NEW p \in Project, NEW k \in DOMAIN vault[p] \ DOMAIN vault'[p],
             wiki[p] # Absent, k[2] \in DOMAIN wiki[p]
      PROVE  \E r \in Runner : Active(r) /\ sync[r].project = p /\ (sync[r].errors \/ ~sync[r].alone)
  <2>1. PICK r \in Runner : CleanUp(r) /\ sync[r].project = p /\ k \in Drift(r)
    BY <1>1, OnlyCleanUpDeletes
  <2>2. sync[r].pc = "wiki" /\ sync[r].todo = <<>>
    BY <2>1 DEF CleanUp
  <2>3. /\ Active(r) /\ sync[r] \in Syncs
        /\ sync[r].alone => Stage(sync[r], index[p], wiki[p], vault[p])
    BY <1>1, <2>1, <2>2, Running
  <2>4. k = <<"wiki", k[2]>> /\ k \notin sync[r].kept
    <3>1. k \in Keys /\ k[1] = "wiki" /\ k \notin sync[r].kept
      BY <1>1, <2>1 DEF Drift, Inv, TypeInv
    <3> QED
      BY <3>1 DEF Keys
  <2>5. ASSUME sync[r].alone, sync[r].errors = FALSE PROVE FALSE
    <3>1. \A x : ~Listed(sync[r].todo, x)
      BY <2>2 DEF Listed
    <3>2. \A a \in DOMAIN wiki[p] : <<"wiki", a>> \in sync[r].kept
      BY <2>2, <2>3, <2>5, <3>1 DEF Stage
    <3> QED
      BY <1>1, <2>4, <3>2
  <2>6. sync[r].errors \in BOOLEAN
    BY <2>3 DEF Syncs
  <2> QED
    BY <2>1, <2>3, <2>5, <2>6
<1>2. Inv /\ [Next]_vars =>
        [\A p \in Project : \A k \in DOMAIN vault[p] \ DOMAIN vault'[p] :
           \/ wiki[p] = Absent \/ k[2] \notin DOMAIN wiki[p]
           \/ \E r \in Runner : Active(r) /\ sync[r].project = p /\ (sync[r].errors \/ ~sync[r].alone)]_vars
  BY <1>1
<1> QED
  BY <1>2, Always, PTL DEF Spec, DeletesOnlyDrift

=============================================================================
