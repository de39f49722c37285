---------------------------- MODULE StoresProofs -----------------------------
(*****************************************************************************)
(* The stores beside the index: what is paid for and what is counted, and    *)
(* what is recalled for a context pack.                                      *)
(*                                                                           *)
(* RerunIsFree, for any number of runs, files, contents and models, with     *)
(* edits and kills without bound.  A model is settled only while the cache   *)
(* has a row for every file as it is on disk: rows are replaced and never    *)
(* deleted, and an edit unsettles every model.  Why a run that ends without  *)
(* an error settles its model takes the invariant: each of its tasks that    *)
(* is done has left, or found, the row of its file, unless the file has      *)
(* changed since the run began.                                              *)
(*                                                                           *)
(* SpendingIsRecorded, for any prices, files, runs and kills.  The total is  *)
(* a sum over the rows in whatever order, so that a new row adds its cost    *)
(* and one that is replaced by its like changes nothing.  Each row has the   *)
(* price of one call, and the charges exceed the total only once one of      *)
(* them was in doubt.                                                        *)
(*                                                                           *)
(* TokensCountedOnce, for any number of sessions, readers and lines, with    *)
(* reads that break off.  The                                                *)
(* offset of a row and its events belong together, and so do the size a      *)
(* reader has taken and the events it has found; between the stat and the    *)
(* read, every complete line beyond that size was written meanwhile.         *)
(*                                                                           *)
(* LastWordStands, for any number of memories, texts, commands at once,      *)
(* saves and interrupts.  The argument follows one memory m.  As long as     *)
(* nothing has crossed m, its file carries the status and the text of the    *)
(* last word, whole or cut short, and every command that has read it holds   *)
(* that text; a file that was cut short has a command still writing it.      *)
(*                                                                           *)
(* SearchFollowsIndex, for any number of projects, paths, scanners, failures *)
(* and changes of the configuration, whatever the size of a batch.  It is    *)
(* not inductive: that a path is found once it is no longer being uploaded   *)
(* needs that what was being uploaded is what the index says, and no two     *)
(* projects may write the points of one name.                                *)
(*****************************************************************************)
EXTENDS Summaries, UsageCache, MemoryStore, VectorIndex, FiniteSetTheorems, TLAPS

------------------------------------------------------------------------------
(* Summaries. *)

RunRecords == [pc : {"idle", "going", "over", "dead"}, model : Names,
               still : BOOLEAN, again : BOOLEAN, served : Nat, paid : Nat, errors : Nat]

TaskRecords == [pc : {"none", "queued", "reading", "calling", "pausing", "done"},
                content : Contents \cup {Gone}, tries : Nat]

SummariesTypeInv ==
    /\ disk \in [Files -> Contents \cup {Gone}]
    /\ run \in [Runs -> RunRecords]
    /\ task \in [Runs -> [Files -> TaskRecords]]
    /\ settled \subseteq Names

(* The cache answers for f as it is. *)
Cached(f, m) == disk[f] # Gone /\ Lookup(disk[f], m)

DoneFiles(r) == {f \in Files : task[r][f].pc = "done"}

(* As long as nothing on disk has changed since r began, what it asks about  *)
(* is what is there, and what it is done with is cached.                    *)
KeepsUp(r) ==
    run[r].still /\ run[r].pc = "going" =>
        \A f \in Files :
            /\ task[r][f].pc \in {"calling", "pausing"} =>
                   disk[f] # Gone /\ task[r][f].content = disk[f]
            /\ task[r][f].pc = "done" /\ run[r].errors = 0 => Cached(f, run[r].model)

(* A run that repeats another is served from the cache, file by file. *)
IsServed(r) ==
    run[r].again =>
        /\ \A f \in Files : Cached(f, run[r].model)
        /\ run[r].paid = 0 /\ run[r].errors = 0
        /\ \A f \in Files : task[r][f].pc \notin {"calling", "pausing"}
        /\ run[r].pc = "going" => run[r].served = Cardinality(DoneFiles(r))
        /\ run[r].pc = "over" => run[r].served = Cardinality(Files)

SummariesInv ==
    /\ SummariesTypeInv
    /\ \A m \in settled, f \in Files : Cached(f, m)
    /\ \A r \in Runs : KeepsUp(r) /\ IsServed(r)

----------------------------------------------------------------------------
LEMMA NothingBegun ==
    ASSUME Names # {}
    PROVE  /\ NoRun \in RunRecords
           /\ NoRun.pc = "idle" /\ ~NoRun.again
           /\ NoRun.served = 0 /\ NoRun.paid = 0 /\ NoRun.errors = 0
           /\ NoTask \in TaskRecords
           /\ NoTask.pc = "none"
BY DEF NoRun, NoTask, RunRecords, TaskRecords

LEMMA SummariesInitInv ==
    ASSUME Names # {}, SummariesInit
    PROVE  SummariesInv
<1>1. SummariesTypeInv
    BY NothingBegun DEF SummariesInit, SummariesTypeInv
<1>2. ASSUME NEW r \in Runs
      PROVE  KeepsUp(r) /\ IsServed(r)
    BY NothingBegun DEF SummariesInit, KeepsUp, IsServed
<1> QED
    BY <1>1, <1>2 DEF SummariesInit, SummariesInv

(* Rows come and are replaced; none goes. *)
LEMMA CachedStays ==
    ASSUME disk' = disk, DOMAIN rows \subseteq DOMAIN rows',
           NEW f, NEW m, Cached(f, m)
    PROVE  Cached(f, m)'
BY DEF Cached, Lookup, Key

LEMMA PersistGrows ==
    ASSUME NEW key, NEW entry, Persist(key, entry)
    PROVE  DOMAIN rows' = DOMAIN rows \cup {key}
BY DEF Persist

(* A run that does nothing in a step of another. *)
LEMMA OtherRun ==
    ASSUME NEW r \in Runs, KeepsUp(r), IsServed(r),
           run'[r] = run[r], task'[r] = task[r], disk' = disk,
           DOMAIN rows \subseteq DOMAIN rows'
    PROVE  KeepsUp(r)' /\ IsServed(r)'
<1>1. \A f \in Files : Cached(f, run[r].model) => Cached(f, run[r].model)'
    BY CachedStays
<1>2. DoneFiles(r)' = DoneFiles(r)
    BY DEF DoneFiles
<1>3. KeepsUp(r)'
    BY <1>1 DEF KeepsUp, Cached
<1>4. IsServed(r)'
    BY <1>1, <1>2 DEF IsServed, Cached
<1> QED
    BY <1>3, <1>4

(* A step of run r, in which nothing else changes but rows that may come.    *)
LEMMA StepOfOne ==
    ASSUME SummariesInv, NEW r \in Runs, SummariesTypeInv',
           disk' = disk, settled' = settled, DOMAIN rows \subseteq DOMAIN rows',
           \A q \in Runs \ {r} : run'[q] = run[q] /\ task'[q] = task[q],
           KeepsUp(r)', IsServed(r)'
    PROVE  SummariesInv'
<1>1. \A m \in settled, f \in Files : Cached(f, m)'
    BY CachedStays DEF SummariesInv
<1>2. \A q \in Runs : KeepsUp(q)' /\ IsServed(q)'
    BY OtherRun DEF SummariesInv
<1> QED
    BY <1>1, <1>2 DEF SummariesInv

(* What Set does to the tasks of a run. *)
LEMMA SetTask ==
    ASSUME SummariesTypeInv, NEW r \in Runs, NEW f \in Files, NEW t \in TaskRecords, Set(r, f, t)
    PROVE  /\ task' \in [Runs -> [Files -> TaskRecords]]
           /\ task'[r][f] = t
           /\ \A g \in Files \ {f} : task'[r][g] = task[r][g]
           /\ \A q \in Runs \ {r} : task'[q] = task[q]
BY DEF SummariesTypeInv, Set

----------------------------------------------------------------------------
LEMMA BeginInv ==
    ASSUME SummariesInv, Names # {}, NEW r \in Runs, NEW m \in Names, Begin(r, m)
    PROVE  SummariesInv'
<1> DEFINE begun == [NoRun EXCEPT !.pc = "going", !.model = m,
                                  !.still = TRUE, !.again = m \in settled]
           queued == [NoTask EXCEPT !.pc = "queued"]
<1>1. /\ run' = [run EXCEPT ![r] = begun]
      /\ task' = [task EXCEPT ![r] = [f \in Files |-> queued]]
      /\ UNCHANGED <<disk, rows, settled>>
    BY DEF Begin
<1>2. /\ begun \in RunRecords
      /\ begun.pc = "going" /\ begun.model = m /\ begun.again = (m \in settled)
      /\ begun.paid = 0 /\ begun.errors = 0 /\ begun.served = 0
    <2>1. PICK a \in BOOLEAN : a <=> m \in settled
        <3>1. CASE m \in settled
            BY <3>1
        <3>2. CASE m \notin settled
            BY <3>2
        <3> QED
            BY <3>1, <3>2
    <2>2. (m \in settled) = a
        BY <2>1
    <2>3. begun = [NoRun EXCEPT !.pc = "going", !.model = m, !.still = TRUE, !.again = a]
        BY <2>2
    <2> HIDE DEF begun
    <2>4. /\ begun \in RunRecords
          /\ begun.pc = "going" /\ begun.model = m /\ begun.again = a
          /\ begun.paid = 0 /\ begun.errors = 0 /\ begun.served = 0
        BY <2>3, NothingBegun DEF RunRecords
    <2> QED
        BY <2>2, <2>4
<1>3. queued \in TaskRecords /\ queued.pc = "queued"
    BY DEF NoTask, TaskRecords
<1> HIDE DEF begun, queued
<1>4. /\ run'[r] = begun
      /\ \A f \in Files : task'[r][f] = queued
      /\ \A q \in Runs \ {r} : run'[q] = run[q] /\ task'[q] = task[q]
    BY <1>1 DEF SummariesInv, SummariesTypeInv
<1>5. SummariesTypeInv'
    BY <1>1, <1>2, <1>3 DEF SummariesInv, SummariesTypeInv
<1>6. KeepsUp(r)'
    BY <1>3, <1>4 DEF KeepsUp
<1>7. IsServed(r)'
    <2>1. DoneFiles(r)' = {}
        BY <1>3, <1>4 DEF DoneFiles
    <2>2. m \in settled => \A f \in Files : Cached(f, m)'
        BY <1>1 DEF SummariesInv, Cached, Lookup
    <2>3. \A f \in Files : task'[r][f].pc = "queued"
        BY <1>3, <1>4
    <2> QED
        BY <1>2, <1>4, <2>1, <2>2, <2>3, FS_EmptySet DEF IsServed, Cached
<1> QED
    BY <1>1, <1>4, <1>5, <1>6, <1>7, StepOfOne

(* A task moves on: the run's counters stay. *)
LEMMA MoveOn ==
    ASSUME SummariesInv, NEW r \in Runs, NEW f \in Files, NEW t \in TaskRecords, Set(r, f, t),
           UNCHANGED <<disk, rows, run, settled>>,
           task[r][f].pc # "done", t.pc # "done",
           run[r].again => t.pc \notin {"calling", "pausing"},
           t.pc \in {"calling", "pausing"} /\ run[r].still /\ run[r].pc = "going" =>
               disk[f] # Gone /\ t.content = disk[f]
    PROVE  SummariesInv'
<1>1. /\ task' \in [Runs -> [Files -> TaskRecords]]
      /\ task'[r][f] = t
      /\ \A g \in Files \ {f} : task'[r][g] = task[r][g]
      /\ \A q \in Runs \ {r} : task'[q] = task[q]
    BY SetTask DEF SummariesInv
<1>2. SummariesTypeInv'
    BY <1>1 DEF SummariesInv, SummariesTypeInv
<1>3. \A g \in Files : Cached(g, run[r].model)' <=> Cached(g, run[r].model)
    BY DEF Cached, Lookup
<1>4. KeepsUp(r)'
    BY <1>1, <1>3 DEF SummariesInv, KeepsUp, Cached
<1>5. DoneFiles(r)' = DoneFiles(r)
    BY <1>1 DEF DoneFiles
<1>6. IsServed(r)'
    BY <1>1, <1>3, <1>5 DEF SummariesInv, IsServed, Cached
<1> QED
    BY <1>1, <1>2, <1>4, <1>6, StepOfOne

LEMMA TaskRecord ==
    ASSUME SummariesTypeInv, NEW r \in Runs, NEW f \in Files
    PROVE  /\ task[r][f] \in TaskRecords
           /\ \A pc \in {"reading", "calling", "pausing", "done"} :
                  /\ [task[r][f] EXCEPT !.pc = pc] \in TaskRecords
                  /\ [task[r][f] EXCEPT !.pc = pc].pc = pc
                  /\ [task[r][f] EXCEPT !.pc = pc].content = task[r][f].content
<1>1. task[r][f] \in TaskRecords
    BY DEF SummariesTypeInv
<1>2. ASSUME NEW t \in TaskRecords, NEW pc \in {"reading", "calling", "pausing", "done"}
      PROVE  /\ [t EXCEPT !.pc = pc] \in TaskRecords
             /\ [t EXCEPT !.pc = pc].pc = pc
             /\ [t EXCEPT !.pc = pc].content = t.content
    BY DEF TaskRecords
<1> QED
    BY <1>1, <1>2

LEMMA AcquireInv ==
    ASSUME SummariesInv, NEW r \in Runs, NEW f \in Files, Acquire(r, f) \/ Resume(r, f)
    PROVE  SummariesInv'
<1> DEFINE reading == [task[r][f] EXCEPT !.pc = "reading"]
           calling == [task[r][f] EXCEPT !.pc = "calling"]
<1>1. /\ reading \in TaskRecords /\ reading.pc = "reading"
      /\ calling \in TaskRecords /\ calling.pc = "calling"
      /\ calling.content = task[r][f].content
    BY TaskRecord DEF SummariesInv
<1>2. CASE Acquire(r, f)
    <2>1. Set(r, f, reading) /\ task[r][f].pc = "queued" /\ UNCHANGED <<disk, rows, run, settled>>
        BY <1>2 DEF Acquire
    <2> HIDE DEF reading, calling
    <2> QED
        BY <1>1, <2>1, MoveOn
<1>3. CASE Resume(r, f)
    <2>1. Set(r, f, calling) /\ task[r][f].pc = "pausing" /\ UNCHANGED <<disk, rows, run, settled>>
        BY <1>3 DEF Resume
    <2>2. /\ ~run[r].again
          /\ run[r].still /\ run[r].pc = "going" =>
                disk[f] # Gone /\ task[r][f].content = disk[f]
        BY <2>1 DEF SummariesInv, KeepsUp, IsServed
    <2> HIDE DEF reading, calling
    <2> QED
        BY <1>1, <2>1, <2>2, MoveOn
<1> QED
    BY <1>2, <1>3

(* A task comes to its end: served, paid or failed.  Only the first can      *)
(* happen to a run that repeats another, and the file it ends with is       *)
(* cached unless the run has failed.                                        *)
LEMMA ComesToItsEnd ==
    ASSUME SummariesInv, IsFiniteSet(Files), NEW r \in Runs, NEW f \in Files, Done(r, f),
           run[r].pc = "going", task[r][f].pc # "done",
           NEW counted \in RunRecords, run' = [run EXCEPT ![r] = counted],
           counted.pc = run[r].pc, counted.model = run[r].model,
           counted.still = run[r].still, counted.again = run[r].again,
           run[r].again => /\ counted.paid = 0 /\ counted.errors = 0
                           /\ counted.served = run[r].served + 1,
           counted.errors = 0 => run[r].errors = 0,
           counted.errors = 0 /\ run[r].still => Cached(f, run[r].model)',
           disk' = disk, settled' = settled, DOMAIN rows \subseteq DOMAIN rows'
    PROVE  SummariesInv'
<1> DEFINE ended == [task[r][f] EXCEPT !.pc = "done"]
<1>1. ended \in TaskRecords /\ ended.pc = "done" /\ Set(r, f, ended)
    BY TaskRecord DEF SummariesInv, Done
<1> HIDE DEF ended
<1>2. /\ task' \in [Runs -> [Files -> TaskRecords]]
      /\ task'[r][f] = ended
      /\ \A g \in Files \ {f} : task'[r][g] = task[r][g]
      /\ \A q \in Runs \ {r} : task'[q] = task[q]
    BY <1>1, SetTask DEF SummariesInv
<1>3. run'[r] = counted /\ \A q \in Runs \ {r} : run'[q] = run[q]
    BY DEF SummariesInv, SummariesTypeInv
<1>4. SummariesTypeInv'
    BY <1>2 DEF SummariesInv, SummariesTypeInv
<1>5. \A g \in Files : Cached(g, run[r].model) => Cached(g, run[r].model)'
    BY CachedStays
<1>6. KeepsUp(r)'
    <2>1. ASSUME run[r].still
          PROVE  /\ task'[r][f].pc = "done"
                 /\ counted.errors = 0 => Cached(f, run[r].model)'
        BY <1>1, <1>2, <2>1
    <2>2. ASSUME run[r].still, NEW g \in Files \ {f}
          PROVE  /\ task'[r][g].pc \in {"calling", "pausing"} =>
                       disk[g] # Gone /\ task'[r][g].content = disk[g]
                 /\ task'[r][g].pc = "done" /\ counted.errors = 0 =>
                       Cached(g, run[r].model)'
        <3>1. task'[r][g] = task[r][g]
            BY <1>2
        <3>2. /\ task[r][g].pc \in {"calling", "pausing"} =>
                       disk[g] # Gone /\ task[r][g].content = disk[g]
              /\ task[r][g].pc = "done" /\ run[r].errors = 0 => Cached(g, run[r].model)
            BY <2>2 DEF SummariesInv, KeepsUp
        <3> QED
            BY <1>5, <3>1, <3>2
    <2>3. run'[r].model = run[r].model /\ run'[r].still = run[r].still
          /\ run'[r].errors = counted.errors
        BY <1>3
    <2> QED
        BY <2>1, <2>2, <2>3 DEF KeepsUp, Cached
<1>7. IsServed(r)'
    <2> SUFFICES ASSUME run[r].again
                 PROVE  IsServed(r)'
        BY <1>3 DEF IsServed
    <2>1. DoneFiles(r)' = DoneFiles(r) \cup {f} /\ f \notin DoneFiles(r)
        BY <1>1, <1>2 DEF DoneFiles
    <2>2. IsFiniteSet(DoneFiles(r))
        BY FS_Subset DEF DoneFiles
    <2>3. Cardinality(DoneFiles(r)') = Cardinality(DoneFiles(r)) + 1
        BY <2>1, <2>2, FS_AddElement
    <2>4. run[r].served = Cardinality(DoneFiles(r)) /\ \A g \in Files : Cached(g, run[r].model)
        BY DEF SummariesInv, IsServed
    <2>5. \A g \in Files : task'[r][g].pc \notin {"calling", "pausing"}
        BY <1>1, <1>2 DEF SummariesInv, IsServed
    <2> QED
        BY <1>3, <1>5, <2>3, <2>4, <2>5 DEF IsServed, Cached
<1> QED
    BY <1>2, <1>3, <1>4, <1>6, <1>7, StepOfOne

(* The records of a run after one task more. *)
LEMMA Counting ==
    ASSUME SummariesTypeInv, NEW r \in Runs
    PROVE  /\ [run[r] EXCEPT !.served = @ + 1] \in RunRecords
           /\ [run[r] EXCEPT !.paid = @ + 1] \in RunRecords
           /\ [run[r] EXCEPT !.errors = @ + 1] \in RunRecords
           /\ [run[r] EXCEPT !.errors = @ + 1].errors # 0
           /\ run[r] \in RunRecords
<1>1. run[r] \in RunRecords
    BY DEF SummariesTypeInv
<1>2. ASSUME NEW x \in RunRecords
      PROVE  /\ [x EXCEPT !.served = @ + 1] \in RunRecords
             /\ [x EXCEPT !.paid = @ + 1] \in RunRecords
             /\ [x EXCEPT !.errors = @ + 1] \in RunRecords
             /\ [x EXCEPT !.errors = @ + 1].errors # 0
    BY DEF RunRecords
<1> QED
    BY <1>1, <1>2

(* What has failed is one error of the run, which no longer settles. *)
LEMMA FailsInv ==
    ASSUME SummariesInv, IsFiniteSet(Files), NEW r \in Runs, NEW f \in Files, Done(r, f),
           run[r].pc = "going", task[r][f].pc # "done", ~run[r].again,
           run' = [run EXCEPT ![r].errors = @ + 1],
           UNCHANGED <<disk, rows, settled>>
    PROVE  SummariesInv'
<1> DEFINE counted == [run[r] EXCEPT !.errors = @ + 1]
<1>1. counted \in RunRecords /\ counted.errors # 0 /\ run[r] \in RunRecords
    BY Counting DEF SummariesInv
<1>2. /\ counted.pc = run[r].pc /\ counted.model = run[r].model
      /\ counted.still = run[r].still /\ counted.again = run[r].again
    BY <1>1 DEF RunRecords
<1>3. run' = [run EXCEPT ![r] = counted]
    BY DEF SummariesInv, SummariesTypeInv
<1> HIDE DEF counted
<1> QED
    BY <1>1, <1>2, <1>3, ComesToItsEnd

LEMMA ReadInv ==
    ASSUME SummariesInv, IsFiniteSet(Files), NEW r \in Runs, NEW f \in Files, Read(r, f)
    PROVE  SummariesInv'
<1> DEFINE c == disk[f]
<1>1. /\ run[r].pc = "going" /\ task[r][f].pc = "reading"
      /\ UNCHANGED <<disk, rows, settled>>
    BY DEF Read
<1>2. CASE c = Gone /\ Done(r, f) /\ run' = [run EXCEPT ![r].errors = @ + 1]
    <2>1. ~run[r].again
        BY <1>2 DEF SummariesInv, IsServed, Cached
    <2> QED
        BY <1>1, <1>2, <2>1, FailsInv
<1>3. CASE /\ c # Gone /\ Lookup(c, run[r].model) /\ Done(r, f)
           /\ run' = [run EXCEPT ![r].served = @ + 1]
    <2> DEFINE counted == [run[r] EXCEPT !.served = @ + 1]
    <2>1. counted \in RunRecords /\ run[r] \in RunRecords
        BY Counting DEF SummariesInv
    <2>2. /\ counted.pc = run[r].pc /\ counted.model = run[r].model
          /\ counted.still = run[r].still /\ counted.again = run[r].again
          /\ counted.paid = run[r].paid /\ counted.errors = run[r].errors
          /\ counted.served = run[r].served + 1
        BY <2>1 DEF RunRecords
    <2>3. run' = [run EXCEPT ![r] = counted]
        BY <1>3 DEF SummariesInv, SummariesTypeInv
    <2>4. Cached(f, run[r].model)'
        BY <1>1, <1>3, <2>2, <2>3 DEF Cached, Lookup, SummariesInv, SummariesTypeInv
    <2>5. run[r].again => run[r].paid = 0 /\ run[r].errors = 0
        BY DEF SummariesInv, IsServed
    <2>6. DOMAIN rows \subseteq DOMAIN rows' /\ disk' = disk /\ settled' = settled
          /\ task[r][f].pc # "done"
        BY <1>1
    <2>7. run[r].again => /\ counted.paid = 0 /\ counted.errors = 0
                          /\ counted.served = run[r].served + 1
        BY <2>2, <2>5
    <2>8. Done(r, f)
        BY <1>3
    <2> HIDE DEF counted, c
    <2> QED
        BY <1>1, <2>1, <2>2, <2>3, <2>4, <2>6, <2>7, <2>8, ComesToItsEnd
<1>4. CASE /\ c # Gone /\ ~Lookup(c, run[r].model)
           /\ Set(r, f, [task[r][f] EXCEPT !.pc = "calling", !.content = c])
           /\ UNCHANGED run
    <2> DEFINE asked == [task[r][f] EXCEPT !.pc = "calling", !.content = c]
    <2>1. task[r][f] \in TaskRecords /\ c \in Contents \cup {Gone}
        BY DEF SummariesInv, SummariesTypeInv
    <2>2. asked \in TaskRecords /\ asked.pc = "calling" /\ asked.content = c
        BY <2>1 DEF TaskRecords
    <2>3. ~run[r].again
        BY <1>4 DEF SummariesInv, IsServed, Cached
    <2>4. Set(r, f, asked)
        BY <1>4
    <2> HIDE DEF asked
    <2> QED
        BY <1>1, <1>4, <2>2, <2>3, <2>4, MoveOn
<1> QED
    BY <1>2, <1>3, <1>4 DEF Read

(* Whatever has to ask the provider is no repetition. *)
LEMMA CallerIsNoRerun ==
    ASSUME SummariesInv, NEW r \in Runs, NEW f \in Files, task[r][f].pc = "calling"
    PROVE  ~run[r].again
BY DEF SummariesInv, IsServed

LEMMA TaskPaused ==
    ASSUME NEW t \in TaskRecords
    PROVE  /\ [t EXCEPT !.pc = "pausing", !.tries = @ + 1] \in TaskRecords
           /\ [t EXCEPT !.pc = "pausing", !.tries = @ + 1].pc = "pausing"
           /\ [t EXCEPT !.pc = "pausing", !.tries = @ + 1].content = t.content
<1>1. t.tries + 1 \in Nat
    BY DEF TaskRecords
<1>2. ASSUME NEW n \in Nat
      PROVE  /\ [t EXCEPT !.pc = "pausing", !.tries = n] \in TaskRecords
             /\ [t EXCEPT !.pc = "pausing", !.tries = n].pc = "pausing"
             /\ [t EXCEPT !.pc = "pausing", !.tries = n].content = t.content
    BY DEF TaskRecords
<1> QED
    BY <1>1, <1>2

LEMMA RateLimitedInv ==
    ASSUME SummariesInv, IsFiniteSet(Files), NEW r \in Runs, NEW f \in Files, RateLimited(r, f)
    PROVE  SummariesInv'
<1>1. /\ run[r].pc = "going" /\ task[r][f].pc = "calling"
      /\ UNCHANGED <<disk, rows, settled>> /\ ~run[r].again
    BY CallerIsNoRerun DEF RateLimited
<1>2. CASE Done(r, f) /\ run' = [run EXCEPT ![r].errors = @ + 1]
    BY <1>1, <1>2, FailsInv
<1>3. CASE Set(r, f, [task[r][f] EXCEPT !.pc = "pausing", !.tries = @ + 1]) /\ UNCHANGED run
    <2> DEFINE paused == [task[r][f] EXCEPT !.pc = "pausing", !.tries = @ + 1]
    <2>1. task[r][f] \in TaskRecords
        BY DEF SummariesInv, SummariesTypeInv
    <2>2. /\ paused \in TaskRecords /\ paused.pc = "pausing"
          /\ paused.content = task[r][f].content
        BY <2>1, TaskPaused
    <2>3. run[r].still => disk[f] # Gone /\ task[r][f].content = disk[f]
        BY <1>1 DEF SummariesInv, KeepsUp
    <2>4. Set(r, f, paused)
        BY <1>3
    <2> HIDE DEF paused
    <2> QED
        BY <1>1, <1>3, <2>2, <2>3, <2>4, MoveOn
<1> QED
    BY <1>2, <1>3 DEF RateLimited

LEMMA RefusedInv ==
    ASSUME SummariesInv, IsFiniteSet(Files), NEW r \in Runs, NEW f \in Files, Refused(r, f)
    PROVE  SummariesInv'
BY CallerIsNoRerun, FailsInv DEF Refused

(* The answer is stored for the content that was asked about, which is that  *)
(* of the file if nothing has changed since.                                *)
LEMMA AnsweredInv ==
    ASSUME SummariesInv, IsFiniteSet(Files), NEW r \in Runs, NEW f \in Files, Answered(r, f)
    PROVE  SummariesInv'
<1> DEFINE m == run[r].model
           key == Key(task[r][f].content, m)
           entry == [path |-> f, about |-> task[r][f].content, cost |-> CostOf(llm.provider, m)]
           counted == [run[r] EXCEPT !.paid = @ + 1]
<1>1. /\ run[r].pc = "going" /\ task[r][f].pc = "calling" /\ ~run[r].again
      /\ Persist(key, entry) /\ Done(r, f)
      /\ run' = [run EXCEPT ![r].paid = @ + 1]
      /\ UNCHANGED <<disk, settled>>
    BY CallerIsNoRerun DEF Answered
<1>2. DOMAIN rows' = DOMAIN rows \cup {key}
    BY <1>1, PersistGrows
<1>3. run[r].still => Cached(f, m)'
    <2>1. run[r].still => disk[f] # Gone /\ task[r][f].content = disk[f]
        BY <1>1 DEF SummariesInv, KeepsUp
    <2>2. m' = m
        BY <1>1 DEF SummariesInv, SummariesTypeInv, RunRecords
    <2> QED
        BY <1>1, <1>2, <2>1, <2>2 DEF Cached, Lookup
<1>4. counted \in RunRecords /\ run[r] \in RunRecords
    BY Counting DEF SummariesInv
<1>5. /\ counted.pc = run[r].pc /\ counted.model = run[r].model
      /\ counted.still = run[r].still /\ counted.again = run[r].again
      /\ counted.errors = run[r].errors
    BY <1>4 DEF RunRecords
<1>6. run' = [run EXCEPT ![r] = counted]
    BY <1>1 DEF SummariesInv, SummariesTypeInv
<1> HIDE DEF counted, key, entry
<1> QED
    BY <1>1, <1>2, <1>3, <1>4, <1>5, <1>6, ComesToItsEnd

(* A run that ends too early claims nothing more than it did. *)
LEMMA DiesInv ==
    ASSUME SummariesInv, Names # {}, NEW r \in Runs, run' = [run EXCEPT ![r].pc = "dead"],
           task' = [task EXCEPT ![r] = [g \in Files |-> NoTask]],
           UNCHANGED <<disk, rows, settled>>
    PROVE  SummariesInv'
<1>1. run[r] \in RunRecords
    BY DEF SummariesInv, SummariesTypeInv
<1>2. /\ [run[r] EXCEPT !.pc = "dead"] \in RunRecords
      /\ run'[r].pc = "dead"
      /\ run'[r].model = run[r].model /\ run'[r].again = run[r].again
      /\ run'[r].paid = run[r].paid /\ run'[r].errors = run[r].errors
    BY <1>1 DEF SummariesInv, SummariesTypeInv, RunRecords
<1>3. /\ \A q \in Runs \ {r} : run'[q] = run[q] /\ task'[q] = task[q]
      /\ \A f \in Files : task'[r][f] = NoTask
    BY DEF SummariesInv, SummariesTypeInv
<1>4. SummariesTypeInv'
    BY <1>2, NothingBegun DEF SummariesInv, SummariesTypeInv
<1>5. KeepsUp(r)'
    BY <1>2 DEF KeepsUp
<1>6. IsServed(r)'
    BY <1>2, <1>3, NothingBegun DEF SummariesInv, IsServed, Cached, Lookup
<1> QED
    BY <1>3, <1>4, <1>5, <1>6, StepOfOne

(* A run that ends settles its model if every file is cached as it is. *)
LEMMA CompleteInv ==
    ASSUME SummariesInv, Names # {}, NEW r \in Runs, Complete(r)
    PROVE  SummariesInv'
<1>1. /\ run[r].pc = "going"
      /\ \A f \in Files : task[r][f].pc = "done"
      /\ run' = [run EXCEPT ![r].pc = "over"]
      /\ task' = [task EXCEPT ![r] = [f \in Files |-> NoTask]]
      /\ settled' = IF run[r].errors = 0 /\ run[r].still THEN settled \cup {run[r].model}
                    ELSE settled
      /\ UNCHANGED <<disk, rows>>
    BY DEF Complete
<1>2. run[r] \in RunRecords
    BY DEF SummariesInv, SummariesTypeInv
<1>3. /\ [run[r] EXCEPT !.pc = "over"] \in RunRecords
      /\ run'[r].pc = "over"
      /\ run'[r].model = run[r].model /\ run'[r].again = run[r].again
      /\ run'[r].paid = run[r].paid /\ run'[r].errors = run[r].errors
      /\ run'[r].served = run[r].served
    BY <1>1, <1>2 DEF SummariesInv, SummariesTypeInv, RunRecords
<1>4. /\ \A q \in Runs \ {r} : run'[q] = run[q] /\ task'[q] = task[q]
      /\ \A f \in Files : task'[r][f] = NoTask
    BY <1>1 DEF SummariesInv, SummariesTypeInv
<1>5. run[r].model \in Names
    BY <1>2 DEF RunRecords
<1>6. SummariesTypeInv'
    BY <1>1, <1>3, <1>5, NothingBegun DEF SummariesInv, SummariesTypeInv
<1>7. DoneFiles(r) = Files
    BY <1>1 DEF DoneFiles
<1>8. IsServed(r)'
    BY <1>1, <1>3, <1>4, <1>7, NothingBegun DEF SummariesInv, IsServed, Cached, Lookup
<1>9. \A q \in Runs : KeepsUp(q)' /\ IsServed(q)'
    <2>1. KeepsUp(r)'
        BY <1>3 DEF KeepsUp
    <2>2. ASSUME NEW q \in Runs \ {r}
          PROVE  KeepsUp(q)' /\ IsServed(q)'
        BY <1>1, <1>4, OtherRun DEF SummariesInv
    <2> QED
        BY <1>8, <2>1, <2>2
<1>10. ASSUME NEW n \in settled', NEW f \in Files
       PROVE  Cached(f, n)'
    <2>1. Cached(f, n)
        BY <1>1 DEF SummariesInv, KeepsUp
    <2> QED
        BY <1>1, <2>1, CachedStays
<1> QED
    BY <1>6, <1>9, <1>10 DEF SummariesInv

LEMMA EditInv ==
    ASSUME SummariesInv, NEW f \in Files, NEW c \in Contents \cup {Gone}, Edit(f, c)
    PROVE  SummariesInv'
<1>1. /\ run' = [r \in Runs |-> [run[r] EXCEPT !.still = FALSE, !.again = FALSE]]
      /\ settled' = {} /\ disk' = [disk EXCEPT ![f] = c] /\ task' = task
    BY DEF Edit
<1>2. ASSUME NEW r \in Runs
      PROVE  run'[r] \in RunRecords /\ ~run'[r].still /\ ~run'[r].again
    <2>1. run[r] \in RunRecords
        BY DEF SummariesInv, SummariesTypeInv
    <2> QED
        BY <1>1, <2>1 DEF RunRecords
<1>3. SummariesTypeInv'
    BY <1>1, <1>2 DEF SummariesInv, SummariesTypeInv
<1> QED
    BY <1>1, <1>2, <1>3 DEF SummariesInv, KeepsUp, IsServed

LEMMA SummariesNextInv ==
    ASSUME SummariesInv, Names # {}, IsFiniteSet(Files), [SummariesNext]_summariesVars
    PROVE  SummariesInv'
<1>1. ASSUME NEW r \in Runs, NEW m \in Names, Begin(r, m)
      PROVE  SummariesInv'
    BY <1>1, BeginInv
<1>2. ASSUME NEW r \in Runs, NEW f \in Files, Acquire(r, f) \/ Resume(r, f)
      PROVE  SummariesInv'
    BY <1>2, AcquireInv
<1>3. ASSUME NEW r \in Runs, NEW f \in Files, Read(r, f)
      PROVE  SummariesInv'
    BY <1>3, ReadInv
<1>4. ASSUME NEW r \in Runs, NEW f \in Files, RateLimited(r, f)
      PROVE  SummariesInv'
    BY <1>4, RateLimitedInv
<1>5. ASSUME NEW r \in Runs, NEW f \in Files, Refused(r, f)
      PROVE  SummariesInv'
    BY <1>5, RefusedInv
<1>6. ASSUME NEW r \in Runs, NEW f \in Files, Answered(r, f)
      PROVE  SummariesInv'
    BY <1>6, AnsweredInv
<1>7. ASSUME NEW r \in Runs, NEW f \in Files, Aborts(r, f)
      PROVE  SummariesInv'
    BY <1>7, DiesInv DEF Aborts
<1>8. ASSUME NEW r \in Runs, Kill(r)
      PROVE  SummariesInv'
    BY <1>8, DiesInv DEF Kill
<1>9. ASSUME NEW r \in Runs, Complete(r)
      PROVE  SummariesInv'
    BY <1>9, CompleteInv
<1>10. ASSUME NEW f \in Files, NEW c \in Contents \cup {Gone}, Edit(f, c)
       PROVE  SummariesInv'
    BY <1>10, EditInv
<1>12. ASSUME NEW r \in Runs, NEW f \in Files, ChargedInVain(r, f)
       PROVE  SummariesInv'
    <2>1. UNCHANGED <<disk, rows, run, task, settled>>
        BY <1>12, Zenon DEF ChargedInVain
    <2>2. \A g \in Files, m \in Names : Cached(g, m)' <=> Cached(g, m)
        BY <2>1 DEF Cached, Lookup
    <2>3. SummariesTypeInv'
        BY <2>1 DEF SummariesInv, SummariesTypeInv
    <2>4. ASSUME NEW q \in Runs
          PROVE  KeepsUp(q)' /\ IsServed(q)'
        <3>1. KeepsUp(q) /\ IsServed(q) /\ run'[q] = run[q] /\ task'[q] = task[q]
            BY <2>1 DEF SummariesInv
        <3> QED
            BY <2>1, <3>1, OtherRun
    <2>5. \A m \in settled', g \in Files : Cached(g, m)'
        BY <2>1, CachedStays DEF SummariesInv
    <2> QED
        BY <2>3, <2>4, <2>5 DEF SummariesInv
<1>11. CASE UNCHANGED summariesVars
    BY <1>11 DEF summariesVars, SummariesInv, SummariesTypeInv, KeepsUp, IsServed, Cached, Lookup, DoneFiles
<1> QED
    BY <1>1, <1>2, <1>3, <1>4, <1>5, <1>6, <1>7, <1>8, <1>9, <1>10, <1>11, <1>12 DEF SummariesNext

----------------------------------------------------------------------------
(* Running `ctx summarize` again on unchanged files costs nothing and meets  *)
(* no error, with whatever other runs before, between and at the same time  *)
(* (summarize.py:41).                                                       *)
THEOREM RerunsAreFree ==
    ASSUME Names # {}, IsFiniteSet(Files)
    PROVE  SummariesSpec => []RerunIsFree
<1>1. SummariesInit => SummariesInv
    BY SummariesInitInv
<1>2. SummariesInv /\ [SummariesNext]_summariesVars => SummariesInv'
    BY SummariesNextInv
<1>3. SummariesInv => RerunIsFree
    BY DEF SummariesInv, IsServed, RerunIsFree
<1> QED
    BY <1>1, <1>2, <1>3, PTL DEF SummariesSpec

----------------------------------------------------------------------------
(* What is spent. *)

(* Among sets of members of a finite set there is one that leaves the others *)
(* when it loses a member.                                                   *)
LEMMA SmallestSet ==
    ASSUME NEW D, IsFiniteSet(D), NEW T \in SUBSET SUBSET D, T # {}
    PROVE  \E m \in T : \A x \in m : m \ {x} \notin T
<1>1. IsWellFoundedOn(StrictSubsetOrdering(D), FiniteSubsetsOf(D))
    BY FS_StrictSubsetOrderingWellFounded
<1>2. T \subseteq FiniteSubsetsOf(D)
    BY FS_Subset DEF FiniteSubsetsOf
<1>3. PICK m \in T : \A y \in T : <<y, m>> \notin StrictSubsetOrdering(D)
    BY <1>1, <1>2, WFMin, Zenon
<1>4. ASSUME NEW x \in m, m \ {x} \in T
      PROVE  FALSE
    <2>1. <<m \ {x}, m>> \in StrictSubsetOrdering(D)
        BY DEF StrictSubsetOrdering
    <2> QED
        BY <1>3, <1>4, <2>1
<1> QED
    BY <1>4

(* f adds up c over the subsets of D, in whatever order.                     *)
IsSum(f, c, D) ==
    /\ f \in [SUBSET D -> Nat]
    /\ f[{}] = 0
    /\ \A s \in SUBSET D : \A x \in s : f[s] = c[x] + f[s \ {x}]

(* For one more member the sum is one more summand.                          *)
LEMMA OneMore ==
    ASSUME NEW D, NEW c, \A x \in D : c[x] \in Nat, NEW y \in D,
           NEW g, IsSum(g, c, D \ {y})
    PROVE  \E f : IsSum(f, c, D)
<1> DEFINE f == [s \in SUBSET D |-> IF y \in s THEN c[y] + g[s \ {y}] ELSE g[s]]
<1>1. f \in [SUBSET D -> Nat]
    <2>1. ASSUME NEW s \in SUBSET D
          PROVE  (IF y \in s THEN c[y] + g[s \ {y}] ELSE g[s]) \in Nat
        <3>1. s \ {y} \in SUBSET (D \ {y}) /\ g[s \ {y}] \in Nat /\ c[y] \in Nat
            BY DEF IsSum
        <3>2. y \notin s => g[s] \in Nat
            BY DEF IsSum
        <3> QED
            BY <3>1, <3>2
    <2> QED
        BY <2>1
<1>2. f[{}] = 0
    BY DEF IsSum
<1>3. ASSUME NEW s \in SUBSET D, NEW x \in s
      PROVE  f[s] = c[x] + f[s \ {x}]
    <2>1. CASE x = y
        <3>1. f[s] = c[y] + g[s \ {y}] /\ f[s \ {y}] = g[s \ {y}]
            BY <2>1
        <3> QED
            BY <2>1, <3>1
    <2>2. CASE x # y /\ y \notin s
        <3>1. f[s] = g[s] /\ f[s \ {x}] = g[s \ {x}] /\ s \in SUBSET (D \ {y})
            BY <2>2
        <3> QED
            BY <3>1 DEF IsSum
    <2>3. CASE x # y /\ y \in s
        <3> DEFINE t == s \ {y}
        <3>1. t \in SUBSET (D \ {y}) /\ x \in t /\ (s \ {x}) \ {y} = t \ {x} /\ t \ {x} \in SUBSET (D \ {y})
            BY <2>3
        <3>2. f[s] = c[y] + g[t] /\ f[s \ {x}] = c[y] + g[t \ {x}]
            BY <2>3, <3>1
        <3>3. g[t] = c[x] + g[t \ {x}] /\ g[t \ {x}] \in Nat /\ c[x] \in Nat /\ c[y] \in Nat
            BY <3>1 DEF IsSum
        <3> HIDE DEF f, t
        <3> QED
            BY <3>2, <3>3
    <2> QED
        BY <2>1, <2>2, <2>3
<1> HIDE DEF f
<1>4. IsSum(f, c, D)
    BY <1>1, <1>2, <1>3 DEF IsSum
<1> QED
    BY <1>4

LEMMA SumExists ==
    ASSUME NEW D, IsFiniteSet(D), NEW c, \A x \in D : c[x] \in Nat
    PROVE  \E f : IsSum(f, c, D)
<1> DEFINE T == {s \in SUBSET D : ~ \E f : IsSum(f, c, s)}
<1>1. SUFFICES ASSUME T # {}
              PROVE  FALSE
    OBVIOUS
<1>2. PICK m \in T : \A x \in m : m \ {x} \notin T
    BY <1>1, SmallestSet
<1>3. CASE m = {}
    <2> DEFINE f == [s \in SUBSET {} |-> 0]
    <2>1. IsSum(f, c, {})
        BY DEF IsSum
    <2> QED
        BY <1>2, <1>3, <2>1
<1>4. CASE m # {}
    <2>1. PICK y \in m : TRUE
        BY <1>4
    <2>2. \E g : IsSum(g, c, m \ {y})
        BY <1>2, <2>1
    <2>3. \E f : IsSum(f, c, m)
        BY <2>2, OneMore
    <2> QED
        BY <1>2, <2>3
<1> QED
    BY <1>3, <1>4

(* f adds up c over s and what is within it.                                 *)
SumsOver(f, c, s) == \E D : s \subseteq D /\ IsSum(f, c, D)

SameOver(c, e, s) == \A x \in s : c[x] = e[x]

(* Two sums over the same numbers are the same.                              *)
LEMMA SumsAgree ==
    ASSUME NEW s, IsFiniteSet(s), NEW c, NEW e, SameOver(c, e, s),
           NEW f, SumsOver(f, c, s), NEW g, SumsOver(g, e, s)
    PROVE  f[s] = g[s]
<1> DEFINE T == {t \in SUBSET s : f[t] # g[t]}
<1>1. SUFFICES ASSUME T # {}
              PROVE  FALSE
    OBVIOUS
<1>2. PICK m \in T : \A x \in m : m \ {x} \notin T
    BY <1>1, SmallestSet
<1>3. PICK D : s \subseteq D /\ IsSum(f, c, D)
    BY DEF SumsOver
<1>4. PICK E : s \subseteq E /\ IsSum(g, e, E)
    BY DEF SumsOver
<1>5. m # {}
    BY <1>2, <1>3, <1>4 DEF IsSum
<1>6. PICK x \in m : TRUE
    BY <1>5
<1>7. f[m \ {x}] = g[m \ {x}]
    BY <1>2
<1>8. f[m] = c[x] + f[m \ {x}] /\ g[m] = e[x] + g[m \ {x}] /\ c[x] = e[x]
    BY <1>2, <1>3, <1>4 DEF IsSum, SameOver
<1> QED
    BY <1>2, <1>7, <1>8

(* TotalCost of some rows.                                                   *)
TotalOf(r) == MapThenSumSet(LAMBDA k : r[k].cost, DOMAIN r)

Costs(r) == [k \in DOMAIN r |-> r[k].cost]

LEMMA TotalIs ==
    ASSUME NEW r, IsFiniteSet(DOMAIN r), NEW f, IsSum(f, Costs(r), DOMAIN r)
    PROVE  TotalOf(r) = f[DOMAIN r]
<1> DEFINE D == DOMAIN r
           Adds(g) == g = [s \in SUBSET D |-> IF s = {} THEN 0
                                              ELSE r[CHOOSE x \in s : TRUE].cost + g[s \ {CHOOSE x \in s : TRUE}]]
           g == CHOOSE g : Adds(g)
<1>1. TotalOf(r) = g[D]
    BY Zenon DEF TotalOf, MapThenSumSet, MapThenFoldSet
<1>2. Adds(f)
    <2>1. ASSUME NEW s \in SUBSET D, s # {}
          PROVE  f[s] = r[CHOOSE x \in s : TRUE].cost + f[s \ {CHOOSE x \in s : TRUE}]
        <3> DEFINE y == CHOOSE x \in s : TRUE
        <3>1. y \in s
            BY <2>1
        <3> HIDE DEF y
        <3>2. f[s] = r[y].cost + f[s \ {y}]
            BY <3>1 DEF IsSum, Costs
        <3> QED
            BY <3>2 DEF y
    <2>2. f = [s \in SUBSET D |-> f[s]] /\ f[{}] = 0
        BY DEF IsSum
    <2> QED
        BY <2>1, <2>2
<1>3. Adds(g)
    BY <1>2, Zenon
<1>4. ASSUME f[D] # g[D]
      PROVE  FALSE
    <2> DEFINE T == {s \in SUBSET D : f[s] # g[s]}
    <2>1. PICK m \in T : \A x \in m : m \ {x} \notin T
        <3> HIDE DEF g
        <3>1. T # {} /\ T \in SUBSET SUBSET D
            BY <1>4
        <3> QED
            BY <3>1, SmallestSet, Zenon
    <2> HIDE DEF g
    <2>2. f[m] # g[m] /\ m \in SUBSET D
        BY <2>1
    <2>3. CASE m = {}
        BY <1>3, <2>2, <2>3 DEF IsSum
    <2>4. CASE m # {}
        <3> DEFINE y == CHOOSE x \in m : TRUE
        <3>1. y \in m
            BY <2>4
        <3>2. f[m \ {y}] = g[m \ {y}]
            BY <2>1, <3>1
        <3>3. f[m] = r[y].cost + f[m \ {y}]
            BY <1>2, <2>2, <2>4
        <3>4. g[m] = r[y].cost + g[m \ {y}]
            BY <1>3, <2>2, <2>4
        <3> QED
            BY <2>2, <3>2, <3>3, <3>4
    <2> QED
        BY <2>3, <2>4
<1> QED
    BY <1>1, <1>4


(* A store of rows that each cost a number.                                  *)
WithCosts(r) == IsFiniteSet(DOMAIN r) /\ \A k \in DOMAIN r : r[k].cost \in Nat

LEMMA TotalIsNumber ==
    ASSUME NEW r, WithCosts(r)
    PROVE  TotalOf(r) \in Nat
<1>1. PICK f : IsSum(f, Costs(r), DOMAIN r)
    BY SumExists DEF WithCosts, Costs
<1>2. f[DOMAIN r] \in Nat
    BY <1>1 DEF IsSum
<1>3. TotalOf(r) = f[DOMAIN r]
    BY <1>1, TotalIs DEF WithCosts
<1> QED
    BY <1>2, <1>3

(* What INSERT OR REPLACE does to the total.                                 *)
LEMMA TotalAfter ==
    ASSUME NEW r, WithCosts(r), NEW key, NEW entry, entry.cost \in Nat, NEW q,
           q = [k \in DOMAIN r \cup {key} |-> IF k = key THEN entry ELSE r[k]]
    PROVE  /\ WithCosts(q)
           /\ key \notin DOMAIN r => TotalOf(q) = TotalOf(r) + entry.cost
           /\ key \in DOMAIN r => TotalOf(q) = TotalOf(r) - r[key].cost + entry.cost
<1> DEFINE D == DOMAIN r
           E == D \cup {key}
<1>0. DOMAIN q = E /\ IsFiniteSet(E) /\ IsFiniteSet(D \ {key}) /\ IsFiniteSet(D)
    BY FS_AddElement, FS_RemoveElement DEF WithCosts
<1>1. WithCosts(q)
    BY <1>0 DEF WithCosts
<1>2. PICK f : IsSum(f, Costs(r), D)
    BY SumExists DEF WithCosts, Costs
<1>3. PICK g : IsSum(g, Costs(q), E)
    BY <1>0, <1>1, SumExists DEF WithCosts, Costs
<1>4. TotalOf(r) = f[D] /\ TotalOf(q) = g[E]
    BY <1>0, <1>2, <1>3, TotalIs
<1>5. /\ Costs(q)[key] = entry.cost
      /\ \A k \in D \ {key} : Costs(q)[k] = Costs(r)[k]
    BY DEF Costs
<1>6. g[E] = entry.cost + g[D \ {key}] /\ g[D \ {key}] \in Nat
    <2>1. E \ {key} = D \ {key} /\ E \in SUBSET E /\ key \in E /\ D \ {key} \in SUBSET E
        OBVIOUS
    <2> HIDE DEF D, E
    <2> QED
        <3>1. g[E] = Costs(q)[key] + g[E \ {key}]
            BY <1>3, <2>1 DEF IsSum
        <3>2. g[D \ {key}] \in Nat
            BY <1>3, <2>1 DEF IsSum
        <3> QED
            BY <1>5, <2>1, <3>1, <3>2
<1>7. SumsOver(f, Costs(r), D \ {key}) /\ SumsOver(g, Costs(q), D \ {key})
    <2>1. D \ {key} \subseteq D /\ D \ {key} \subseteq E
        OBVIOUS
    <2> HIDE DEF D, E
    <2> QED
        BY <1>2, <1>3, <2>1 DEF SumsOver
<1>8. f[D \ {key}] = g[D \ {key}]
    <2> HIDE DEF D
    <2>1. SameOver(Costs(r), Costs(q), D \ {key})
        BY <1>5 DEF SameOver
    <2> QED
        BY <1>0, <1>7, <2>1, SumsAgree
<1>9. ASSUME key \in D
      PROVE  f[D] = r[key].cost + f[D \ {key}] /\ r[key].cost \in Nat
    <2>1. Costs(r)[key] = r[key].cost /\ r[key].cost \in Nat
        BY <1>9 DEF Costs, WithCosts
    <2> HIDE DEF D
    <2> QED
        BY <1>2, <1>9, <2>1 DEF IsSum
<1>10. key \notin D => D \ {key} = D
    OBVIOUS
<1> HIDE DEF D, E
<1>11. ASSUME key \notin D
       PROVE  TotalOf(q) = TotalOf(r) + entry.cost
    <2>1. f[D] = g[D \ {key}]
        BY <1>8, <1>10, <1>11
    <2> QED
        BY <1>4, <1>6, <2>1
<1>12. ASSUME key \in D
       PROVE  TotalOf(q) = TotalOf(r) - r[key].cost + entry.cost
    BY <1>4, <1>6, <1>8, <1>9, <1>12
<1> QED
    BY <1>1, <1>11, <1>12 DEF D

----------------------------------------------------------------------------
(* Every row has the price of the one call it stands for, and the charges    *)
(* are the rows' unless one of them has no row.                              *)
SpendingInv ==
    /\ llm.enabled /\ llm.provider \in Providers
    /\ WithCosts(rows)
    /\ \A k \in DOMAIN rows : rows[k].cost = CostOf(llm.provider, k.model)
    /\ billed \in Nat /\ TotalOf(rows) <= billed
    /\ doubtful \in BOOLEAN
    /\ ~doubtful => TotalOf(rows) = billed

(* A model with a price, or one that costs nothing.                           *)
LEMMA ABill ==
    ASSUME NEW provider, NEW m
    PROVE  /\ Bill(provider, m) \in Nat
           /\ provider = "ollama" \/ m \in DOMAIN Listed =>
                /\ CostOf(provider, m) = Bill(provider, m)
                /\ CostOf(provider, m) \in Nat
<1>1. CASE provider = "ollama"
    BY <1>1 DEF Bill, CostOf
<1>2. CASE provider # "ollama" /\ m \in DOMAIN Listed
    <2>1. Max({0, Usage.input - Usage.cached}) = 1
        <3>1. \A x \in {0, 1} : (\A y \in {0, 1} : x >= y) <=> x = 1
            OBVIOUS
        <3>2. Usage.input - Usage.cached = 1
            BY DEF Usage
        <3>3. Max({0, 1}) = 1
            BY <3>1 DEF Max
        <3> QED
            BY <3>2, <3>3
    <2>2. Usage.input - Usage.cached = 1 /\ Usage.cached = 1 /\ Usage.output = 1
        BY DEF Usage
    <2>3. Listed[m].input \in Nat /\ Listed[m].cached \in Nat /\ Listed[m].output \in Nat
        BY <1>2, SummariesAssumption
    <2>4. CalculateCost(m, Usage) = Listed[m].input + Listed[m].cached + Listed[m].output
        <3> DEFINE cap == Max({0, Usage.input - Usage.cached})
        <3>1. CalculateCost(m, Usage) = cap * Listed[m].input + Usage.cached * Listed[m].cached
                                            + Usage.output * Listed[m].output
            BY Zenon DEF CalculateCost
        <3>2. cap = 1
            BY <2>1
        <3> HIDE DEF cap
        <3> QED
            BY <2>2, <2>3, <3>1, <3>2
    <2>5. Bill(provider, m) = Listed[m].input + Listed[m].cached + Listed[m].output
        BY <1>2, <2>2, <2>3 DEF Bill
    <2> QED
        BY <1>2, <2>3, <2>4, <2>5 DEF CostOf
<1>3. CASE provider # "ollama" /\ m \notin DOMAIN Listed
    BY <1>3 DEF Bill
<1> QED
    BY <1>1, <1>2, <1>3

LEMMA SpendingInitInv ==
    ASSUME SummariesInit
    PROVE  SpendingInv
<1>1. DOMAIN rows = {}
    BY DEF SummariesInit
<1>2. WithCosts(rows)
    BY <1>1, FS_EmptySet DEF WithCosts
<1>3. TotalOf(rows) = 0
    <2>1. PICK f : IsSum(f, Costs(rows), DOMAIN rows)
        BY <1>2, SumExists DEF WithCosts, Costs
    <2> QED
        BY <1>1, <1>2, <2>1, TotalIs DEF WithCosts, IsSum
<1>4. llm.enabled /\ llm.provider \in Providers
    BY DEF SummariesInit
<1>5. billed = 0 /\ doubtful = FALSE
    BY DEF SummariesInit
<1>6. /\ \A k \in DOMAIN rows : rows[k].cost = CostOf(llm.provider, k.model)
      /\ billed \in Nat /\ TotalOf(rows) <= billed
      /\ TotalOf(rows) = billed
    BY <1>1, <1>3, <1>5
<1>7. doubtful \in BOOLEAN
    BY <1>5
<1> QED
    BY <1>2, <1>4, <1>6, <1>7, Zenon DEF SpendingInv

(* A step that charges without a row, if it charges at all.                  *)
LEMMA SpendingKept ==
    ASSUME SpendingInv, rows' = rows, llm' = llm, billed' \in Nat, billed <= billed',
           doubtful' \in BOOLEAN, doubtful => doubtful', billed' # billed => doubtful'
    PROVE  SpendingInv'
<1>1. TotalOf(rows) \in Nat
    BY TotalIsNumber DEF SpendingInv
<1>2. TotalOf(rows)' = TotalOf(rows) /\ WithCosts(rows)'
    BY DEF SpendingInv
<1> QED
    BY <1>1, <1>2 DEF SpendingInv

(* A summary arrives: a new row for its charge, or a row like the one it      *)
(* replaces, and then the charge is in doubt.                                *)
LEMMA AnsweredSpending ==
    ASSUME SpendingInv, NEW r \in Runs, NEW f \in Files, Answered(r, f)
    PROVE  SpendingInv'
<1> DEFINE m == run[r].model
           key == Key(task[r][f].content, m)
           cost == CostOf(llm.provider, m)
           entry == [path |-> f, about |-> task[r][f].content, cost |-> cost]
<1>1. /\ "answer" \in Outcomes(m)
      /\ doubtful' = (doubtful \/ key \in DOMAIN rows)
      /\ rows' = [k \in DOMAIN rows \cup {key} |-> IF k = key THEN entry ELSE rows[k]]
      /\ billed' = billed + Bill(llm.provider, m)
      /\ llm' = llm
    BY DEF Answered, Lookup, Persist
<1>2. llm.provider = "ollama" \/ m \in DOMAIN Listed
    BY <1>1 DEF SpendingInv, Providers, Outcomes, OpenAIOutcomes, AnthropicOutcomes, Priced
<1>3. cost = Bill(llm.provider, m) /\ cost \in Nat
    BY <1>2, ABill
<1>4. key.model = m /\ entry.cost = cost
    BY DEF Key
<1>5. key \in DOMAIN rows => rows[key].cost = cost
    BY <1>4 DEF SpendingInv
<1> HIDE DEF m, key, cost, entry
<1>6. /\ WithCosts(rows')
      /\ key \notin DOMAIN rows => TotalOf(rows') = TotalOf(rows) + cost
      /\ key \in DOMAIN rows => TotalOf(rows') = TotalOf(rows) - cost + cost
    <2>1. WithCosts(rows) /\ entry.cost \in Nat
        BY <1>3, <1>4 DEF SpendingInv
    <2>2. /\ WithCosts(rows')
          /\ key \notin DOMAIN rows => TotalOf(rows') = TotalOf(rows) + entry.cost
          /\ key \in DOMAIN rows => TotalOf(rows') = TotalOf(rows) - rows[key].cost + entry.cost
        BY <1>1, <2>1, TotalAfter
    <2> QED
        BY <1>4, <1>5, <2>2
<1>7. \A k \in DOMAIN rows' : rows'[k].cost = CostOf(llm.provider, k.model)
    <2>1. ASSUME NEW k \in DOMAIN rows'
          PROVE  rows'[k].cost = CostOf(llm.provider, k.model)
        <3>1. CASE k = key
            BY <1>1, <1>4, <3>1 DEF cost, m
        <3>2. CASE k # key
            BY <1>1, <3>2 DEF SpendingInv
        <3> QED
            BY <3>1, <3>2
    <2> QED
        BY <2>1
<1>8. TotalOf(rows) \in Nat
    BY TotalIsNumber DEF SpendingInv
<1>9. billed' \in Nat /\ TotalOf(rows') <= billed'
    BY <1>1, <1>3, <1>6, <1>8 DEF SpendingInv
<1>10. doubtful' \in BOOLEAN
    BY <1>1 DEF SpendingInv
<1>11. ~doubtful' => TotalOf(rows') = billed'
    BY <1>1, <1>3, <1>6, <1>8 DEF SpendingInv
<1>12. TotalOf(rows)' = TotalOf(rows') /\ WithCosts(rows)' = WithCosts(rows')
    OBVIOUS
<1> QED
    BY <1>1, <1>6, <1>7, <1>9, <1>10, <1>11, <1>12 DEF SpendingInv

LEMMA SpendingNextInv ==
    ASSUME SpendingInv, IsFiniteSet(Files), [SummariesNext]_summariesVars
    PROVE  SpendingInv'
<1>1. ASSUME NEW r \in Runs, NEW f \in Files, Aborts(r, f)
      PROVE  SpendingInv'
    <2>1. Bill(llm.provider, run[r].model) \in Nat
        BY ABill
    <2>2. /\ rows' = rows /\ llm' = llm /\ doubtful' = TRUE
          /\ billed' = billed + Bill(llm.provider, run[r].model)
        BY <1>1 DEF Aborts
    <2>3. billed' \in Nat /\ billed <= billed'
        BY <2>1, <2>2 DEF SpendingInv
    <2> QED
        BY <2>2, <2>3, SpendingKept
<1>2. ASSUME NEW r \in Runs, Kill(r)
      PROVE  SpendingInv'
    <2> DEFINE bill == Bill(llm.provider, run[r].model)
    <2>1. PICK charged \in SUBSET {f \in Files : task[r][f].pc = "calling"} :
              /\ billed' = billed + Cardinality(charged) * bill
              /\ doubtful' = (doubtful \/ charged # {})
        BY <1>2 DEF Kill
    <2>2. rows' = rows /\ llm' = llm
        BY <1>2 DEF Kill
    <2>3. bill \in Nat
        BY ABill
    <2>4. Cardinality(charged) \in Nat /\ (charged = {} => Cardinality(charged) = 0)
        BY <2>1, FS_Subset, FS_CardinalityType, FS_EmptySet
    <2> HIDE DEF bill
    <2>5. Cardinality(charged) * bill \in Nat /\ (charged = {} => Cardinality(charged) * bill = 0)
        BY <2>3, <2>4
    <2>6. billed' \in Nat /\ billed <= billed' /\ (charged = {} => billed' = billed)
        BY <2>1, <2>5 DEF SpendingInv
    <2>7. doubtful' \in BOOLEAN /\ (doubtful => doubtful') /\ (billed' # billed => doubtful')
        BY <2>1, <2>6 DEF SpendingInv
    <2> QED
        BY <2>2, <2>6, <2>7, SpendingKept
<1>8. ASSUME NEW r \in Runs, NEW f \in Files, ChargedInVain(r, f)
      PROVE  SpendingInv'
    <2> DEFINE bill == Bill(llm.provider, run[r].model)
    <2>1. bill \in Nat
        BY ABill
    <2>2. /\ rows' = rows /\ llm' = llm
          /\ billed' = billed + bill /\ doubtful' = (doubtful \/ bill > 0)
        BY <1>8 DEF ChargedInVain
    <2> HIDE DEF bill
    <2>3. billed' \in Nat /\ billed <= billed' /\ (billed' # billed => bill > 0)
        BY <2>1, <2>2 DEF SpendingInv
    <2>4. doubtful' \in BOOLEAN /\ (doubtful => doubtful') /\ (bill > 0 => doubtful')
        BY <2>2, Zenon DEF SpendingInv
    <2> QED
        BY <2>2, <2>3, <2>4, SpendingKept
<1>3. ASSUME UNCHANGED <<rows, llm, billed, doubtful>>
      PROVE  SpendingInv'
    BY <1>3, SpendingKept DEF SpendingInv
<1>4. ASSUME NEW r \in Runs, NEW f \in Files,
             \/ Acquire(r, f) \/ Read(r, f) \/ RateLimited(r, f) \/ Resume(r, f) \/ Refused(r, f)
      PROVE  UNCHANGED <<rows, llm, billed, doubtful>>
    BY <1>4 DEF Acquire, Read, RateLimited, Resume, Refused
<1>5. ASSUME NEW r \in Runs, (\E m \in Names : Begin(r, m)) \/ Complete(r)
      PROVE  UNCHANGED <<rows, llm, billed, doubtful>>
    BY <1>5 DEF Begin, Complete
<1>6. ASSUME NEW f \in Files, NEW c, Edit(f, c)
      PROVE  UNCHANGED <<rows, llm, billed, doubtful>>
    BY <1>6 DEF Edit
<1>7. CASE UNCHANGED summariesVars
    BY <1>3, <1>7 DEF summariesVars
<1> QED
    BY <1>1, <1>2, <1>3, <1>4, <1>5, <1>6, <1>7, <1>8, AnsweredSpending DEF SummariesNext

----------------------------------------------------------------------------
(* The budget page adds up no more than was charged, and exactly that unless *)
(* a charge has no row of its own, for any prices, files, runs at once, edits, *)
(* kills and calls charged in vain; a budget that is spent then reads as     *)
(* exceeded                                                                  *)
(* (status/budget.py, summaries/store.py).                                   *)
THEOREM WhatIsSpentIsKnown ==
    ASSUME IsFiniteSet(Files)
    PROVE  SummariesSpec => []SpendingIsRecorded
<1>1. SummariesInit => SpendingInv
    BY SpendingInitInv
<1>2. SpendingInv /\ [SummariesNext]_summariesVars => SpendingInv'
    BY SpendingNextInv
<1>3. SpendingInv => SpendingIsRecorded
    <2>1. TotalCost = TotalOf(rows)
        BY DEF TotalCost, TotalOf
    <2>2. SUFFICES ASSUME SpendingInv
                   PROVE  SpendingIsRecorded
        OBVIOUS
    <2>3. TotalOf(rows) <= billed /\ (~doubtful => TotalOf(rows) = billed) /\ llm.enabled
        BY <2>2 DEF SpendingInv
    <2>4. ASSUME ~doubtful, billed >= Limit, Limit > 0
          PROVE  BudgetStatus = "exceeded"
        BY <2>1, <2>3, <2>4, SummariesAssumption DEF BudgetStatus
    <2> QED
        BY <2>1, <2>3, <2>4 DEF SpendingIsRecorded
<1> QED
    BY <1>1, <1>2, <1>3, PTL DEF SummariesSpec

------------------------------------------------------------------------------
(* The accounting of session files. *)

Event == [1..MaxLines -> Nat]

UsageTypeInv ==
  /\ lines \in [Sessions -> Seq({Assistant, Other})]
  /\ half \in [Sessions -> BOOLEAN]
  /\ row \in [Sessions -> [offset : Nat, events : Event]]
  /\ reader \in [Readers -> [pc : {"idle", "sized", "selected", "read"}, session : Sessions,
                             size : Nat, offset : Nat, events : Event]]
  /\ \A s \in Sessions : Len(lines[s]) <= MaxLines

\* An offset lies within the file, and one in the middle of a line was taken while the
\* line was there by half, unless the file has become shorter.
Offset(s, offset) ==
  s \notin shrunk =>
  /\ offset <= Size(s)
  /\ \A n \in 1..MaxLines : offset = 2 * n - 1 => <<s, n>> \in torn

\* What a sync in progress has: a row, the size it took, and nothing written since that
\* is not late.
Reading(r) ==
  LET s == reader[r].session
  IN  /\ reader[r].pc # "idle" => Offset(s, reader[r].size)
      /\ reader[r].pc \in {"sized", "selected"} /\ s \notin shrunk =>
           \A n \in 1..Len(lines[s]) : 2 * n > reader[r].size => <<s, n>> \in late
      /\ reader[r].pc = "selected" =>
           Offset(s, reader[r].offset) /\ ExactUpTo(s, reader[r].offset, reader[r].events)
      /\ reader[r].pc = "read" => ExactUpTo(s, reader[r].size, reader[r].events)

UsageInv ==
  /\ UsageTypeInv
  /\ \A s \in Sessions : Offset(s, row[s].offset) /\ ExactUpTo(s, row[s].offset, row[s].events)
  /\ \A r \in Readers : Reading(r)

\* What was noted of the lines of a session is not forgotten by a step.
Remembers(s) ==
  \A n \in 1..MaxLines :
    /\ <<s, n>> \in late => <<s, n>> \in late'
    /\ <<s, n>> \in torn => <<s, n>> \in torn'
    /\ <<s, n>> \in unread => <<s, n>> \in unread'

-----------------------------------------------------------------------------
LEMMA UsageInitInv == UsageInit => UsageInv
<1> SUFFICES ASSUME UsageInit PROVE UsageInv
  OBVIOUS
<1>1. MaxLines \in Nat /\ (CHOOSE s \in Sessions : TRUE) \in Sessions
  BY UsageAssumption
<1>2. NoEvents \in Event
  BY <1>1 DEF NoEvents, Event
<1>3. UsageTypeInv
  <2>1. NoRow \in [offset : Nat, events : Event]
    BY <1>2 DEF NoRow
  <2>2. NoReader \in [pc : {"idle", "sized", "selected", "read"}, session : Sessions,
                      size : Nat, offset : Nat, events : Event]
    BY <1>1, <1>2 DEF NoReader
  <2>3. lines \in [Sessions -> Seq({Assistant, Other})] /\ \A s \in Sessions : Len(lines[s]) = 0
    <3>1. <<>> \in Seq({Assistant, Other}) /\ Len(<<>>) = 0
      OBVIOUS
    <3> QED
      BY <3>1 DEF UsageInit
  <2> QED
    BY <1>1, <2>1, <2>2, <2>3 DEF UsageInit, UsageTypeInv
<1>4. \A s \in Sessions : Size(s) = 0
  <2> SUFFICES ASSUME NEW s \in Sessions PROVE Size(s) = 0
    OBVIOUS
  <2>1. half[s] = FALSE /\ lines[s] = <<>>
    BY DEF UsageInit
  <2>2. Len(lines[s]) = 0
    BY <2>1
  <2> QED
    BY <2>1, <2>2 DEF Size
<1>5. \A s \in Sessions : Offset(s, row[s].offset)
  <2>1. \A s \in Sessions : row[s].offset = 0
    BY DEF UsageInit, NoRow
  <2>2. \A n \in 1..MaxLines : 0 # 2 * n - 1
    BY <1>1
  <2> QED
    BY <1>4, <2>1, <2>2, 0 <= 0 DEF Offset
<1>6. \A s \in Sessions : ExactUpTo(s, row[s].offset, row[s].events)
  BY <1>1 DEF ExactUpTo, UsageInit, NoRow, NoEvents
<1>7. \A r \in Readers : Reading(r)
  BY DEF Reading, UsageInit, NoReader
<1> QED
  BY <1>3, <1>5, <1>6, <1>7 DEF UsageInv

\* The size of a file is twice its lines, and one more when a line is there by half.
LEMMA SizeIs ==
  ASSUME UsageTypeInv, NEW s \in Sessions
  PROVE  /\ Len(lines[s]) \in Nat /\ Size(s) \in Nat
         /\ 2 * Len(lines[s]) <= Size(s) /\ Size(s) <= 2 * Len(lines[s]) + 1
<1>1. Len(lines[s]) \in Nat /\ half[s] \in BOOLEAN
  BY DEF UsageTypeInv
<1>2. CASE half[s]
  BY <1>1, <1>2 DEF Size
<1>3. CASE ~half[s]
  BY <1>1, <1>3 DEF Size
<1> QED
  BY <1>1, <1>2, <1>3

\* Lines that are appended are beyond every offset: what was exact stays so.
LEMMA Grown ==
  ASSUME UsageTypeInv, NEW s \in Sessions,
         UsageTypeInv', shrunk \subseteq shrunk',
         s \notin shrunk' =>
           /\ Len(lines[s]) <= Len(lines'[s]) /\ Size(s) <= Size(s)'
           /\ \A n \in 1..Len(lines[s]) : lines'[s][n] = lines[s][n]
           /\ Remembers(s)
  PROVE  /\ \A o \in Nat : Offset(s, o) => Offset(s, o)'
         /\ \A o \in Nat, e \in Event :
               Offset(s, o) /\ ExactUpTo(s, o, e) => ExactUpTo(s, o, e)'
<1>1. /\ Len(lines[s]) \in Nat /\ Len(lines'[s]) \in Nat /\ MaxLines \in Nat
      /\ Size(s) \in Nat /\ Size(s)' \in Nat
      /\ Size(s) <= 2 * Len(lines[s]) + 1
  BY UsageAssumption DEF UsageTypeInv, Size
<1>2. ASSUME NEW o \in Nat, Offset(s, o) PROVE Offset(s, o)'
  BY <1>1, <1>2 DEF Offset, Remembers
<1>3. ASSUME NEW o \in Nat, NEW e \in Event, Offset(s, o), ExactUpTo(s, o, e)
      PROVE  ExactUpTo(s, o, e)'
  <2> SUFFICES ASSUME s \notin shrunk', NEW n \in 1..MaxLines, <<s, n>> \notin late' \cup torn'
               PROVE  \/ e[n] = IF n <= Len(lines'[s]) /\ 2 * n <= o /\ lines'[s][n] = Assistant
                                THEN 1 ELSE 0
                      \/ e[n] = 0 /\ <<s, n>> \in unread'
    BY DEF ExactUpTo
  <2>1. \/ e[n] = IF n <= Len(lines[s]) /\ 2 * n <= o /\ lines[s][n] = Assistant THEN 1 ELSE 0
        \/ e[n] = 0 /\ <<s, n>> \in unread
    BY <1>3 DEF ExactUpTo, Remembers
  <2>0. <<s, n>> \in unread => <<s, n>> \in unread'
    BY DEF Remembers
  <2>2. CASE 2 * n <= o
    <3>1. s \notin shrunk
      OBVIOUS
    <3>2. n <= Len(lines[s])
      BY <1>1, <1>3, <2>2, <3>1 DEF Offset
    <3>3. n <= Len(lines'[s]) /\ lines'[s][n] = lines[s][n]
      BY <1>1, <3>2
    <3> QED
      BY <2>0, <2>1, <3>2, <3>3
  <2>3. CASE ~(2 * n <= o)
    BY <2>0, <2>1, <2>3
  <2> QED
    BY <2>2, <2>3
<1> QED
  BY <1>2, <1>3

\* A step that leaves rows and readers alone and only lets files grow, but for one that
\* is cut short, keeps the invariant if it marks what it writes under the eyes of a sync.
LEMMA Written ==
  ASSUME UsageInv, UsageTypeInv', UNCHANGED <<row, reader>>, shrunk \subseteq shrunk',
         \A s \in Sessions \ shrunk' :
            /\ Remembers(s)
            /\ Len(lines[s]) <= Len(lines'[s]) /\ Size(s) <= Size(s)'
            /\ \A n \in 1..Len(lines[s]) : lines'[s][n] = lines[s][n]
            /\ Between(s) # {} =>
                 \A n \in 1..Len(lines'[s]) : n > Len(lines[s]) => <<s, n>> \in late'
  PROVE  UsageInv'
<1>1. UsageTypeInv
  BY DEF UsageInv
<1>2. \A s \in Sessions :
        /\ \A o \in Nat : Offset(s, o) => Offset(s, o)'
        /\ \A o \in Nat, e \in Event :
              Offset(s, o) /\ ExactUpTo(s, o, e) => ExactUpTo(s, o, e)'
  BY <1>1, Grown
<1>3. \A s \in Sessions : row[s].offset \in Nat /\ row[s].events \in Event
  BY <1>1 DEF UsageTypeInv
<1>4. \A s \in Sessions : (Offset(s, row[s].offset) /\ ExactUpTo(s, row[s].offset, row[s].events))'
  <2> SUFFICES ASSUME NEW s \in Sessions
               PROVE  (Offset(s, row[s].offset) /\ ExactUpTo(s, row[s].offset, row[s].events))'
    OBVIOUS
  <2> DEFINE o == row[s].offset
             e == row[s].events
  <2>1. o \in Nat /\ e \in Event /\ Offset(s, o) /\ ExactUpTo(s, o, e)
    BY <1>3 DEF UsageInv
  <2>2. o' = o /\ e' = e
    OBVIOUS
  <2> HIDE DEF o, e
  <2>3. PICK oo \in Nat, ee \in Event : oo = o /\ ee = e
    BY <2>1
  <2>4. Offset(s, oo)' /\ ExactUpTo(s, oo, ee)'
    BY <1>2, <2>1, <2>3
  <2> QED
    BY <2>2, <2>3, <2>4 DEF Offset, ExactUpTo, o, e
<1>5. \A r \in Readers : Reading(r)'
  <2> SUFFICES ASSUME NEW r \in Readers PROVE Reading(r)'
    OBVIOUS
  <2>1. PICK s \in Sessions, z \in Nat, o \in Nat, e \in Event :
          reader[r].session = s /\ reader[r].size = z /\ reader[r].offset = o /\ reader[r].events = e
    BY <1>1 DEF UsageTypeInv
  <2>2. reader'[r] = reader[r]
    OBVIOUS
  <2>3. Reading(r)
    BY DEF UsageInv
  <2>4. reader[r].pc # "idle" => Offset(s, z)'
    BY <1>2, <2>1, <2>3 DEF Reading
  <2>5. ASSUME reader[r].pc \in {"sized", "selected"}, s \notin shrunk',
               NEW n \in 1..Len(lines'[s]), 2 * n > z
        PROVE  <<s, n>> \in late'
    <3>1. r \in Between(s)
      BY <2>1, <2>5 DEF Between
    <3>2. CASE n > Len(lines[s])
      BY <2>5, <3>1, <3>2
    <3>3. CASE ~(n > Len(lines[s]))
      <4>1. n \in 1..Len(lines[s]) /\ n \in 1..MaxLines
        BY <1>1, <3>3, UsageAssumption DEF UsageTypeInv
      <4>2. <<s, n>> \in late /\ Remembers(s)
        BY <2>1, <2>3, <2>5, <4>1 DEF Reading
      <4> QED
        BY <4>1, <4>2 DEF Remembers
    <3> QED
      BY <3>2, <3>3
  <2>6. reader[r].pc = "selected" => Offset(s, o)' /\ ExactUpTo(s, o, e)'
    BY <1>2, <2>1, <2>3 DEF Reading
  <2>7. reader[r].pc = "read" => ExactUpTo(s, z, e)'
    BY <1>2, <2>1, <2>3 DEF Reading
  <2> QED
    BY <2>1, <2>2, <2>4, <2>5, <2>6, <2>7 DEF Reading
<1> QED
  BY <1>4, <1>5 DEF UsageInv

\* The reader of a step, and what it has of a row, as constants.
LEMMA ReaderIs ==
  ASSUME UsageTypeInv, NEW r \in Readers
  PROVE  \E s \in Sessions, z \in Nat, o \in Nat, e \in Event :
           /\ reader[r].session = s /\ reader[r].size = z
           /\ reader[r].offset = o /\ reader[r].events = e
BY DEF UsageTypeInv

\* A step of reader r leaves the files and the other readers as they are.
LEMMA OtherReaders ==
  ASSUME UsageInv, NEW r \in Readers, UNCHANGED <<lines, half, shrunk>>,
         \A t \in Sessions : Remembers(t),
         UsageTypeInv', NEW q \in Readers \ {r}, reader'[q] = reader[q]
  PROVE  Reading(q)'
<1>1. UsageTypeInv /\ Reading(q)
  BY DEF UsageInv
<1>2. PICK s \in Sessions, z \in Nat, o \in Nat, e \in Event :
        reader[q].session = s /\ reader[q].size = z /\ reader[q].offset = o /\ reader[q].events = e
  BY <1>1, ReaderIs
<1>3. Len(lines[s]) \in Nat /\ Size(s) \in Nat /\ Size(s)' = Size(s)
  <2>1. Size(s)' = Size(s)
    BY DEF Size
  <2> QED
    BY <1>1, <2>1, SizeIs
<1>4. /\ \A i \in Nat : Offset(s, i) => Offset(s, i)'
      /\ \A i \in Nat, c \in Event : Offset(s, i) /\ ExactUpTo(s, i, c) => ExactUpTo(s, i, c)'
  BY <1>1, <1>3, Grown
<1>5. reader[q].pc # "idle" => Offset(s, z)'
  BY <1>1, <1>2, <1>4 DEF Reading
<1>6. reader[q].pc = "selected" => Offset(s, o)' /\ ExactUpTo(s, o, e)'
  BY <1>1, <1>2, <1>4 DEF Reading
<1>7. reader[q].pc = "read" => ExactUpTo(s, z, e)'
  BY <1>1, <1>2, <1>4 DEF Reading
<1>8. ASSUME reader[q].pc \in {"sized", "selected"}, s \notin shrunk',
             NEW n \in 1..Len(lines'[s]), 2 * n > z
      PROVE  <<s, n>> \in late'
  <2>1. n \in 1..MaxLines /\ <<s, n>> \in late
    BY <1>1, <1>2, <1>3, <1>8, UsageAssumption DEF Reading, UsageTypeInv
  <2> QED
    BY <2>1 DEF Remembers
<1> QED
  BY <1>2, <1>5, <1>6, <1>7, <1>8 DEF Reading

\* The rows, by a step that leaves them and the files as they are.
LEMMA SameStore ==
  ASSUME UsageInv, UNCHANGED <<lines, half, shrunk>>, UsageTypeInv',
         \A t \in Sessions : Remembers(t),
         NEW s \in Sessions, row'[s] = row[s]
  PROVE  (Offset(s, row[s].offset) /\ ExactUpTo(s, row[s].offset, row[s].events))'
<1>1. UsageTypeInv /\ Offset(s, row[s].offset) /\ ExactUpTo(s, row[s].offset, row[s].events)
  BY DEF UsageInv
<1>2. PICK o \in Nat, e \in Event : row[s].offset = o /\ row[s].events = e
  BY <1>1 DEF UsageTypeInv
<1>3. Len(lines[s]) \in Nat /\ Size(s) \in Nat /\ Size(s)' = Size(s)
  BY <1>1 DEF UsageTypeInv, Size
<1>4. Offset(s, o)' /\ ExactUpTo(s, o, e)'
  BY <1>1, <1>2, <1>3, Grown
<1> QED
  BY <1>2, <1>4 DEF Offset, ExactUpTo

LEMMA WriteHalfInv ==
  ASSUME UsageInv, NEW s \in Sessions, WriteHalf(s)
  PROVE  UsageInv'
<1>1. UsageTypeInv
  BY DEF UsageInv
<1>2. /\ half' = [half EXCEPT ![s] = TRUE] /\ ~half[s]
      /\ UNCHANGED <<lines, row, reader, torn, unread, shrunk>> /\ late \subseteq late'
  BY DEF WriteHalf, Mark
<1>3. UsageTypeInv'
  BY <1>1, <1>2 DEF UsageTypeInv
<1>4. \A t \in Sessions : Len(lines[t]) \in Nat /\ Size(t) <= Size(t)'
  BY <1>1, <1>2 DEF UsageTypeInv, Size
<1>5. \A t \in Sessions : Remembers(t)
  BY <1>2 DEF Remembers
<1> QED
  BY <1>2, <1>3, <1>4, <1>5, Written

LEMMA WriteLineInv ==
  ASSUME UsageInv, NEW s \in Sessions, NEW kind \in {Assistant, Other}, WriteLine(s, kind)
  PROVE  UsageInv'
<1>1. UsageTypeInv
  BY DEF UsageInv
<1>2. /\ Len(lines[s]) < MaxLines
      /\ lines' = [lines EXCEPT ![s] = Append(@, kind)] /\ half' = [half EXCEPT ![s] = FALSE]
      /\ UNCHANGED <<row, reader, torn, unread, shrunk>> /\ late \subseteq late'
      /\ Between(s) # {} /\ s \notin shrunk => Current(s) \in late'
  BY DEF WriteLine, Mark, Noted, Current
<1>3. /\ lines[s] \in Seq({Assistant, Other}) /\ Len(lines[s]) \in Nat
      /\ lines'[s] = Append(lines[s], kind)
      /\ \A t \in Sessions \ {s} : lines'[t] = lines[t] /\ half'[t] = half[t]
      /\ half'[s] = FALSE
  BY <1>1, <1>2 DEF UsageTypeInv
<1>4. /\ lines'[s] \in Seq({Assistant, Other}) /\ Len(lines'[s]) = Len(lines[s]) + 1
      /\ \A n \in 1..Len(lines[s]) : lines'[s][n] = lines[s][n]
  BY <1>3
<1>5. UsageTypeInv'
  <2>1. lines' \in [Sessions -> Seq({Assistant, Other})]
    BY <1>1, <1>2, <1>3, <1>4 DEF UsageTypeInv
  <2>2. \A t \in Sessions : Len(lines'[t]) <= MaxLines
    BY <1>1, <1>2, <1>3, <1>4, UsageAssumption DEF UsageTypeInv
  <2> QED
    BY <1>1, <1>2, <2>1, <2>2 DEF UsageTypeInv
<1>6. ASSUME NEW t \in Sessions \ shrunk'
      PROVE  /\ Len(lines[t]) <= Len(lines'[t]) /\ Size(t) <= Size(t)'
             /\ \A n \in 1..Len(lines[t]) : lines'[t][n] = lines[t][n]
             /\ Between(t) # {} =>
                  \A n \in 1..Len(lines'[t]) : n > Len(lines[t]) => <<t, n>> \in late'
  <2>1. CASE t = s
    <3>1. Size(s) <= Size(s)'
      <4>1. Size(s) <= 2 * Len(lines[s]) + 1 /\ Size(s) \in Nat
        BY <1>1, SizeIs
      <4>2. PICK k \in Nat : k = Len(lines'[s]) /\ k = Len(lines[s]) + 1
        BY <1>3, <1>4
      <4>3. Size(s)' = 2 * k
        <5>1. ~half'[s]
          BY <1>3
        <5>2. (IF half'[s] THEN 1 ELSE 0) = 0
          BY <5>1
        <5>3. Size(s)' = 2 * k + 0
          BY <4>2, <5>2 DEF Size
        <5> QED
          BY <5>3
      <4> QED
        BY <1>3, <4>1, <4>2, <4>3
    <3>2. ASSUME Between(s) # {}, NEW n \in 1..Len(lines'[s]), n > Len(lines[s])
          PROVE  <<s, n>> \in late'
      <4>1. n = Len(lines[s]) + 1
        BY <1>3, <1>4, <3>2
      <4> QED
        BY <1>2, <2>1, <3>2, <4>1 DEF Current
    <3> QED
      BY <1>3, <1>4, <2>1, <3>1, <3>2
  <2>2. CASE t # s
    <3>1. Len(lines[t]) \in Nat /\ lines'[t] = lines[t] /\ half'[t] = half[t]
      BY <1>1, <1>3, <2>2 DEF UsageTypeInv
    <3>2. Size(t)' = Size(t) /\ Size(t) \in Nat
      <4>1. Size(t)' = Size(t)
        BY <3>1 DEF Size
      <4> QED
        BY <1>1, <4>1, SizeIs
    <3>3. \A n \in 1..Len(lines'[t]) : ~(n > Len(lines[t]))
      BY <3>1
    <3> QED
      BY <3>1, <3>2, <3>3
  <2> QED
    BY <2>1, <2>2
<1>7. \A t \in Sessions : Remembers(t)
  BY <1>2 DEF Remembers
<1> QED
  BY <1>2, <1>5, <1>6, <1>7, Written

\* A session that is cut short is one of which nothing is said; the others are left alone.
LEMMA ShrinkInv ==
  ASSUME UsageInv, NEW s \in Sessions, Shrink(s)
  PROVE  UsageInv'
<1>1. UsageTypeInv
  BY DEF UsageInv
<1>2. PICK kept \in 0..(Len(lines[s]) - 1) : lines' = [lines EXCEPT ![s] = SubSeq(@, 1, kept)]
  BY DEF Shrink
<1>3. /\ half' = [half EXCEPT ![s] = FALSE] /\ shrunk' = shrunk \cup {s}
      /\ UNCHANGED <<row, reader>>
      /\ late' = {at \in late : at[1] # s} /\ torn' = {at \in torn : at[1] # s}
      /\ unread' = {at \in unread : at[1] # s}
  BY DEF Shrink
<1>4. /\ lines[s] \in Seq({Assistant, Other}) /\ Len(lines[s]) \in Nat
      /\ kept \in Nat /\ kept <= Len(lines[s]) /\ MaxLines \in Nat
      /\ Len(lines[s]) <= MaxLines
  BY <1>1, <1>2, UsageAssumption DEF UsageTypeInv
<1>5. /\ SubSeq(lines[s], 1, kept) \in Seq({Assistant, Other})
      /\ Len(SubSeq(lines[s], 1, kept)) = kept
  BY <1>4
<1>6. UsageTypeInv'
  <2>1. lines' \in [Sessions -> Seq({Assistant, Other})]
    BY <1>1, <1>2, <1>5 DEF UsageTypeInv
  <2>2. \A t \in Sessions : Len(lines'[t]) <= MaxLines
    BY <1>1, <1>2, <1>4, <1>5 DEF UsageTypeInv
  <2> QED
    BY <1>1, <1>3, <2>1, <2>2 DEF UsageTypeInv
<1>7. ASSUME NEW t \in Sessions \ shrunk'
      PROVE  /\ Remembers(t)
             /\ Len(lines[t]) <= Len(lines'[t]) /\ Size(t) <= Size(t)'
             /\ \A n \in 1..Len(lines[t]) : lines'[t][n] = lines[t][n]
             /\ Between(t) # {} =>
                  \A n \in 1..Len(lines'[t]) : n > Len(lines[t]) => <<t, n>> \in late'
  <2>0. t # s
    BY <1>3
  <2>1. t # s /\ Len(lines[t]) \in Nat /\ lines'[t] = lines[t] /\ half'[t] = half[t]
    BY <1>1, <1>2, <1>3, <2>0 DEF UsageTypeInv
  <2>2. Size(t)' = Size(t) /\ Size(t) \in Nat
    <3>1. Size(t)' = Size(t)
      BY <2>1 DEF Size
    <3> QED
      BY <1>1, <3>1, SizeIs
  <2>3. Remembers(t)
    BY <1>3, <2>1 DEF Remembers
  <2>4. \A n \in 1..Len(lines'[t]) : ~(n > Len(lines[t]))
    BY <2>1
  <2> QED
    BY <2>1, <2>2, <2>3, <2>4
<1>8. shrunk \subseteq shrunk'
  BY <1>3
<1> QED
  BY <1>3, <1>6, <1>7, <1>8, Written

\* The size of the file: what is complete beyond it is yet to be written.
LEMMA StatInv ==
  ASSUME UsageInv, NEW r \in Readers, NEW s \in Sessions, Stat(r, s)
  PROVE  UsageInv'
<1>1. UsageTypeInv
  BY DEF UsageInv
<1>2. /\ reader' = [reader EXCEPT ![r] = [NoReader EXCEPT !.pc = "sized", !.session = s,
                                                          !.size = Size(s)]]
      /\ torn' = IF half[s] THEN torn \cup Noted(Current(s)) ELSE torn
      /\ UNCHANGED <<lines, half, row, late, unread, shrunk>>
  BY DEF Stat
<1>0. \A t \in Sessions : Remembers(t)
  BY <1>2 DEF Remembers
<1>3. Size(s) \in Nat /\ Len(lines[s]) \in Nat /\ Len(lines[s]) <= MaxLines
  BY <1>1 DEF UsageTypeInv, Size
<1>4. NoEvents \in Event
  BY DEF NoEvents, Event
<1>5. /\ reader' \in [Readers -> [pc : {"idle", "sized", "selected", "read"}, session : Sessions,
                                  size : Nat, offset : Nat, events : Event]]
      /\ reader'[r].pc = "sized" /\ reader'[r].session = s /\ reader'[r].size = Size(s)
      /\ \A q \in Readers \ {r} : reader'[q] = reader[q]
  BY <1>1, <1>2, <1>3, <1>4 DEF UsageTypeInv, NoReader
<1>6. UsageTypeInv'
  BY <1>1, <1>2, <1>5 DEF UsageTypeInv
<1>7. \A t \in Sessions :
        (Offset(t, row[t].offset) /\ ExactUpTo(t, row[t].offset, row[t].events))'
  BY <1>0, <1>2, <1>6, SameStore
<1>8. \A q \in Readers \ {r} : Reading(q)'
  BY <1>0, <1>2, <1>5, <1>6, OtherReaders
<1>9. Reading(r)'
  <2>1. PICK z \in Nat : z = Size(s)
    BY <1>3
  <2>2. Size(s)' = z
    BY <1>2, <2>1 DEF Size
  <2>3. ASSUME s \notin shrunk, NEW n \in 1..MaxLines, z = 2 * n - 1
        PROVE  <<s, n>> \in torn'
    <3>1. half[s] /\ n = Len(lines[s]) + 1
      BY <1>1, <1>3, <2>1, <2>3 DEF Size, UsageTypeInv
    <3> QED
      BY <1>2, <2>3, <3>1 DEF Current, Noted
  <2>4. Offset(s, z)'
    BY <1>2, <1>3, <2>1, <2>2, <2>3 DEF Offset
  <2>5. \A n \in 1..Len(lines[s]) : ~(2 * n > z)
    BY <1>1, <1>3, <2>1 DEF Size, UsageTypeInv
  <2> QED
    BY <1>2, <1>5, <2>1, <2>4, <2>5 DEF Reading, Offset
<1> QED
  BY <1>6, <1>7, <1>8, <1>9 DEF UsageInv

LEMMA SelectInv ==
  ASSUME UsageInv, NEW r \in Readers, Select(r)
  PROVE  UsageInv'
<1>1. UsageTypeInv /\ Reading(r)
  BY DEF UsageInv
<1>2. PICK s \in Sessions, z \in Nat, o \in Nat, e \in Event :
        /\ reader[r].session = s /\ reader[r].size = z
        /\ row[s].offset = o /\ row[s].events = e
  BY <1>1 DEF UsageTypeInv
<1>3. /\ reader[r].pc = "sized"
      /\ reader' = [reader EXCEPT ![r] =
                      IF z > o THEN [reader[r] EXCEPT !.pc = "selected", !.offset = o, !.events = e]
                      ELSE NoReader]
      /\ UNCHANGED <<lines, half, row, late, torn, unread, shrunk>>
  BY <1>2 DEF Select
<1>0. \A t \in Sessions : Remembers(t)
  BY <1>3 DEF Remembers
<1>4. NoReader \in [pc : {"idle", "sized", "selected", "read"}, session : Sessions,
                    size : Nat, offset : Nat, events : Event]
  BY UsageAssumption DEF NoReader, NoEvents, Event
<1>5. /\ reader' \in [Readers -> [pc : {"idle", "sized", "selected", "read"}, session : Sessions,
                                  size : Nat, offset : Nat, events : Event]]
      /\ \A q \in Readers \ {r} : reader'[q] = reader[q]
  BY <1>1, <1>2, <1>3, <1>4 DEF UsageTypeInv
<1>6. UsageTypeInv'
  BY <1>1, <1>3, <1>5 DEF UsageTypeInv
<1>7. \A t \in Sessions :
        (Offset(t, row[t].offset) /\ ExactUpTo(t, row[t].offset, row[t].events))'
  BY <1>0, <1>3, <1>6, SameStore
<1>8. \A q \in Readers \ {r} : Reading(q)'
  BY <1>0, <1>3, <1>5, <1>6, OtherReaders
<1>9. Reading(r)'
  <2>1. CASE ~(z > o)
    BY <1>1, <1>3, <2>1 DEF UsageTypeInv, Reading, NoReader
  <2>2. CASE z > o
    <3>1. /\ reader'[r].pc = "selected" /\ reader'[r].session = s /\ reader'[r].size = z
          /\ reader'[r].offset = o /\ reader'[r].events = e
      BY <1>1, <1>2, <1>3, <2>2 DEF UsageTypeInv
    <3>2. Offset(s, z) /\ Offset(s, o) /\ ExactUpTo(s, o, e)
      BY <1>1, <1>2, <1>3 DEF Reading, UsageInv
    <3>3. s \notin shrunk => \A n \in 1..Len(lines[s]) : 2 * n > z => <<s, n>> \in late
      BY <1>1, <1>2, <1>3 DEF Reading
    <3>4. Offset(s, z)' /\ Offset(s, o)' /\ ExactUpTo(s, o, e)'
      BY <1>3, <3>2 DEF Offset, ExactUpTo, Size
    <3> QED
      BY <1>3, <3>1, <3>3, <3>4 DEF Reading
  <2> QED
    BY <2>1, <2>2
<1> QED
  BY <1>6, <1>7, <1>8, <1>9 DEF UsageInv

\* What is read from an exact offset is exact up to the size taken before, but for the
\* lines the read gave up before.
LEMMA FoundIs ==
  ASSUME UsageInv, NEW r \in Readers, NEW last \in Nat,
         \/ ReadTail(r) /\ last = Len(lines[reader[r].session])
         \/ /\ reader[r].pc = "selected"
            /\ last \in 0..(Len(lines[reader[r].session]) - 1)
            /\ 2 * last >= reader[r].offset
            /\ unread' = unread \cup UNION {Noted(<<reader[r].session, n>>) :
                                             n \in (last + 1)..Len(lines[reader[r].session])}
            /\ reader' = [reader EXCEPT
                             ![r].events = ReadSessionFile(reader[r].session, reader[r].offset, last, @),
                             ![r].pc = "read"]
            /\ UNCHANGED <<lines, half, row, late, torn, shrunk>>
  PROVE  UsageInv'
<1>1. UsageTypeInv /\ Reading(r)
  BY DEF UsageInv
<1>2. PICK s \in Sessions, z \in Nat, o \in Nat, e \in Event :
        /\ reader[r].session = s /\ reader[r].size = z
        /\ reader[r].offset = o /\ reader[r].events = e
  BY <1>1, ReaderIs
<1> DEFINE found == ReadSessionFile(s, o, last, e)
<1>3. /\ reader[r].pc = "selected"
      /\ reader' = [reader EXCEPT ![r].events = found, ![r].pc = "read"]
      /\ UNCHANGED <<lines, half, row, late, torn, shrunk>>
  BY <1>1, <1>2 DEF ReadTail, UsageTypeInv
<1>15. /\ unread \subseteq unread'
       /\ last <= Len(lines[s])
       /\ s \notin shrunk => \A n \in 1..Len(lines[s]) : n > last => <<s, n>> \in unread'
       /\ last = Len(lines[s]) \/ 2 * last >= o
  <2>1. CASE ReadTail(r) /\ last = Len(lines[reader[r].session])
    BY <1>1, <1>2, <2>1 DEF ReadTail, UsageTypeInv
  <2>2. CASE /\ last \in 0..(Len(lines[s]) - 1) /\ 2 * last >= o
             /\ unread' = unread \cup UNION {Noted(<<s, n>>) : n \in (last + 1)..Len(lines[s])}
    <3>1. Len(lines[s]) \in Nat
      BY <1>1 DEF UsageTypeInv
    <3>2. ASSUME s \notin shrunk, NEW n \in 1..Len(lines[s]), n > last
          PROVE  <<s, n>> \in unread'
      <4>1. n \in (last + 1)..Len(lines[s])
        BY <3>1, <3>2
      <4>2. Noted(<<s, n>>) = {<<s, n>>}
        BY <3>2 DEF Noted
      <4> QED
        BY <2>2, <4>1, <4>2
    <3>3. unread \subseteq unread'
      BY <2>2
    <3>4. last <= Len(lines[s]) /\ 2 * last >= o
      BY <2>2, <3>1
    <3> QED
      BY <3>2, <3>3, <3>4
  <2> QED
    BY <1>2, <2>1, <2>2
<1>0. \A t \in Sessions : Remembers(t)
  BY <1>3, <1>15 DEF Remembers
<1>4. found \in Event
  BY <1>2 DEF ReadSessionFile, Event
<1>5. \A n \in 1..MaxLines :
        found[n] = IF n <= last /\ 2 * (n - 1) >= o /\ lines[s][n] = Assistant
                   THEN e[n] + 1 ELSE e[n]
  BY DEF ReadSessionFile
<1> HIDE DEF found
<1>6. /\ reader' \in [Readers -> [pc : {"idle", "sized", "selected", "read"}, session : Sessions,
                                  size : Nat, offset : Nat, events : Event]]
      /\ reader'[r].pc = "read" /\ reader'[r].session = s /\ reader'[r].size = z
      /\ reader'[r].events = found
      /\ \A q \in Readers \ {r} : reader'[q] = reader[q]
  BY <1>1, <1>2, <1>3, <1>4 DEF UsageTypeInv
<1>7. UsageTypeInv'
  BY <1>1, <1>3, <1>6 DEF UsageTypeInv
<1>8. \A t \in Sessions :
        (Offset(t, row[t].offset) /\ ExactUpTo(t, row[t].offset, row[t].events))'
  BY <1>0, <1>3, <1>7, SameStore
<1>9. \A q \in Readers \ {r} : Reading(q)'
  BY <1>0, <1>3, <1>6, <1>7, OtherReaders
<1>10. /\ Offset(s, z) /\ Offset(s, o) /\ ExactUpTo(s, o, e)
       /\ s \notin shrunk => \A n \in 1..Len(lines[s]) : 2 * n > z => <<s, n>> \in late
  BY <1>1, <1>2, <1>3 DEF Reading
<1>11. ASSUME s \notin shrunk, NEW n \in 1..MaxLines, <<s, n>> \notin late \cup torn
       PROVE  \/ found[n] = IF n <= Len(lines[s]) /\ 2 * n <= z /\ lines[s][n] = Assistant
                            THEN 1 ELSE 0
              \/ found[n] = 0 /\ <<s, n>> \in unread'
  <2>1. \/ e[n] = IF n <= Len(lines[s]) /\ 2 * n <= o /\ lines[s][n] = Assistant THEN 1 ELSE 0
        \/ e[n] = 0 /\ <<s, n>> \in unread
    BY <1>10, <1>11 DEF ExactUpTo
  <2>2. Len(lines[s]) \in Nat /\ MaxLines \in Nat
    BY <1>1, UsageAssumption DEF UsageTypeInv
  <2>3. o # 2 * n - 1 /\ (n <= Len(lines[s]) => 2 * n <= z)
    BY <1>10, <1>11, <2>2 DEF Offset
  <2>4. CASE 2 * n <= o
    <3>1. o <= Size(s) /\ Size(s) <= 2 * Len(lines[s]) + 1
      BY <1>1, <1>10, <1>11, SizeIs DEF Offset
    <3>2. n <= Len(lines[s]) /\ ~(2 * (n - 1) >= o)
      BY <1>1, <2>2, <2>4, <3>1, SizeIs
    <3>3. 2 * n <= z /\ found[n] = e[n]
      BY <1>5, <2>3, <3>2
    <3> QED
      BY <1>15, <2>1, <2>4, <3>2, <3>3
  <2>5. CASE 2 * (n - 1) >= o
    <3>1. ~(2 * n <= o) /\ e[n] = 0
      BY <2>1, <2>2, <2>5
    <3>2. CASE n <= last
      BY <1>5, <1>15, <2>2, <2>3, <2>5, <3>1, <3>2
    <3>3. CASE ~(n <= last) /\ n <= Len(lines[s])
      BY <1>5, <1>11, <1>15, <2>2, <3>1, <3>3
    <3>4. CASE ~(n <= last) /\ ~(n <= Len(lines[s]))
      BY <1>5, <3>1, <3>4
    <3> QED
      BY <3>2, <3>3, <3>4
  <2> QED
    BY <2>2, <2>3, <2>4, <2>5
<1>12. PICK f \in Event : f = found
  BY <1>4
<1>13. ExactUpTo(s, z, f)' /\ Offset(s, z)'
  BY <1>3, <1>10, <1>11, <1>12 DEF ExactUpTo, Offset, Size
<1>14. Reading(r)'
  <2>1. reader'[r].pc = "read" /\ reader'[r].session = s /\ reader'[r].size = z
        /\ reader'[r].events = f
    BY <1>6, <1>12
  <2> QED
    BY <1>13, <2>1 DEF Reading
<1> QED
  BY <1>7, <1>8, <1>9, <1>14 DEF UsageInv

LEMMA ReadTailInv ==
  ASSUME UsageInv, NEW r \in Readers, ReadTail(r)
  PROVE  UsageInv'
<1>1. Len(lines[reader[r].session]) \in Nat
  BY DEF UsageInv, UsageTypeInv
<1> QED
  BY <1>1, FoundIs

LEMMA ReadBreaksOffInv ==
  ASSUME UsageInv, NEW r \in Readers, ReadBreaksOff(r)
  PROVE  UsageInv'
<1> DEFINE s == reader[r].session
<1>1. reader[r].pc = "selected" /\ UNCHANGED <<lines, half, row, late, torn, shrunk>>
  BY DEF ReadBreaksOff
<1>2. PICK last \in 0..(Len(lines[s]) - 1) :
        /\ 2 * last >= reader[r].offset
        /\ reader' = [reader EXCEPT ![r].events = ReadSessionFile(s, reader[r].offset, last, @),
                                    ![r].pc = "read"]
        /\ unread' = unread \cup UNION {Noted(<<s, n>>) : n \in (last + 1)..Len(lines[s])}
  BY DEF ReadBreaksOff
<1>3. last \in Nat
  OBVIOUS
<1> QED
  BY <1>1, <1>2, <1>3, FoundIs

LEMMA ReplaceInv ==
  ASSUME UsageInv, NEW r \in Readers, Replace(r)
  PROVE  UsageInv'
<1>1. UsageTypeInv /\ Reading(r)
  BY DEF UsageInv
<1>2. PICK s \in Sessions, z \in Nat, o \in Nat, e \in Event :
        /\ reader[r].session = s /\ reader[r].size = z
        /\ reader[r].offset = o /\ reader[r].events = e
  BY <1>1, ReaderIs
<1>3. /\ reader[r].pc = "read"
      /\ row' = [row EXCEPT ![s] = [offset |-> z, events |-> e]]
      /\ reader' = [reader EXCEPT ![r] = NoReader]
      /\ UNCHANGED <<lines, half, late, torn, unread, shrunk>>
  BY <1>2 DEF Replace
<1>0. \A t \in Sessions : Remembers(t)
  BY <1>3 DEF Remembers
<1>4. NoReader \in [pc : {"idle", "sized", "selected", "read"}, session : Sessions,
                    size : Nat, offset : Nat, events : Event]
  BY UsageAssumption DEF NoReader, NoEvents, Event
<1>5. UsageTypeInv'
  BY <1>1, <1>3, <1>4 DEF UsageTypeInv
<1>6. \A q \in Readers \ {r} : Reading(q)'
  BY <1>0, <1>1, <1>3, <1>5, OtherReaders DEF UsageTypeInv
<1>7. Reading(r)'
  BY <1>1, <1>3 DEF Reading, NoReader, UsageTypeInv
<1>8. ASSUME NEW t \in Sessions
      PROVE  (Offset(t, row[t].offset) /\ ExactUpTo(t, row[t].offset, row[t].events))'
  <2>1. CASE t = s
    <3>1. Offset(s, z)' /\ ExactUpTo(s, z, e)'
      BY <1>1, <1>2, <1>3 DEF Reading, Offset, ExactUpTo, Size
    <3>2. row'[t].offset = z /\ row'[t].events = e
      BY <1>1, <1>3, <2>1 DEF UsageTypeInv
    <3> QED
      BY <2>1, <3>1, <3>2 DEF Offset, ExactUpTo
  <2>2. CASE t # s
    BY <1>0, <1>1, <1>3, <1>5, <2>2, SameStore DEF UsageTypeInv
  <2> QED
    BY <2>1, <2>2
<1> QED
  BY <1>5, <1>6, <1>7, <1>8 DEF UsageInv

LEMMA DieInv ==
  ASSUME UsageInv, NEW r \in Readers, Die(r)
  PROVE  UsageInv'
<1>1. UsageTypeInv
  BY DEF UsageInv
<1>2. /\ reader' = [reader EXCEPT ![r] = NoReader]
      /\ UNCHANGED <<lines, half, row, late, torn, unread, shrunk>>
  BY DEF Die
<1>0. \A t \in Sessions : Remembers(t)
  BY <1>2 DEF Remembers
<1>3. NoReader \in [pc : {"idle", "sized", "selected", "read"}, session : Sessions,
                    size : Nat, offset : Nat, events : Event]
  BY UsageAssumption DEF NoReader, NoEvents, Event
<1>4. UsageTypeInv'
  BY <1>1, <1>2, <1>3 DEF UsageTypeInv
<1>5. \A q \in Readers \ {r} : Reading(q)'
  BY <1>0, <1>1, <1>2, <1>4, OtherReaders DEF UsageTypeInv
<1>6. Reading(r)'
  BY <1>1, <1>2 DEF Reading, NoReader, UsageTypeInv
<1>7. \A t \in Sessions :
        (Offset(t, row[t].offset) /\ ExactUpTo(t, row[t].offset, row[t].events))'
  BY <1>0, <1>2, <1>4, SameStore
<1> QED
  BY <1>4, <1>5, <1>6, <1>7 DEF UsageInv

LEMMA UsageNextInv == UsageInv /\ [UsageNext]_usageVars => UsageInv'
<1> SUFFICES ASSUME UsageInv, [UsageNext]_usageVars PROVE UsageInv'
  OBVIOUS
<1>1. CASE UNCHANGED usageVars
  BY <1>1 DEF usageVars, UsageInv, UsageTypeInv, Reading, Offset, ExactUpTo, Size
<1>2. CASE UsageNext
  BY <1>2, WriteHalfInv, WriteLineInv, ShrinkInv, StatInv, SelectInv, ReadTailInv,
     ReadBreaksOffInv, ReplaceInv, DieInv
     DEF UsageNext
<1> QED
  BY <1>1, <1>2

\* Totals stay exact however many processes sync a session file at once, whichever row
\* replaces which, wherever one of them dies and wherever a read breaks off, for any
\* sessions, readers and lines.
THEOREM TokensAreCountedOnce == UsageSpec => []TokensCountedOnce
<1>1. UsageInv => TokensCountedOnce
  BY DEF UsageInv, Reading, TokensCountedOnce
<1> QED
  BY <1>1, UsageInitInv, UsageNextInv, PTL DEF UsageSpec

------------------------------------------------------------------------------
(* Memories. *)

MemoryFiles == [state : States, status : Statuses, text : Texts]

Reviews == [pc : {"idle", "found", "opened"}, memory : Memories \cup {"none"},
            verdict : Verdicts, found : MemoryFiles]

(* The values of the variables the property is about. *)
MemoryTypeInv ==
    /\ file \in [Memories -> MemoryFiles]
    /\ age \in [Memories -> Nat]
    /\ proposal \in [Memories -> {"none", "written", "there", "lost"}]
    /\ command \in [Commands -> Reviews]
    /\ word \in [Memories -> MemoryFiles]
    /\ crossed \subseteq Memories

(* A file is in the directory from the rename on, and what was proposed or   *)
(* saved is a whole memory.                                                 *)
Renamed(m) ==
    /\ proposal[m] # "there" => file[m].state = "absent"
    /\ proposal[m] = "there" => file[m].state # "absent"
    /\ proposal[m] # "none" => word[m].state = "good"

Opened(m) == \E c \in Commands : command[c].pc = "opened" /\ command[c].memory = m

(* The file of m carries the last word, unless something has crossed m. *)
Carried(m) ==
    proposal[m] = "there" /\ m \notin crossed =>
        /\ file[m].status = word[m].status
        /\ file[m].text = word[m].text
        /\ file[m].state = "empty" => Opened(m)

(* A command that has begun is about a file of the directory, and holds the  *)
(* text of the last word.                                                   *)
HoldsText(c) ==
    command[c].pc # "idle" =>
        LET m == command[c].memory IN
        /\ m \in Memories
        /\ proposal[m] = "there"
        /\ m \notin crossed => command[c].found.text = word[m].text

MemoryInv ==
    /\ MemoryTypeInv
    /\ \A m \in Memories : Renamed(m) /\ Carried(m)
    /\ \A c \in Commands : HoldsText(c)

----------------------------------------------------------------------------
LEMMA FilesGood ==
    ASSUME NEW s \in Statuses, NEW t \in Texts
    PROVE  Good(s, t) \in MemoryFiles
BY DEF Good, MemoryFiles, States, Statuses

LEMMA NothingRead ==
    ASSUME Texts # {}
    PROVE  /\ Absent \in MemoryFiles
           /\ NoCommand \in Reviews
           /\ NoCommand.pc = "idle"
BY DEF Absent, NoCommand, MemoryFiles, Reviews, States, Statuses, Verdicts

LEMMA MemoryInitInv ==
    ASSUME Texts # {}, MemoryInit
    PROVE  MemoryInv
<1>1. MemoryTypeInv
    BY NothingRead DEF MemoryInit, MemoryTypeInv
<1>2. ASSUME NEW m \in Memories
      PROVE  Renamed(m) /\ Carried(m)
    BY DEF MemoryInit, Renamed, Carried, Absent
<1>3. ASSUME NEW c \in Commands
      PROVE  HoldsText(c)
    BY NothingRead DEF MemoryInit, HoldsText
<1> QED
    BY <1>1, <1>2, <1>3 DEF MemoryInv

(* Ages count the proposals there have been. *)
LEMMA AgesAreNumbers ==
    ASSUME IsFiniteSet(Memories)
    PROVE  1 + Cardinality({n \in Memories : age[n] > 0}) \in Nat
<1>1. IsFiniteSet({n \in Memories : age[n] > 0})
    BY FS_Subset
<1> QED
    BY <1>1, FS_CardinalityType

----------------------------------------------------------------------------
LEMMA WriteTmpInv ==
    ASSUME MemoryInv, IsFiniteSet(Memories), NEW m \in Memories, NEW t \in Texts, WriteTmp(m, t)
    PROVE  MemoryInv'
<1> USE DEF MemoryInv, WriteTmp
<1>0. Good("proposed", t) \in MemoryFiles /\ Good("proposed", t).state = "good"
    BY DEF Good, MemoryFiles, States, Statuses
<1>1. MemoryTypeInv'
    BY <1>0, AgesAreNumbers DEF MemoryTypeInv
<1>2. ASSUME NEW n \in Memories
      PROVE  Renamed(n)' /\ Carried(n)'
    <2>1. n # m => word'[n] = word[n] /\ proposal'[n] = proposal[n]
        BY DEF MemoryTypeInv
    <2>2. word'[m].state = "good" /\ proposal'[m] = "written"
        BY <1>0 DEF MemoryTypeInv
    <2> QED
        BY <2>1, <2>2 DEF Renamed, Carried, Opened
<1>3. ASSUME NEW c \in Commands
      PROVE  HoldsText(c)'
    BY DEF MemoryTypeInv, HoldsText
<1> QED
    BY <1>1, <1>2, <1>3

LEMMA RenameInv ==
    ASSUME MemoryInv, NEW m \in Memories, Rename(m)
    PROVE  MemoryInv'
<1> USE DEF MemoryInv, Rename
<1>1. MemoryTypeInv'
    BY DEF MemoryTypeInv
<1>2. ASSUME NEW n \in Memories
      PROVE  Renamed(n)' /\ Carried(n)'
    BY DEF MemoryTypeInv, Renamed, Carried, Opened
<1>3. ASSUME NEW c \in Commands
      PROVE  HoldsText(c)'
    BY DEF MemoryTypeInv, HoldsText
<1> QED
    BY <1>1, <1>2, <1>3

LEMMA AbandonInv ==
    ASSUME MemoryInv, NEW m \in Memories, Abandon(m)
    PROVE  MemoryInv'
<1> USE DEF MemoryInv, Abandon
<1>1. MemoryTypeInv'
    BY DEF MemoryTypeInv
<1>2. ASSUME NEW n \in Memories
      PROVE  Renamed(n)' /\ Carried(n)'
    BY DEF MemoryTypeInv, Renamed, Carried, Opened
<1>3. ASSUME NEW c \in Commands
      PROVE  HoldsText(c)'
    BY DEF MemoryTypeInv, HoldsText
<1> QED
    BY <1>1, <1>2, <1>3

(* A hand that saves under no command ends what was crossed: there is        *)
(* nobody left who holds an older text.                                     *)
LEMMA SaveInv ==
    ASSUME MemoryInv, NEW m \in Memories, NEW status \in Statuses, NEW t \in Texts,
           Save(m, status, t)
    PROVE  MemoryInv'
<1> USE DEF MemoryInv, Save
<1>1. PICK state \in {"good", "broken"} :
          file' = [file EXCEPT ![m] = [Good(status, t) EXCEPT !.state = state]]
    OBVIOUS
<1> DEFINE saved == [Good(status, t) EXCEPT !.state = state]
<1>2. /\ saved \in MemoryFiles
      /\ saved.state = state
      /\ saved.status = status
      /\ saved.text = t
    BY DEF Good, MemoryFiles, States
<1>3. MemoryTypeInv'
    BY <1>1, <1>2, FilesGood DEF MemoryTypeInv
<1>4. ASSUME NEW n \in Memories
      PROVE  Renamed(n)' /\ Carried(n)'
    <2>1. CASE n = m
        <3>1. file'[m] = saved /\ word'[m] = Good(status, t)
            BY <1>1 DEF MemoryTypeInv
        <3>2. /\ word'[m].state = "good"
              /\ word'[m].status = status
              /\ word'[m].text = t
            BY <3>1 DEF Good
        <3>3. /\ file'[m].state \in {"good", "broken"}
              /\ file'[m].status = status
              /\ file'[m].text = t
            BY <1>2, <3>1
        <3>4. proposal'[m] = "there"
            OBVIOUS
        <3> HIDE DEF Save, MemoryInv
        <3> QED
            BY <2>1, <3>2, <3>3, <3>4 DEF Renamed, Carried
    <2>2. CASE n # m
        <3>1. file'[n] = file[n] /\ word'[n] = word[n] /\ (n \in crossed' <=> n \in crossed)
            BY <1>1, <2>2 DEF MemoryTypeInv
        <3> QED
            BY <3>1 DEF Renamed, Carried, Opened
    <2> QED
        BY <2>1, <2>2
<1>5. ASSUME NEW c \in Commands
      PROVE  HoldsText(c)'
    <2>1. CASE command[c].pc # "idle" /\ command[c].memory = m
        <3>1. c \in Holding(m)
            BY <2>1 DEF Holding, MemoryTypeInv, Reviews
        <3>2. m \in crossed'
            BY <3>1
        <3> QED
            BY <2>1, <3>2 DEF HoldsText
    <2>2. CASE command[c].pc # "idle" /\ command[c].memory # m
        BY <2>2 DEF MemoryTypeInv, HoldsText
    <2>3. CASE command[c].pc = "idle"
        BY <2>3 DEF HoldsText
    <2> QED
        BY <2>1, <2>2, <2>3
<1> QED
    BY <1>3, <1>4, <1>5

(* What is read is whole, so it is the last word. *)
LEMMA FindInv ==
    ASSUME MemoryInv, NEW c \in Commands, NEW m \in Memories, NEW v \in Verdicts, Find(c, m, v)
    PROVE  MemoryInv'
<1> USE DEF MemoryInv, Find
<1>1. MemoryTypeInv'
    BY DEF MemoryTypeInv, Reviews
<1>2. ASSUME NEW n \in Memories
      PROVE  Renamed(n)' /\ Carried(n)'
    <2>1. Opened(n) => Opened(n)'
        BY DEF MemoryTypeInv, Opened
    <2> QED
        BY <2>1 DEF Renamed, Carried
<1>3. ASSUME NEW d \in Commands
      PROVE  HoldsText(d)'
    <2>1. proposal[m] = "there"
        BY DEF Renamed
    <2>2. CASE d = c
        BY <2>1, <2>2 DEF MemoryTypeInv, HoldsText, Carried
    <2>3. CASE d # c
        BY <2>3 DEF MemoryTypeInv, HoldsText
    <2> QED
        BY <2>2, <2>3
<1> QED
    BY <1>1, <1>2, <1>3

LEMMA TruncateInv ==
    ASSUME MemoryInv, NEW c \in Commands, Truncate(c)
    PROVE  MemoryInv'
<1> DEFINE m == command[c].memory
<1> USE DEF MemoryInv, Truncate
<1>1. m \in Memories /\ proposal[m] = "there"
    BY DEF HoldsText
<1>2. MemoryTypeInv'
    <2>1. [file[m] EXCEPT !.state = "empty"] \in MemoryFiles
        <3>1. file[m] \in MemoryFiles
            BY <1>1 DEF MemoryTypeInv
        <3> QED
            BY <3>1 DEF MemoryFiles, States
    <2>2. [command[c] EXCEPT !.pc = "opened"] \in Reviews
        BY DEF MemoryTypeInv, Reviews
    <2> QED
        BY <1>1, <2>1, <2>2 DEF MemoryTypeInv
<1>3. command'[c].pc = "opened" /\ command'[c].memory = m /\ command'[c].found = command[c].found
    BY DEF MemoryTypeInv, Reviews
<1>4. ASSUME NEW n \in Memories
      PROVE  Renamed(n)' /\ Carried(n)'
    <2>1. CASE n = m
        <3>1. Opened(n)'
            BY <1>3, <2>1 DEF Opened
        <3>2. /\ file'[n].state = "empty"
              /\ file'[n].status = file[n].status
              /\ file'[n].text = file[n].text
            BY <1>1, <2>1 DEF MemoryTypeInv, MemoryFiles
        <3> QED
            BY <1>1, <2>1, <3>1, <3>2 DEF Renamed, Carried
    <2>2. CASE n # m
        <3>1. file'[n] = file[n]
            BY <2>2 DEF MemoryTypeInv
        <3>2. Opened(n) => Opened(n)'
            BY DEF MemoryTypeInv, Opened
        <3> QED
            BY <3>1, <3>2 DEF Renamed, Carried
    <2> QED
        BY <2>1, <2>2
<1>5. ASSUME NEW d \in Commands
      PROVE  HoldsText(d)'
    <2>1. CASE d = c
        BY <1>3, <2>1 DEF HoldsText
    <2>2. CASE d # c
        BY <2>2 DEF MemoryTypeInv, HoldsText
    <2> QED
        BY <2>1, <2>2
<1> QED
    BY <1>2, <1>4, <1>5

(* The verdict is new, the text the one that was read: the last word, if     *)
(* nothing has crossed the memory in between.                               *)
LEMMA SetStatusInv ==
    ASSUME MemoryInv, Texts # {}, NEW c \in Commands, SetStatus(c)
    PROVE  MemoryInv'
<1> DEFINE m == command[c].memory
           v == command[c].verdict
<1> USE DEF MemoryInv, SetStatus
<1>1. m \in Memories /\ proposal[m] = "there"
    BY DEF HoldsText
<1>2. /\ v \in Statuses
      /\ command[c].found.text \in Texts
      /\ word[m].text \in Texts
    BY <1>1 DEF MemoryTypeInv, MemoryFiles, Reviews, Statuses
<1>3. MemoryTypeInv'
    BY <1>1, <1>2, FilesGood, NothingRead DEF MemoryTypeInv
<1>4. /\ file'[m] = Good(v, command[c].found.text)
      /\ word'[m] = Good(v, word[m].text)
    BY <1>1 DEF MemoryTypeInv
<1>5. /\ file'[m].state = "good" /\ word'[m].state = "good"
      /\ file'[m].status = v /\ word'[m].status = v
      /\ file'[m].text = command[c].found.text /\ word'[m].text = word[m].text
    <2>1. ASSUME NEW t \in Texts
          PROVE  /\ Good(v, t).state = "good"
                 /\ Good(v, t).status = v
                 /\ Good(v, t).text = t
        BY DEF Good
    <2> QED
        BY <1>2, <1>4, <2>1
<1>6. ASSUME NEW n \in Memories
      PROVE  Renamed(n)' /\ Carried(n)'
    <2>1. CASE n = m
        <3>1. m \notin crossed => command[c].found.text = word[m].text
            BY DEF HoldsText
        <3> QED
            BY <1>1, <1>5, <2>1, <3>1 DEF Renamed, Carried
    <2>2. CASE n # m
        <3>1. file'[n] = file[n] /\ word'[n] = word[n]
            BY <2>2 DEF MemoryTypeInv
        <3>2. Opened(n) => Opened(n)'
            BY <2>2 DEF MemoryTypeInv, Opened
        <3> QED
            BY <3>1, <3>2 DEF Renamed, Carried
    <2> QED
        BY <2>1, <2>2
<1>7. ASSUME NEW d \in Commands
      PROVE  HoldsText(d)'
    <2>1. CASE d = c
        BY <2>1, NothingRead DEF MemoryTypeInv, HoldsText
    <2>2. CASE d # c
        <3>1. word'[m].text = word[m].text
            BY <1>5
        <3>2. ASSUME NEW n \in Memories
              PROVE  word'[n].text = word[n].text
            BY <3>1 DEF MemoryTypeInv
        <3> QED
            BY <2>2, <3>2 DEF MemoryTypeInv, HoldsText
    <2> QED
        BY <2>1, <2>2
<1> QED
    BY <1>3, <1>6, <1>7

LEMMA KillInv ==
    ASSUME MemoryInv, Texts # {}, NEW c \in Commands, KillCommand(c)
    PROVE  MemoryInv'
<1> DEFINE m == command[c].memory
<1> USE DEF MemoryInv, KillCommand
<1>1. m \in Memories
    BY DEF HoldsText
<1>2. MemoryTypeInv'
    BY <1>1, NothingRead DEF MemoryTypeInv
<1>3. ASSUME NEW n \in Memories
      PROVE  Renamed(n)' /\ Carried(n)'
    <2>1. n \notin crossed' /\ Opened(n) => Opened(n)'
        BY DEF MemoryTypeInv, Opened
    <2>2. n \in crossed => n \in crossed'
        OBVIOUS
    <2> QED
        BY <2>1, <2>2 DEF Renamed, Carried
<1>4. ASSUME NEW d \in Commands
      PROVE  HoldsText(d)'
    <2>1. CASE d = c
        BY <2>1, NothingRead DEF MemoryTypeInv, HoldsText
    <2>2. CASE d # c
        BY <2>2 DEF MemoryTypeInv, HoldsText
    <2> QED
        BY <2>1, <2>2
<1> QED
    BY <1>2, <1>3, <1>4

LEMMA MemoryNextInv ==
    ASSUME MemoryInv, Texts # {}, IsFiniteSet(Memories), [MemoryNext]_memoryVars
    PROVE  MemoryInv'
<1>1. ASSUME NEW m \in Memories, NEW t \in Texts, WriteTmp(m, t)
      PROVE  MemoryInv'
    BY <1>1, WriteTmpInv
<1>2. ASSUME NEW m \in Memories, Rename(m)
      PROVE  MemoryInv'
    BY <1>2, RenameInv
<1>3. ASSUME NEW m \in Memories, Abandon(m)
      PROVE  MemoryInv'
    BY <1>3, AbandonInv
<1>4. ASSUME NEW m \in Memories, NEW status \in Statuses, NEW t \in Texts, Save(m, status, t)
      PROVE  MemoryInv'
    BY <1>4, SaveInv
<1>5. ASSUME NEW c \in Commands, NEW m \in Memories, NEW v \in Verdicts, Find(c, m, v)
      PROVE  MemoryInv'
    BY <1>5, FindInv
<1>6. ASSUME NEW c \in Commands, Truncate(c)
      PROVE  MemoryInv'
    BY <1>6, TruncateInv
<1>7. ASSUME NEW c \in Commands, SetStatus(c)
      PROVE  MemoryInv'
    BY <1>7, SetStatusInv
<1>8. ASSUME NEW c \in Commands, KillCommand(c)
      PROVE  MemoryInv'
    BY <1>8, KillInv
<1>9. CASE UNCHANGED memoryVars
    BY <1>9 DEF memoryVars, MemoryInv, MemoryTypeInv, Renamed, Carried, Opened, HoldsText
<1> QED
    BY <1>1, <1>2, <1>3, <1>4, <1>5, <1>6, <1>7, <1>8, <1>9 DEF MemoryNext

----------------------------------------------------------------------------
(* Two whole files with the same status and text are the same file. *)
LEMMA SameFile ==
    ASSUME NEW x \in MemoryFiles, NEW y \in MemoryFiles,
           x.state = y.state, x.status = y.status, x.text = y.text
    PROVE  x = y
BY DEF MemoryFiles

(* In a calm state every file is the last word, and so the accepted ones of  *)
(* the listing are the accepted ones.                                       *)
LEMMA CalmIsKept ==
    ASSUME MemoryInv, IsFiniteSet(Memories), Shown \in Nat
    PROVE  LastWordStands
<1> DEFINE there == {m \in Memories : proposal[m] = "there"}
           accepted == {m \in there : word[m].status = "accepted"}
<1> SUFFICES ASSUME crossed = {}, ~Unlistable,
                    \A c \in Commands : command[c].pc # "opened"
             PROVE  /\ \A m \in there : file[m] = word[m]
                    /\ ApprovedSection \subseteq accepted
                    /\ \A m \in accepted \ ApprovedSection :
                          Shown <= Cardinality({n \in accepted : age[n] > age[m]})
    BY DEF LastWordStands
<1>1. ASSUME NEW m \in there
      PROVE  file[m] = word[m] /\ word[m].state = "good"
    <2>1. Renamed(m) /\ Carried(m) /\ ~Opened(m)
        BY DEF MemoryInv, Opened
    <2>2. file[m].state \notin {"absent", "empty", "broken"}
        BY <2>1 DEF Renamed, Carried, Unlistable
    <2>3. file[m] \in MemoryFiles /\ word[m] \in MemoryFiles
        BY DEF MemoryInv, MemoryTypeInv
    <2>4. file[m].state = "good" /\ word[m].state = "good"
        BY <2>1, <2>2, <2>3 DEF Renamed, MemoryFiles, States
    <2> QED
        BY <2>1, <2>3, <2>4, SameFile DEF Carried
<1>2. ListMemories("accepted") = accepted
    <2>1. ASSUME NEW m \in ListMemories("accepted")
          PROVE  m \in accepted
        <3>1. m \in there
            BY DEF ListMemories, MemoryInv, Renamed
        <3> QED
            BY <1>1, <3>1 DEF ListMemories
    <2>2. ASSUME NEW m \in accepted
          PROVE  m \in ListMemories("accepted")
        BY <1>1 DEF ListMemories
    <2> QED
        BY <2>1, <2>2
<1>3. ApprovedSection =
          {m \in accepted : Cardinality({n \in accepted : age[n] > age[m]}) < Shown}
    BY <1>2 DEF ApprovedSection
<1>4. ASSUME NEW m \in accepted
      PROVE  Cardinality({n \in accepted : age[n] > age[m]}) \in Nat
    <2>1. IsFiniteSet({n \in accepted : age[n] > age[m]})
        BY FS_Subset
    <2> QED
        BY <2>1, FS_CardinalityType
<1>5. ASSUME NEW m \in accepted \ ApprovedSection
      PROVE  Shown <= Cardinality({n \in accepted : age[n] > age[m]})
    BY <1>3, <1>4
<1> QED
    BY <1>1, <1>3, <1>5

(* However many people and agents propose, accept, reject and save, and      *)
(* whichever of their commands run at once: when nothing has crossed a      *)
(* memory, each file is the last word about it, and a context pack shows    *)
(* the newest accepted ones (memory/store.py:171-184).                      *)
THEOREM ThePackIsTheLastWord ==
    ASSUME IsFiniteSet(Memories), Texts # {}, Shown \in Nat
    PROVE  MemorySpec => []LastWordStands
<1>1. MemoryInit => MemoryInv
    BY MemoryInitInv
<1>2. MemoryInv /\ [MemoryNext]_memoryVars => MemoryInv'
    BY MemoryNextInv
<1>3. MemoryInv => LastWordStands
    BY CalmIsKept
<1> QED
    BY <1>1, <1>2, <1>3, PTL DEF MemorySpec

------------------------------------------------------------------------------
(* Vectors. *)

Stored == Plain \cup Withheld \cup {NoSuchFile}

(* The files of one upload, each with a content that is embedded. *)
Uploads == UNION {[S -> Plain] : S \in SUBSET Paths}

Scans == [pc : {"idle", "list", "create", "upsert"}, project : Projects,
          todo : Uploads, size : Dimensions \cup {0}]

VectorTypeInv ==
    /\ tree \in [Projects -> [Paths -> Stored]]
    /\ index \in [Projects -> [Paths -> Stored]]
    /\ scanner \in [Scanners -> Scans]
    /\ dimension \in Dimensions

Resting == \A s \in Scanners : scanner[s].pc = "idle" => DOMAIN scanner[s].todo = {}

(* s has yet to upload path of p. *)
Uploading(s, p, path) == scanner[s].project = p /\ path \in DOMAIN scanner[s].todo

(* What is found under the path is what the index says of it. *)
Found(p, path) ==
    /\ index[p][path] \in Plain => /\ Id(p, path) \in DOMAIN points
                                   /\ points[Id(p, path)] = index[p][path]
    /\ index[p][path] = NoSuchFile => Id(p, path) \notin DOMAIN points

(* A path that is not astray is being uploaded as the index has it, by every *)
(* scanner that uploads it, or has been.                                    *)
Follows(p, path) ==
    <<p, path>> \notin astray =>
        /\ \A s \in Scanners :
               Uploading(s, p, path) => scanner[s].todo[path] = index[p][path]
        /\ Found(p, path) \/ \E s \in Scanners : Uploading(s, p, path)

VectorInv ==
    /\ VectorTypeInv
    /\ Resting
    /\ \A p \in Projects, path \in Paths : ~Shared(p) => Follows(p, path)

----------------------------------------------------------------------------
LEMMA PendingMeans ==
    ASSUME NEW p, NEW path
    PROVE  path \in Pending(p) <=> \E s \in Scanners : Uploading(s, p, path)
BY DEF Pending, Uploading

LEMMA UploadsMeans ==
    ASSUME NEW f
    PROVE  f \in Uploads <=> /\ f = [x \in DOMAIN f |-> f[x]]
                             /\ DOMAIN f \subseteq Paths
                             /\ \A x \in DOMAIN f : f[x] \in Plain
<1>1. ASSUME f \in Uploads
      PROVE  /\ f = [x \in DOMAIN f |-> f[x]]
             /\ DOMAIN f \subseteq Paths
             /\ \A x \in DOMAIN f : f[x] \in Plain
    <2>1. PICK S \in SUBSET Paths : f \in [S -> Plain]
        BY <1>1 DEF Uploads
    <2> QED
        BY <2>1
<1>2. ASSUME f = [x \in DOMAIN f |-> f[x]], DOMAIN f \subseteq Paths,
             \A x \in DOMAIN f : f[x] \in Plain
      PROVE  f \in Uploads
    <2>1. f \in [DOMAIN f -> Plain]
        BY <1>2
    <2> QED
        BY <1>2, <2>1 DEF Uploads
<1> QED
    BY <1>1, <1>2

LEMMA NothingToDo ==
    ASSUME Projects # {}
    PROVE  /\ NoScan \in Scans
           /\ NoScan.todo = <<>> /\ NoScan.pc = "idle"
           /\ DOMAIN NoScan.todo = {}
<1>1. <<>> \in Uploads /\ DOMAIN <<>> = {}
    <2>1. <<>> = [x \in {} |-> x] /\ DOMAIN <<>> = {}
        OBVIOUS
    <2> QED
        BY <2>1, UploadsMeans
<1> QED
    BY <1>1 DEF NoScan, Scans

LEMMA VectorInitInv ==
    ASSUME Projects # {}, NoSuchFile \notin Plain, VectorInit
    PROVE  VectorInv
<1>1. VectorTypeInv
    BY NothingToDo DEF VectorInit, VectorTypeInv, Stored, NoFile
<1>2. ASSUME NEW p \in Projects, NEW path \in Paths
      PROVE  Follows(p, path)
    <2>1. \A s \in Scanners : ~Uploading(s, p, path)
        BY NothingToDo DEF VectorInit, Uploading
    <2>2. index[p][path] = NoSuchFile /\ DOMAIN points = {}
        BY DEF VectorInit, NoFile
    <2> QED
        BY <2>1, <2>2 DEF Follows, Found
<1>3. Resting
    BY NothingToDo DEF VectorInit, Resting
<1> QED
    BY <1>1, <1>2, <1>3 DEF VectorInv

----------------------------------------------------------------------------
(* What a scan hands to the upload, and what the upload makes of it. *)
LEMMA HandedOver ==
    ASSUME VectorTypeInv, Projects # {}, NEW p \in Projects, NEW changed \in SUBSET Paths,
           NEW whole \in BOOLEAN, NEW todo, todo = Embeddable(p, changed, whole)
    PROVE  /\ DOMAIN todo \subseteq changed
           /\ \A x \in DOMAIN todo : todo[x] = tree[p][x]
           /\ Upload(p, todo) \in Scans
           /\ Upload(p, todo).todo = todo
           /\ DOMAIN todo # {} => Upload(p, todo).project = p
           /\ Upload(p, todo).pc = "idle" => DOMAIN todo = {}
<1>1. /\ DOMAIN todo \subseteq changed
      /\ \A x \in DOMAIN todo : todo[x] = tree[p][x] /\ todo[x] \in Plain
      /\ todo = [x \in DOMAIN todo |-> todo[x]]
    BY DEF Embeddable
<1>2. todo \in Uploads
    BY <1>1, UploadsMeans
<1>3. CASE todo = <<>>
    <2>1. Upload(p, todo) = NoScan
        BY <1>3 DEF Upload
    <2> QED
        BY <1>1, <1>3, <2>1, NothingToDo
<1>4. CASE todo # <<>>
    <2>1. Upload(p, todo) = [pc |-> "list", project |-> p, todo |-> todo, size |-> AdapterSize]
        BY <1>4 DEF Upload
    <2>2. AdapterSize \in Dimensions \cup {0}
        BY DEF AdapterSize, VectorTypeInv
    <2> QED
        BY <1>1, <1>2, <2>1, <2>2 DEF Scans
<1> QED
    BY <1>3, <1>4

LEMMA ScanInv ==
    ASSUME VectorInv, Projects # {}, NEW s \in Scanners, NEW p \in Projects,
           NEW whole \in BOOLEAN, Scan(s, p, whole)
    PROVE  VectorInv'
<1>1. PICK only \in (IF whole THEN {Paths} ELSE {{path} : path \in Paths}) :
        LET changed == {path \in only : tree[p][path] # index[p][path]}
            todo == Embeddable(p, changed, whole)
            upload == DOMAIN todo
        IN
        /\ scanner[s].pc = "idle"
        /\ changed # {}
        /\ index' = [index EXCEPT ![p] = [path \in Paths |->
                        IF path \in changed THEN tree[p][path] ELSE @[path]]]
        /\ scanner' = [scanner EXCEPT ![s] = Upload(p, todo)]
        /\ astray' = (astray \ {<<p, path>> : path \in upload \ Pending(p)})
                        \cup {<<p, path>> : path \in changed \ (upload \ Pending(p))}
        /\ UNCHANGED <<tree, size, points, dimension, changes, failures, settings>>
    BY DEF Scan
<1> DEFINE changed == {path \in only : tree[p][path] # index[p][path]}
           todo == Embeddable(p, changed, whole)
           new == Upload(p, todo)
<1>2. changed \in SUBSET Paths
    BY <1>1
<1>3. /\ DOMAIN todo \subseteq changed
      /\ \A x \in DOMAIN todo : todo[x] = tree[p][x]
      /\ new \in Scans
      /\ new.todo = todo
      /\ DOMAIN todo # {} => new.project = p
      /\ new.pc = "idle" => DOMAIN todo = {}
    BY <1>2, HandedOver DEF VectorInv
<1>4. /\ DOMAIN scanner[s].todo = {}
      /\ index' = [index EXCEPT ![p] = [path \in Paths |->
                        IF path \in changed THEN tree[p][path] ELSE @[path]]]
      /\ scanner' = [scanner EXCEPT ![s] = new]
      /\ astray' = (astray \ {<<p, path>> : path \in DOMAIN todo \ Pending(p)})
                        \cup {<<p, path>> : path \in changed \ (DOMAIN todo \ Pending(p))}
      /\ UNCHANGED <<tree, points, dimension>>
    BY <1>1 DEF VectorInv, Resting
<1> HIDE DEF changed, todo, new
<1>5. /\ scanner'[s] = new
      /\ \A t \in Scanners \ {s} : scanner'[t] = scanner[t]
      /\ \A q \in Projects \ {p} : index'[q] = index[q]
      /\ \A x \in Paths : index'[p][x] = IF x \in changed THEN tree[p][x] ELSE index[p][x]
    BY <1>4 DEF VectorInv, VectorTypeInv
<1>6. VectorTypeInv' /\ Resting'
    BY <1>3, <1>4, <1>5 DEF VectorInv, VectorTypeInv, Resting
<1>7. ASSUME NEW q \in Projects, NEW x \in Paths, ~Shared(q), <<q, x>> \notin astray'
      PROVE  Follows(q, x)'
    <2>1. CASE q = p /\ x \in changed
        <3>1. x \in DOMAIN todo /\ x \notin Pending(p)
            BY <1>4, <1>7, <2>1
        <3>2. \A t \in Scanners : ~Uploading(t, p, x)
            BY <3>1, PendingMeans
        <3>3. Uploading(s, p, x)' /\ scanner'[s].todo[x] = index'[p][x]
            BY <1>3, <1>5, <2>1, <3>1 DEF Uploading
        <3>4. \A t \in Scanners \ {s} : ~Uploading(t, p, x)'
            BY <1>5, <3>2 DEF Uploading
        <3> QED
            BY <2>1, <3>3, <3>4 DEF Follows
    <2>2. CASE ~(q = p /\ x \in changed)
        <3>1. <<q, x>> \notin astray /\ index'[q][x] = index[q][x]
            BY <1>3, <1>4, <1>5, <1>7, <2>2
        <3>2. ~Uploading(s, q, x) /\ ~Uploading(s, q, x)'
            BY <1>3, <1>4, <1>5, <2>2 DEF Uploading
        <3>3. \A t \in Scanners \ {s} : Uploading(t, q, x)' <=> Uploading(t, q, x)
            BY <1>5 DEF Uploading
        <3>4. Found(q, x)' <=> Found(q, x)
            BY <1>4, <3>1 DEF Found, Id
        <3>5. Follows(q, x)
            BY <1>7 DEF VectorInv
        <3> QED
            BY <1>5, <3>1, <3>2, <3>3, <3>4, <3>5 DEF Follows
    <2> QED
        BY <2>1, <2>2
<1>8. \A q \in Projects, x \in Paths : ~Shared(q) => Follows(q, x)'
    BY <1>7 DEF Follows
<1> QED
    BY <1>6, <1>8 DEF VectorInv, Shared

----------------------------------------------------------------------------
(* A step of one scanner's upload follows when every path of it follows. *)
LEMMA UploadStep ==
    ASSUME VectorInv, NEW s \in Scanners, NEW after \in Scans,
           scanner' = [scanner EXCEPT ![s] = after],
           after.pc = "idle" => DOMAIN after.todo = {},
           UNCHANGED <<tree, index, dimension>>,
           \A p \in Projects, path \in Paths :
               ~Shared(p) /\ Follows(p, path) => Follows(p, path)'
    PROVE  VectorInv'
<1>1. /\ scanner'[s] = after
      /\ \A t \in Scanners \ {s} : scanner'[t] = scanner[t]
    BY DEF VectorInv, VectorTypeInv
<1>2. VectorTypeInv' /\ Resting'
    BY <1>1 DEF VectorInv, VectorTypeInv, Resting
<1> QED
    BY <1>2 DEF VectorInv, Shared

(* What an upload that is given up had still to do is astray. *)
LEMMA LoseInv ==
    ASSUME VectorInv, Projects # {}, NEW s \in Scanners, Lose(s),
           UNCHANGED <<tree, index, points, dimension>>
    PROVE  VectorInv'
<1>1. /\ scanner' = [scanner EXCEPT ![s] = NoScan]
      /\ astray' = astray \cup {<<scanner[s].project, path>> : path \in DOMAIN scanner[s].todo}
    BY DEF Lose
<1>2. /\ scanner'[s] = NoScan
      /\ \A t \in Scanners \ {s} : scanner'[t] = scanner[t]
    BY <1>1 DEF VectorInv, VectorTypeInv
<1>3. ASSUME NEW p \in Projects, NEW path \in Paths, Follows(p, path), <<p, path>> \notin astray'
      PROVE  Follows(p, path)'
    <2>1. <<p, path>> \notin astray /\ ~Uploading(s, p, path)
        BY <1>1, <1>3 DEF Uploading
    <2>2. ~Uploading(s, p, path)'
        BY <1>2, NothingToDo DEF Uploading
    <2>3. \A t \in Scanners \ {s} : Uploading(t, p, path)' <=> Uploading(t, p, path)
        BY <1>2 DEF Uploading
    <2>4. Found(p, path)' <=> Found(p, path)
        BY DEF Found, Id
    <2> QED
        BY <1>2, <1>3, <2>1, <2>2, <2>3, <2>4 DEF Follows
<1>4. \A p \in Projects, path \in Paths : Follows(p, path) => Follows(p, path)'
    BY <1>3 DEF Follows
<1> QED
    BY <1>1, <1>4, NothingToDo, UploadStep

(* The upload moves on with the same files to do. *)
LEMMA GoOnInv ==
    ASSUME VectorInv, NEW s \in Scanners, NEW pc \in {"create", "upsert"}, scanner[s].pc # "idle",
           scanner' = [scanner EXCEPT ![s].pc = pc],
           UNCHANGED <<tree, index, points, dimension, astray>>
    PROVE  VectorInv'
<1> DEFINE after == [scanner[s] EXCEPT !.pc = pc]
<1>1. scanner[s] \in Scans
    BY DEF VectorInv, VectorTypeInv
<1>2. /\ after \in Scans /\ after.pc = pc
      /\ after.project = scanner[s].project /\ after.todo = scanner[s].todo
    BY <1>1 DEF Scans
<1>3. scanner' = [scanner EXCEPT ![s] = after]
    BY DEF VectorInv, VectorTypeInv
<1> HIDE DEF after
<1>4. \A t \in Scanners : /\ scanner'[t].project = scanner[t].project
                         /\ scanner'[t].todo = scanner[t].todo
    BY <1>2, <1>3 DEF VectorInv, VectorTypeInv
<1>5. \A p \in Projects, path \in Paths : Follows(p, path) => Follows(p, path)'
    BY <1>4 DEF Follows, Found, Id, Uploading
<1> QED
    BY <1>2, <1>3, <1>5, UploadStep

LEMMA CollectionsInv ==
    ASSUME VectorInv, Projects # {}, NEW s \in Scanners, ListCollections(s) \/ CreateCollections(s)
    PROVE  VectorInv'
<1>1. CASE ListCollections(s)
    BY <1>1, GoOnInv DEF ListCollections
<1>2. CASE CreateCollections(s) /\ scanner' = [scanner EXCEPT ![s].pc = "upsert"] /\ UNCHANGED astray
    BY <1>2, GoOnInv DEF CreateCollections
<1>3. CASE CreateCollections(s) /\ Lose(s)
    BY <1>3, LoseInv DEF CreateCollections
<1> QED
    BY <1>1, <1>2, <1>3 DEF CreateCollections

(* The points of one batch. *)
LEMMA BatchWritten ==
    ASSUME NEW p, NEW todo, NEW batch \in SUBSET DOMAIN todo,
           points' = Over(PointsOf(p, Restrict(todo, batch)), points)
    PROVE  /\ \A path \in batch : /\ Id(p, path) \in DOMAIN points'
                                   /\ points'[Id(p, path)] = todo[path]
           /\ \A q, path : Name[q] # Name[p] \/ path \notin batch =>
                 /\ Id(q, path) \in DOMAIN points' <=> Id(q, path) \in DOMAIN points
                 /\ Id(q, path) \in DOMAIN points => points'[Id(q, path)] = points[Id(q, path)]
<1> DEFINE new == PointsOf(p, Restrict(todo, batch))
<1>1. DOMAIN new = {<<Name[p], path>> : path \in batch}
    BY DEF PointsOf, Restrict, Id
<1>2. \A path \in batch : new[<<Name[p], path>>] = todo[path]
    BY DEF PointsOf, Restrict, Id
<1> HIDE DEF new
<1>3. points' = [id \in DOMAIN new \cup DOMAIN points |-> IF id \in DOMAIN new THEN new[id] ELSE points[id]]
    BY DEF Over, new
<1>4. /\ DOMAIN points' = DOMAIN new \cup DOMAIN points
      /\ \A id \in DOMAIN new : points'[id] = new[id]
      /\ \A id \in DOMAIN points \ DOMAIN new : points'[id] = points[id]
    BY <1>3
<1> QED
    BY <1>1, <1>2, <1>4 DEF Id

(* One batch is uploaded: what it found to do is found by the index's content. *)
LEMMA BatchInv ==
    ASSUME VectorInv, Projects # {}, NoSuchFile \notin Plain, NEW s \in Scanners, scanner[s].pc = "upsert",
           NEW batch \in SUBSET DOMAIN scanner[s].todo,
           points' = Over(PointsOf(scanner[s].project, Restrict(scanner[s].todo, batch)), points),
           scanner' = [scanner EXCEPT ![s] =
              IF batch = DOMAIN scanner[s].todo THEN NoScan
              ELSE [scanner[s] EXCEPT !.todo =
                       Restrict(scanner[s].todo, DOMAIN scanner[s].todo \ batch)]],
           UNCHANGED <<tree, index, dimension, astray>>
    PROVE  VectorInv'
<1> DEFINE p == scanner[s].project
           todo == scanner[s].todo
           rest == Restrict(todo, DOMAIN todo \ batch)
           after == IF batch = DOMAIN todo THEN NoScan ELSE [scanner[s] EXCEPT !.todo = rest]
<1>1. scanner[s] \in Scans /\ p \in Projects /\ todo \in Uploads
    BY DEF VectorInv, VectorTypeInv, Scans
<1>2. /\ DOMAIN todo \subseteq Paths /\ \A x \in DOMAIN todo : todo[x] \in Plain
      /\ DOMAIN rest = DOMAIN todo \ batch
      /\ \A x \in DOMAIN rest : rest[x] = todo[x]
      /\ rest \in Uploads
    <2>1. DOMAIN todo \subseteq Paths /\ \A x \in DOMAIN todo : todo[x] \in Plain
        BY <1>1, UploadsMeans
    <2>2. /\ DOMAIN rest = DOMAIN todo \ batch
          /\ \A x \in DOMAIN rest : rest[x] = todo[x]
          /\ rest = [x \in DOMAIN rest |-> rest[x]]
        BY DEF Restrict
    <2> QED
        BY <2>1, <2>2, UploadsMeans
<1>3. /\ after \in Scans
      /\ after.pc = "idle" => DOMAIN after.todo = {}
      /\ DOMAIN after.todo = DOMAIN todo \ batch
      /\ DOMAIN after.todo # {} => after.project = p
      /\ \A x \in DOMAIN after.todo : after.todo[x] = todo[x]
    <2>1. CASE batch = DOMAIN todo
        BY <2>1, NothingToDo
    <2>2. CASE batch # DOMAIN todo
        <3>1. after = [scanner[s] EXCEPT !.todo = rest]
            BY <2>2
        <3> HIDE DEF rest
        <3>2. after \in Scans /\ after.todo = rest /\ after.project = p /\ after.pc = "upsert"
            BY <1>1, <1>2, <3>1 DEF Scans
        <3> HIDE DEF after
        <3> QED
            BY <1>2, <3>2
    <2> QED
        BY <2>1, <2>2
<1>4. scanner' = [scanner EXCEPT ![s] = after]
    OBVIOUS
<1>5. points' = Over(PointsOf(p, Restrict(todo, batch)), points) /\ batch \subseteq DOMAIN todo
    OBVIOUS
<1>6. /\ \A path \in batch : Id(p, path) \in DOMAIN points' /\ points'[Id(p, path)] = todo[path]
      /\ \A q, path : Name[q] # Name[p] \/ path \notin batch =>
             /\ Id(q, path) \in DOMAIN points' <=> Id(q, path) \in DOMAIN points
             /\ Id(q, path) \in DOMAIN points => points'[Id(q, path)] = points[Id(q, path)]
    BY <1>5, BatchWritten
<1>7. \A q, path : Uploading(s, q, path) <=> p = q /\ path \in DOMAIN todo
    BY DEF Uploading
<1> HIDE DEF after, rest, p, todo
<1>8. /\ scanner'[s] = after
      /\ \A t \in Scanners \ {s} : scanner'[t] = scanner[t]
    BY <1>4 DEF VectorInv, VectorTypeInv
<1>9. ASSUME NEW q \in Projects, NEW path \in Paths, ~Shared(q), Follows(q, path),
             <<q, path>> \notin astray
      PROVE  Follows(q, path)'
    <2>1. \A t \in Scanners : Uploading(t, q, path)' =>
              Uploading(t, q, path) /\ scanner'[t].todo[path] = scanner[t].todo[path]
        BY <1>3, <1>7, <1>8 DEF Uploading, todo
    <2>2. CASE q = p /\ path \in batch
        <3>1. todo[path] = index[q][path] /\ todo[path] \in Plain
            BY <1>2, <1>5, <1>7, <1>9, <2>2 DEF Follows, todo
        <3>2. Found(q, path)'
            BY <1>6, <2>2, <3>1 DEF Found, Id
        <3> QED
            BY <1>9, <2>1, <3>2 DEF Follows
    <2>3. CASE ~(q = p /\ path \in batch)
        <3>1. Name[q] # Name[p] \/ path \notin batch
            BY <1>1, <1>9, <2>3 DEF Shared, p
        <3>2. Found(q, path) => Found(q, path)'
            BY <1>6, <3>1 DEF Found, Id
        <3>3. \A t \in Scanners : Uploading(t, q, path) => Uploading(t, q, path)'
            BY <1>3, <1>7, <1>8, <2>3 DEF Uploading
        <3> QED
            BY <1>9, <2>1, <3>2, <3>3 DEF Follows
    <2> QED
        BY <2>2, <2>3
<1>10. \A q \in Projects, path \in Paths : ~Shared(q) /\ Follows(q, path) => Follows(q, path)'
    BY <1>9 DEF Follows
<1> QED
    BY <1>3, <1>4, <1>10, UploadStep

LEMMA UpsertInv ==
    ASSUME VectorInv, Projects # {}, NoSuchFile \notin Plain, NEW s \in Scanners, Upsert(s)
    PROVE  VectorInv'
<1>1. CASE Lose(s) /\ UNCHANGED points
    BY <1>1, LoseInv DEF Upsert
<1>2. CASE ~(Lose(s) /\ UNCHANGED points)
    <2>1. PICK batch \in SUBSET DOMAIN scanner[s].todo :
              /\ points' = Over(PointsOf(scanner[s].project, Restrict(scanner[s].todo, batch)), points)
              /\ scanner' = [scanner EXCEPT ![s] =
                    IF batch = DOMAIN scanner[s].todo THEN NoScan
                    ELSE [scanner[s] EXCEPT !.todo =
                             Restrict(scanner[s].todo, DOMAIN scanner[s].todo \ batch)]]
        BY <1>2 DEF Upsert
    <2>2. scanner[s].pc = "upsert" /\ UNCHANGED <<tree, index, dimension, astray>>
        BY <1>2 DEF Upsert
    <2> QED
        BY <2>1, <2>2, BatchInv
<1> QED
    BY <1>1, <1>2

----------------------------------------------------------------------------
LEMMA VectorNextInv ==
    ASSUME VectorInv, Projects # {}, NoSuchFile \notin Plain, [VectorNext]_vectorVars
    PROVE  VectorInv'
<1>1. ASSUME NEW p \in Projects, NEW path \in Paths, NEW c \in Plain \cup Withheld \cup {NoSuchFile},
             ChangeFile(p, path, c)
      PROVE  VectorInv'
    <2>1. /\ tree' = [tree EXCEPT ![p][path] = c]
          /\ UNCHANGED <<index, scanner, points, dimension, astray>>
        BY <1>1 DEF ChangeFile
    <2>2. tree' \in [Projects -> [Paths -> Stored]]
        BY <2>1 DEF VectorInv, VectorTypeInv, Stored
    <2> QED
        BY <2>1, <2>2 DEF VectorInv, VectorTypeInv, Resting, Shared, Follows, Found, Id, Uploading
<1>2. ASSUME NEW d \in Dimensions, Configure(d)
      PROVE  VectorInv'
    BY <1>2 DEF Configure, VectorInv, VectorTypeInv, Resting, Shared, Follows, Found, Id, Uploading
<1>3. ASSUME NEW s \in Scanners, NEW p \in Projects, NEW whole \in BOOLEAN, Scan(s, p, whole)
      PROVE  VectorInv'
    BY <1>3, ScanInv
<1>4. ASSUME NEW s \in Scanners, ListCollections(s) \/ CreateCollections(s)
      PROVE  VectorInv'
    BY <1>4, CollectionsInv
<1>5. ASSUME NEW s \in Scanners, Upsert(s)
      PROVE  VectorInv'
    BY <1>5, UpsertInv
<1>6. ASSUME NEW s \in Scanners, Fail(s)
      PROVE  VectorInv'
    BY <1>6, LoseInv DEF Fail
<1>7. CASE UNCHANGED vectorVars
    BY <1>7 DEF vectorVars, VectorInv, VectorTypeInv, Resting, Shared, Follows, Found, Id, Uploading
<1> QED
    BY <1>1, <1>2, <1>3, <1>4, <1>5, <1>6, <1>7 DEF VectorNext

----------------------------------------------------------------------------
(* A project whose name is its own is answered with its files as the index   *)
(* has them, for any number of projects, files and scanners, wherever        *)
(* uploads fail (scanner.py:312, embeddings/service.py:173).                *)
THEOREM AnswersFollowTheIndex ==
    ASSUME Projects # {}, NoSuchFile \notin Plain
    PROVE  VectorSpec => []SearchFollowsIndex
<1>1. VectorInit => VectorInv
    BY VectorInitInv
<1>2. VectorInv /\ [VectorNext]_vectorVars => VectorInv'
    BY VectorNextInv
<1>3. VectorInv => SearchFollowsIndex
    <2> SUFFICES ASSUME VectorInv, NEW p \in Projects, ~Shared(p), size = dimension,
                        NEW path \in Paths \ Pending(p), <<p, path>> \notin astray
                 PROVE  /\ index[p][path] \in Plain => /\ path \in DOMAIN VectorSearch(p)
                                                        /\ VectorSearch(p)[path] = index[p][path]
                        /\ index[p][path] = NoSuchFile => path \notin DOMAIN VectorSearch(p)
        BY DEF SearchFollowsIndex
    <2>1. Found(p, path)
        BY PendingMeans DEF VectorInv, Follows
    <2>2. VectorSearch(p) = [x \in {y \in Paths : Id(p, y) \in DOMAIN points} |-> points[Id(p, x)]]
        BY DEF VectorSearch, SearchSummaries, AdapterSize
    <2> QED
        BY <2>1, <2>2 DEF Found
<1> QED
    BY <1>1, <1>2, <1>3, PTL DEF VectorSpec
==============================================================================
