---------------------------- MODULE CopilotProofs ----------------------------
(***************************************************************************)
(* What `ctx project check` and `ctx project ask` say, whatever the modules *)
(* and articles of the wiki are called and however many scans, updates,     *)
(* kills and removed directories there are.  First the wiki, for which the  *)
(* flow of the command is one of several writers, then the flow.  Last the  *)
(* pack the question is answered with, whatever the query, the graph and    *)
(* the scores, and whatever is scanned meanwhile: how scores are ranked and *)
(* cut off, how the search walks the graph, what the weights keep, and the  *)
(* invariant of the pipeline from these.                                    *)
(***************************************************************************)
EXTENDS Copilot, Retrieval, FiniteSetTheorems, TLAPS

Indexes == [there : BOOLEAN, lists : SUBSET Stem, arch : BOOLEAN]

\* Versions that a scan can have found of the modules.
Hashes == {h \in [Module -> Nat] : \A m \in Module : h[m] \in VersionsOf[m] \cup {0}}

Rows == {r \in [Module -> [status : {"none", "dirty", "current"}, hash : Nat]] :
           \A m \in Module : r[m].hash \in VersionsOf[m] \cup {0}}

Works == [pc : {"idle", "generate", "index"}, due : SUBSET Module, hash : Hashes,
          todo : SUBSET Module, flawless : BOOLEAN, built : Indexes]

PagesTypeInv ==
  /\ scanned \in BOOLEAN
  /\ source \in Sources \cup {[m \in Module |-> 0]}
  /\ row \in Rows
  /\ article \in [Stem -> {"none", "blank", "text"}]
  /\ arch \in BOOLEAN
  /\ index \in Indexes
  /\ updater \in [Updater -> Works]
  /\ \A u \in Updater : updater[u].todo \subseteq updater[u].due
  /\ calm \in BOOLEAN

\* The modules of the set have an article with text.
Written(modules) == \A m \in modules : article[ArticleOf[m]] = "text"

\* An updater gathers an INDEX.md to write; if it has been alone since it began, that
\* file lists what the directory holds.  As long as the Claude CLI has answered each
\* time, only what is still to do is dirty, and the rest of what was due is written.
InOrder(u) ==
  /\ updater[u].pc = "index" => updater[u].built.there
  /\ calm /\ Running(u) =>
       /\ Alone(u)
       /\ updater[u].pc = "generate" /\ updater[u].flawless =>
            /\ Dirty \subseteq updater[u].todo
            /\ Written(updater[u].due \ updater[u].todo)
       /\ updater[u].pc = "index" =>
            /\ updater[u].built.lists = Articles
            /\ updater[u].flawless => Dirty = {} /\ Written(updater[u].due)

WikiInv ==
  /\ PagesTypeInv
  /\ \A u \in Updater : InOrder(u)

\* What happens to the wiki in a step, whoever takes it.
WikiNext ==
  \/ \E new \in Sources : Scan(new)
  \/ \E u \in Updater : \/ \E due \in {Dirty, Tracked} : Start(u, due)
                        \/ UpdaterStep(u)
                        \/ Kill(u)
  \/ RemoveWiki
  \/ RemoveContext

-----------------------------------------------------------------------------
\* The initial values of the wiki's variables have their types.
LEMMA Blanks ==
  ASSUME WikiPagesAssumption
  PROVE  /\ NoIndex \in Indexes
         /\ [NoIndex EXCEPT !.there = TRUE] \in Indexes
         /\ [m \in Module |-> 0] \in Hashes
         /\ [m \in Module |-> NoRow] \in Rows
         /\ [s \in Stem |-> "none"] \in [Stem -> {"none", "blank", "text"}]
<1>1. NoIndex \in Indexes /\ [NoIndex EXCEPT !.there = TRUE] \in Indexes
  BY DEF NoIndex, Indexes
<1>2. [m \in Module |-> 0] \in Hashes
  BY DEF Hashes
<1>3. [m \in Module |-> NoRow] \in Rows
  <2>1. NoRow \in [status : {"none", "dirty", "current"}, hash : Nat] /\ NoRow.hash = 0
    BY DEF NoRow
  <2> QED
    BY <2>1 DEF Rows
<1> QED
  BY <1>1, <1>2, <1>3

LEMMA RestingType ==
  ASSUME WikiPagesAssumption
  PROVE  Resting \in Works /\ Resting.pc = "idle" /\ Resting.todo = {} /\ Resting.due = {}
BY Blanks DEF Resting, Works

LEMMA PagesInitInv ==
  ASSUME WikiPagesAssumption, PagesInit
  PROVE  WikiInv
<1>1. \A u \in Updater : updater[u] = Resting
  BY DEF PagesInit
<1>2. PagesTypeInv
  BY Blanks, RestingType DEF PagesInit, PagesTypeInv
<1>3. \A u \in Updater : InOrder(u)
  BY <1>1, RestingType DEF InOrder, Running
<1> QED
  BY <1>2, <1>3 DEF WikiInv

-----------------------------------------------------------------------------
\* A scan that comes while an updater runs ends its calm.
LEMMA ScanInv ==
  ASSUME WikiPagesAssumption, WikiInv, NEW new \in Sources, Scan(new)
  PROVE  WikiInv'
<1> USE DEF WikiInv, Scan
<1>1. new \in [Module -> Nat] /\ \A m \in Module : new[m] \in VersionsOf[m]
  BY DEF Sources, WikiPagesAssumption
<1>2. Marked(new) \in Rows
  <2>1. ASSUME NEW m \in Module
        PROVE  /\ Marked(new)[m] \in [status : {"none", "dirty", "current"}, hash : Nat]
               /\ Marked(new)[m].hash \in VersionsOf[m] \cup {0}
    <3>1. /\ [status |-> "dirty", hash |-> new[m]]
                \in [status : {"none", "dirty", "current"}, hash : Nat]
          /\ new[m] \in VersionsOf[m]
      BY <1>1
    <3>2. /\ row[m] \in [status : {"none", "dirty", "current"}, hash : Nat]
          /\ row[m].hash \in VersionsOf[m] \cup {0}
      BY DEF PagesTypeInv, Rows
    <3>3. \/ Marked(new)[m] = row[m]
          \/ Marked(new)[m] = [status |-> "dirty", hash |-> new[m]]
      BY DEF Marked
    <3> QED
      BY <3>1, <3>2, <3>3
  <2> QED
    BY <2>1 DEF Marked, Rows
<1>3. PagesTypeInv'
  BY <1>2 DEF PagesTypeInv, Undisturbed
<1>4. ASSUME NEW u \in Updater
      PROVE  InOrder(u)'
  <2>1. ~(calm' /\ Running(u)')
    BY DEF Undisturbed, Running
  <2> QED
    BY <2>1 DEF InOrder
<1> QED
  BY <1>3, <1>4

LEMMA StartInv ==
  ASSUME WikiPagesAssumption, WikiInv, NEW u \in Updater, NEW due \in {Dirty, Tracked},
         Start(u, due)
  PROVE  WikiInv'
<1> DEFINE begun == [Resting EXCEPT !.pc = "generate", !.due = due, !.todo = due,
                                    !.hash = [m \in Module |-> row[m].hash]]
<1> USE DEF WikiInv, Start
<1>1. due \subseteq Module /\ Dirty \subseteq due
  BY DEF Dirty, Tracked
<1>2. [m \in Module |-> row[m].hash] \in Hashes
  BY DEF PagesTypeInv, Rows, Hashes
<1>3. begun \in Works /\ begun.todo = due /\ begun.due = due /\ begun.pc = "generate"
  BY <1>1, <1>2, RestingType DEF Works
<1>4. updater'[u] \in {Resting, begun} /\ \A v \in Updater \ {u} : updater'[v] = updater[v]
  BY DEF PagesTypeInv
<1>5. PagesTypeInv'
  <2>1. updater' \in [Updater -> Works]
    BY <1>3, <1>4, RestingType DEF PagesTypeInv
  <2>2. ASSUME NEW v \in Updater
        PROVE  updater'[v].todo \subseteq updater'[v].due
    BY <1>3, <1>4, RestingType DEF PagesTypeInv
  <2>3. calm' \in BOOLEAN
    BY DEF Alone
  <2> QED
    BY <2>1, <2>2, <2>3 DEF PagesTypeInv
<1>6. ASSUME NEW v \in Updater
      PROVE  InOrder(v)'
  <2>1. CASE v = u
    <3>1. calm' => Alone(u)'
      BY <1>4 DEF Alone, Running
    <3>2. CASE updater'[u] = Resting
      BY <2>1, <3>2, RestingType DEF InOrder, Running
    <3>3. CASE updater'[u] = begun
      <4>1. /\ updater'[u].pc = "generate" /\ updater'[u].todo = due
            /\ updater'[u].due = due
        BY <1>3, <3>3
      <4>2. Dirty' = Dirty
        BY DEF Dirty
      <4>3. Written(updater[u].due \ updater[u].todo)'
        BY <4>1 DEF Written
      <4> HIDE DEF Start, WikiInv
      <4> QED
        BY <1>1, <2>1, <3>1, <4>1, <4>2, <4>3 DEF InOrder
    <3> QED
      BY <1>4, <3>2, <3>3
  <2>2. CASE v # u
    <3>1. updater'[v] = updater[v]
      BY <1>4, <2>2
    <3>2. calm' => ~Running(v)
      BY <2>2 DEF Alone
    <3> QED
      BY <3>1, <3>2 DEF InOrder, Running
  <2> QED
    BY <2>1, <2>2
<1> QED
  BY <1>5, <1>6

-----------------------------------------------------------------------------
\* The steps of an updater leave the others where they are; when they are not alone,
\* nothing is claimed.
LEMMA OthersInOrder ==
  ASSUME NEW u \in Updater, NEW v \in Updater \ {u}, InOrder(v), Running(u),
         updater'[v] = updater[v], calm' => calm
  PROVE  InOrder(v)'
<1>1. calm /\ Running(v) => FALSE
  BY DEF InOrder, Alone
<1> QED
  BY <1>1 DEF InOrder, Running

LEMMA AloneStays ==
  ASSUME NEW u \in Updater, Alone(u), \A v \in Updater \ {u} : updater'[v] = updater[v]
  PROVE  Alone(u)'
BY DEF Alone, Running

LEMMA GenerateInv ==
  ASSUME WikiPagesAssumption, WikiInv, NEW u \in Updater, Generate(u)
  PROVE  WikiInv'
<1> USE DEF WikiInv
<1>1. PICK m \in updater[u].todo, answer \in {"text", "blank", "fails"} :
        /\ updater' = [updater EXCEPT ![u].todo = @ \ {m},
                                      ![u].flawless = @ /\ answer = "text"]
        /\ IF answer = "fails"
             THEN UNCHANGED <<article, row>>
             ELSE /\ article' = [article EXCEPT ![ArticleOf[m]] = answer]
                  /\ row' = [row EXCEPT ![m] = [status |-> "current",
                                                hash |-> updater[u].hash[m]]]
  BY DEF Generate
<1>2. /\ updater[u].pc = "generate"
      /\ UNCHANGED <<scanned, source, arch, index, calm>>
  BY DEF Generate
<1>3. /\ updater[u] \in Works
      /\ m \in Module
      /\ updater[u].todo \subseteq updater[u].due
  BY DEF PagesTypeInv, Works
<1>4. /\ updater'[u].pc = "generate"
      /\ updater'[u].due = updater[u].due
      /\ updater'[u].hash = updater[u].hash
      /\ updater'[u].built = updater[u].built
      /\ updater'[u].todo = updater[u].todo \ {m}
      /\ updater'[u].flawless = (updater[u].flawless /\ answer = "text")
      /\ updater'[u] \in Works
  BY <1>1, <1>2, <1>3 DEF PagesTypeInv, Works
<1>5. \A v \in Updater \ {u} : updater'[v] = updater[v]
  BY <1>1 DEF PagesTypeInv
<1>6. PagesTypeInv'
  <2>1. updater' \in [Updater -> Works]
    BY <1>1, <1>4, <1>5 DEF PagesTypeInv
  <2>2. ASSUME NEW v \in Updater
        PROVE  updater'[v].todo \subseteq updater'[v].due
    BY <1>3, <1>4, <1>5 DEF PagesTypeInv
  <2>3. row' \in Rows
    <3>1. updater[u].hash[m] \in (VersionsOf[m] \cup {0}) \cap Nat
      BY <1>3 DEF Works, Hashes
    <3>2. [status |-> "current", hash |-> updater[u].hash[m]]
            \in [status : {"none", "dirty", "current"}, hash : Nat]
      BY <3>1
    <3> QED
      BY <1>1, <1>3, <3>1, <3>2 DEF PagesTypeInv, Rows
  <2>4. article' \in [Stem -> {"none", "blank", "text"}]
    BY <1>1 DEF PagesTypeInv
  <2> QED
    BY <1>2, <2>1, <2>2, <2>3, <2>4 DEF PagesTypeInv
<1>7. InOrder(u)'
  <2> SUFFICES ASSUME calm, updater[u].flawless, answer = "text"
               PROVE  /\ Dirty' \subseteq updater'[u].todo
                      /\ Written(updater[u].due \ updater[u].todo)'
      BY <1>2, <1>4, <1>5, AloneStays DEF InOrder, Running
  <2>1. Dirty \subseteq updater[u].todo /\ Written(updater[u].due \ updater[u].todo)
    BY <1>2 DEF InOrder, Running
  <2>2. Dirty' \subseteq Dirty \ {m}
    BY <1>1 DEF Dirty, PagesTypeInv, Rows
  <2>3. ASSUME NEW n \in updater'[u].due \ updater'[u].todo
        PROVE  article'[ArticleOf[n]] = "text"
    <3>1. n = m \/ n \in updater[u].due \ updater[u].todo
      BY <1>4
    <3>2. ArticleOf[n] \in Stem
      BY <1>3, <1>4 DEF Works, WikiPagesAssumption
    <3> QED
      BY <1>1, <2>1, <3>1, <3>2 DEF Written, PagesTypeInv
  <2> QED
    BY <1>4, <2>1, <2>2, <2>3 DEF Written
<1>8. ASSUME NEW v \in Updater \ {u}
      PROVE  InOrder(v)'
  BY <1>2, <1>5, OthersInOrder DEF Running
<1> QED
  BY <1>6, <1>7, <1>8

LEMMA GatherInv ==
  ASSUME WikiPagesAssumption, WikiInv, NEW u \in Updater, Gather(u)
  PROVE  WikiInv'
<1> USE DEF WikiInv
<1>1. /\ updater[u].pc = "generate" /\ updater[u].todo = {}
      /\ updater' = [updater EXCEPT ![u].pc = "index", ![u].built = Built(arch')]
      /\ UNCHANGED <<indexVars, article, index, calm>>
      /\ arch' \in BOOLEAN
  BY DEF Gather, PagesTypeInv
<1>2. /\ Built(arch') \in Indexes
      /\ Built(arch').there
      /\ Built(arch').lists = Articles
  BY <1>1 DEF Built, Indexes, Articles
<1>3. /\ updater'[u].pc = "index"
      /\ updater'[u].due = updater[u].due
      /\ updater'[u].todo = updater[u].todo
      /\ updater'[u].flawless = updater[u].flawless
      /\ updater'[u].built = Built(arch')
      /\ updater'[u] \in Works
  <2>1. updater[u] \in Works
    BY DEF PagesTypeInv
  <2> QED
    BY <1>1, <1>2, <2>1 DEF PagesTypeInv, Works
<1>4. \A v \in Updater \ {u} : updater'[v] = updater[v]
  BY <1>1 DEF PagesTypeInv
<1>5. PagesTypeInv'
  BY <1>1, <1>3, <1>4 DEF PagesTypeInv, indexVars
<1>6. InOrder(u)'
  <2>1. Dirty' = Dirty /\ Articles' = Articles
    BY <1>1 DEF Dirty, Articles, indexVars
  <2>2. calm => Alone(u)'
    BY <1>1, <1>4, AloneStays DEF InOrder, Running
  <2>3. calm /\ updater[u].flawless => Dirty = {} /\ Written(updater[u].due)
    BY <1>1 DEF InOrder, Running
  <2>4. Written(updater[u].due) => Written(updater[u].due)'
    BY <1>1, <1>3 DEF Written
  <2> QED
    BY <1>1, <1>2, <1>3, <2>1, <2>2, <2>3, <2>4 DEF InOrder
<1>7. ASSUME NEW v \in Updater \ {u}
      PROVE  InOrder(v)'
  BY <1>1, <1>4, OthersInOrder DEF Running
<1> QED
  BY <1>5, <1>6, <1>7

\* An updater that rests is in order, and after it the others are, who cannot be calm.
LEMMA RestInv ==
  ASSUME WikiPagesAssumption, WikiInv, NEW u \in Updater, Running(u),
         updater' = [updater EXCEPT ![u] = Resting], calm' = Alone(u)
  PROVE  \A v \in Updater : InOrder(v)'
<1>1. updater'[u] = Resting /\ \A v \in Updater \ {u} : updater'[v] = updater[v]
  BY DEF WikiInv, PagesTypeInv
<1>2. InOrder(u)'
  BY <1>1, RestingType DEF InOrder, Running
<1>3. ASSUME NEW v \in Updater \ {u}
      PROVE  InOrder(v)'
  <2>1. ~(calm' /\ Running(v))
    BY DEF Alone
  <2>2. updater'[v].pc = "index" => updater'[v].built.there
    BY <1>1 DEF WikiInv, InOrder
  <2> QED
    BY <1>1, <2>1, <2>2 DEF InOrder, Running
<1> QED
  BY <1>2, <1>3

LEMMA WriteIndexInv ==
  ASSUME WikiPagesAssumption, WikiInv, NEW u \in Updater, WriteIndex(u)
  PROVE  WikiInv'
<1>1. PagesTypeInv'
  BY RestingType DEF WikiInv, PagesTypeInv, WriteIndex, Works, Alone, indexVars
<1>2. \A v \in Updater : InOrder(v)'
  BY RestInv DEF WriteIndex, Running
<1> QED
  BY <1>1, <1>2 DEF WikiInv

LEMMA KillInv ==
  ASSUME WikiPagesAssumption, WikiInv, NEW u \in Updater, Kill(u)
  PROVE  WikiInv'
<1>1. index' \in Indexes
  <2>1. index' = index \/ index' = [NoIndex EXCEPT !.there = TRUE]
    BY DEF Kill
  <2> QED
    BY <2>1, Blanks DEF WikiInv, PagesTypeInv
<1>2. article' \in [Stem -> {"none", "blank", "text"}]
  BY DEF WikiInv, PagesTypeInv, Kill
<1>3. PagesTypeInv'
  BY <1>1, <1>2, RestingType DEF WikiInv, PagesTypeInv, Kill, Works, Alone, indexVars
<1>4. \A v \in Updater : InOrder(v)'
  <2>1. Running(u) /\ updater' = [updater EXCEPT ![u] = Resting] /\ calm' = Alone(u)
    BY DEF Kill
  <2> QED
    BY <2>1, RestInv
<1> QED
  BY <1>3, <1>4 DEF WikiInv

LEMMA RemoveInv ==
  ASSUME WikiPagesAssumption, WikiInv, RemoveWiki \/ RemoveContext
  PROVE  WikiInv'
<1>1. PagesTypeInv'
  BY Blanks DEF WikiInv, PagesTypeInv, RemoveWiki, RemoveContext, Undisturbed, indexVars
<1>2. ASSUME NEW u \in Updater
      PROVE  InOrder(u)'
  <2>1. updater' = updater /\ ~(calm' /\ Running(u))
    BY DEF RemoveWiki, RemoveContext, Undisturbed
  <2> QED
    BY <2>1 DEF WikiInv, InOrder, Running
<1> QED
  BY <1>1, <1>2 DEF WikiInv

LEMMA WikiNextInv ==
  ASSUME WikiPagesAssumption, WikiInv, WikiNext \/ UNCHANGED wikiVars
  PROVE  WikiInv'
<1>1. ASSUME NEW new \in Sources, Scan(new)
      PROVE  WikiInv'
  BY <1>1, ScanInv
<1>2. ASSUME NEW u \in Updater, NEW due \in {Dirty, Tracked}, Start(u, due)
      PROVE  WikiInv'
  BY <1>2, StartInv
<1>3. ASSUME NEW u \in Updater, UpdaterStep(u)
      PROVE  WikiInv'
  BY <1>3, GenerateInv, GatherInv, WriteIndexInv DEF UpdaterStep
<1>4. ASSUME NEW u \in Updater, Kill(u)
      PROVE  WikiInv'
  BY <1>4, KillInv
<1>5. CASE RemoveWiki \/ RemoveContext
  BY <1>5, RemoveInv
<1>6. CASE UNCHANGED wikiVars
  BY <1>6 DEF wikiVars, WikiInv, PagesTypeInv, InOrder, Running, Alone, Dirty, Articles, Written
<1> QED
  BY <1>1, <1>2, <1>3, <1>4, <1>5, <1>6 DEF WikiNext

-----------------------------------------------------------------------------
\* What the writer of INDEX.md leaves behind when it was alone from its start to its end.
LEMMA CalmEnd ==
  ASSUME WikiPagesAssumption, WikiInv, NEW u \in Updater, calm, WriteIndex(u)
  PROVE  /\ Unlisted' = {} /\ Dangling' = {}
         /\ updater[u].flawless =>
              /\ Dirty' = {}
              /\ \A m \in updater[u].due :
                   /\ ArticleOf[m] \notin Empty'
                   /\ m \in Missing' => LintNameOf[m] # ArticleOf[m]
<1>1. /\ updater[u].pc = "index"
      /\ index' = updater[u].built
      /\ article' = article /\ row' = row
  BY DEF WriteIndex, indexVars
<1>2. /\ updater[u].built.there
      /\ updater[u].built.lists = Articles
      /\ updater[u].flawless => Dirty = {} /\ Written(updater[u].due)
  BY <1>1 DEF WikiInv, InOrder, Running
<1>3. Articles' = Articles /\ Dirty' = Dirty
  BY <1>1 DEF Articles, Dirty
<1>4. Unlisted' = {} /\ Dangling' = {}
  BY <1>1, <1>2, <1>3 DEF Unlisted, Dangling
<1>5. ASSUME updater[u].flawless, NEW m \in updater[u].due
      PROVE  /\ ArticleOf[m] \notin Empty'
             /\ m \in Missing' => LintNameOf[m] # ArticleOf[m]
  <2>1. article'[ArticleOf[m]] = "text"
    BY <1>1, <1>2, <1>5 DEF Written
  <2>2. ArticleOf[m] \in Stem
    BY DEF WikiInv, PagesTypeInv, Works, WikiPagesAssumption
  <2>3. ArticleOf[m] \in Articles'
    BY <2>1, <2>2 DEF Articles
  <2> QED
    BY <2>1, <2>3 DEF Empty, Missing
<1> QED
  BY <1>2, <1>3, <1>4, <1>5

-----------------------------------------------------------------------------
\* The flow of the command.

Asking == {"ask", "ask --refresh"}

Flows ==
  [pc : {"idle", "index", "modes", "report", "scan", "wiki", "update", "pack", "answer"},
   command : Checking \cup Refreshing \cup Writing \cup {"none"},
   scanned : BOOLEAN, stale : BOOLEAN, modes : SUBSET Mode,
   advised : Mode \cup {"none"}, work : {"none", "done", "failed"},
   coverage : {"none", "unavailable", "ambiguous", "medium or high"},
   had : BOOLEAN, may : BOOLEAN, lost : BOOLEAN]

\* Where each command can be, and that only it updates the wiki in its own process.
InPlace ==
  /\ flow \in Flows
  /\ lastScan \in {"never", "fresh", "old"}
  /\ flow.pc = "idle" => flow = Quiet
  /\ flow.pc \in {"index", "modes"} => flow.command \in Checking
  /\ flow.pc = "report" => flow.command \in {"check", "watch"}
  /\ flow.command = "watch" => flow.advised = "none"
  /\ flow.pc \in {"pack", "answer"} => flow.command \in Asking
  /\ flow.pc = "scan" => flow.command \in Refreshing \cup {"ask --refresh"}
  /\ flow.pc \in {"wiki", "update"} => flow.command \notin Asking
  /\ Running("sync") => flow.pc = "update"

\* An ask that had an index, or has made one, has it still, unless it was removed; and
\* it has seen it.
Seen ==
  flow.command \in Asking =>
    /\ flow.advised = "none"
    /\ flow.command = "ask --refresh" => flow.may
    /\ ~flow.lost =>
         /\ flow.had \/ (flow.may /\ flow.command = "ask") =>
              scanned /\ (flow.pc = "modes" => flow.scanned)
         /\ flow.pc \in {"modes", "pack"} /\ flow.scanned => scanned
    /\ flow.pc = "pack" => flow.scanned /\ "not_scanned" \notin flow.modes

\* What the command of a hint has achieved by the time the user checks again.
Heeded ==
  /\ flow.advised = "not_scanned" =>
       /\ flow.pc \in {"wiki", "update", "index", "modes"} => scanned
       /\ flow.pc = "modes" => flow.scanned
  /\ flow.advised = "wiki_missing" /\ flow.work # "none" =>
       /\ flow.pc = "update" => Running("sync") \/ index.there
       /\ flow.pc \in {"index", "modes"} => index.there
  /\ flow.advised = "wiki_stale" /\ flow.work # "failed" =>
       /\ flow.pc = "update" => IF updater["sync"].pc = "generate"
                                  THEN Dirty \subseteq updater["sync"].todo
                                  ELSE Dirty = {}
       /\ flow.pc \in {"index", "modes"} => Dirty = {}

FlowInv == InPlace /\ Seen /\ Heeded /\ HintsClear /\ AskIsHonest

Inv == WikiInv /\ FlowInv

-----------------------------------------------------------------------------
\* A command that has ended has nothing left to claim.
LEMMA QuietFlow ==
  ASSUME flow' = Quiet, ~Running("sync")', lastScan' \in {"never", "fresh", "old"}
  PROVE  FlowInv'
BY DEF FlowInv, InPlace, Seen, Heeded, HintsClear, AskIsHonest, Quiet, Flows, Asking

LEMMA BeginFlow ==
  ASSUME Inv, NEW c \in Checking \cup Refreshing \cup Writing, Begin(c)
  PROVE  FlowInv'
<1>1. /\ flow.pc = "idle"
      /\ UNCHANGED <<wikiVars, lastScan>>
      /\ flow' = [Quiet EXCEPT !.command = c,
                               !.pc = IF c \in Checking THEN "index"
                                      ELSE IF c \in Refreshing THEN "scan" ELSE "wiki",
                               !.may = c = "ask --refresh",
                               !.had = c \in {"ask", "ask --refresh"} /\ scanned]
  BY DEF Begin
<1>2. /\ flow'.command = c
      /\ \/ c \in Checking /\ flow'.pc = "index"
         \/ c \in Refreshing /\ flow'.pc = "scan"
         \/ c \in Writing /\ flow'.pc = "wiki"
      /\ flow'.may = (c = "ask --refresh")
      /\ flow'.had = (c \in {"ask", "ask --refresh"} /\ scanned)
      /\ flow'.advised = "none"
      /\ flow' \in Flows
  BY <1>1 DEF Quiet, Flows
<1>3. InPlace'
  BY <1>1, <1>2 DEF Inv, FlowInv, InPlace, Running, wikiVars, Checking, Refreshing, Writing, Asking
<1>4. Seen'
  BY <1>1, <1>2 DEF Seen, wikiVars, Checking, Asking
<1>5. Heeded' /\ HintsClear' /\ AskIsHonest'
  BY <1>2 DEF Heeded, HintsClear, AskIsHonest
<1> QED
  BY <1>3, <1>4, <1>5 DEF FlowInv

LEMMA CheckIndexFlow ==
  ASSUME Inv, CheckIndex
  PROVE  FlowInv'
<1>1. /\ flow.pc = "index"
      /\ UNCHANGED <<wikiVars, lastScan>>
      /\ flow' = [flow EXCEPT !.pc = "modes", !.scanned = scanned,
                              !.stale = lastScan = "old"]
      /\ scanned \in BOOLEAN /\ flow \in Flows
  BY DEF CheckIndex, Inv, WikiInv, PagesTypeInv, FlowInv, InPlace
<1>2. /\ flow'.pc = "modes" /\ flow'.scanned = scanned
      /\ flow'.command = flow.command /\ flow'.modes = flow.modes
      /\ flow'.advised = flow.advised /\ flow'.work = flow.work
      /\ flow'.had = flow.had /\ flow'.may = flow.may /\ flow'.lost = flow.lost
      /\ flow' \in Flows
  BY <1>1 DEF Flows
<1>3. /\ scanned' = scanned /\ index' = index /\ updater' = updater
      /\ Dirty' = Dirty /\ Running("sync")' = Running("sync")
  BY <1>1 DEF wikiVars, Dirty, Running
<1>4. InPlace'
  BY <1>1, <1>2, <1>3 DEF Inv, FlowInv, InPlace
<1>5. Seen'
  BY <1>1, <1>2, <1>3 DEF Inv, FlowInv, Seen
<1>6. Heeded' /\ HintsClear' /\ AskIsHonest'
  BY <1>1, <1>2, <1>3 DEF Inv, FlowInv, Heeded, HintsClear, AskIsHonest
<1> QED
  BY <1>4, <1>5, <1>6 DEF FlowInv

\* Where the hints are given: of what the command of the last one has achieved, nothing
\* is degraded.
LEMMA CheckModesFlow ==
  ASSUME Inv, CheckModes
  PROVE  FlowInv'
<1>1. /\ flow.pc = "modes"
      /\ UNCHANGED <<wikiVars, lastScan>>
      /\ flow' = [flow EXCEPT
           !.modes = Degraded,
           !.pc = IF flow.command \in {"check", "watch"} THEN "report"
                  ELSE IF flow.scanned THEN "pack"
                  ELSE IF flow.command = "ask --refresh" THEN "scan" ELSE "answer",
           !.coverage = IF flow.command = "ask" /\ ~flow.scanned THEN "unavailable" ELSE "none"]
      /\ flow \in Flows /\ flow.command \in Checking
  BY DEF CheckModes, Inv, FlowInv, InPlace
<1>2. Degraded \subseteq Mode
  BY DEF Degraded, Mode
<1>3. /\ flow'.modes = Degraded
      /\ \/ flow.command \in {"check", "watch"} /\ flow'.pc = "report"
         \/ flow.command \in Asking /\ flow.scanned /\ flow'.pc = "pack"
         \/ flow.command = "ask --refresh" /\ ~flow.scanned /\ flow'.pc = "scan"
         \/ flow.command = "ask" /\ ~flow.scanned /\ flow'.pc = "answer"
      /\ flow'.coverage = IF flow.command = "ask" /\ ~flow.scanned THEN "unavailable"
                          ELSE "none"
      /\ flow'.scanned = flow.scanned /\ flow'.command = flow.command
      /\ flow'.advised = flow.advised /\ flow'.work = flow.work
      /\ flow'.had = flow.had /\ flow'.may = flow.may /\ flow'.lost = flow.lost
      /\ flow' \in Flows
  BY <1>1, <1>2 DEF Flows, Checking, Asking
<1>4. /\ scanned' = scanned /\ index' = index /\ updater' = updater
      /\ Dirty' = Dirty /\ Running("sync")' = Running("sync")
  BY <1>1 DEF wikiVars, Dirty, Running
<1>5. /\ "not_scanned" \in Degraded <=> ~flow.scanned
      /\ "wiki_missing" \in Degraded <=> ~index.there
      /\ "wiki_stale" \in Degraded => Dirty # {}
  BY DEF Degraded
<1>6. InPlace'
  BY <1>1, <1>3, <1>4 DEF Inv, FlowInv, InPlace, Checking, Asking
<1>7. Seen'
  BY <1>1, <1>3, <1>4, <1>5 DEF Inv, FlowInv, Seen, Asking, Checking
<1>8. Heeded'
  BY <1>1, <1>3, <1>4 DEF Inv, FlowInv, Heeded
<1>9. HintsClear'
  BY <1>1, <1>3, <1>4, <1>5 DEF Inv, FlowInv, Heeded, HintsClear
<1>10. AskIsHonest'
  <2>1. flow'.pc = "answer" => flow.command = "ask" /\ ~flow.scanned
    BY <1>1, <1>3 DEF Checking
  <2> QED
    BY <1>1, <1>3, <1>5, <2>1 DEF Inv, FlowInv, Seen, AskIsHonest, Asking
<1> QED
  BY <1>6, <1>7, <1>8, <1>9, <1>10 DEF FlowInv

\* Between the check and the pack the index can only have gone by its removal.
LEMMA PackFlow ==
  ASSUME Inv, Pack
  PROVE  FlowInv'
<1>1. /\ flow.pc = "pack"
      /\ UNCHANGED <<wikiVars, lastScan>>
      /\ flow \in Flows /\ flow.command \in Asking
  BY DEF Pack, Inv, FlowInv, InPlace
<1>2. PICK coverage \in IF scanned THEN {"ambiguous", "medium or high"} ELSE {"unavailable"} :
        flow' = [flow EXCEPT
          !.pc = "answer", !.coverage = coverage,
          !.modes = @ \cup CASE coverage = "ambiguous" -> {"ambiguous"}
                             [] coverage = "unavailable" -> {"not_scanned"}
                             [] OTHER -> {}]
  BY DEF Pack
<1> DEFINE added == CASE coverage = "ambiguous" -> {"ambiguous"}
                      [] coverage = "unavailable" -> {"not_scanned"}
                      [] OTHER -> {}
<1>3. /\ added \subseteq Mode
      /\ "not_scanned" \in added <=> coverage = "unavailable"
  <2>1. CASE coverage = "ambiguous"
    BY <2>1, Zenon DEF Mode
  <2>2. CASE coverage = "unavailable"
    BY <2>2, Zenon DEF Mode
  <2>3. CASE coverage \notin {"ambiguous", "unavailable"}
    BY <2>3, Zenon
  <2> QED
    BY <2>1, <2>2, <2>3
<1> HIDE DEF added
<1>4. /\ flow'.pc = "answer" /\ flow'.coverage = coverage
      /\ flow'.modes = flow.modes \cup added
      /\ flow'.command = flow.command /\ flow'.advised = flow.advised
      /\ flow'.had = flow.had /\ flow'.may = flow.may /\ flow'.lost = flow.lost
      /\ flow' \in Flows
  <2>1. flow' = [flow EXCEPT !.pc = "answer", !.coverage = coverage, !.modes = @ \cup added]
    BY <1>2, Zenon DEF added
  <2> QED
    BY <1>1, <1>3, <2>1 DEF Flows
<1>5. scanned' = scanned /\ Running("sync")' = Running("sync")
  BY <1>1 DEF wikiVars, Running
<1>6. InPlace'
  BY <1>1, <1>4, <1>5 DEF Inv, FlowInv, InPlace, Asking
<1>7. Seen' /\ Heeded' /\ HintsClear'
  BY <1>1, <1>4, <1>5 DEF Inv, FlowInv, Seen, Heeded, HintsClear
<1>8. AskIsHonest'
  BY <1>1, <1>2, <1>3, <1>4 DEF Inv, FlowInv, Seen, AskIsHonest
<1> QED
  BY <1>6, <1>7, <1>8 DEF FlowInv

LEMMA RefreshScanFlow ==
  ASSUME Inv, RefreshScan
  PROVE  FlowInv'
<1> DEFINE next ==
      CASE flow.command = "ask --refresh" -> [flow EXCEPT !.pc = "index", !.command = "ask"]
        [] flow.command = "refresh --no-wiki" -> Quiet
        [] OTHER -> [flow EXCEPT !.pc = "wiki"]
<1>1. /\ flow.pc = "scan" /\ flow \in Flows
      /\ flow' = next
      /\ lastScan' \in {"never", "fresh", "old"}
      /\ ~Running("sync")
      /\ Seen
      /\ flow.command = "watch" => flow.advised = "none"
  BY DEF RefreshScan, Inv, FlowInv, InPlace
<1>2. scanned' /\ updater' = updater /\ ~Running("sync")'
  BY <1>1 DEF RefreshScan, Scan, Running
<1>3. CASE flow.command = "ask --refresh"
  <2>1. flow' = [flow EXCEPT !.pc = "index", !.command = "ask"]
    BY <1>1, <1>3, Zenon
  <2>2. /\ flow'.pc = "index" /\ flow'.command = "ask"
        /\ flow'.advised = flow.advised
        /\ flow' \in Flows
    BY <1>1, <2>1 DEF Flows, Checking
  <2>3. flow.advised = "none"
    BY <1>1, <1>3 DEF Seen, Asking
  <2> QED
    BY <1>1, <1>2, <2>2, <2>3
    DEF FlowInv, InPlace, Seen, Heeded, HintsClear, AskIsHonest, Checking
<1>4. CASE flow.command = "refresh --no-wiki"
  <2>1. flow' = Quiet
    BY <1>1, <1>4, Zenon
  <2> QED
    BY <1>1, <1>2, <2>1, QuietFlow
<1>5. CASE flow.command \notin {"ask --refresh", "refresh --no-wiki"}
  <2>1. flow' = [flow EXCEPT !.pc = "wiki"]
    BY <1>1, <1>5, Zenon
  <2>2. /\ flow'.pc = "wiki" /\ flow'.command = flow.command
        /\ flow'.advised = flow.advised /\ flow'.work = flow.work
        /\ flow' \in Flows
    BY <1>1, <2>1 DEF Flows
  <2>3. flow.command \notin Asking
    BY <1>1, <1>5 DEF Inv, FlowInv, InPlace, Asking, Refreshing
  <2> QED
    BY <1>1, <1>2, <2>2, <2>3
    DEF FlowInv, InPlace, Seen, Heeded, HintsClear, AskIsHonest
<1> QED
  BY <1>3, <1>4, <1>5

LEMMA RefreshInBackgroundFlow ==
  ASSUME Inv, RefreshInBackground
  PROVE  FlowInv'
<1>1. ~Running("sync") /\ lastScan \in {"never", "fresh", "old"}
  BY DEF Inv, FlowInv, InPlace, RefreshInBackground
<1>2. updater'["sync"] = updater["sync"]
  <2>1. \A due : Start("bg", due) => updater'["sync"] = updater["sync"]
    BY DEF Start, Inv, WikiInv, PagesTypeInv, Updater
  <2> QED
    BY <2>1 DEF RefreshInBackground, wikiVars
<1> QED
  BY <1>1, <1>2, QuietFlow DEF RefreshInBackground, Running

\* The update takes down what is dirty or more; when that is nothing, nothing was dirty.
LEMMA RefreshHereFlow ==
  ASSUME Inv, RefreshHere
  PROVE  FlowInv'
<1>1. /\ flow.pc = "wiki" /\ lastScan' = lastScan
      /\ flow \in Flows /\ lastScan \in {"never", "fresh", "old"}
      /\ flow.command \notin Asking
      /\ flow.command = "watch" => flow.advised = "none"
      /\ ~Running("sync")
      /\ "sync" \in Updater
  BY DEF RefreshHere, Inv, FlowInv, InPlace, Updater
<1>2. CASE ~scanned /\ flow' = Quiet /\ UNCHANGED wikiVars
  <2>1. ~Running("sync")'
    BY <1>1, <1>2 DEF Running, wikiVars
  <2> QED
    BY <1>1, <1>2, <2>1, QuietFlow
<1>3. ASSUME NEW due \in {Dirty, Tracked}, Start("sync", due),
             flow' = [flow EXCEPT !.pc = "update", !.work = IF Dirty = {} THEN "none" ELSE "done"]
      PROVE  FlowInv'
  <2>1. /\ flow'.pc = "update" /\ flow'.command = flow.command
        /\ flow'.work = IF Dirty = {} THEN "none" ELSE "done"
        /\ flow'.advised = flow.advised
        /\ flow' \in Flows
    BY <1>1, <1>3 DEF Flows
  <2>2. Dirty \subseteq due
    BY DEF Dirty, Tracked
  <2>3. scanned /\ scanned' = scanned /\ Dirty' = Dirty
    BY <1>3 DEF Start, Dirty
  <2>4. /\ due = {} => updater'["sync"].pc = "idle"
        /\ due # {} => updater'["sync"].pc = "generate" /\ updater'["sync"].todo = due
    BY <1>1, <1>3, RestingType, CopilotAssumption
    DEF Start, Inv, WikiInv, PagesTypeInv, Resting, CopilotAssumption
  <2>5. Heeded'
    BY <2>1, <2>2, <2>3, <2>4 DEF Heeded, Running
  <2> QED
    BY <1>1, <2>1, <2>5 DEF FlowInv, InPlace, Seen, HintsClear, AskIsHonest
<1> QED
  BY <1>2, <1>3 DEF RefreshHere

\* Module by module what was dirty becomes current, as long as nothing fails; at the end
\* there is an INDEX.md.
LEMMA RefreshModuleFlow ==
  ASSUME Inv, RefreshModule
  PROVE  FlowInv'
<1> DEFINE u == "sync"
<1>1. /\ UpdaterStep(u) /\ u \in Updater
      /\ flow' = IF updater'[u].flawless THEN flow ELSE [flow EXCEPT !.work = "failed"]
      /\ flow \in Flows /\ lastScan' = lastScan /\ lastScan \in {"never", "fresh", "old"}
  BY DEF RefreshModule, Updater, Inv, FlowInv, InPlace
<1>2. Running(u)
  BY <1>1 DEF UpdaterStep, Generate, Gather, WriteIndex, Running
<1>3. /\ flow.pc = "update" /\ flow.command \notin Asking
      /\ flow.command = "watch" => flow.advised = "none"
  BY <1>2 DEF Inv, FlowInv, InPlace
<1>4. /\ flow'.pc = "update" /\ flow'.command = flow.command
      /\ flow'.advised = flow.advised
      /\ flow'.work \in {flow.work, "failed"}
      /\ ~updater'[u].flawless => flow'.work = "failed"
      /\ flow' \in Flows
  BY <1>1, <1>3 DEF Flows
<1>5. scanned' = scanned
  BY <1>1 DEF UpdaterStep, Generate, Gather, WriteIndex, indexVars
<1>6. flow.advised = "wiki_missing" => Running(u)' \/ index'.there
  <2>1. CASE Generate(u)
    BY <1>1, <2>1 DEF Generate, Running, Inv, WikiInv, PagesTypeInv, Works
  <2>2. CASE Gather(u)
    BY <1>1, <2>2 DEF Gather, Running, Inv, WikiInv, PagesTypeInv, Works
  <2>3. CASE WriteIndex(u)
    BY <1>1, <2>3 DEF WriteIndex, Inv, WikiInv, InOrder
  <2> QED
    BY <1>1, <2>1, <2>2, <2>3 DEF UpdaterStep
<1>7. flow.advised = "wiki_stale" /\ flow'.work # "failed" =>
         IF updater'[u].pc = "generate" THEN Dirty' \subseteq updater'[u].todo ELSE Dirty' = {}
  <2> SUFFICES ASSUME flow.advised = "wiki_stale", flow'.work # "failed"
               PROVE  IF updater'[u].pc = "generate" THEN Dirty' \subseteq updater'[u].todo
                      ELSE Dirty' = {}
    OBVIOUS
  <2>1. IF updater[u].pc = "generate" THEN Dirty \subseteq updater[u].todo ELSE Dirty = {}
    BY <1>3, <1>4 DEF Inv, FlowInv, Heeded
  <2>2. updater'[u].flawless
    BY <1>4
  <2>3. CASE Generate(u)
    <3>1. PICK m \in updater[u].todo, answer \in {"text", "blank", "fails"} :
            /\ updater' = [updater EXCEPT ![u].todo = @ \ {m},
                                          ![u].flawless = @ /\ answer = "text"]
            /\ answer = "text" =>
                 row' = [row EXCEPT ![m] = [status |-> "current",
                                            hash |-> updater[u].hash[m]]]
      BY <2>3 DEF Generate
    <3>2. /\ updater[u].pc = "generate" /\ updater[u] \in Works
          /\ updater \in [Updater -> Works] /\ row \in Rows
      BY <1>1, <2>3 DEF Generate, Inv, WikiInv, PagesTypeInv
    <3>3. /\ updater'[u].pc = "generate"
          /\ updater'[u].todo = updater[u].todo \ {m}
          /\ updater'[u].flawless = (updater[u].flawless /\ answer = "text")
      BY <1>1, <3>1, <3>2 DEF Works
    <3>4. answer = "text"
      BY <2>2, <3>3
    <3>5. Dirty' \subseteq Dirty \ {m}
      BY <3>1, <3>2, <3>4 DEF Dirty, Rows
    <3> QED
      BY <2>1, <3>2, <3>3, <3>5
  <2>4. CASE Gather(u)
    <3>1. updater'[u].pc = "index"
      BY <1>1, <2>4 DEF Gather, Inv, WikiInv, PagesTypeInv, Works
    <3>2. Dirty' = Dirty /\ updater[u].pc = "generate" /\ updater[u].todo = {}
      BY <2>4 DEF Gather, Dirty, indexVars
    <3> QED
      BY <2>1, <3>1, <3>2
  <2>5. CASE WriteIndex(u)
    <3>1. updater'[u].pc = "idle"
      BY <1>1, <2>5, RestingType, CopilotAssumption
      DEF WriteIndex, Inv, WikiInv, PagesTypeInv, CopilotAssumption
    <3>2. Dirty' = Dirty /\ updater[u].pc = "index"
      BY <2>5 DEF WriteIndex, Dirty, indexVars
    <3> QED
      BY <2>1, <3>1, <3>2
  <2> QED
    BY <1>1, <2>3, <2>4, <2>5 DEF UpdaterStep
<1>8. Heeded'
  BY <1>3, <1>4, <1>5, <1>6, <1>7 DEF Inv, FlowInv, Heeded
<1> QED
  BY <1>1, <1>3, <1>4, <1>8 DEF FlowInv, InPlace, Seen, HintsClear, AskIsHonest

LEMMA RefreshEndsFlow ==
  ASSUME Inv, RefreshEnds
  PROVE  FlowInv'
<1>1. /\ flow.pc = "update" /\ ~Running("sync")
      /\ UNCHANGED <<wikiVars, lastScan>>
      /\ flow \in Flows /\ lastScan \in {"never", "fresh", "old"}
  BY DEF RefreshEnds, Inv, FlowInv, InPlace
<1>2. /\ scanned' = scanned /\ index' = index /\ Dirty' = Dirty
      /\ ~Running("sync")'
  BY <1>1 DEF wikiVars, Dirty, Running
<1>3. CASE flow' = Quiet
  BY <1>1, <1>2, <1>3, QuietFlow
<1>4. CASE flow' = [flow EXCEPT !.pc = "index", !.command = "check", !.modes = {}]
  <2>1. /\ flow'.pc = "index" /\ flow'.command = "check"
        /\ flow'.advised = flow.advised /\ flow'.work = flow.work
        /\ flow' \in Flows
    BY <1>1, <1>4 DEF Flows, Checking
  <2>2. Heeded'
    BY <1>1, <1>2, <2>1 DEF Inv, FlowInv, Heeded, Running
  <2> QED
    BY <1>1, <1>2, <2>1, <2>2
    DEF FlowInv, InPlace, Seen, HintsClear, AskIsHonest, Checking, Asking
<1> QED
  BY <1>3, <1>4 DEF RefreshEnds

LEMMA WatchAgainFlow ==
  ASSUME Inv, WatchAgain
  PROVE  FlowInv'
<1>1. /\ flow.pc = "report" /\ flow.command = "watch"
      /\ UNCHANGED <<wikiVars, lastScan>>
      /\ flow' = [flow EXCEPT !.pc = "index", !.modes = {}]
      /\ flow \in Flows /\ lastScan \in {"never", "fresh", "old"}
      /\ ~Running("sync")
  BY DEF WatchAgain, Inv, FlowInv, InPlace
<1>2. /\ flow'.pc = "index" /\ flow'.command = "watch"
      /\ flow'.advised = flow.advised /\ flow'.work = flow.work
      /\ flow' \in Flows
  BY <1>1 DEF Flows
<1>3. flow.advised = "none"
  BY <1>1 DEF Inv, FlowInv, InPlace
<1>4. ~Running("sync")'
  BY <1>1 DEF wikiVars, Running
<1> QED
  BY <1>1, <1>2, <1>3, <1>4
  DEF FlowInv, InPlace, Seen, Heeded, HintsClear, AskIsHonest, Checking, Asking

LEMMA FollowHintFlow ==
  ASSUME Inv, FollowHint
  PROVE  FlowInv'
<1>1. /\ flow.pc = "report"
      /\ UNCHANGED <<wikiVars, lastScan>>
      /\ lastScan \in {"never", "fresh", "old"}
      /\ flow.modes \subseteq Mode
      /\ ~Running("sync")
  BY DEF FollowHint, Inv, FlowInv, InPlace, Flows
<1>2. PICK mode \in flow.modes \cap DOMAIN Hinted :
        flow' = [Quiet EXCEPT !.pc = IF Hinted[mode] = "refresh" THEN "scan" ELSE "wiki",
                              !.command = Hinted[mode], !.advised = mode]
  BY DEF FollowHint
<1>3. \/ mode \in {"not_scanned", "stale_scan"} /\ Hinted[mode] = "refresh"
      \/ mode \in {"wiki_missing", "wiki_stale"} /\ Hinted[mode] = "wiki --refresh"
  <2>1. DOMAIN Hinted = {"not_scanned", "stale_scan", "wiki_missing", "wiki_stale"}
    BY DEF Hinted
  <2>2. /\ Hinted["not_scanned"] = "refresh" /\ Hinted["stale_scan"] = "refresh"
        /\ Hinted["wiki_missing"] = "wiki --refresh"
        /\ Hinted["wiki_stale"] = "wiki --refresh"
    BY DEF Hinted
  <2> QED
    BY <1>2, <2>1, <2>2
<1>4. /\ flow'.advised = mode /\ flow'.work = "none"
      /\ \/ /\ mode \in {"not_scanned", "stale_scan"}
            /\ flow'.pc = "scan" /\ flow'.command = "refresh"
         \/ /\ mode \in {"wiki_missing", "wiki_stale"}
            /\ flow'.pc = "wiki" /\ flow'.command = "wiki --refresh"
      /\ flow' \in Flows
  BY <1>1, <1>2, <1>3 DEF Quiet, Flows, Refreshing, Writing
<1>5. ~Running("sync")'
  BY <1>1 DEF wikiVars, Running
<1> QED
  BY <1>1, <1>4, <1>5
  DEF FlowInv, InPlace, Seen, Heeded, HintsClear, AskIsHonest, Refreshing, Asking

\* The command is over: shown, failed or stopped.
LEMMA OverFlow ==
  ASSUME Inv, End \/ CheckFails \/ Interrupt
  PROVE  FlowInv'
<1>1. flow' = Quiet /\ lastScan' = lastScan /\ lastScan \in {"never", "fresh", "old"}
  BY DEF End, CheckFails, Interrupt, Inv, FlowInv, InPlace
<1>2. ~Running("sync")'
  <2>1. CASE End \/ CheckFails
    BY <2>1 DEF End, CheckFails, Inv, FlowInv, InPlace, wikiVars, Running
  <2>2. CASE Interrupt
    <3>1. updater' = [updater EXCEPT !["sync"] = Resting]
      BY <2>2 DEF Interrupt, Kill
    <3>2. updater'["sync"] = Resting
      BY <3>1 DEF Inv, WikiInv, PagesTypeInv, Updater
    <3> QED
      BY <3>2, RestingType, CopilotAssumption DEF Running, CopilotAssumption
  <2> QED
    BY <2>1, <2>2
<1> QED
  BY <1>1, <1>2, QuietFlow

-----------------------------------------------------------------------------
\* Somebody else acts: the command of a hint is no longer the reason of what comes, and
\* only a removal of the index can take it from an ask.
LEMMA DisturbedFlow ==
  ASSUME Inv, NEW gone \in BOOLEAN, Disturbed(gone), scanned' \in BOOLEAN,
         scanned /\ ~scanned' => gone,
         Running("sync")' = Running("sync"),
         lastScan' \in {"never", "fresh", "old"}
  PROVE  FlowInv'
<1>1. flow \in Flows
  BY DEF Inv, FlowInv, InPlace
<1>2. CASE flow.pc = "idle"
  <2>1. flow' = Quiet /\ ~Running("sync")
    BY <1>2 DEF Disturbed, Inv, FlowInv, InPlace
  <2> QED
    BY <2>1, QuietFlow
<1>3. CASE flow.pc # "idle"
  <2>1. /\ flow'.advised = "none"
        /\ flow'.lost = (flow.lost \/ (gone /\ flow.command \in Asking))
        /\ flow'.pc = flow.pc /\ flow'.command = flow.command
        /\ flow'.scanned = flow.scanned /\ flow'.modes = flow.modes
        /\ flow'.coverage = flow.coverage
        /\ flow'.had = flow.had /\ flow'.may = flow.may
        /\ flow' \in Flows
    BY <1>1, <1>3 DEF Disturbed, Flows, Asking
  <2>2. InPlace'
    BY <1>3, <2>1 DEF Inv, FlowInv, InPlace
  <2>3. Seen'
    BY <2>1 DEF Inv, FlowInv, Seen
  <2>4. Heeded' /\ HintsClear'
    BY <2>1 DEF Heeded, HintsClear
  <2>5. AskIsHonest'
    BY <2>1 DEF Inv, FlowInv, AskIsHonest
  <2> QED
    BY <2>2, <2>3, <2>4, <2>5 DEF FlowInv
<1> QED
  BY <1>2, <1>3

LEMMA OthersFlow ==
  ASSUME Inv, OtherScan \/ ScanAges \/ OtherUpdate \/ RemoveDirectory
  PROVE  FlowInv'
<1>1. /\ lastScan \in {"never", "fresh", "old"} /\ scanned \in BOOLEAN
      /\ updater \in [Updater -> Works]
  BY DEF Inv, FlowInv, InPlace, WikiInv, PagesTypeInv
<1>2. CASE OtherScan
  BY <1>1, <1>2, DisturbedFlow DEF OtherScan, Scan, Running
<1>3. CASE ScanAges
  BY <1>1, <1>3, DisturbedFlow DEF ScanAges, wikiVars, Running
<1>4. CASE OtherUpdate
  <2>1. /\ scanned' = scanned
        /\ updater'["sync"] = updater["sync"]
    <3>1. ASSUME NEW u \in {"cli", "bg"}, NEW due, Start(u, due)
          PROVE  scanned' = scanned /\ updater'["sync"] = updater["sync"]
      BY <1>1, <3>1 DEF Start, Updater
    <3>2. ASSUME NEW u \in {"cli", "bg"}, UpdaterStep(u)
          PROVE  scanned' = scanned /\ updater'["sync"] = updater["sync"]
      BY <1>1, <3>2 DEF UpdaterStep, Generate, Gather, WriteIndex, indexVars, Updater
    <3>3. ASSUME NEW u \in {"cli", "bg"}, Kill(u)
          PROVE  scanned' = scanned /\ updater'["sync"] = updater["sync"]
      BY <1>1, <3>3 DEF Kill, indexVars, Updater
    <3> QED
      BY <1>4, <3>1, <3>2, <3>3 DEF OtherUpdate, StartCli
  <2>2. Disturbed(FALSE) /\ lastScan' = lastScan
    BY <1>4 DEF OtherUpdate
  <2> QED
    BY <1>1, <2>1, <2>2, DisturbedFlow DEF Running
<1>5. CASE RemoveDirectory
  <2>1. CASE RemoveWiki /\ Disturbed(FALSE)
    BY <1>1, <1>5, <2>1, DisturbedFlow DEF RemoveDirectory, RemoveWiki, indexVars, Running
  <2>2. CASE RemoveContext /\ Disturbed(TRUE)
    BY <1>1, <1>5, <2>2, DisturbedFlow DEF RemoveDirectory, RemoveContext, Running
  <2> QED
    BY <1>5, <2>1, <2>2 DEF RemoveDirectory
<1> QED
  BY <1>2, <1>3, <1>4, <1>5

-----------------------------------------------------------------------------
LEMMA InitInv ==
  ASSUME Init
  PROVE  Inv
<1>1. WikiInv
  BY PagesInitInv, CopilotAssumption DEF Init, CopilotAssumption
<1>2. ~Running("sync")
  BY RestingType, CopilotAssumption DEF Init, PagesInit, Running, Updater, CopilotAssumption
<1>3. FlowInv
  BY <1>2 DEF Init, FlowInv, InPlace, Seen, Heeded, HintsClear, AskIsHonest, Quiet, Flows,
              Asking
<1> QED
  BY <1>1, <1>3 DEF Inv

LEMMA NextIsWiki ==
  ASSUME Next
  PROVE  WikiNext \/ UNCHANGED wikiVars
<1>1. ASSUME NEW c \in Checking \cup Refreshing \cup Writing, Begin(c)
      PROVE  UNCHANGED wikiVars
  BY <1>1 DEF Begin
<1>2. CASE CheckIndex \/ CheckFails \/ CheckModes \/ Pack \/ RefreshEnds \/ WatchAgain
            \/ FollowHint \/ End \/ ScanAges
  BY <1>2 DEF CheckIndex, CheckFails, CheckModes, Pack, RefreshEnds, WatchAgain, FollowHint,
              End, ScanAges
<1>3. CASE RefreshScan \/ OtherScan
  BY <1>3 DEF RefreshScan, OtherScan, WikiNext
<1>4. CASE RefreshInBackground \/ RefreshHere
  BY <1>4 DEF RefreshInBackground, RefreshHere, WikiNext, Updater
<1>5. CASE RefreshModule
  BY <1>5 DEF RefreshModule, WikiNext, Updater
<1>6. CASE Interrupt \/ OtherUpdate
  BY <1>6 DEF Interrupt, OtherUpdate, StartCli, WikiNext, Updater
<1>7. CASE RemoveDirectory
  BY <1>7 DEF RemoveDirectory, WikiNext
<1> QED
  BY <1>1, <1>2, <1>3, <1>4, <1>5, <1>6, <1>7 DEF Next

LEMMA NextInv ==
  ASSUME Inv, [Next]_vars
  PROVE  Inv'
<1>1. WikiInv'
  <2>1. WikiNext \/ UNCHANGED wikiVars
    BY NextIsWiki DEF vars, wikiVars
  <2> QED
    BY <2>1, WikiNextInv, CopilotAssumption DEF Inv, CopilotAssumption
<1>2. ASSUME Next
      PROVE  FlowInv'
  <2>1. ASSUME NEW c \in Checking \cup Refreshing \cup Writing, Begin(c)
        PROVE  FlowInv'
    BY <2>1, BeginFlow
  <2>2. CASE CheckIndex \/ CheckModes \/ Pack
    BY <2>2, CheckIndexFlow, CheckModesFlow, PackFlow
  <2>3. CASE RefreshScan \/ RefreshInBackground \/ RefreshHere
    BY <2>3, RefreshScanFlow, RefreshInBackgroundFlow, RefreshHereFlow
  <2>4. CASE RefreshModule \/ RefreshEnds
    BY <2>4, RefreshModuleFlow, RefreshEndsFlow
  <2>5. CASE WatchAgain \/ FollowHint
    BY <2>5, WatchAgainFlow, FollowHintFlow
  <2>6. CASE CheckFails \/ End \/ Interrupt
    BY <2>6, OverFlow
  <2>7. CASE OtherScan \/ ScanAges \/ OtherUpdate \/ RemoveDirectory
    BY <2>7, OthersFlow
  <2> QED
    BY <1>2, <2>1, <2>2, <2>3, <2>4, <2>5, <2>6, <2>7 DEF Next
<1>3. ASSUME UNCHANGED vars
      PROVE  FlowInv'
  <2>1. /\ flow' = flow /\ lastScan' = lastScan /\ scanned' = scanned
        /\ updater' = updater /\ index' = index /\ Dirty' = Dirty
        /\ Running("sync")' = Running("sync")
    BY <1>3 DEF vars, Dirty, Running
  <2>2. InPlace'
    BY <2>1 DEF Inv, FlowInv, InPlace
  <2>3. Seen' /\ Heeded'
    BY <2>1 DEF Inv, FlowInv, Seen, Heeded
  <2>4. HintsClear' /\ AskIsHonest'
    BY <2>1 DEF Inv, FlowInv, HintsClear, AskIsHonest
  <2> QED
    BY <2>2, <2>3, <2>4 DEF FlowInv
<1> QED
  BY <1>1, <1>2, <1>3 DEF Inv

LEMMA SpecInv == Spec => []Inv
<1>1. Init => Inv
  BY InitInv
<1>2. Inv /\ [Next]_vars => Inv'
  BY NextInv
<1> QED
  BY <1>1, <1>2, PTL DEF Spec

-----------------------------------------------------------------------------
\* The variables of Copilot and of the wiki keep their types.
THEOREM TypeCorrect == Spec => []TypeOK
<1>1. Inv => TypeOK
  <2> SUFFICES ASSUME Inv PROVE TypeOK
    OBVIOUS
  <2>1. PagesTypeOK
    BY DEF Inv, WikiInv, PagesTypeInv, PagesTypeOK, Rows, Works, Indexes
  <2> QED
    BY <2>1 DEF Inv, FlowInv, InPlace, TypeOK, Flows
<1> QED
  BY <1>1, SpecInv, PTL

\* The command that a hint of `ctx project check` names does away with the reason of the
\* hint, when nobody else acts until the next check (orchestrator.py:119, :393).
THEOREM HintsLeadSomewhere == Spec => []HintsClear
<1>1. Inv => HintsClear
  BY DEF Inv, FlowInv
<1> QED
  BY <1>1, SpecInv, PTL

\* `ctx project ask` says that the project is not scanned only if it must: it had no
\* index and may not make one, or the index was removed while it answered.
THEOREM AskSaysWhatItMust == Spec => []AskIsHonest
<1>1. Inv => AskIsHonest
  BY DEF Inv, FlowInv
<1> QED
  BY <1>1, SpecInv, PTL

\* A wiki update that was alone from its start to its end leaves nothing for `ctx wiki
\* lint` to say, as long as the Claude CLI answered each time.
THEOREM UpdateLeavesNoIssue == Spec => CalmUpdateLeavesNoIssue
<1> DEFINE Clean ==
      \A u \in Updater : calm /\ WriteIndex(u) =>
        /\ Unlisted' = {} /\ Dangling' = {}
        /\ updater[u].flawless =>
             /\ Dirty' = {}
             /\ \A m \in updater[u].due :
                  /\ ArticleOf[m] \notin Empty'
                  /\ m \in Missing' => LintNameOf[m] # ArticleOf[m]
<1>1. Inv => Clean
  BY CalmEnd, CopilotAssumption DEF Inv, CopilotAssumption
<1> QED
  BY <1>1, SpecInv, PTL DEF CalmUpdateLeavesNoIssue

-----------------------------------------------------------------------------
(* A finite set of numbers that has a member has a largest one.              *)
LEMMA MaxIs ==
    ASSUME NEW S \in SUBSET Nat, IsFiniteSet(S), S # {}
    PROVE  Max(S) \in S /\ \A x \in S : x <= Max(S)
<1> DEFINE HasMax(t) == \E x \in t : \A y \in t : x >= y
           T == {t \in SUBSET S : t # {} /\ ~HasMax(t)}
<1>1. ASSUME T # {}
      PROVE  FALSE
    <2>1. IsWellFoundedOn(StrictSubsetOrdering(S), FiniteSubsetsOf(S))
        BY FS_StrictSubsetOrderingWellFounded
    <2>2. T \subseteq FiniteSubsetsOf(S)
        BY FS_Subset DEF FiniteSubsetsOf
    <2>3. PICK m \in T : \A y \in T : <<y, m>> \notin StrictSubsetOrdering(S)
        BY <1>1, <2>1, <2>2, WFMin, Zenon
    <2>4. PICK x \in m : TRUE
        OBVIOUS
    <2>5. <<m \ {x}, m>> \in StrictSubsetOrdering(S)
        BY <2>4 DEF StrictSubsetOrdering
    <2>6. m \ {x} \notin T
        BY <2>3, <2>5
    <2>7. CASE m \ {x} = {}
        <3>1. \A y \in m : x >= y
            BY <2>4, <2>7
        <3> QED
            BY <2>3, <2>4, <3>1
    <2>8. CASE HasMax(m \ {x})
        <3>1. PICK z \in m \ {x} : \A y \in m \ {x} : z >= y
            BY <2>8
        <3>2. x \in Nat /\ z \in Nat
            BY <2>3, <2>4
        <3>3. \A y \in m : y \in Nat /\ (y = x \/ z >= y)
            BY <2>3, <3>1
        <3>4. CASE x >= z
            <4>1. \A y \in m : x >= y
                BY <3>2, <3>3, <3>4
            <4> QED
                BY <2>3, <2>4, <4>1
        <3>5. CASE z >= x
            <4>1. \A y \in m : z >= y
                BY <3>2, <3>3, <3>5
            <4> QED
                BY <2>3, <3>1, <4>1
        <3> QED
            BY <3>2, <3>4, <3>5
    <2> QED
        BY <2>3, <2>6, <2>7, <2>8
<1>2. HasMax(S)
    BY <1>1
<1>3. Max(S) \in S /\ \A y \in S : Max(S) >= y
    BY <1>2 DEF Max
<1> QED
    BY <1>3

-----------------------------------------------------------------------------
(* Places.                                                                   *)

(* The ties of a set tell its members apart.                                 *)
Ties(tie, D) ==
    /\ \A p \in D : tie[p] \in Nat
    /\ \A p, q \in D : tie[p] = tie[q] => p = q

Numbers(s) == IsFiniteSet(DOMAIN s) /\ s \in [DOMAIN s -> Nat]

Before(s, tie, q, p) == s[q] > s[p] \/ (s[q] = s[p] /\ tie[q] < tie[p])

Ahead(s, tie, p) == {q \in DOMAIN s : Before(s, tie, q, p)}

(* The members of s stand at the places from 0, one at each.                  *)
LEMMA PlaceIs ==
    ASSUME NEW s, Numbers(s), NEW tie, Ties(tie, DOMAIN s)
    PROVE  /\ \A p \in DOMAIN s : Place(s, tie, p) \in 0..(Cardinality(DOMAIN s) - 1)
           /\ \A p, q \in DOMAIN s : Place(s, tie, p) = Place(s, tie, q) => p = q
           /\ \A i \in 0..(Cardinality(DOMAIN s) - 1) : \E p \in DOMAIN s : Place(s, tie, p) = i
<1> DEFINE D == DOMAIN s
           n == Cardinality(D)
           A(p) == Ahead(s, tie, p)
<1>1. \A p : Place(s, tie, p) = Cardinality(A(p))
    BY DEF Place, Ahead, Before
<1>2. n \in Nat /\ IsFiniteSet(D)
    BY FS_CardinalityType DEF Numbers
<1>3. \A p \in D : s[p] \in Nat /\ tie[p] \in Nat
    BY DEF Numbers, Ties
<1>4. ASSUME NEW p \in D
      PROVE  /\ IsFiniteSet(A(p)) /\ p \notin A(p)
             /\ Cardinality(A(p)) \in 0..(n - 1)
    <2>1. A(p) \subseteq D \ {p}
        BY <1>3 DEF Ahead, Before
    <2>2. IsFiniteSet(D \ {p}) /\ Cardinality(D \ {p}) = n - 1
        BY <1>2, FS_RemoveElement
    <2>3. IsFiniteSet(A(p)) /\ Cardinality(A(p)) \in Nat /\ Cardinality(A(p)) <= n - 1
        BY <2>1, <2>2, FS_Subset, FS_CardinalityType
    <2> HIDE DEF A, n
    <2> QED
        BY <1>2, <2>1, <2>3
<1>5. ASSUME NEW p \in D, NEW q \in D, Before(s, tie, p, q)
      PROVE  Cardinality(A(p)) < Cardinality(A(q))
    <2>1. A(p) \cup {p} \subseteq A(q)
        <3>1. p \in A(q)
            BY <1>5 DEF Ahead
        <3>2. ASSUME NEW r \in A(p)
              PROVE  r \in A(q)
            <4>1. r \in D /\ Before(s, tie, r, p)
                BY <3>2 DEF Ahead
            <4>2. Before(s, tie, r, q)
                BY <1>3, <1>5, <4>1 DEF Before
            <4> QED
                BY <4>1, <4>2 DEF Ahead
        <3> QED
            BY <3>1, <3>2
    <2>2. Cardinality(A(p) \cup {p}) = Cardinality(A(p)) + 1
        BY <1>4, FS_AddElement
    <2>3. Cardinality(A(p) \cup {p}) <= Cardinality(A(q))
        BY <1>4, <2>1, FS_Subset
    <2>4. Cardinality(A(p)) \in Nat /\ Cardinality(A(q)) \in Nat
        BY <1>4
    <2> HIDE DEF A
    <2> QED
        BY <2>2, <2>3, <2>4
<1>6. ASSUME NEW p \in D, NEW q \in D, p # q
      PROVE  Cardinality(A(p)) # Cardinality(A(q))
    <2>1. Before(s, tie, p, q) \/ Before(s, tie, q, p)
        <3>1. tie[p] # tie[q]
            BY <1>6 DEF Ties
        <3> QED
            BY <1>3, <3>1 DEF Before
    <2>2. Cardinality(A(p)) \in Nat /\ Cardinality(A(q)) \in Nat
        BY <1>4
    <2> HIDE DEF A
    <2> QED
        BY <1>5, <2>1, <2>2
<1> DEFINE F == [p \in D |-> Cardinality(A(p))]
<1>7. F \in Injection(D, 0..(n - 1))
    <2>1. F \in [D -> 0..(n - 1)]
        BY <1>4
    <2>2. \A p, q \in D : F[p] = F[q] => p = q
        BY <1>6
    <2> HIDE DEF F, n
    <2> QED
        BY <2>1, <2>2 DEF Injection, IsInjective
<1>8. F \in Surjection(D, 0..(n - 1))
    <2>1. IsFiniteSet(0..(n - 1)) /\ Cardinality(0..(n - 1)) = n
        <3>1. /\ IsFiniteSet(0..(n - 1))
              /\ Cardinality(0..(n - 1)) = IF 0 > n - 1 THEN 0 ELSE (n - 1) - 0 + 1
            BY <1>2, FS_Interval
        <3> QED
            BY <1>2, <3>1
    <2> HIDE DEF F
    <2> QED
        BY <1>7, <2>1, FS_Injection
<1>9. \A i \in 0..(n - 1) : \E p \in D : F[p] = i
    <2> HIDE DEF F, n
    <2> QED
        BY <1>8 DEF Surjection
<1>10. \A p \in D : F[p] = Place(s, tie, p)
    BY <1>1
<1>11. \A p \in D : Place(s, tie, p) \in 0..(n - 1)
    BY <1>1, <1>4
<1>12. \A p, q \in D : Place(s, tie, p) = Place(s, tie, q) => p = q
    BY <1>1, <1>6
<1>13. \A i \in 0..(n - 1) : \E p \in D : Place(s, tie, p) = i
    <2> HIDE DEF F
    <2> QED
        BY <1>9, <1>10
<1> QED
    BY <1>11, <1>12, <1>13

(* Sorting puts each member in one place.                                    *)
LEMMA SortedIs ==
    ASSUME NEW s, Numbers(s), NEW tie, Ties(tie, DOMAIN s)
    PROVE  /\ Sorted(s, tie) \in Seq(DOMAIN s)
           /\ Len(Sorted(s, tie)) = Cardinality(DOMAIN s)
           /\ ToSet(Sorted(s, tie)) = DOMAIN s
           /\ \A i, j \in 1..Cardinality(DOMAIN s) : Sorted(s, tie)[i] = Sorted(s, tie)[j] => i = j
<1> DEFINE D == DOMAIN s
           n == Cardinality(D)
           P(p) == Place(s, tie, p)
           S == Sorted(s, tie)
<1>1. n \in Nat
    BY FS_CardinalityType DEF Numbers
<1>2. /\ \A p \in D : P(p) \in 0..(n - 1)
      /\ \A p, q \in D : P(p) = P(q) => p = q
      /\ \A i \in 0..(n - 1) : \E p \in D : P(p) = i
    BY PlaceIs
<1>3. S = [i \in 1..n |-> CHOOSE p \in D : P(p) = i - 1]
    BY DEF Sorted
<1> HIDE DEF D, n, P, S
<1>4. \A i \in 1..n : i - 1 \in 0..(n - 1)
    BY <1>1
<1>5. \A i \in 1..n : S[i] \in D /\ P(S[i]) = i - 1
    BY <1>2, <1>3, <1>4
<1>6. S \in [1..n -> D]
    BY <1>3, <1>5
<1>7. S \in Seq(D) /\ Len(S) = n
    BY <1>1, <1>6
<1>8. \A p \in D : \E i \in 1..n : S[i] = p
    <2>1. ASSUME NEW p \in D
          PROVE  \E i \in 1..n : S[i] = p
        <3>1. P(p) \in 0..(n - 1) /\ P(p) + 1 \in 1..n
            BY <1>1, <1>2
        <3>2. S[P(p) + 1] \in D /\ P(S[P(p) + 1]) = P(p)
            BY <1>5, <3>1
        <3> QED
            BY <1>2, <3>1, <3>2
    <2> QED
        BY <2>1
<1>9. DOMAIN S = 1..n
    BY <1>3
<1>10. ToSet(S) = D
    BY <1>5, <1>8, <1>9 DEF ToSet
<1>11. \A i, j \in 1..n : S[i] = S[j] => i = j
    BY <1>1, <1>5
<1> QED
    BY <1>7, <1>10, <1>11 DEF D, n, S

(* The n best are n, unless there are fewer in all.                          *)
LEMMA BestIs ==
    ASSUME NEW s, Numbers(s), NEW tie, Ties(tie, DOMAIN s), NEW n \in Nat
    PROVE  /\ DOMAIN BestBy(s, tie, n) \subseteq DOMAIN s
           /\ \A p \in DOMAIN BestBy(s, tie, n) : BestBy(s, tie, n)[p] = s[p]
           /\ Numbers(BestBy(s, tie, n))
           /\ \/ DOMAIN BestBy(s, tie, n) = DOMAIN s
              \/ Cardinality(DOMAIN BestBy(s, tie, n)) = n
<1> DEFINE D == DOMAIN s
           P(p) == Place(s, tie, p)
           B == {q \in D : P(q) < n}
           b == BestBy(s, tie, n)
           c == Cardinality(D)
<1>1. b = [p \in B |-> s[p]]
    BY DEF BestBy
<1>2. /\ \A p \in D : P(p) \in 0..(c - 1)
      /\ \A p, q \in D : P(p) = P(q) => p = q
      /\ \A i \in 0..(c - 1) : \E p \in D : P(p) = i
    BY PlaceIs
<1>3. DOMAIN b = B /\ B \subseteq D /\ \A p \in B : b[p] = s[p]
    BY <1>1
<1>4. Numbers(b)
    <2>1. IsFiniteSet(B)
        BY <1>3, FS_Subset DEF Numbers
    <2>2. \A p \in B : s[p] \in Nat
        BY DEF Numbers
    <2> HIDE DEF B, b
    <2> QED
        BY <1>1, <1>3, <2>1, <2>2 DEF Numbers
<1>5. ASSUME B # D
      PROVE  Cardinality(B) = n
    <2>1. c \in Nat
        BY FS_CardinalityType DEF Numbers
    <2>2. PICK p \in D : P(p) >= n
        BY <1>2, <1>5, <2>1
    <2>3. n <= c - 1
        BY <1>2, <2>1, <2>2
    <2> DEFINE F == [p2 \in B |-> P(p2)]
    <2> HIDE DEF c, P
    <2>4. F \in [B -> 0..(n - 1)]
        BY <1>2, <2>1
    <2>5. \A x, y \in B : F[x] = F[y] => x = y
        BY <1>2
    <2>6. \A i \in 0..(n - 1) : \E x \in B : F[x] = i
        <3>1. ASSUME NEW i \in 0..(n - 1)
              PROVE  \E x \in B : F[x] = i
            <4>1. i \in 0..(c - 1) /\ i < n
                BY <2>1, <2>3
            <4>2. PICK x \in D : P(x) = i
                BY <1>2, <4>1
            <4> QED
                BY <4>1, <4>2
        <3> QED
            BY <3>1
    <2> HIDE DEF F, B
    <2>7. F \in Bijection(B, 0..(n - 1))
        BY <2>4, <2>5, <2>6 DEF Bijection, Injection, Surjection, IsInjective
    <2>8. IsFiniteSet(B)
        BY <1>3, <1>4 DEF Numbers
    <2>9. Cardinality(0..(n - 1)) = n
        <3>1. Cardinality(0..(n - 1)) = IF 0 > n - 1 THEN 0 ELSE (n - 1) - 0 + 1
            BY FS_Interval
        <3> QED
            BY <3>1
    <2>10. Cardinality(0..(n - 1)) = Cardinality(B)
        BY <2>7, <2>8, FS_Bijection DEF ExistsBijection
    <2> QED
        BY <2>9, <2>10
<1> QED
    BY <1>3, <1>4, <1>5

-----------------------------------------------------------------------------
(* Scores.                                                                   *)

LEMMA ScoresAreNumbers ==
    ASSUME RetrievalAssumption, NEW s, IsScores(s)
    PROVE  Numbers(s) /\ Ties(Position, DOMAIN s)
<1>1. IsFiniteSet(DOMAIN s)
    BY FS_Subset DEF RetrievalAssumption, IsScores
<1> QED
    BY <1>1 DEF RetrievalAssumption, IsScores, Numbers, Ties

(* The values a function takes on a finite set have a largest one.           *)
LEMMA MaxValue ==
    ASSUME NEW D, IsFiniteSet(D), D # {}, NEW f \in [D -> Nat]
    PROVE  /\ Max({f[p] : p \in D}) \in {f[p] : p \in D}
           /\ Max({f[p] : p \in D}) \in Nat
           /\ \A p \in D : f[p] <= Max({f[p2] : p2 \in D})
<1> DEFINE S == {f[p] : p \in D}
<1>1. f \in Surjection(D, S)
    BY DEF Surjection
<1>2. IsFiniteSet(S)
    BY <1>1, FS_Surjection
<1>3. S \in SUBSET Nat /\ S # {}
    OBVIOUS
<1> HIDE DEF S
<1>4. Max(S) \in S /\ \A x \in S : x <= Max(S)
    BY <1>2, <1>3, MaxIs
<1> QED
    BY <1>3, <1>4 DEF S

LEMMA TopIs ==
    ASSUME NEW s, Numbers(s)
    PROVE  Top(s) \in Nat /\ \A p \in DOMAIN s : s[p] <= Top(s)
<1>1. CASE DOMAIN s = {}
    BY <1>1 DEF Top
<1>2. CASE DOMAIN s # {}
    <2>1. /\ Max({s[p] : p \in DOMAIN s}) \in Nat
          /\ \A p \in DOMAIN s : s[p] <= Max({s[p2] : p2 \in DOMAIN s})
        BY <1>2, MaxValue DEF Numbers
    <2>2. Top(s) = Max({s[p] : p \in DOMAIN s})
        BY <1>2 DEF Top
    <2> QED
        BY <2>1, <2>2
<1> QED
    BY <1>1, <1>2

LEMMA MaxOfTwo ==
    ASSUME NEW a \in Nat, NEW b \in Nat
    PROVE  Max({a, b}) = IF a >= b THEN a ELSE b
<1>1. \A x \in {a, b} : (\A y \in {a, b} : x >= y) <=> x = (IF a >= b THEN a ELSE b)
    OBVIOUS
<1> QED
    BY <1>1 DEF Max

(* What an arithmetic of natural numbers gives is natural.                   *)
LEMMA Quotient ==
    ASSUME NEW a \in Nat, NEW b \in Nat \ {0}
    PROVE  a \div b \in Nat
OBVIOUS

LEMMA PlusIs ==
    ASSUME NEW s, IsScores(s), NEW t, IsScores(t)
    PROVE  IsScores(Plus(s, t)) /\ DOMAIN Plus(s, t) = DOMAIN s \cup DOMAIN t
BY DEF IsScores, Plus, At

LEMMA RaisedIs ==
    ASSUME NEW s, s \in [DOMAIN s -> Nat], NEW t, t \in [DOMAIN t -> Nat]
    PROVE  /\ DOMAIN Raised(s, t) = DOMAIN s \cup DOMAIN t
           /\ Raised(s, t) \in [DOMAIN Raised(s, t) -> Nat]
           /\ \A p : At(Raised(s, t), p) = IF At(s, p) >= At(t, p) THEN At(s, p) ELSE At(t, p)
<1>1. \A p : At(s, p) \in Nat /\ At(t, p) \in Nat
    BY DEF At
<1>2. \A p : Max({At(s, p), At(t, p)}) = IF At(s, p) >= At(t, p) THEN At(s, p) ELSE At(t, p)
    BY <1>1, MaxOfTwo
<1>3. /\ DOMAIN Raised(s, t) = DOMAIN s \cup DOMAIN t
      /\ \A p \in DOMAIN s \cup DOMAIN t : Raised(s, t)[p] = Max({At(s, p), At(t, p)})
      /\ Raised(s, t) = [p \in DOMAIN s \cup DOMAIN t |-> Raised(s, t)[p]]
    BY DEF Raised
<1>4. \A p \in DOMAIN s \cup DOMAIN t : Raised(s, t)[p] \in Nat
    BY <1>1, <1>2, <1>3
<1>5. Raised(s, t) \in [DOMAIN Raised(s, t) -> Nat]
    BY <1>3, <1>4
<1>6. \A p : At(Raised(s, t), p) = IF At(s, p) >= At(t, p) THEN At(s, p) ELSE At(t, p)
    <2>1. ASSUME NEW p \in DOMAIN s \cup DOMAIN t
          PROVE  At(Raised(s, t), p) = IF At(s, p) >= At(t, p) THEN At(s, p) ELSE At(t, p)
        <3>1. At(Raised(s, t), p) = Raised(s, t)[p]
            BY <1>3, <2>1 DEF At
        <3> QED
            BY <1>2, <1>3, <2>1, <3>1
    <2>2. ASSUME NEW p, p \notin DOMAIN s \cup DOMAIN t
          PROVE  At(Raised(s, t), p) = IF At(s, p) >= At(t, p) THEN At(s, p) ELSE At(t, p)
        BY <1>3, <2>2 DEF At
    <2> QED
        BY <2>1, <2>2
<1> QED
    BY <1>3, <1>5, <1>6

LEMMA BestScores ==
    ASSUME RetrievalAssumption, NEW s, IsScores(s), NEW n \in Nat
    PROVE  /\ IsScores(Best(s, n)) /\ DOMAIN Best(s, n) \subseteq DOMAIN s
           /\ DOMAIN Best(s, n) = DOMAIN s \/ Cardinality(DOMAIN Best(s, n)) = n
<1>1. Numbers(s) /\ Ties(Position, DOMAIN s)
    BY ScoresAreNumbers
<1>2. /\ DOMAIN Best(s, n) \subseteq DOMAIN s
      /\ Numbers(Best(s, n))
      /\ DOMAIN Best(s, n) = DOMAIN s \/ Cardinality(DOMAIN Best(s, n)) = n
    BY <1>1, BestIs DEF Best
<1> QED
    BY <1>2 DEF IsScores, Numbers

-----------------------------------------------------------------------------
(* Names and texts.                                                          *)

LEMMA SymbolScoresIs ==
    ASSUME RetrievalAssumption, NEW q \in Queries, NEW names \in SUBSET (Symbols \X Paths)
    PROVE  /\ IsScores(SymbolScores(q, names))
           /\ \A p \in DOMAIN SymbolScores(q, names) : \E n \in names : n[2] = p
<1> DEFINE hits == LookedUp(q, names)
           Of(p) == {g \in hits : g[2] = p}
           most(p) == Max({q.name[h[1]] : h \in Of(p)})
<1>1. hits \subseteq names
    BY DEF LookedUp, BestBy
<1>2. IsFiniteSet(names)
    <2>1. IsFiniteSet(Symbols \X Paths)
        BY FS_Product DEF RetrievalAssumption
    <2> QED
        BY <2>1, FS_Subset
<1>3. q.name \in [Symbols -> Nat]
    BY DEF RetrievalAssumption
<1> HIDE DEF hits
<1>4. ASSUME NEW p \in {h[2] : h \in hits}
      PROVE  most(p) \in Nat
    <2>1. Of(p) \subseteq names /\ Of(p) # {}
        BY <1>1
    <2>2. IsFiniteSet(Of(p))
        BY <1>2, <2>1, FS_Subset
    <2> DEFINE D == Of(p)
               f == [h \in D |-> q.name[h[1]]]
    <2>3. f \in [D -> Nat]
        BY <1>3, <2>1
    <2>4. {q.name[h[1]] : h \in D} = {f[h] : h \in D}
        OBVIOUS
    <2> HIDE DEF f, D
    <2>5. Max({f[h] : h \in D}) \in Nat
        BY <2>1, <2>2, <2>3, MaxValue DEF D
    <2> QED
        BY <2>4, <2>5 DEF D
<1>5. SymbolScores(q, names) = [p \in {h[2] : h \in hits} |-> 3 * most(p)]
    BY DEF SymbolScores, hits
<1> HIDE DEF most
<1>6. {h[2] : h \in hits} \subseteq Paths
    BY <1>1
<1>7. \A p \in {h[2] : h \in hits} : 3 * most(p) \in Nat
    BY <1>4
<1>8. IsScores(SymbolScores(q, names))
    BY <1>5, <1>6, <1>7 DEF IsScores
<1> QED
    BY <1>1, <1>5, <1>8

LEMMA TextScoresIs ==
    ASSUME RetrievalAssumption, NEW q \in Queries, NEW rows \in [Paths -> DOMAIN Names \cup {Gone}]
    PROVE  /\ IsScores(TextScores(q, rows))
           /\ \A p \in DOMAIN TextScores(q, rows) : rows[p] # Gone
<1> DEFINE found(m) == [p \in {f \in Paths : rows[f] # Gone /\ m[rows[f]] > 0} |-> m[rows[p]]]
<1>1. q.strict \in [DOMAIN Names -> Nat] /\ q.loose \in [DOMAIN Names -> Nat]
    BY DEF RetrievalAssumption
<1>2. ASSUME NEW m \in [DOMAIN Names -> Nat]
      PROVE  IsScores(found(m)) /\ \A p \in DOMAIN found(m) : rows[p] # Gone
    <2>1. \A p \in Paths : rows[p] # Gone => m[rows[p]] \in Nat
        OBVIOUS
    <2> QED
        BY <2>1 DEF IsScores
<1>3. 2 * Limit \in Nat
    BY DEF RetrievalAssumption
<1>4. \E m \in [DOMAIN Names -> Nat] : TextScores(q, rows) = Best(found(m), 2 * Limit)
    BY <1>1, Zenon DEF TextScores
<1> HIDE DEF found
<1> QED
    BY <1>2, <1>3, <1>4, BestScores

-----------------------------------------------------------------------------
(* The walk over the graph, two or three hops deep.                          *)

NextLayer(edges, seeds, w) ==
    LET new == {e[2] : e \in {d \in edges : d[1] \in w.front}} \ w.seen
    IN [seen |-> w.seen \cup new, front |-> new \ seeds]

(* The recursion of the search, hop by hop.                                  *)
LEMMA LayersAre ==
    ASSUME NEW edges, NEW seeds, NEW from, NEW depth \in {2, 3}
    PROVE  /\ Layers(edges, seeds, from, depth)[0] = [seen |-> {from}, front |-> {from}]
           /\ \A k \in 1..depth : Layers(edges, seeds, from, depth)[k] =
                                      NextLayer(edges, seeds, Layers(edges, seeds, from, depth)[k - 1])
<1> DEFINE w0 == [seen |-> {from}, front |-> {from}]
           S(w) == NextLayer(edges, seeds, w)
           w1 == S(w0)
           w2 == S(w1)
           w3 == S(w2)
           Fits(f) == f = [k \in 0..depth |-> IF k = 0 THEN w0 ELSE S(f[k - 1])]
           g == [k \in 0..depth |-> IF k = 0 THEN w0 ELSE IF k = 1 THEN w1 ELSE IF k = 2 THEN w2 ELSE w3]
           W == CHOOSE f : Fits(f)
<1>1. Layers(edges, seeds, from, depth) = W
    BY Zenon DEF Layers, NextLayer
<1>2. Fits(g)
    <2> HIDE DEF w0, S
    <2>1. ASSUME NEW k \in 0..depth
          PROVE  g[k] = IF k = 0 THEN w0 ELSE S(g[k - 1])
        <3>1. k \in {0, 1, 2, 3}
            OBVIOUS
        <3>2. CASE k = 0
            BY <3>2
        <3>3. CASE k = 1
            BY <3>3
        <3>4. CASE k = 2
            BY <3>4
        <3>5. CASE k = 3
            BY <3>5
        <3> QED
            BY <3>1, <3>2, <3>3, <3>4, <3>5
    <2>2. g = [k \in 0..depth |-> g[k]]
        OBVIOUS
    <2> HIDE DEF g
    <2> QED
        BY <2>1, <2>2
<1>3. Fits(W)
    <2> HIDE DEF g
    <2> QED
        BY <1>2, Zenon
<1> HIDE DEF S, W, w0
<1>4. W[0] = w0 /\ \A k \in 1..depth : W[k] = S(W[k - 1])
    BY <1>3
<1> QED
    BY <1>1, <1>4 DEF S, w0

Linked(pairs, R) == {<<c[1][1], c[2][2]>> : c \in {d \in pairs \X R : d[1][2] = d[2][1]}}

Ways(edges, seeds) == {e \in edges : e[2] \notin seeds}

(* The composition of relations, hop by hop.                                 *)
LEMMA ChainsAre ==
    ASSUME NEW edges, NEW seeds, NEW depth \in {2, 3}
    PROVE  /\ Chains(edges, seeds, depth)[1] = Ways(edges, seeds)
           /\ \A k \in 2..depth : Chains(edges, seeds, depth)[k] =
                                      Linked(Chains(edges, seeds, depth)[k - 1], Ways(edges, seeds))
<1> DEFINE R == Ways(edges, seeds)
           S(pairs) == Linked(pairs, R)
           w2 == S(R)
           w3 == S(w2)
           Fits(f) == f = [k \in 1..depth |-> IF k = 1 THEN R ELSE S(f[k - 1])]
           g == [k \in 1..depth |-> IF k = 1 THEN R ELSE IF k = 2 THEN w2 ELSE w3]
           C == CHOOSE f : Fits(f)
<1>1. Chains(edges, seeds, depth) = C
    BY Zenon DEF Chains, Linked, Ways
<1>2. Fits(g)
    <2> HIDE DEF R, S
    <2>1. ASSUME NEW k \in 1..depth
          PROVE  g[k] = IF k = 1 THEN R ELSE S(g[k - 1])
        <3>1. k \in {1, 2, 3}
            OBVIOUS
        <3>2. CASE k = 1
            BY <3>2
        <3>3. CASE k = 2
            BY <3>3
        <3>4. CASE k = 3
            BY <3>4
        <3> QED
            BY <3>1, <3>2, <3>3, <3>4
    <2>2. g = [k \in 1..depth |-> g[k]]
        OBVIOUS
    <2> HIDE DEF g
    <2> QED
        BY <2>1, <2>2
<1>3. Fits(C)
    <2> HIDE DEF g
    <2> QED
        BY <1>2, Zenon
<1> HIDE DEF S, C, R
<1>4. C[1] = R /\ \A k \in 2..depth : C[k] = S(C[k - 1])
    BY <1>3
<1> QED
    BY <1>1, <1>4 DEF S, R

ArePairs(edges) == \A e \in edges : e = <<e[1], e[2]>>

Nearest(W, C, seeds, from, depth) ==
    \A k \in 1..depth : \A n :
        /\ n \in W[k].front => <<from, n>> \in C[k] /\ n \notin seeds
        /\ <<from, n>> \in C[k] => \E j \in 1..k : n \in W[j].front
        /\ n \in W[k].front => \A j \in 1..depth : j < k => n \notin W[j].front

(* The search meets a node in the first layer to which a chain leads.        *)
LEMMA FrontIsNearest ==
    ASSUME NEW edges, ArePairs(edges), NEW seeds, NEW from \in seeds, NEW depth \in {2, 3}
    PROVE  Nearest(Layers(edges, seeds, from, depth), Chains(edges, seeds, depth), seeds, from, depth)
<1> SUFFICES ASSUME NEW k \in 1..depth, NEW n
             PROVE  LET W == Layers(edges, seeds, from, depth)
                        C == Chains(edges, seeds, depth)
                    IN /\ n \in W[k].front => <<from, n>> \in C[k] /\ n \notin seeds
                       /\ <<from, n>> \in C[k] => \E j \in 1..k : n \in W[j].front
                       /\ n \in W[k].front => \A j \in 1..depth : j < k => n \notin W[j].front
    BY Zenon DEF Nearest
<1> DEFINE W == Layers(edges, seeds, from, depth)
           C == Chains(edges, seeds, depth)
           R == Ways(edges, seeds)
           F(i) == W[i].front
           V(i) == W[i].seen
           New(i) == {e[2] : e \in {d \in edges : d[1] \in F(i - 1)}} \ V(i - 1)
<1>0. /\ W[0] = [seen |-> {from}, front |-> {from}]
      /\ \A i \in 1..depth : W[i] = NextLayer(edges, seeds, W[i - 1])
    BY LayersAre
<1>2. C[1] = R /\ \A i \in 2..depth : C[i] = Linked(C[i - 1], R)
    <2> HIDE DEF C, R
    <2> QED
        BY ChainsAre DEF C, R
<1> HIDE DEF W, C
<1>1. /\ F(0) = {from} /\ V(0) = {from}
      /\ \A i \in 1..depth : V(i) = V(i - 1) \cup New(i) /\ F(i) = New(i) \ seeds
    <2>1. ASSUME NEW i \in 1..depth
          PROVE  V(i) = V(i - 1) \cup New(i) /\ F(i) = New(i) \ seeds
        <3>1. W[i] = NextLayer(edges, seeds, W[i - 1])
            BY <1>0
        <3> DEFINE w == W[i - 1]
                   new == {e[2] : e \in {d \in edges : d[1] \in w.front}} \ w.seen
        <3>2. W[i] = [seen |-> w.seen \cup new, front |-> new \ seeds]
            BY <3>1, Zenon DEF NextLayer
        <3>3. new = New(i)
            OBVIOUS
        <3> HIDE DEF new, New
        <3> QED
            BY <3>2, <3>3
    <2> QED
        BY <1>0, <2>1
<1>3. \A i \in 1..depth : \A m : m \in F(i) <=> /\ m \notin seeds /\ m \notin V(i - 1)
                                               /\ \E e \in edges : e[1] \in F(i - 1) /\ e[2] = m
    BY <1>1
<1> HIDE DEF F, V, New
<1>21. R = {e \in edges : e[2] \notin seeds}
    BY DEF Ways
<1>22. \A e \in edges : e = <<e[1], e[2]>>
    BY DEF ArePairs
<1>20. \A i \in 1..depth : \A c \in C[i] : c = <<c[1], c[2]>>
    <2>1. \A c \in R : c = <<c[1], c[2]>>
        BY <1>21, <1>22
    <2>2. \A pairs : \A c \in Linked(pairs, R) : c = <<c[1], c[2]>>
        BY DEF Linked
    <2>3. \A i \in 1..depth : i = 1 \/ i \in 2..depth
        OBVIOUS
    <2>4. \A c \in C[1] : c = <<c[1], c[2]>>
        BY <1>2, <2>1
    <2>5. ASSUME NEW i \in 2..depth
          PROVE  \A c \in C[i] : c = <<c[1], c[2]>>
        <3>1. C[i] = Linked(C[i - 1], R)
            BY <1>2
        <3> QED
            BY <2>2, <3>1, Zenon
    <2> QED
        BY <2>3, <2>4, <2>5, Zenon
<1>4. \A i \in 2..depth : \A m : <<from, m>> \in C[i] <=>
                                     /\ m \notin seeds
                                     /\ \E e \in edges : <<from, e[1]>> \in C[i - 1] /\ e[2] = m
    <2>1. ASSUME NEW i \in 2..depth, NEW m, <<from, m>> \in C[i]
          PROVE  m \notin seeds /\ \E e \in edges : <<from, e[1]>> \in C[i - 1] /\ e[2] = m
        <3>1. PICK c \in C[i - 1] \X R : c[1][2] = c[2][1] /\ <<from, m>> = <<c[1][1], c[2][2]>>
            BY <1>2, <2>1 DEF Linked
        <3>2. i - 1 \in 1..depth /\ c[1] \in C[i - 1] /\ c[2] \in edges /\ c[2][2] \notin seeds
            BY <1>21
        <3>3. c[1] = <<from, c[2][1]>>
            BY <1>20, <3>1, <3>2
        <3> QED
            BY <3>1, <3>2, <3>3
    <2>2. ASSUME NEW i \in 2..depth, NEW m, m \notin seeds,
                 NEW e \in edges, <<from, e[1]>> \in C[i - 1], e[2] = m
          PROVE  <<from, m>> \in C[i]
        <3> DEFINE c == <<<<from, e[1]>>, e>>
        <3>1. c \in C[i - 1] \X R /\ c[1][2] = c[2][1] /\ <<from, m>> = <<c[1][1], c[2][2]>>
            BY <1>21, <1>22, <2>2
        <3> HIDE DEF c
        <3> QED
            BY <1>2, <3>1 DEF Linked
    <2> QED
        BY <2>1, <2>2
<1>5. \A m : <<from, m>> \in C[1] <=> m \notin seeds /\ \E e \in edges : e[1] = from /\ e[2] = m
    BY <1>2, <1>21, <1>22
<1>6. /\ 1 \in 1..depth /\ 2 \in 2..depth /\ \A i \in 2..depth : i - 1 \in 1..depth
      /\ \A i \in 1..depth : i = 1 \/ i = 2 \/ (i = 3 /\ depth = 3)
    OBVIOUS
<1> DEFINE Sound(i) == \A m : m \in F(i) => <<from, m>> \in C[i]
           Met(i) == \A m : m \in V(i) \ seeds => \E j \in 1..i : m \in F(j)
           Complete(i) == \A m : <<from, m>> \in C[i] => \E j \in 1..i : m \in F(j)
           Grown(i) == \A j \in 0..i : F(j) \subseteq V(i) /\ V(j) \subseteq V(i)
<1>7. Sound(1)
    BY <1>1, <1>3, <1>5, <1>6
<1>8. ASSUME NEW i \in 2..depth, Sound(i - 1)
      PROVE  Sound(i)
    <2>1. ASSUME NEW m \in F(i)
          PROVE  <<from, m>> \in C[i]
        <3>1. i \in 1..depth
            OBVIOUS
        <3>2. PICK e \in edges : e[1] \in F(i - 1) /\ e[2] = m
            BY <1>3, <2>1, <3>1
        <3>3. m \notin seeds
            BY <1>3, <2>1, <3>1
        <3>4. <<from, e[1]>> \in C[i - 1]
            BY <1>8, <3>2
        <3> QED
            BY <1>4, <3>2, <3>3, <3>4
    <2> QED
        BY <2>1
<1>9. Met(0)
    BY <1>1
<1>10. ASSUME NEW i \in 1..depth, Met(i - 1)
       PROVE  Met(i)
    <2>1. ASSUME NEW m \in V(i) \ seeds
          PROVE  \E j \in 1..i : m \in F(j)
        <3>1. CASE m \in V(i - 1)
            <4>1. PICK j \in 1..(i - 1) : m \in F(j)
                BY <1>10, <2>1, <3>1
            <4> QED
                BY <4>1
        <3>2. CASE m \in New(i)
            BY <1>1, <2>1, <3>2
        <3> QED
            BY <1>1, <2>1, <3>1, <3>2
    <2> QED
        BY <2>1
<1>11. Complete(1)
    <2>1. ASSUME NEW m, <<from, m>> \in C[1]
          PROVE  m \in F(1)
        <3>1. m \notin seeds /\ m \notin V(0)
            BY <1>1, <1>5, <2>1
        <3>2. PICK e \in edges : e[1] = from /\ e[2] = m
            BY <1>5, <2>1
        <3>3. e[1] \in F(0)
            BY <1>1, <3>2
        <3> QED
            BY <1>3, <1>6, <3>1, <3>2, <3>3
    <2> QED
        BY <2>1
<1>12. ASSUME NEW i \in 2..depth, Complete(i - 1), \A j \in 0..(i - 1) : Met(j)
       PROVE  Complete(i)
    <2>1. ASSUME NEW m, <<from, m>> \in C[i]
          PROVE  \E j \in 1..i : m \in F(j)
        <3>1. PICK e \in edges : <<from, e[1]>> \in C[i - 1] /\ e[2] = m
            BY <1>4, <2>1
        <3>2. m \notin seeds
            BY <1>4, <2>1
        <3>3. PICK j \in 1..(i - 1) : e[1] \in F(j)
            BY <1>12, <3>1
        <3>4. CASE m \in V(j)
            <4>1. PICK h \in 1..j : m \in F(h)
                BY <1>12, <3>2, <3>4
            <4> QED
                BY <4>1
        <3>5. CASE m \notin V(j)
            <4>1. j + 1 \in 1..depth /\ j + 1 \in 1..i /\ (j + 1) - 1 = j
                OBVIOUS
            <4>2. m \in F(j + 1)
                BY <1>3, <3>1, <3>2, <3>3, <3>5, <4>1
            <4> QED
                BY <4>1, <4>2
        <3> QED
            BY <3>4, <3>5
    <2> QED
        BY <2>1
<1>13. Grown(0)
    BY <1>1
<1>14. ASSUME NEW i \in 1..depth, Grown(i - 1)
       PROVE  Grown(i)
    <2>1. F(i) \subseteq V(i) /\ V(i - 1) \subseteq V(i)
        BY <1>1
    <2>2. ASSUME NEW j \in 0..i
          PROVE  F(j) \subseteq V(i) /\ V(j) \subseteq V(i)
        <3>1. CASE j = i
            BY <2>1, <3>1
        <3>2. CASE j \in 0..(i - 1)
            BY <1>14, <2>1, <3>2
        <3> QED
            BY <3>1, <3>2
    <2> QED
        BY <2>2
<1> HIDE DEF Sound, Met, Complete, Grown
<1>15. Sound(k)
    <2>1. Sound(2)
        BY <1>6, <1>7, <1>8
    <2>2. depth = 3 => Sound(3)
        BY <2>1, <1>8
    <2> QED
        BY <1>6, <1>7, <2>1, <2>2
<1>16. /\ Met(0) /\ Met(1) /\ Met(2) /\ (depth = 3 => Met(3))
       /\ Grown(0) /\ Grown(1) /\ Grown(2) /\ (depth = 3 => Grown(3))
    <2>1. Met(1) /\ Grown(1)
        BY <1>6, <1>9, <1>10, <1>13, <1>14
    <2>2. Met(2) /\ Grown(2)
        BY <1>6, <2>1, <1>10, <1>14
    <2>3. depth = 3 => Met(3) /\ Grown(3)
        BY <2>2, <1>10, <1>14
    <2> QED
        BY <1>9, <1>13, <2>1, <2>2, <2>3
<1>17. Complete(k)
    <2>1. Complete(2)
        <3>1. \A j \in 0..(2 - 1) : Met(j)
            BY <1>16
        <3> QED
            BY <1>6, <1>11, <1>12, <3>1
    <2>2. depth = 3 => Complete(3)
        <3>1. \A j \in 0..(3 - 1) : Met(j)
            BY <1>16
        <3> QED
            BY <1>12, <2>1, <3>1
    <2> QED
        BY <1>6, <1>11, <2>1, <2>2
<1>18. ASSUME n \in F(k), NEW j \in 1..depth, j < k
       PROVE  n \notin F(j)
    <2>1. Grown(k - 1)
        BY <1>6, <1>16
    <2>2. F(j) \subseteq V(k - 1)
        BY <1>18, <2>1 DEF Grown
    <2> QED
        BY <1>3, <1>18, <2>2
<1>19. n \in F(k) => n \notin seeds
    BY <1>3
<1> QED
    BY <1>15, <1>17, <1>18, <1>19 DEF Sound, Complete, F, W, C

-----------------------------------------------------------------------------
(* What a seed lends.                                                        *)

LEMMA DecayedIs ==
    ASSUME NEW x \in Nat
    PROVE  /\ \A k \in {1, 2, 3} : Decayed(x, k) \in Nat
           /\ \A j, k \in {1, 2, 3} : j <= k => Decayed(x, k) <= Decayed(x, j)
<1>1. /\ Decayed(x, 1) = (x * 700) \div 1000
      /\ Decayed(x, 2) = (x * 490) \div 1000
      /\ Decayed(x, 3) = (x * 343) \div 1000
    BY DEF Decayed
<1>2. /\ (x * 700) \div 1000 \in Nat
      /\ (x * 490) \div 1000 \in Nat
      /\ (x * 343) \div 1000 \in Nat
      /\ (x * 343) \div 1000 <= (x * 490) \div 1000
      /\ (x * 490) \div 1000 <= (x * 700) \div 1000
    OBVIOUS
<1> DEFINE a == (x * 700) \div 1000
           b == (x * 490) \div 1000
           c == (x * 343) \div 1000
<1> HIDE DEF a, b, c
<1>3. Decayed(x, 1) = a /\ Decayed(x, 2) = b /\ Decayed(x, 3) = c
    BY <1>1 DEF a, b, c
<1>4. a \in Nat /\ b \in Nat /\ c \in Nat /\ c <= b /\ b <= a
    BY <1>2 DEF a, b, c
<1> QED
    BY <1>3, <1>4

(* w has the most that x gives over the hops of L, pairs of a node and hops. *)
MostOf(w, x, L) ==
    /\ w \in [DOMAIN w -> Nat]
    /\ \A p \in DOMAIN w : \E k \in {1, 2, 3} : <<p, k>> \in L /\ w[p] = Decayed(x, k)
    /\ \A p : \A k \in {1, 2, 3} : <<p, k>> \in L => p \in DOMAIN w /\ Decayed(x, k) <= w[p]

LEMMA RaisedMost ==
    ASSUME NEW x \in Nat, NEW w, NEW v, NEW L, NEW M, MostOf(w, x, L), MostOf(v, x, M)
    PROVE  MostOf(Raised(w, v), x, L \cup M)
<1> DEFINE r == Raised(w, v)
<1>1. /\ DOMAIN r = DOMAIN w \cup DOMAIN v
      /\ r \in [DOMAIN r -> Nat]
      /\ \A p : At(r, p) = IF At(w, p) >= At(v, p) THEN At(w, p) ELSE At(v, p)
    BY RaisedIs DEF MostOf
<1>2. \A p : /\ p \in DOMAIN r => At(r, p) = r[p]
             /\ p \in DOMAIN w => At(w, p) = w[p]
             /\ p \in DOMAIN v => At(v, p) = v[p]
             /\ At(w, p) \in Nat /\ At(v, p) \in Nat
             /\ p \notin DOMAIN w => At(w, p) = 0
             /\ p \notin DOMAIN v => At(v, p) = 0
    BY DEF At, MostOf
<1>3. \A k \in {1, 2, 3} : Decayed(x, k) \in Nat
    BY DecayedIs
<1> HIDE DEF r
<1>4. ASSUME NEW p \in DOMAIN r
      PROVE  \E k \in {1, 2, 3} : <<p, k>> \in L \cup M /\ r[p] = Decayed(x, k)
    <2>1. CASE p \in DOMAIN w /\ r[p] = w[p]
        BY <2>1 DEF MostOf
    <2>2. CASE p \in DOMAIN v /\ r[p] = v[p]
        BY <2>2 DEF MostOf
    <2>3. r[p] = IF At(w, p) >= At(v, p) THEN At(w, p) ELSE At(v, p)
        BY <1>1, <1>2
    <2>4. CASE p \in DOMAIN w /\ p \in DOMAIN v
        BY <1>2, <2>1, <2>2, <2>3, <2>4
    <2>5. CASE p \in DOMAIN w /\ p \notin DOMAIN v
        BY <1>2, <2>1, <2>3, <2>5
    <2>6. CASE p \in DOMAIN v /\ p \notin DOMAIN w
        <3>1. At(w, p) = 0 /\ At(v, p) \in Nat /\ At(v, p) = v[p]
            BY <1>2, <2>6
        <3>2. r[p] = v[p]
            BY <2>3, <3>1
        <3> QED
            BY <2>2, <2>6, <3>2
    <2> QED
        BY <1>1, <2>4, <2>5, <2>6
<1>5. ASSUME NEW p, NEW k \in {1, 2, 3}, <<p, k>> \in L \cup M
      PROVE  p \in DOMAIN r /\ Decayed(x, k) <= r[p]
    <2>1. \/ p \in DOMAIN w /\ Decayed(x, k) <= At(w, p)
          \/ p \in DOMAIN v /\ Decayed(x, k) <= At(v, p)
        <3>1. CASE <<p, k>> \in L
            <4>1. p \in DOMAIN w /\ Decayed(x, k) <= w[p]
                BY <3>1 DEF MostOf
            <4> QED
                BY <1>2, <4>1
        <3>2. CASE <<p, k>> \in M
            <4>1. p \in DOMAIN v /\ Decayed(x, k) <= v[p]
                BY <3>2 DEF MostOf
            <4> QED
                BY <1>2, <4>1
        <3> QED
            BY <1>5, <3>1, <3>2
    <2>2. p \in DOMAIN r /\ r[p] = IF At(w, p) >= At(v, p) THEN At(w, p) ELSE At(v, p)
        BY <1>1, <1>2, <2>1
    <2>3. At(w, p) \in Nat /\ At(v, p) \in Nat /\ Decayed(x, k) \in Nat
        BY <1>2, <1>3
    <2> QED
        BY <2>1, <2>2, <2>3
<1> QED
    BY <1>1, <1>4, <1>5 DEF MostOf, r

(* The nodes to which chains lead from a seed, with their lengths.           *)
Reached(edges, seeds, from, depth) ==
    {c \in Nodes(edges) \X (1..depth) : <<from, c[1]>> \in Chains(edges, seeds, depth)[c[2]]}

LEMMA EndsAreNodes ==
    ASSUME NEW edges, ArePairs(edges), NEW seeds, NEW from, NEW depth \in {2, 3}, NEW k \in 1..depth, NEW n,
           <<from, n>> \in Chains(edges, seeds, depth)[k]
    PROVE  n \in Nodes(edges)
<1> DEFINE C == Chains(edges, seeds, depth)
           R == Ways(edges, seeds)
<1>1. C[1] = R /\ \A i \in 2..depth : C[i] = Linked(C[i - 1], R)
    <2> HIDE DEF C, R
    <2> QED
        BY ChainsAre DEF C, R
<1>2. <<from, n>> \in C[k]
    OBVIOUS
<1> HIDE DEF C
<1>3. CASE k = 1
    <2>1. <<from, n>> \in edges
        BY <1>1, <1>2, <1>3 DEF Ways
    <2>2. <<from, n>>[2] = n
        OBVIOUS
    <2> QED
        BY <2>1, <2>2 DEF Nodes
<1>4. CASE k \in 2..depth
    <2>1. PICK c \in C[k - 1] \X R : <<from, n>> = <<c[1][1], c[2][2]>>
        BY <1>1, <1>2, <1>4 DEF Linked
    <2>2. c[2] \in edges /\ c[2][2] = n
        BY <2>1 DEF Ways
    <2> QED
        BY <2>2 DEF Nodes
<1> QED
    BY <1>3, <1>4

(* The walk gives what the shortest chain to a node leaves of the score.      *)
LEMMA WalkedIs ==
    ASSUME NEW edges, ArePairs(edges), NEW seeds, NEW from \in DOMAIN seeds, seeds[from] \in Nat,
           NEW depth \in {2, 3}
    PROVE  /\ MostOf(Walked(edges, seeds, from, depth), seeds[from],
                     Reached(edges, DOMAIN seeds, from, depth))
           /\ \A n : \A k \in 1..depth : <<from, n>> \in Chains(edges, DOMAIN seeds, depth)[k] <=>
                                           <<n, k>> \in Reached(edges, DOMAIN seeds, from, depth)
<1> DEFINE D == DOMAIN seeds
           W == Layers(edges, D, from, depth)
           C == Chains(edges, D, depth)
           L == Reached(edges, D, from, depth)
           N == UNION {W[k].front : k \in 1..depth}
           hop(n) == CHOOSE k \in 1..depth : n \in W[k].front
           w == Walked(edges, seeds, from, depth)
           x == seeds[from]
<1>1. Nearest(W, C, D, from, depth)
    BY FrontIsNearest
<1>2. w = [n \in N |-> Decayed(x, hop(n))]
    BY Zenon DEF Walked
<1>3. \A n : \A k \in 1..depth : <<from, n>> \in C[k] <=> <<n, k>> \in L
    <2>1. ASSUME NEW n, NEW k \in 1..depth, <<from, n>> \in C[k]
          PROVE  n \in Nodes(edges)
        BY <2>1, EndsAreNodes
    <2> HIDE DEF C
    <2> QED
        BY <2>1 DEF Reached, C
<1> HIDE DEF W, C, L
<1>4. ASSUME NEW n \in N
      PROVE  hop(n) \in 1..depth /\ n \in W[hop(n)].front
    BY <1>4
<1> HIDE DEF hop
<1>5. 1..depth \subseteq {1, 2, 3} /\ \A k \in 1..depth : 1..k \subseteq 1..depth
    OBVIOUS
<1>6. \A k \in {1, 2, 3} : Decayed(x, k) \in Nat
    BY DecayedIs
<1>7. w \in [DOMAIN w -> Nat] /\ DOMAIN w = N
    BY <1>2, <1>4, <1>5, <1>6
<1>8. ASSUME NEW p \in N
      PROVE  \E k \in {1, 2, 3} : <<p, k>> \in L /\ w[p] = Decayed(x, k)
    <2>1. hop(p) \in {1, 2, 3} /\ <<from, p>> \in C[hop(p)]
        BY <1>1, <1>4, <1>5 DEF Nearest
    <2>2. <<p, hop(p)>> \in L
        BY <1>3, <1>4, <2>1
    <2> QED
        BY <1>2, <2>1, <2>2
<1>9. ASSUME NEW p, NEW k \in {1, 2, 3}, <<p, k>> \in L
      PROVE  p \in N /\ Decayed(x, k) <= w[p]
    <2>1. k \in 1..depth
        BY <1>9 DEF L, Reached
    <2>2. PICK j \in 1..k : p \in W[j].front
        BY <1>1, <1>3, <1>9, <2>1 DEF Nearest
    <2>3. j \in 1..depth /\ p \in N
        BY <1>5, <2>1, <2>2
    <2>4. hop(p) <= j
        <3>1. ~(j < hop(p))
            BY <1>1, <1>4, <2>2, <2>3 DEF Nearest
        <3> QED
            BY <1>4, <2>3, <3>1
    <2>5. hop(p) \in {1, 2, 3} /\ hop(p) <= k
        BY <1>4, <1>5, <2>1, <2>3, <2>4
    <2>6. Decayed(x, k) <= Decayed(x, hop(p))
        BY <2>5, DecayedIs
    <2> QED
        BY <1>2, <2>3, <2>6
<1>10. MostOf(w, x, L)
    BY <1>7, <1>8, <1>9 DEF MostOf
<1> QED
    BY <1>3, <1>10 DEF L, C

-----------------------------------------------------------------------------
(* The expansion.                                                            *)

Lends(edges, seeds, s, depth) ==
    (Reached(edges, seeds, s, depth) \cup Reached(Reversed(edges), seeds, s, depth))
        \cup {<<p, 2>> : p \in Mixed(edges, s)}

LEMMA ReversedIs ==
    ASSUME NEW edges, ArePairs(edges)
    PROVE  ArePairs(Reversed(edges)) /\ Nodes(Reversed(edges)) = Nodes(edges)
<1>1. ArePairs(Reversed(edges))
    BY DEF ArePairs, Reversed
<1>2. ASSUME NEW e \in edges
      PROVE  <<e[2], e[1]>>[1] = e[2] /\ <<e[2], e[1]>>[2] = e[1]
    OBVIOUS
<1>3. \A n : n \in Nodes(Reversed(edges)) <=> \E r \in Reversed(edges) : n \in {r[1], r[2]}
    BY DEF Nodes
<1>4. \A n : n \in Nodes(edges) <=> \E e \in edges : n \in {e[1], e[2]}
    BY DEF Nodes
<1>5. \A n : (\E r \in Reversed(edges) : n \in {r[1], r[2]}) <=> \E e \in edges : n \in {e[2], e[1]}
    BY <1>2 DEF Reversed
<1> QED
    BY <1>1, <1>3, <1>4, <1>5

LEMMA LentIs ==
    ASSUME NEW edges, ArePairs(edges), NEW seeds, NEW s \in DOMAIN seeds, seeds[s] \in Nat,
           NEW depth \in {2, 3}
    PROVE  MostOf(Lent(edges, seeds, s, depth), seeds[s], Lends(edges, DOMAIN seeds, s, depth))
<1> DEFINE D == DOMAIN seeds
           x == seeds[s]
           L == Reached(edges, D, s, depth)
           M == Reached(Reversed(edges), D, s, depth)
           K == {<<p, 2>> : p \in Mixed(edges, s)}
           w == Walked(edges, seeds, s, depth)
           v == Walked(Reversed(edges), seeds, s, depth)
           u == [p \in Mixed(edges, s) |-> Decayed(x, 2)]
<1>1. MostOf(w, x, L)
    BY WalkedIs
<1>2. MostOf(v, x, M)
    BY WalkedIs, ReversedIs
<1>3. MostOf(u, x, K)
    <2>1. Decayed(x, 2) \in Nat
        BY DecayedIs
    <2>2. \A p, k : <<p, k>> \in K <=> p \in Mixed(edges, s) /\ k = 2
        OBVIOUS
    <2> HIDE DEF K
    <2> QED
        BY <2>1, <2>2 DEF MostOf
<1>4. x \in Nat
    OBVIOUS
<1> HIDE DEF w, v, u, L, M, K, x
<1>5. MostOf(Raised(w, v), x, L \cup M)
    BY <1>1, <1>2, <1>4, RaisedMost
<1>6. MostOf(Raised(Raised(w, v), u), x, (L \cup M) \cup K)
    BY <1>3, <1>4, <1>5, RaisedMost
<1>7. Lent(edges, seeds, s, depth) = Raised(Raised(w, v), u)
    BY DEF Lent, w, v, u, x
<1>8. Lends(edges, D, s, depth) = (L \cup M) \cup K
    BY DEF Lends, L, M, K
<1> QED
    BY <1>6, <1>7, <1>8 DEF x

(* The lenders of the property are those of the walk.                        *)
LEMMA LendersAre ==
    ASSUME NEW edges, ArePairs(edges), NEW seeds, NEW depth \in {2, 3}, NEW p, NEW s \in seeds, NEW k \in 1..depth
    PROVE  <<s, k>> \in Lenders(edges, seeds, depth, p) <=> <<p, k>> \in Lends(edges, seeds, s, depth)
<1> DEFINE C == Chains(edges, seeds, depth)
           B == Chains(Reversed(edges), seeds, depth)
           l == <<s, k>>
           L == Reached(edges, seeds, s, depth)
           M == Reached(Reversed(edges), seeds, s, depth)
           K == {<<p2, 2>> : p2 \in Mixed(edges, s)}
<1>1. <<s, p>> \in C[k] <=> <<p, k>> \in L
    <2>1. ASSUME <<s, p>> \in C[k]
          PROVE  p \in Nodes(edges)
        BY <2>1, EndsAreNodes
    <2> HIDE DEF C
    <2> QED
        BY <2>1 DEF Reached, C
<1>2. <<s, p>> \in B[k] <=> <<p, k>> \in M
    <2>1. ASSUME <<s, p>> \in B[k]
          PROVE  p \in Nodes(Reversed(edges))
        BY <2>1, EndsAreNodes, ReversedIs
    <2> HIDE DEF B
    <2> QED
        BY <2>1 DEF Reached, B
<1>3. (k = 2 /\ p \in Mixed(edges, s)) <=> <<p, k>> \in K
    OBVIOUS
<1> HIDE DEF C, B, L, M, K
<1>4. l \in seeds \X (1..depth) /\ l[1] = s /\ l[2] = k
    OBVIOUS
<1> HIDE DEF l
<1>5. l \in Lenders(edges, seeds, depth, p) <=> \/ <<s, p>> \in C[k] \cup B[k]
                                                \/ k = 2 /\ p \in Mixed(edges, s)
    BY <1>4 DEF Lenders, C, B
<1>6. Lends(edges, seeds, s, depth) = (L \cup M) \cup K
    BY DEF Lends, L, M, K
<1> QED
    BY <1>1, <1>2, <1>3, <1>5, <1>6 DEF l

(* Each file that a seed leads to gets the most that any seed lends it.      *)
LEMMA ExpandedIs ==
    ASSUME RetrievalAssumption, NEW edges, ArePairs(edges), NEW seeds, IsScores(seeds),
           NEW depth \in {2, 3}
    PROVE  /\ IsScores(Expanded(edges, seeds, depth))
           /\ DOMAIN Expanded(edges, seeds, depth) \subseteq Nodes(edges)
           /\ \A p : p \in DOMAIN Expanded(edges, seeds, depth) <=>
                       p \in Paths /\ Lenders(edges, DOMAIN seeds, depth, p) # {}
           /\ \A p \in DOMAIN Expanded(edges, seeds, depth) :
                Expanded(edges, seeds, depth)[p] =
                    Max({Decayed(seeds[l[1]], l[2]) : l \in Lenders(edges, DOMAIN seeds, depth, p)})
<1> DEFINE D == DOMAIN seeds
           lent(s) == Lent(edges, seeds, s, depth)
           lends(s) == Lends(edges, D, s, depth)
           len(p) == Lenders(edges, D, depth, p)
           e == Expanded(edges, seeds, depth)
           met == (UNION {DOMAIN lent(s) : s \in D}) \cap Paths
           Gifts(p) == {At(lent(s), p) : s \in D}
           Loans(p) == {Decayed(seeds[l[1]], l[2]) : l \in len(p)}
<1>1. /\ IsFiniteSet(D) /\ D \subseteq Paths /\ \A s \in D : seeds[s] \in Nat
      /\ 1..depth \subseteq {1, 2, 3} /\ IsFiniteSet(1..depth)
    <2>1. IsFiniteSet(D)
        BY ScoresAreNumbers DEF Numbers
    <2>2. D \subseteq Paths /\ \A s \in D : seeds[s] \in Nat
        BY DEF IsScores
    <2>3. IsFiniteSet(1..depth)
        BY FS_Interval
    <2> QED
        BY <2>1, <2>2, <2>3
<1>2. \A s \in D : MostOf(lent(s), seeds[s], lends(s))
    BY <1>1, LentIs
<1>3. \A p : /\ len(p) \subseteq D \X (1..depth)
             /\ \A s \in D, k \in 1..depth : <<s, k>> \in len(p) <=> <<p, k>> \in lends(s)
    <2>1. \A p : len(p) \subseteq D \X (1..depth)
        BY DEF Lenders
    <2>2. ASSUME NEW p, NEW s \in D, NEW k \in 1..depth
          PROVE  <<s, k>> \in len(p) <=> <<p, k>> \in lends(s)
        BY LendersAre
    <2> QED
        BY <2>1, <2>2
<1>4. e = [p \in met |-> Max(Gifts(p))]
    BY DEF Expanded
<1>5. \A s \in D : \A p, k : <<p, k>> \in lends(s) => k \in 1..depth
    BY DEF Lends, Reached
<1>6. \A s \in D : \A p, k : <<p, k>> \in lends(s) => p \in Nodes(edges)
    <2>1. ASSUME NEW s \in D, NEW p, NEW k, <<p, k>> \in lends(s)
          PROVE  p \in Nodes(edges)
        <3>1. CASE <<p, k>> \in Reached(edges, D, s, depth)
            BY <3>1 DEF Reached
        <3>2. CASE <<p, k>> \in Reached(Reversed(edges), D, s, depth)
            <4>1. p \in Nodes(Reversed(edges))
                BY <3>2 DEF Reached
            <4> QED
                BY <4>1, ReversedIs
        <3>3. CASE p \in Mixed(edges, s)
            <4>1. CASE p \in Nodes(edges)
                BY <4>1
            <4>2. CASE \E n : <<p, n>> \in edges
                BY <4>2 DEF Nodes
            <4> QED
                BY <3>3, <4>1, <4>2 DEF Mixed
        <3> QED
            BY <2>1, <3>1, <3>2, <3>3 DEF Lends
    <2> QED
        BY <2>1
<1> HIDE DEF D, lent, lends, len, e, met, Gifts, Loans
<1>7. \A p : p \in met <=> p \in Paths /\ \E s \in D : p \in DOMAIN lent(s)
    BY DEF met
<1>8. \A s \in D : \A p : p \in DOMAIN lent(s) => \E k \in 1..depth : /\ <<s, k>> \in len(p)
                                                                  /\ lent(s)[p] = Decayed(seeds[s], k)
    <2>1. ASSUME NEW s \in D, NEW p \in DOMAIN lent(s)
          PROVE  \E k \in 1..depth : <<s, k>> \in len(p) /\ lent(s)[p] = Decayed(seeds[s], k)
        <3>1. PICK k \in {1, 2, 3} : <<p, k>> \in lends(s) /\ lent(s)[p] = Decayed(seeds[s], k)
            BY <1>2 DEF MostOf
        <3> QED
            BY <1>3, <1>5, <3>1
    <2> QED
        BY <2>1
<1>9. \A s \in D : \A p : \A k \in 1..depth : <<s, k>> \in len(p) => /\ p \in DOMAIN lent(s)
                                                                /\ Decayed(seeds[s], k) <= lent(s)[p]
    <2>1. ASSUME NEW s \in D, NEW p, NEW k \in 1..depth, <<s, k>> \in len(p)
          PROVE  p \in DOMAIN lent(s) /\ Decayed(seeds[s], k) <= lent(s)[p]
        <3>1. k \in {1, 2, 3} /\ <<p, k>> \in lends(s) /\ MostOf(lent(s), seeds[s], lends(s))
            BY <1>1, <1>2, <1>3, <2>1
        <3> QED
            BY <3>1 DEF MostOf
    <2> QED
        BY <2>1
<1>10. \A p : p \in met <=> p \in Paths /\ len(p) # {}
    <2>1. ASSUME NEW p, len(p) # {}
          PROVE  \E s \in D, k \in 1..depth : <<s, k>> \in len(p)
        <3>1. PICK l \in len(p) : TRUE
            BY <2>1
        <3>2. l[1] \in D /\ l[2] \in 1..depth /\ l = <<l[1], l[2]>>
            BY <1>3
        <3> QED
            BY <3>1, <3>2
    <2> QED
        BY <1>7, <1>8, <1>9, <2>1
<1>11. met \subseteq Nodes(edges)
    <2>1. ASSUME NEW p \in met
          PROVE  p \in Nodes(edges)
        <3>1. PICK s \in D : p \in DOMAIN lent(s)
            BY <1>7
        <3>2. PICK k \in 1..depth : <<s, k>> \in len(p)
            BY <1>8, <3>1
        <3> QED
            BY <1>3, <1>6, <3>2
    <2> QED
        BY <2>1
<1>12. \A s \in D : \A p : At(lent(s), p) \in Nat
    <2>1. \A s \in D : lent(s) \in [DOMAIN lent(s) -> Nat]
        BY <1>2 DEF MostOf
    <2> QED
        BY <2>1 DEF At
<1>13. \A s \in D, k \in 1..depth : Decayed(seeds[s], k) \in Nat
    BY <1>1, DecayedIs
<1>14. ASSUME NEW p \in met
       PROVE  Max(Gifts(p)) \in Nat /\ Max(Gifts(p)) = Max(Loans(p))
    <2>1. D # {} /\ len(p) # {}
        BY <1>7, <1>10
    <2>2. /\ Max(Gifts(p)) \in Gifts(p) /\ Max(Gifts(p)) \in Nat
          /\ \A s \in D : At(lent(s), p) <= Max(Gifts(p))
        <3> DEFINE f == [s \in D |-> At(lent(s), p)]
        <3>1. f \in [D -> Nat]
            BY <1>12
        <3>2. {f[s] : s \in D} = Gifts(p)
            BY DEF Gifts
        <3>3. \A s \in D : f[s] = At(lent(s), p)
            OBVIOUS
        <3> HIDE DEF f
        <3> QED
            BY <1>1, <2>1, <3>1, <3>2, <3>3, MaxValue
    <2>3. /\ Max(Loans(p)) \in Loans(p) /\ Max(Loans(p)) \in Nat
          /\ \A l \in len(p) : Decayed(seeds[l[1]], l[2]) <= Max(Loans(p))
        <3> DEFINE A == len(p)
                   f == [l \in A |-> Decayed(seeds[l[1]], l[2])]
        <3>1. IsFiniteSet(A)
            <4>1. IsFiniteSet(D \X (1..depth))
                BY <1>1, FS_Product
            <4> QED
                BY <1>3, <4>1, FS_Subset
        <3>2. \A l \in A : l[1] \in D /\ l[2] \in 1..depth
            BY <1>3
        <3>3. f \in [A -> Nat]
            BY <1>13, <3>2
        <3>4. {f[l] : l \in A} = Loans(p)
            BY DEF Loans
        <3>5. \A l \in A : f[l] = Decayed(seeds[l[1]], l[2])
            OBVIOUS
        <3> HIDE DEF f, A
        <3>6. A # {}
            BY <2>1 DEF A
        <3>7. /\ Max({f[l] : l \in A}) \in {f[l] : l \in A}
              /\ Max({f[l] : l \in A}) \in Nat
              /\ \A l \in A : f[l] <= Max({f[l2] : l2 \in A})
            BY <3>1, <3>3, <3>6, MaxValue
        <3>8. \A l \in A : Decayed(seeds[l[1]], l[2]) <= Max(Loans(p))
            BY <3>4, <3>5, <3>7
        <3> QED
            BY <3>4, <3>7, <3>8 DEF A
    <2>4. Max(Gifts(p)) <= Max(Loans(p))
        <3>1. PICK s \in D : Max(Gifts(p)) = At(lent(s), p)
            BY <2>2 DEF Gifts
        <3>2. CASE p \in DOMAIN lent(s)
            <4>1. PICK k \in 1..depth : <<s, k>> \in len(p) /\ lent(s)[p] = Decayed(seeds[s], k)
                BY <1>8, <3>2
            <4>2. <<s, k>>[1] = s /\ <<s, k>>[2] = k
                OBVIOUS
            <4>3. Decayed(seeds[s], k) <= Max(Loans(p))
                BY <2>3, <4>1, <4>2
            <4> QED
                BY <3>1, <3>2, <4>1, <4>3 DEF At
        <3>3. CASE p \notin DOMAIN lent(s)
            BY <2>3, <3>1, <3>3 DEF At
        <3> QED
            BY <3>2, <3>3
    <2>5. Max(Loans(p)) <= Max(Gifts(p))
        <3>1. PICK l \in len(p) : Max(Loans(p)) = Decayed(seeds[l[1]], l[2])
            BY <2>3 DEF Loans
        <3>2. l[1] \in D /\ l[2] \in 1..depth /\ l = <<l[1], l[2]>>
            BY <1>3
        <3>3. p \in DOMAIN lent(l[1]) /\ Decayed(seeds[l[1]], l[2]) <= lent(l[1])[p]
            BY <1>9, <3>2
        <3>4. At(lent(l[1]), p) = lent(l[1])[p] /\ At(lent(l[1]), p) <= Max(Gifts(p))
            BY <2>2, <3>2, <3>3 DEF At
        <3>5. At(lent(l[1]), p) \in Nat /\ Decayed(seeds[l[1]], l[2]) \in Nat
            BY <1>12, <1>13, <3>2
        <3> QED
            BY <2>2, <3>1, <3>3, <3>4, <3>5
    <2> QED
        BY <2>2, <2>3, <2>4, <2>5
<1>15. /\ DOMAIN e = met /\ met \subseteq Paths
       /\ \A p \in met : e[p] = Max(Loans(p)) /\ e[p] \in Nat
       /\ e = [p \in met |-> e[p]]
    BY <1>4, <1>7, <1>14
<1>16. IsScores(e)
    BY <1>15 DEF IsScores
<1> QED
    BY <1>10, <1>11, <1>15, <1>16 DEF e, len, D, Loans

-----------------------------------------------------------------------------
(* The weights keep the candidates.                                          *)

LEMMA ProductIs ==
    ASSUME NEW a \in Nat, NEW b \in Nat
    PROVE  a * b \in Nat
OBVIOUS

LEMMA ScoreMap ==
    ASSUME NEW D, D \subseteq Paths, NEW f \in [D -> Nat]
    PROVE  IsScores(f) /\ DOMAIN f = D
BY DEF IsScores

LEMMA TopOfScores ==
    ASSUME RetrievalAssumption, NEW s, IsScores(s)
    PROVE  Top(s) \in Nat /\ \A p \in DOMAIN s : s[p] \in Nat /\ s[p] <= Top(s)
BY ScoresAreNumbers, TopIs DEF IsScores

LEMMA ConfigBoostKeeps ==
    ASSUME RetrievalAssumption, NEW s, IsScores(s), NEW q, NEW rows
    PROVE  IsScores(ConfigBoost(s, q, rows)) /\ DOMAIN ConfigBoost(s, q, rows) = DOMAIN s
<1>1. CASE ~q.config
    BY <1>1 DEF ConfigBoost
<1>2. CASE q.config
    <2> DEFINE v(p) == IF RoleOf(p, rows) = "config" /\ s[p] > 0
                         THEN Max({s[p], Top(s) \div 2}) ELSE s[p]
               f == [p \in DOMAIN s |-> v(p)]
    <2>1. ASSUME NEW p \in DOMAIN s
          PROVE  v(p) \in Nat
        <3>1. s[p] \in Nat /\ Top(s) \in Nat
            BY TopOfScores
        <3>2. Top(s) \div 2 \in Nat
            BY <3>1
        <3>3. Max({s[p], Top(s) \div 2}) \in Nat
            BY <3>1, <3>2, MaxOfTwo
        <3> QED
            BY <3>1, <3>3
    <2>2. ConfigBoost(s, q, rows) = f
        BY <1>2 DEF ConfigBoost
    <2> HIDE DEF v
    <2>3. f \in [DOMAIN s -> Nat]
        BY <2>1
    <2> QED
        BY <2>2, <2>3, ScoreMap DEF IsScores
<1> QED
    BY <1>1, <1>2

LEMMA PathBoostKeeps ==
    ASSUME RetrievalAssumption, NEW s, IsScores(s), NEW q \in Queries
    PROVE  IsScores(PathBoost(s, q)) /\ DOMAIN PathBoost(s, q) = DOMAIN s
<1>1. q.inPath \in [Paths -> Nat]
    BY DEF RetrievalAssumption
<1> QED
    BY <1>1 DEF PathBoost, IsScores

LEMMA RoleWeightedKeeps ==
    ASSUME RetrievalAssumption, NEW s, IsScores(s), NEW q, NEW mode, NEW rows
    PROVE  /\ IsScores(RoleWeighted(s, q, mode, rows))
           /\ DOMAIN RoleWeighted(s, q, mode, rows) = DOMAIN s
<1> DEFINE w(p) == IF q.docs /\ RoleOf(p, rows) = "docs" THEN 120 ELSE RoleWeight(RoleOf(p, rows), mode)
           f == [p \in DOMAIN s |-> (s[p] * w(p)) \div 100]
<1>1. \A role : RoleWeight(role, mode) \in Nat
    BY DEF RoleWeight
<1>2. ASSUME NEW p \in DOMAIN s
      PROVE  w(p) \in Nat /\ s[p] \in Nat
    BY <1>1, TopOfScores
<1>3. RoleWeighted(s, q, mode, rows) = f
    BY DEF RoleWeighted
<1> HIDE DEF w
<1>4. ASSUME NEW p \in DOMAIN s
      PROVE  (s[p] * w(p)) \div 100 \in Nat
    <2>1. s[p] * w(p) \in Nat
        BY <1>2, ProductIs
    <2> QED
        BY <2>1, Quotient
<1>5. f \in [DOMAIN s -> Nat]
    BY <1>4
<1> QED
    BY <1>3, <1>5, ScoreMap DEF IsScores

(* The median exists if there are candidates, and the quotient is one.        *)
LEMMA CentralityBoostKeeps ==
    ASSUME RetrievalAssumption, NEW s, IsScores(s), NEW edges
    PROVE  IsScores(CentralityBoost(s, edges)) /\ DOMAIN CentralityBoost(s, edges) = DOMAIN s
<1> DEFINE central == [p \in DOMAIN s |-> IF p \in Nodes(edges) THEN Central[p] ELSE 0]
           ranked == Ranked(central)
           n == Len(ranked)
           mid == central[ranked[n + 1 - Max({1, n \div 2})]]
           top == Top(central)
           f == [p \in DOMAIN s |-> IF central[p] <= mid THEN s[p]
                                    ELSE s[p] + (s[p] * (central[p] - mid)) \div (10 * (top - mid))]
<1>1. CentralityBoost(s, edges) = IF DOMAIN s = {} \/ top <= mid THEN s ELSE f
    BY Zenon DEF CentralityBoost
<1>2. IsScores(central) /\ DOMAIN central = DOMAIN s
    <2>1. \A p \in DOMAIN s : Central[p] \in Nat
        BY DEF RetrievalAssumption, IsScores
    <2> QED
        BY <2>1 DEF IsScores
<1> HIDE DEF central
<1>3. ASSUME DOMAIN s # {}
      PROVE  mid \in Nat /\ top \in Nat
    <2>1. Numbers(central) /\ Ties(Position, DOMAIN central)
        BY <1>2, ScoresAreNumbers
    <2>2. /\ ranked \in Seq(DOMAIN central) /\ n = Cardinality(DOMAIN central)
        BY <2>1, SortedIs DEF Ranked
    <2>3. n \in Nat /\ n # 0
        BY <1>2, <1>3, <2>1, <2>2, FS_CardinalityType, FS_EmptySet DEF Numbers
    <2> DEFINE i == n + 1 - Max({1, n \div 2})
    <2>4. i \in 1..n
        <3>1. n \div 2 \in Nat /\ n \div 2 <= n
            BY <2>3
        <3>2. Max({1, n \div 2}) = IF 1 >= n \div 2 THEN 1 ELSE n \div 2
            BY <3>1, MaxOfTwo
        <3> HIDE DEF n
        <3> QED
            BY <2>3, <3>1, <3>2
    <2>5. ranked[i] \in DOMAIN central
        <3> HIDE DEF i, ranked
        <3> QED
            BY <2>2, <2>4
    <2> QED
        BY <1>2, <2>5, TopOfScores
<1> HIDE DEF mid, top
<1>4. ASSUME DOMAIN s # {}, ~(top <= mid), NEW p \in DOMAIN s, ~(central[p] <= mid)
      PROVE  s[p] + (s[p] * (central[p] - mid)) \div (10 * (top - mid)) \in Nat
    <2>1. s[p] \in Nat /\ central[p] \in Nat /\ mid \in Nat /\ top \in Nat
        BY <1>2, <1>3, <1>4, TopOfScores
    <2> DEFINE a == central[p] - mid
               b == 10 * (top - mid)
    <2>2. a \in Nat /\ b \in Nat \ {0}
        BY <1>4, <2>1
    <2> HIDE DEF a, b
    <2>3. s[p] * a \in Nat
        BY <2>1, <2>2, ProductIs
    <2>4. (s[p] * a) \div b \in Nat
        BY <2>2, <2>3, Quotient
    <2>5. s[p] + (s[p] * a) \div b \in Nat
        BY <2>1, <2>4
    <2> QED
        BY <2>5 DEF a, b
<1>5. ASSUME DOMAIN s # {}, ~(top <= mid)
      PROVE  f \in [DOMAIN s -> Nat]
    <2>1. \A p \in DOMAIN s : s[p] \in Nat
        BY TopOfScores
    <2> DEFINE v(p) == s[p] + (s[p] * (central[p] - mid)) \div (10 * (top - mid))
    <2>2. \A p \in DOMAIN s : ~(central[p] <= mid) => v(p) \in Nat
        BY <1>4, <1>5
    <2> HIDE DEF v
    <2>3. [p \in DOMAIN s |-> IF central[p] <= mid THEN s[p] ELSE v(p)] \in [DOMAIN s -> Nat]
        BY <2>1, <2>2
    <2> QED
        BY <2>3 DEF v
<1> HIDE DEF f
<1>6. CASE DOMAIN s = {} \/ top <= mid
    BY <1>1, <1>6
<1>7. CASE DOMAIN s # {} /\ ~(top <= mid)
    <2>1. IsScores(f) /\ DOMAIN f = DOMAIN s
        BY <1>5, <1>7, ScoreMap DEF IsScores
    <2> QED
        BY <1>1, <1>7, <2>1
<1> QED
    BY <1>6, <1>7

LEMMA GitBoostKeeps ==
    ASSUME RetrievalAssumption, NEW s, IsScores(s)
    PROVE  IsScores(GitBoost(s)) /\ DOMAIN GitBoost(s) = DOMAIN s
<1> DEFINE c(p) == IF p \in Churned THEN (s[p] * 110) \div 100 ELSE s[p]
           v(p) == IF p \in Young THEN (c(p) * 105) \div 100 ELSE c(p)
           f == [p \in DOMAIN s |-> v(p)]
<1>1. GitBoost(s) = f
    BY Zenon DEF GitBoost
<1>2. ASSUME NEW p \in DOMAIN s
      PROVE  v(p) \in Nat
    <2>1. s[p] \in Nat
        BY TopOfScores
    <2>2. c(p) \in Nat
        BY <2>1
    <2> HIDE DEF c
    <2> QED
        BY <2>2
<1> HIDE DEF v
<1>3. f \in [DOMAIN s -> Nat]
    BY <1>2
<1> QED
    BY <1>1, <1>3, ScoreMap DEF IsScores

-----------------------------------------------------------------------------
(* The fusion with the vector answer.                                        *)

LEMMA VectorWeightIs ==
    ASSUME RetrievalAssumption, NEW corpus \in Nat, NEW top \in Nat
    PROVE  VectorWeight(corpus, top) \in Nat /\ (top = 0 => VectorWeight(corpus, top) = 0)
<1> DEFINE score == IF top >= 70 THEN 100 ELSE ((top - 45) * 100) \div 25
           span == FullCorpus - MinCorpus
           over == (corpus - MinCorpus) * 100
           size == IF corpus >= FullCorpus THEN 100 ELSE over \div span
<1>1. VectorWeight(corpus, top) =
          IF top <= 45 \/ corpus <= MinCorpus THEN 0 ELSE (score * size) \div 100
    BY Zenon DEF VectorWeight
<1>2. MinCorpus \in Nat /\ FullCorpus \in Nat /\ MinCorpus < FullCorpus
    BY DEF RetrievalAssumption
<1>3. ASSUME ~(top <= 45), ~(corpus <= MinCorpus)
      PROVE  (score * size) \div 100 \in Nat
    <2>1. score \in Nat
        BY <1>3
    <2>2. over \in Nat /\ span \in Nat \ {0}
        BY <1>2, <1>3
    <2> HIDE DEF over, span
    <2>3. over \div span \in Nat
        BY <2>2, Quotient
    <2>4. size \in Nat
        BY <2>3
    <2> HIDE DEF score, size
    <2>5. score * size \in Nat
        BY <2>1, <2>4, ProductIs
    <2> QED
        BY <2>5, Quotient
<1> QED
    BY <1>1, <1>3

(* Who stands first has a positive part if the weight is.                     *)
LEMMA ReciprocalIs ==
    ASSUME RetrievalAssumption, NEW s, IsScores(s), NEW weight \in Nat
    PROVE  /\ IsScores(Reciprocal(s, weight)) /\ DOMAIN Reciprocal(s, weight) = DOMAIN s
           /\ DOMAIN s # {} /\ weight # 0 => \E p \in DOMAIN s : Reciprocal(s, weight)[p] > 0
<1> DEFINE P(p) == Place(s, Position, p)
           f == [p \in DOMAIN s |-> (10000 * weight) \div (61 + P(p))]
           n == Cardinality(DOMAIN s)
<1>1. Reciprocal(s, weight) = f
    BY DEF Reciprocal
<1>2. Numbers(s) /\ Ties(Position, DOMAIN s)
    BY ScoresAreNumbers
<1>3. /\ \A p \in DOMAIN s : P(p) \in 0..(n - 1)
      /\ \A i \in 0..(n - 1) : \E p \in DOMAIN s : P(p) = i
    BY <1>2, PlaceIs
<1>4. n \in Nat /\ (DOMAIN s # {} => n # 0)
    BY <1>2, FS_CardinalityType, FS_EmptySet DEF Numbers
<1> HIDE DEF P, n
<1>5. ASSUME NEW p \in DOMAIN s
      PROVE  (10000 * weight) \div (61 + P(p)) \in Nat
    <2>1. 61 + P(p) \in Nat \ {0} /\ 10000 * weight \in Nat
        BY <1>3, <1>4
    <2> QED
        BY <2>1, Quotient
<1>6. f \in [DOMAIN s -> Nat]
    BY <1>5
<1>7. ASSUME DOMAIN s # {}, weight # 0
      PROVE  \E p \in DOMAIN s : f[p] > 0
    <2>1. 0 \in 0..(n - 1)
        BY <1>4, <1>7
    <2>2. PICK p \in DOMAIN s : P(p) = 0
        BY <1>3, <2>1
    <2>3. f[p] = (10000 * weight) \div 61
        BY <2>2
    <2>4. (10000 * weight) \div 61 > 0
        BY <1>7
    <2> QED
        BY <2>3, <2>4
<1> HIDE DEF f
<1> QED
    BY <1>1, <1>6, <1>7, ScoreMap DEF IsScores

(* No quotient by zero: a weight means a vector answer, and it a best sum.     *)
LEMMA FusedIs ==
    ASSUME RetrievalAssumption, NEW s, IsScores(s), NEW vectors, IsScores(vectors), NEW corpus \in Nat
    PROVE  /\ IsScores(Fused(s, vectors, corpus))
           /\ DOMAIN s \subseteq DOMAIN Fused(s, vectors, corpus)
           /\ DOMAIN Fused(s, vectors, corpus) \subseteq DOMAIN s \cup DOMAIN vectors
<1> DEFINE weight == VectorWeight(corpus, Top(vectors))
           sum == Plus(Reciprocal(s, 100), Reciprocal(vectors, weight))
           best == IF DOMAIN s = {} THEN 1000 ELSE Top(s)
           f == [p \in DOMAIN sum |-> (sum[p] * best) \div Top(sum)]
<1>1. Fused(s, vectors, corpus) = IF weight = 0 THEN s ELSE f
    BY Zenon DEF Fused
<1>2. Top(vectors) \in Nat /\ Top(s) \in Nat
    BY TopOfScores
<1>3. weight \in Nat /\ (DOMAIN vectors = {} => weight = 0)
    <2>1. DOMAIN vectors = {} => Top(vectors) = 0
        BY DEF Top
    <2> QED
        BY <1>2, <2>1, VectorWeightIs
<1> HIDE DEF weight
<1> DEFINE a == Reciprocal(s, 100)
           b == Reciprocal(vectors, weight)
<1>4. /\ IsScores(a) /\ DOMAIN a = DOMAIN s
      /\ IsScores(b) /\ DOMAIN b = DOMAIN vectors
      /\ weight # 0 => \E p \in DOMAIN vectors : b[p] > 0
    BY <1>3, ReciprocalIs
<1> HIDE DEF a, b
<1>5. IsScores(Plus(a, b)) /\ DOMAIN Plus(a, b) = DOMAIN s \cup DOMAIN vectors
    BY <1>4, PlusIs
<1>6. sum = Plus(a, b)
    BY DEF a, b
<1> HIDE DEF sum
<1>7. IsScores(sum) /\ DOMAIN sum = DOMAIN s \cup DOMAIN vectors
    BY <1>5, <1>6
<1>8. ASSUME weight # 0
      PROVE  Top(sum) \in Nat \ {0}
    <2>1. PICK p \in DOMAIN vectors : b[p] > 0
        BY <1>4, <1>8
    <2>2. sum[p] = At(a, p) + At(b, p) /\ At(b, p) = b[p]
        BY <1>4, <1>6 DEF Plus, At
    <2>3. At(a, p) \in Nat /\ b[p] \in Nat
        BY <1>4 DEF At, IsScores
    <2>4. sum[p] > 0
        BY <2>1, <2>2, <2>3
    <2>5. Top(sum) \in Nat /\ sum[p] \in Nat /\ sum[p] <= Top(sum)
        BY <1>7, TopOfScores
    <2> QED
        BY <2>4, <2>5
<1>9. ASSUME weight # 0
      PROVE  f \in [DOMAIN sum -> Nat]
    <2>1. best \in Nat
        BY <1>2
    <2> HIDE DEF best
    <2>2. ASSUME NEW p \in DOMAIN sum
          PROVE  (sum[p] * best) \div Top(sum) \in Nat
        <3>1. sum[p] \in Nat
            BY <1>7 DEF IsScores
        <3>2. sum[p] * best \in Nat
            BY <2>1, <3>1, ProductIs
        <3> QED
            BY <1>8, <1>9, <3>2, Quotient
    <2> QED
        BY <2>2
<1> HIDE DEF f
<1>10. CASE weight = 0
    BY <1>1, <1>10
<1>11. CASE weight # 0
    <2>1. IsScores(f) /\ DOMAIN f = DOMAIN sum
        BY <1>7, <1>9, <1>11, ScoreMap DEF IsScores
    <2> QED
        BY <1>1, <1>7, <1>11, <2>1
<1> QED
    BY <1>10, <1>11

LEMMA KeptIs ==
    ASSUME NEW s, IsScores(s)
    PROVE  IsScores(Kept(s)) /\ DOMAIN Kept(s) \subseteq DOMAIN s
<1> DEFINE D == {f \in DOMAIN s : 10 * s[f] >= 4 * Top(s)}
           k == [p \in D |-> s[p]]
<1>1. Kept(s) = k
    BY DEF Kept
<1>2. D \subseteq DOMAIN s
    OBVIOUS
<1> HIDE DEF D
<1>3. k \in [D -> Nat]
    BY <1>2 DEF IsScores
<1> QED
    BY <1>1, <1>2, <1>3, ScoreMap DEF IsScores

-----------------------------------------------------------------------------

(* Scores of files.                                                          *)
Scores == UNION {[D -> Nat] : D \in SUBSET Paths}

Packs ==
    [pc : {"idle", "open", "match", "rank", "rerank", "build", "answer"},
     mode : {"navigate", "edit"}, query : Queries, names : SUBSET (Symbols \X Paths),
     edges : SUBSET (Paths \X (Paths \cup Symbols)), vectors : Scores, seen : SUBSET Paths,
     scores : Scores, seeds : Scores, initial : SUBSET Paths, expanded : Scores,
     files : Seq(Paths), final : SUBSET Paths, dropped : SUBSET Paths,
     coverage : {"none", "ambiguous", "medium", "high"}, changed : SUBSET Paths]

StoresTyped ==
    /\ disk \in [Paths -> DOMAIN Names \cup {Gone}]
    /\ cache \in [Paths -> DOMAIN Names \cup {Gone}]
    /\ text \in [Paths -> DOMAIN Names \cup {Gone}]
    /\ half \in Paths \cup {Gone}
    /\ pack \in Packs

(* What the full text index has, and what a name stands for, was seen.       *)
SeenSoFar ==
    /\ pack.pc # "idle" => \A p \in Paths : text[p] # Gone => p \in pack.seen
    /\ pack.pc \in {"open", "match"} => \A n \in pack.names : n[2] \in pack.seen
    /\ pack.pc \in {"open", "match", "rank", "rerank", "build"} => pack.changed = {}

(* What the search has found: by name or text, and along the graph.          *)
FoundSoFar ==
    pack.pc = "rank" =>
      /\ pack.initial \subseteq pack.seen
      /\ pack.expanded = Expanded(pack.edges, pack.seeds, Depth(pack.mode))
      /\ DOMAIN pack.scores = pack.initial \cup DOMAIN pack.expanded

(* The ranking lists the final files once, and accounts for what was found.  *)
RankedSoFar ==
    pack.pc \in {"rerank", "build"} =>
      /\ DOMAIN pack.scores = pack.final
      /\ ToSet(pack.files) = pack.final
      /\ Len(pack.files) = Cardinality(pack.final)
      /\ \A p \in pack.initial \cup DOMAIN pack.expanded :
           p \in pack.final \cup pack.dropped \/ Cardinality(pack.final) = Limit
      /\ pack.final \subseteq pack.seen \cup Nodes(pack.edges) \cup DOMAIN pack.vectors

PackInv ==
    /\ StoresTyped
    /\ SeenSoFar
    /\ FoundSoFar
    /\ RankedSoFar
    /\ PackIsExplained

-----------------------------------------------------------------------------
LEMMA ScoresAre ==
    ASSUME NEW s
    PROVE  s \in Scores <=> IsScores(s)
BY DEF Scores, IsScores

LEMMA IdlePack ==
    ASSUME RetrievalAssumption
    PROVE  /\ Idle \in Packs
           /\ Idle.pc = "idle" /\ Idle.changed = {}
<1>1. NoScores \in Scores
    BY DEF NoScores, Scores
<1>2. (CHOOSE q \in Queries : TRUE) \in Queries
    BY DEF RetrievalAssumption
<1>3. <<>> \in Seq(Paths)
    OBVIOUS
<1> HIDE DEF Scores
<1> QED
    BY <1>1, <1>2, <1>3 DEF Idle, Packs

LEMMA RelationsArePairs ==
    ASSUME NEW edges \in SUBSET (Paths \X (Paths \cup Symbols))
    PROVE  ArePairs(edges)
BY DEF ArePairs

LEMMA NoticedIs ==
    ASSUME pack \in Packs, NEW p \in Paths, NEW c, Noticed(p, c)
    PROVE  /\ pack' \in Packs
           /\ pack'.pc = pack.pc /\ pack'.query = pack.query /\ pack'.mode = pack.mode
           /\ pack'.names = pack.names /\ pack'.edges = pack.edges /\ pack'.vectors = pack.vectors
           /\ pack'.scores = pack.scores /\ pack'.seeds = pack.seeds
           /\ pack'.initial = pack.initial /\ pack'.expanded = pack.expanded
           /\ pack'.files = pack.files /\ pack'.final = pack.final
           /\ pack'.dropped = pack.dropped /\ pack'.changed = pack.changed
           /\ pack.seen \subseteq pack'.seen
           /\ pack.pc # "idle" /\ c # Gone => p \in pack'.seen
<1>1. CASE pack.pc = "idle" \/ c = Gone
    <2>1. pack' = pack
        BY <1>1 DEF Noticed
    <2> QED
        BY <1>1, <2>1
<1>2. CASE ~(pack.pc = "idle" \/ c = Gone)
    <2>1. pack' = [pack EXCEPT !.seen = @ \cup {p}]
        BY <1>2 DEF Noticed
    <2> QED
        BY <2>1 DEF Packs
<1> QED
    BY <1>1, <1>2

(* What is noticed unsettles nothing.                                        *)
LEMMA NoticingKeeps ==
    ASSUME PackInv, NEW p \in Paths, NEW c, Noticed(p, c)
    PROVE  /\ pack' \in Packs
           /\ FoundSoFar' /\ RankedSoFar' /\ PackIsExplained'
<1>1. /\ pack' \in Packs
      /\ pack'.pc = pack.pc /\ pack'.mode = pack.mode /\ pack'.edges = pack.edges
      /\ pack'.vectors = pack.vectors
      /\ pack'.scores = pack.scores /\ pack'.seeds = pack.seeds
      /\ pack'.initial = pack.initial /\ pack'.expanded = pack.expanded
      /\ pack'.files = pack.files /\ pack'.final = pack.final
      /\ pack'.dropped = pack.dropped /\ pack'.changed = pack.changed
      /\ pack.seen \subseteq pack'.seen
    BY NoticedIs DEF PackInv, StoresTyped
<1>2. FoundSoFar'
    BY <1>1 DEF PackInv, FoundSoFar
<1>3. RankedSoFar'
    BY <1>1 DEF PackInv, RankedSoFar
<1>4. PackIsExplained'
    BY <1>1 DEF PackInv, PackIsExplained
<1> QED
    BY <1>1, <1>2, <1>3, <1>4

LEMMA EditKeeps ==
    ASSUME RetrievalAssumption, PackInv, NEW p \in Paths, NEW c \in Contents[p] \cup {Gone}, Edit(p, c)
    PROVE  PackInv'
<1>1. c \in DOMAIN Names \cup {Gone}
    BY DEF RetrievalAssumption
<1>2. /\ disk' = [disk EXCEPT ![p] = c]
      /\ cache' = cache /\ text' = text /\ half' = half /\ pack' = pack
    BY DEF Edit
<1>3. StoresTyped'
    BY <1>1, <1>2 DEF PackInv, StoresTyped
<1>4. SeenSoFar' /\ FoundSoFar' /\ RankedSoFar' /\ PackIsExplained'
    BY <1>2 DEF PackInv, SeenSoFar, FoundSoFar, RankedSoFar, PackIsExplained
<1> QED
    BY <1>3, <1>4 DEF PackInv

LEMMA ScanKeeps ==
    ASSUME RetrievalAssumption, PackInv, (\E p \in Paths : ScanCache(p)) \/ ScanText
    PROVE  PackInv'
<1>1. ASSUME NEW p \in Paths, ScanCache(p)
      PROVE  PackInv'
    <2>1. /\ cache' = [cache EXCEPT ![p] = disk[p]] /\ half' = p
          /\ Noticed(p, disk[p]) /\ disk' = disk /\ text' = text
        BY <1>1 DEF ScanCache
    <2>2. pack' \in Packs /\ FoundSoFar' /\ RankedSoFar' /\ PackIsExplained'
        BY <2>1, NoticingKeeps
    <2>3. /\ pack'.pc = pack.pc /\ pack'.names = pack.names /\ pack'.changed = pack.changed
          /\ pack.seen \subseteq pack'.seen
        BY <2>1, NoticedIs DEF PackInv, StoresTyped
    <2>4. StoresTyped'
        BY <2>1, <2>2 DEF PackInv, StoresTyped
    <2>5. SeenSoFar'
        BY <2>1, <2>3 DEF PackInv, SeenSoFar
    <2> QED
        BY <2>2, <2>4, <2>5 DEF PackInv
<1>2. ASSUME ScanText
      PROVE  PackInv'
    <2>1. /\ half \in Paths /\ text' = [text EXCEPT ![half] = cache[half]] /\ half' = Gone
          /\ Noticed(half, cache[half]) /\ disk' = disk /\ cache' = cache
        BY <1>2 DEF ScanText, PackInv, StoresTyped
    <2>2. pack' \in Packs /\ FoundSoFar' /\ RankedSoFar' /\ PackIsExplained'
        BY <2>1, NoticingKeeps
    <2>3. /\ pack'.pc = pack.pc /\ pack'.names = pack.names /\ pack'.changed = pack.changed
          /\ pack.seen \subseteq pack'.seen
          /\ pack.pc # "idle" /\ cache[half] # Gone => half \in pack'.seen
        BY <2>1, NoticedIs DEF PackInv, StoresTyped
    <2>4. StoresTyped'
        BY <2>1, <2>2 DEF PackInv, StoresTyped
    <2>5. SeenSoFar'
        <3>1. \A p \in Paths : text'[p] = IF p = half THEN cache[half] ELSE text[p]
            BY <2>1 DEF PackInv, StoresTyped
        <3> QED
            BY <2>3, <3>1 DEF PackInv, SeenSoFar
    <2> QED
        BY <2>2, <2>4, <2>5 DEF PackInv
<1> QED
    BY <1>1, <1>2

LEMMA OpenKeeps ==
    ASSUME RetrievalAssumption, PackInv, NEW q \in Queries, NEW mode \in {"navigate", "edit"}, Open(q, mode)
    PROVE  PackInv'
<1> DEFINE seen == Indexed \cup {p \in Paths : text[p] # Gone}
<1>1. /\ pack' = [Idle EXCEPT !.pc = "open", !.query = q, !.mode = mode,
                              !.names = SymbolsOf(cache), !.edges = EdgesOf(cache), !.seen = seen]
      /\ disk' = disk /\ cache' = cache /\ text' = text /\ half' = half
    BY DEF Open
<1>2. /\ SymbolsOf(cache) \subseteq Symbols \X Paths
      /\ EdgesOf(cache) \subseteq Paths \X (Paths \cup Symbols)
      /\ seen \subseteq Paths
      /\ \A n \in SymbolsOf(cache) : n[2] \in seen
    BY DEF SymbolsOf, EdgesOf, Indexed
<1>3. \A p \in Paths : text[p] # Gone => p \in seen
    OBVIOUS
<1> DEFINE names == SymbolsOf(cache)
           edges == EdgesOf(cache)
<1> HIDE DEF seen, names, edges
<1>4. /\ pack' \in Packs /\ pack'.pc = "open" /\ pack'.names = names
      /\ pack'.seen = seen /\ pack'.changed = {}
    <2>1. names \in SUBSET (Symbols \X Paths) /\ edges \in SUBSET (Paths \X (Paths \cup Symbols))
        BY <1>2 DEF names, edges
    <2>2. pack' = [Idle EXCEPT !.pc = "open", !.query = q, !.mode = mode,
                               !.names = names, !.edges = edges, !.seen = seen]
        BY <1>1 DEF names, edges
    <2>3. seen \in SUBSET Paths
        BY <1>2
    <2> HIDE DEF Idle, Scores
    <2> QED
        BY <2>1, <2>2, <2>3, IdlePack DEF Packs
<1>5. StoresTyped'
    BY <1>1, <1>4 DEF PackInv, StoresTyped
<1>6. SeenSoFar'
    BY <1>1, <1>2, <1>3, <1>4 DEF SeenSoFar, names
<1>7. FoundSoFar' /\ RankedSoFar' /\ PackIsExplained'
    BY <1>4 DEF FoundSoFar, RankedSoFar, PackIsExplained
<1> QED
    BY <1>5, <1>6, <1>7 DEF PackInv

LEMMA AskVectorsKeeps ==
    ASSUME RetrievalAssumption, PackInv, AskVectors
    PROVE  PackInv'
<1>1. PICK answer \in Answers : pack' = [pack EXCEPT !.pc = "match", !.vectors = answer]
    BY DEF AskVectors
<1>2. /\ pack.pc = "open" /\ pack \in Packs
      /\ disk' = disk /\ cache' = cache /\ text' = text /\ half' = half
    BY DEF AskVectors, PackInv, StoresTyped
<1>3. answer \in Scores
    BY ScoresAre DEF RetrievalAssumption
<1>4. /\ pack' \in Packs /\ pack'.pc = "match" /\ pack'.names = pack.names
      /\ pack'.seen = pack.seen /\ pack'.changed = pack.changed
    <2> HIDE DEF Scores
    <2> QED
        BY <1>1, <1>2, <1>3 DEF Packs
<1>5. StoresTyped'
    BY <1>2, <1>4 DEF PackInv, StoresTyped
<1>6. SeenSoFar'
    BY <1>2, <1>4 DEF PackInv, SeenSoFar
<1>7. FoundSoFar' /\ RankedSoFar' /\ PackIsExplained'
    BY <1>4 DEF FoundSoFar, RankedSoFar, PackIsExplained
<1> QED
    BY <1>5, <1>6, <1>7 DEF PackInv

LEMMA MatchKeeps ==
    ASSUME RetrievalAssumption, PackInv, Match
    PROVE  PackInv'
<1> DEFINE found == SymbolScores(pack.query, pack.names)
           said == TextScores(pack.query, text)
           hits == Plus(found, said)
           seeds == Best(hits, SeedCount)
           met == Expanded(pack.edges, seeds, Depth(pack.mode))
           halved == IF pack.mode = "edit" THEN met ELSE [p \in DOMAIN met |-> met[p] \div 2]
           all == Raised(hits, halved)
<1>1. /\ pack.pc = "match" /\ pack \in Packs
      /\ pack' = [pack EXCEPT !.pc = "rank", !.initial = DOMAIN hits, !.seeds = seeds,
                              !.expanded = met, !.scores = all]
      /\ disk' = disk /\ cache' = cache /\ text' = text /\ half' = half
    BY Zenon DEF Match, PackInv, StoresTyped
<1>2. /\ pack.query \in Queries /\ pack.names \in SUBSET (Symbols \X Paths)
      /\ pack.edges \in SUBSET (Paths \X (Paths \cup Symbols))
      /\ text \in [Paths -> DOMAIN Names \cup {Gone}]
    BY DEF PackInv, StoresTyped, Packs
<1>3. /\ IsScores(found) /\ \A p \in DOMAIN found : \E n \in pack.names : n[2] = p
      /\ IsScores(said) /\ \A p \in DOMAIN said : text[p] # Gone
    BY <1>2, SymbolScoresIs, TextScoresIs
<1> HIDE DEF found, said
<1>4. IsScores(hits) /\ DOMAIN hits = DOMAIN found \cup DOMAIN said
    BY <1>3, PlusIs
<1> HIDE DEF hits
<1>5. IsScores(seeds)
    <2>1. SeedCount \in Nat
        BY DEF RetrievalAssumption
    <2> QED
        BY <1>4, <2>1, BestScores
<1> HIDE DEF seeds
<1>6. IsScores(met)
    <2>1. Depth(pack.mode) \in {2, 3}
        BY DEF Depth
    <2>2. ArePairs(pack.edges)
        BY <1>2, RelationsArePairs
    <2> QED
        BY <1>5, <2>1, <2>2, ExpandedIs
<1> HIDE DEF met
<1>7. IsScores(halved) /\ DOMAIN halved = DOMAIN met
    <2>1. [p \in DOMAIN met |-> met[p] \div 2] \in [DOMAIN met -> Nat]
        <3>1. \A p \in DOMAIN met : met[p] \in Nat
            BY <1>6 DEF IsScores
        <3> QED
            BY <3>1
    <2> QED
        BY <1>6, <2>1, ScoreMap DEF IsScores
<1> HIDE DEF halved
<1>8. IsScores(all) /\ DOMAIN all = DOMAIN hits \cup DOMAIN met
    <2>1. /\ hits \in [DOMAIN hits -> Nat] /\ halved \in [DOMAIN halved -> Nat]
          /\ DOMAIN hits \cup DOMAIN halved \subseteq Paths
        BY <1>4, <1>7 DEF IsScores
    <2>2. DOMAIN all = DOMAIN hits \cup DOMAIN halved /\ all \in [DOMAIN all -> Nat]
        BY <2>1, RaisedIs
    <2> HIDE DEF all
    <2> QED
        BY <1>7, <2>1, <2>2 DEF IsScores
<1> HIDE DEF all
<1>9. /\ pack' \in Packs /\ pack'.pc = "rank" /\ pack'.names = pack.names
      /\ pack'.seen = pack.seen /\ pack'.changed = pack.changed
      /\ pack'.edges = pack.edges /\ pack'.mode = pack.mode
      /\ pack'.initial = DOMAIN hits /\ pack'.seeds = seeds
      /\ pack'.expanded = met /\ pack'.scores = all
    <2>1. seeds \in Scores /\ met \in Scores /\ all \in Scores /\ DOMAIN hits \in SUBSET Paths
        BY <1>4, <1>5, <1>6, <1>8, ScoresAre DEF IsScores
    <2> HIDE DEF Scores
    <2> QED
        BY <1>1, <2>1 DEF Packs
<1>10. DOMAIN hits \subseteq pack.seen
    <2>1. DOMAIN said \subseteq Paths /\ DOMAIN found \subseteq Paths
        BY <1>3 DEF IsScores
    <2> QED
        BY <1>1, <1>3, <1>4, <2>1 DEF PackInv, SeenSoFar
<1>11. StoresTyped'
    BY <1>1, <1>9 DEF PackInv, StoresTyped
<1>12. SeenSoFar'
    BY <1>1, <1>9 DEF PackInv, SeenSoFar
<1>13. FoundSoFar'
    BY <1>8, <1>9, <1>10 DEF FoundSoFar, met
<1>14. RankedSoFar' /\ PackIsExplained'
    BY <1>9 DEF RankedSoFar, PackIsExplained
<1> QED
    BY <1>11, <1>12, <1>13, <1>14 DEF PackInv

-----------------------------------------------------------------------------
LEMMA CoverageIs ==
    ASSUME NEW s
    PROVE  Coverage(s) \in {"ambiguous", "medium", "high"}
BY DEF Coverage

LEMMA RankKeeps ==
    ASSUME RetrievalAssumption, PackInv, Rank
    PROVE  PackInv'
<1> DEFINE q == pack.query
           corpus == Cardinality(Indexed)
           s == pack.scores
           lifted == ConfigBoost(s, q, cache)
           pathed == PathBoost(lifted, q)
           weighted == RoleWeighted(pathed, q, pack.mode, cache)
           central == CentralityBoost(weighted, pack.edges)
           fresh == GitBoost(central)
           fused == Fused(fresh, pack.vectors, corpus)
           kept == Kept(fused)
           final == Best(kept, Limit)
           ranked == Ranked(final)
           cov == Coverage(final)
<1>1. /\ pack.pc = "rank" /\ pack \in Packs
      /\ pack' = [pack EXCEPT !.pc = "rerank", !.scores = final, !.files = ranked,
                              !.final = DOMAIN final, !.dropped = DOMAIN fused \ DOMAIN kept,
                              !.coverage = cov]
      /\ disk' = disk /\ cache' = cache /\ text' = text /\ half' = half
    BY Zenon DEF Rank, PackInv, StoresTyped
<1>2. q \in Queries /\ IsScores(s) /\ IsScores(pack.vectors) /\ Limit \in Nat
    <2>1. q \in Queries /\ s \in Scores /\ pack.vectors \in Scores
        BY <1>1 DEF Packs
    <2> QED
        BY <2>1, ScoresAre DEF RetrievalAssumption
<1>3. corpus \in Nat
    <2>1. IsFiniteSet(Indexed)
        BY FS_Subset DEF RetrievalAssumption, Indexed
    <2> QED
        BY <2>1, FS_CardinalityType
<1> HIDE DEF q, corpus, s
<1>4. IsScores(lifted) /\ DOMAIN lifted = DOMAIN s
    BY <1>2, ConfigBoostKeeps
<1> HIDE DEF lifted
<1>5. IsScores(pathed) /\ DOMAIN pathed = DOMAIN s
    BY <1>2, <1>4, PathBoostKeeps
<1> HIDE DEF pathed
<1>6. IsScores(weighted) /\ DOMAIN weighted = DOMAIN s
    BY <1>5, RoleWeightedKeeps
<1> HIDE DEF weighted
<1>7. IsScores(central) /\ DOMAIN central = DOMAIN s
    BY <1>6, CentralityBoostKeeps
<1> HIDE DEF central
<1>8. IsScores(fresh) /\ DOMAIN fresh = DOMAIN s
    BY <1>7, GitBoostKeeps
<1> HIDE DEF fresh
<1>9. /\ IsScores(fused) /\ DOMAIN s \subseteq DOMAIN fused
      /\ DOMAIN fused \subseteq DOMAIN s \cup DOMAIN pack.vectors
    BY <1>2, <1>3, <1>8, FusedIs
<1> HIDE DEF fused
<1>10. IsScores(kept) /\ DOMAIN kept \subseteq DOMAIN fused
    BY <1>9, KeptIs
<1> HIDE DEF kept
<1>11. /\ IsScores(final) /\ DOMAIN final \subseteq DOMAIN kept
       /\ DOMAIN final = DOMAIN kept \/ Cardinality(DOMAIN final) = Limit
    BY <1>2, <1>10, BestScores
<1> HIDE DEF final
<1>12. /\ ranked \in Seq(DOMAIN final) /\ Len(ranked) = Cardinality(DOMAIN final)
       /\ ToSet(ranked) = DOMAIN final
    BY <1>11, ScoresAreNumbers, SortedIs DEF Ranked
<1>13. cov \in {"none", "ambiguous", "medium", "high"}
    BY CoverageIs
<1> HIDE DEF ranked, cov
<1>14. /\ pack' \in Packs /\ pack'.pc = "rerank" /\ pack'.seen = pack.seen
       /\ pack'.edges = pack.edges /\ pack'.vectors = pack.vectors /\ pack'.changed = pack.changed
       /\ pack'.initial = pack.initial /\ pack'.expanded = pack.expanded
       /\ pack'.scores = final /\ pack'.files = ranked /\ pack'.final = DOMAIN final
       /\ pack'.dropped = DOMAIN fused \ DOMAIN kept
    <2>1. final \in Scores /\ DOMAIN final \in SUBSET Paths /\ DOMAIN fused \ DOMAIN kept \in SUBSET Paths
        BY <1>9, <1>11, ScoresAre DEF IsScores
    <2>2. ranked \in Seq(Paths)
        <3>1. DOMAIN final \subseteq Paths
            BY <2>1
        <3> HIDE DEF ranked
        <3> QED
            BY <1>12, <3>1
    <2> HIDE DEF Scores
    <2> QED
        BY <1>1, <1>13, <2>1, <2>2 DEF Packs
<1>15. /\ DOMAIN s = pack.initial \cup DOMAIN pack.expanded /\ pack.initial \subseteq pack.seen
       /\ DOMAIN pack.expanded \subseteq Nodes(pack.edges)
    <2>1. /\ DOMAIN s = pack.initial \cup DOMAIN pack.expanded /\ pack.initial \subseteq pack.seen
          /\ pack.expanded = Expanded(pack.edges, pack.seeds, Depth(pack.mode))
        BY <1>1 DEF PackInv, FoundSoFar, s
    <2>2. pack.edges \in SUBSET (Paths \X (Paths \cup Symbols)) /\ pack.seeds \in Scores
        BY <1>1 DEF Packs
    <2>3. Depth(pack.mode) \in {2, 3}
        BY DEF Depth
    <2>4. ArePairs(pack.edges) /\ IsScores(pack.seeds)
        BY <2>2, RelationsArePairs, ScoresAre
    <2>5. DOMAIN Expanded(pack.edges, pack.seeds, Depth(pack.mode)) \subseteq Nodes(pack.edges)
        BY <2>3, <2>4, ExpandedIs
    <2> QED
        BY <2>1, <2>5
<1>16. StoresTyped'
    BY <1>1, <1>14 DEF PackInv, StoresTyped
<1>17. SeenSoFar'
    BY <1>1, <1>14 DEF PackInv, SeenSoFar
<1>18. RankedSoFar'
    <2>1. \A p \in pack.initial \cup DOMAIN pack.expanded :
            \/ p \in DOMAIN final \cup (DOMAIN fused \ DOMAIN kept)
            \/ Cardinality(DOMAIN final) = Limit
        BY <1>9, <1>11, <1>15
    <2>2. DOMAIN final \subseteq pack.seen \cup Nodes(pack.edges) \cup DOMAIN pack.vectors
        BY <1>9, <1>10, <1>11, <1>15
    <2> QED
        BY <1>12, <1>14, <2>1, <2>2 DEF RankedSoFar
<1>19. FoundSoFar' /\ PackIsExplained'
    BY <1>14 DEF FoundSoFar, PackIsExplained
<1> QED
    BY <1>16, <1>17, <1>18, <1>19 DEF PackInv

(* The places of a sequence tell its members apart.                          *)
LEMMA PlacesTellApart ==
    ASSUME NEW files \in Seq(Paths), NEW D, ToSet(files) = D
    PROVE  Ties([p \in D |-> CHOOSE i \in 1..Len(files) : files[i] = p], D)
<1> DEFINE old == [p \in D |-> CHOOSE i \in 1..Len(files) : files[i] = p]
<1>1. ASSUME NEW p \in D
      PROVE  old[p] \in 1..Len(files) /\ files[old[p]] = p
    <2>1. \E i \in 1..Len(files) : files[i] = p
        BY DEF ToSet
    <2> QED
        BY <2>1
<1> HIDE DEF old
<1>2. Len(files) \in Nat
    OBVIOUS
<1> QED
    BY <1>1, <1>2 DEF Ties, old

LEMMA RerankKeeps ==
    ASSUME RetrievalAssumption, PackInv, Rerank
    PROVE  PackInv'
<1>1. PICK new \in {pack.scores} \cup [DOMAIN pack.scores -> {0, Top(pack.scores)}] :
        LET old == [p \in DOMAIN new |-> CHOOSE i \in 1..Len(pack.files) : pack.files[i] = p]
        IN pack' = [pack EXCEPT !.pc = "build", !.scores = new, !.files = Sorted(new, old)]
    BY Zenon DEF Rerank
<1> DEFINE old == [p \in DOMAIN new |-> CHOOSE i \in 1..Len(pack.files) : pack.files[i] = p]
           files == Sorted(new, old)
<1>2. pack' = [pack EXCEPT !.pc = "build", !.scores = new, !.files = files]
    BY <1>1, Zenon
<1>3. /\ pack.pc = "rerank" /\ pack \in Packs
      /\ disk' = disk /\ cache' = cache /\ text' = text /\ half' = half
    BY DEF Rerank, PackInv, StoresTyped
<1>4. pack.files \in Seq(Paths) /\ IsScores(pack.scores)
    <2>1. pack.files \in Seq(Paths) /\ pack.scores \in Scores
        BY <1>3 DEF Packs
    <2> QED
        BY <2>1, ScoresAre
<1>5. DOMAIN pack.scores = pack.final /\ ToSet(pack.files) = pack.final
    BY <1>3 DEF PackInv, RankedSoFar
<1>6. IsScores(new) /\ DOMAIN new = pack.final
    <2>1. CASE new = pack.scores
        BY <1>4, <1>5, <2>1
    <2>2. CASE new \in [DOMAIN pack.scores -> {0, Top(pack.scores)}]
        <3>1. Top(pack.scores) \in Nat
            BY <1>4, TopOfScores
        <3>2. new \in [pack.final -> Nat]
            BY <1>5, <2>2, <3>1
        <3> QED
            BY <1>4, <1>5, <3>2, ScoreMap DEF IsScores
    <2> QED
        BY <1>1, <2>1, <2>2
<1>7. Numbers(new) /\ Ties(old, DOMAIN new)
    BY <1>4, <1>5, <1>6, ScoresAreNumbers, PlacesTellApart
<1> HIDE DEF old
<1>8. /\ files \in Seq(DOMAIN new) /\ Len(files) = Cardinality(DOMAIN new)
      /\ ToSet(files) = DOMAIN new
    BY <1>7, SortedIs
<1> HIDE DEF files
<1>9. /\ pack' \in Packs /\ pack'.pc = "build" /\ pack'.seen = pack.seen
      /\ pack'.edges = pack.edges /\ pack'.vectors = pack.vectors /\ pack'.changed = pack.changed
      /\ pack'.initial = pack.initial /\ pack'.expanded = pack.expanded
      /\ pack'.scores = new /\ pack'.files = files /\ pack'.final = pack.final
      /\ pack'.dropped = pack.dropped
    <2>1. new \in Scores
        BY <1>6, ScoresAre
    <2>2. files \in Seq(Paths)
        <3>1. DOMAIN new \subseteq Paths
            BY <1>6 DEF IsScores
        <3> QED
            BY <1>8, <3>1
    <2> HIDE DEF Scores
    <2> QED
        BY <1>2, <1>3, <2>1, <2>2 DEF Packs
<1>10. StoresTyped'
    BY <1>3, <1>9 DEF PackInv, StoresTyped
<1>11. SeenSoFar'
    BY <1>3, <1>9 DEF PackInv, SeenSoFar
<1>12. RankedSoFar'
    BY <1>3, <1>6, <1>8, <1>9 DEF PackInv, RankedSoFar
<1>13. FoundSoFar' /\ PackIsExplained'
    BY <1>9 DEF FoundSoFar, PackIsExplained
<1> QED
    BY <1>10, <1>11, <1>12, <1>13 DEF PackInv

LEMMA BuildNavigateKeeps ==
    ASSUME RetrievalAssumption, PackInv, BuildNavigate
    PROVE  PackInv'
<1>1. /\ pack.pc = "build" /\ pack \in Packs /\ pack' = [pack EXCEPT !.pc = "answer"]
      /\ disk' = disk /\ cache' = cache /\ text' = text /\ half' = half
    BY DEF BuildNavigate, PackInv, StoresTyped
<1>2. /\ pack' \in Packs /\ pack'.pc = "answer" /\ pack'.seen = pack.seen
      /\ pack'.edges = pack.edges /\ pack'.vectors = pack.vectors /\ pack'.changed = pack.changed
      /\ pack'.initial = pack.initial /\ pack'.expanded = pack.expanded
      /\ pack'.files = pack.files /\ pack'.final = pack.final /\ pack'.dropped = pack.dropped
    <2> HIDE DEF Scores
    <2> QED
        BY <1>1 DEF Packs
<1>3. StoresTyped'
    BY <1>1, <1>2 DEF PackInv, StoresTyped
<1>4. SeenSoFar' /\ pack'.changed = {}
    BY <1>1, <1>2 DEF PackInv, SeenSoFar
<1>5. PackIsExplained'
    BY <1>1, <1>2, <1>4 DEF PackInv, RankedSoFar, PackIsExplained
<1>6. FoundSoFar' /\ RankedSoFar'
    BY <1>2 DEF FoundSoFar, RankedSoFar
<1> QED
    BY <1>3, <1>4, <1>5, <1>6 DEF PackInv

(* What two sequences make one after the other.                              *)
LEMMA Joined ==
    ASSUME NEW s \in Seq(Paths), NEW t \in Seq(Paths)
    PROVE  /\ s \o t \in Seq(Paths) /\ Len(s \o t) = Len(s) + Len(t)
           /\ ToSet(s \o t) = ToSet(s) \cup ToSet(t)
<1>1. s \o t \in Seq(Paths) /\ Len(s \o t) = Len(s) + Len(t)
    OBVIOUS
<1>2. Len(s) \in Nat /\ Len(t) \in Nat
    OBVIOUS
<1>3. \A i \in 1..Len(s) : (s \o t)[i] = s[i]
    OBVIOUS
<1>4. \A i \in 1..Len(t) : (s \o t)[Len(s) + i] = t[i]
    OBVIOUS
<1>5. ToSet(s \o t) \subseteq ToSet(s) \cup ToSet(t)
    <2>1. ASSUME NEW i \in 1..(Len(s) + Len(t))
          PROVE  (s \o t)[i] \in ToSet(s) \cup ToSet(t)
        <3>1. CASE i <= Len(s)
            BY <1>2, <1>3, <3>1 DEF ToSet
        <3>2. CASE i > Len(s)
            <4>1. i - Len(s) \in 1..Len(t) /\ i = Len(s) + (i - Len(s))
                BY <1>2, <3>2
            <4>2. (s \o t)[i] = t[i - Len(s)]
                BY <1>4, <4>1
            <4> QED
                BY <4>1, <4>2 DEF ToSet
        <3> QED
            BY <1>2, <3>1, <3>2
    <2> QED
        BY <1>1, <2>1 DEF ToSet
<1>6. ToSet(s) \cup ToSet(t) \subseteq ToSet(s \o t)
    <2>1. \A i \in 1..Len(s) : i \in 1..Len(s \o t)
        BY <1>1, <1>2
    <2>2. \A i \in 1..Len(t) : Len(s) + i \in 1..Len(s \o t)
        BY <1>1, <1>2
    <2>3. ASSUME NEW x \in ToSet(s)
          PROVE  x \in ToSet(s \o t)
        BY <1>3, <2>1, <2>3 DEF ToSet
    <2>4. ASSUME NEW x \in ToSet(t)
          PROVE  x \in ToSet(s \o t)
        <3>1. PICK i \in 1..Len(t) : t[i] = x
            BY <2>4 DEF ToSet
        <3>2. (s \o t)[Len(s) + i] = x /\ Len(s) + i \in 1..Len(s \o t)
            BY <1>4, <2>2, <3>1
        <3> HIDE DEF ToSet
        <3>3. \A j \in 1..Len(s \o t) : (s \o t)[j] \in ToSet(s \o t)
            BY <1>1 DEF ToSet
        <3> QED
            BY <3>2, <3>3
    <2> QED
        BY <2>3, <2>4
<1> QED
    BY <1>1, <1>5, <1>6

LEMMA BuildEditKeeps ==
    ASSUME RetrievalAssumption, PackInv, BuildEdit
    PROVE  PackInv'
<1>1. PICK changed \in {{}, Uncommitted} :
        LET added == changed \ ToSet(pack.files)
        IN pack' = [pack EXCEPT !.pc = "answer", !.changed = changed,
                      !.files = @ \o Ranked([p \in added |-> 0]),
                      !.scores = [p \in DOMAIN @ \cup added |-> IF p \in added THEN 3000 ELSE @[p]]]
    BY Zenon DEF BuildEdit
<1> DEFINE added == changed \ ToSet(pack.files)
           more == Ranked([p \in added |-> 0])
           scores == [p \in DOMAIN pack.scores \cup added |-> IF p \in added THEN 3000 ELSE pack.scores[p]]
<1>2. /\ pack.pc = "build" /\ pack \in Packs
      /\ disk' = disk /\ cache' = cache /\ text' = text /\ half' = half
    BY DEF BuildEdit, PackInv, StoresTyped
<1>3. pack' = [pack EXCEPT !.pc = "answer", !.changed = changed,
                           !.files = pack.files \o more, !.scores = scores]
    BY <1>1, <1>2 DEF Packs
<1>4. changed \subseteq Paths
    BY DEF Uncommitted
<1>5. /\ pack.files \in Seq(Paths) /\ IsScores(pack.scores) /\ DOMAIN pack.scores = pack.final
      /\ ToSet(pack.files) = pack.final /\ pack.final \subseteq Paths
      /\ Len(pack.files) = Cardinality(pack.final)
    <2>1. pack.files \in Seq(Paths) /\ pack.scores \in Scores /\ pack.final \subseteq Paths
        BY <1>2 DEF Packs
    <2> QED
        BY <1>2, <2>1, ScoresAre DEF PackInv, RankedSoFar
<1>6. more \in Seq(Paths) /\ Len(more) = Cardinality(added) /\ ToSet(more) = added
    <2> DEFINE z == [p \in added |-> 0]
    <2>1. IsScores(z) /\ DOMAIN z = added
        BY <1>4 DEF IsScores
    <2> HIDE DEF z, added
    <2>2. /\ Ranked(z) \in Seq(DOMAIN z) /\ Len(Ranked(z)) = Cardinality(DOMAIN z)
          /\ ToSet(Ranked(z)) = DOMAIN z
        BY <2>1, ScoresAreNumbers, SortedIs DEF Ranked
    <2>3. added \subseteq Paths
        BY <1>4 DEF added
    <2>4. Ranked(z) \in Seq(Paths)
        BY <2>1, <2>2, <2>3
    <2> QED
        BY <2>1, <2>2, <2>4 DEF z
<1>7. IsScores(scores)
    <2>1. \A p \in DOMAIN pack.scores : pack.scores[p] \in Nat
        BY <1>5 DEF IsScores
    <2> QED
        BY <1>4, <1>5, <2>1 DEF IsScores
<1>8. /\ pack.files \o more \in Seq(Paths)
      /\ Len(pack.files \o more) = Cardinality(pack.final) + Cardinality(added)
      /\ ToSet(pack.files \o more) = pack.final \cup changed
    <2>1. added = changed \ pack.final
        BY <1>5
    <2> HIDE DEF more, added
    <2>2. /\ pack.files \o more \in Seq(Paths)
          /\ Len(pack.files \o more) = Cardinality(pack.final) + Cardinality(added)
          /\ ToSet(pack.files \o more) = pack.final \cup added
        BY <1>5, <1>6, Joined
    <2> QED
        BY <2>1, <2>2
<1>9. Cardinality(pack.final \cup changed) = Cardinality(pack.final) + Cardinality(added)
    <2>1. IsFiniteSet(pack.final) /\ IsFiniteSet(added) /\ pack.final \cap added = {}
        <3>1. IsFiniteSet(Paths) /\ added \subseteq Paths
            BY <1>4 DEF RetrievalAssumption
        <3> QED
            BY <1>5, <3>1, FS_Subset
    <2>2. pack.final \cup changed = pack.final \cup added
        BY <1>5
    <2> HIDE DEF added
    <2>3. Cardinality(pack.final \cup added) =
              Cardinality(pack.final) + Cardinality(added) - Cardinality(pack.final \cap added)
        BY <2>1, FS_Union
    <2>4. Cardinality(pack.final) \in Nat /\ Cardinality(added) \in Nat
        BY <2>1, FS_CardinalityType
    <2>5. Cardinality(pack.final \cap added) = 0
        BY <2>1, FS_EmptySet
    <2>6. Cardinality(pack.final \cup added) = Cardinality(pack.final) + Cardinality(added)
        BY <2>3, <2>4, <2>5
    <2> QED
        BY <2>2, <2>6, Zenon
<1> HIDE DEF added, more, scores
<1>10. /\ pack' \in Packs /\ pack'.pc = "answer" /\ pack'.seen = pack.seen
       /\ pack'.edges = pack.edges /\ pack'.vectors = pack.vectors /\ pack'.changed = changed
       /\ pack'.initial = pack.initial /\ pack'.expanded = pack.expanded
       /\ pack'.files = pack.files \o more /\ pack'.final = pack.final /\ pack'.dropped = pack.dropped
    <2>1. scores \in Scores
        BY <1>7, ScoresAre
    <2> HIDE DEF Scores
    <2> QED
        BY <1>2, <1>3, <1>4, <1>8, <2>1 DEF Packs
<1>11. StoresTyped'
    BY <1>2, <1>10 DEF PackInv, StoresTyped
<1>12. SeenSoFar'
    BY <1>2, <1>10 DEF PackInv, SeenSoFar
<1>13. PackIsExplained'
    BY <1>2, <1>8, <1>9, <1>10 DEF PackInv, RankedSoFar, PackIsExplained
<1>14. FoundSoFar' /\ RankedSoFar'
    BY <1>10 DEF FoundSoFar, RankedSoFar
<1> QED
    BY <1>11, <1>12, <1>13, <1>14 DEF PackInv

LEMMA AnswerKeeps ==
    ASSUME RetrievalAssumption, PackInv, Answer
    PROVE  PackInv'
<1>1. pack' = Idle /\ disk' = disk /\ cache' = cache /\ text' = text /\ half' = half
    BY DEF Answer
<1>2. pack' \in Packs /\ pack'.pc = "idle"
    BY <1>1, IdlePack
<1>3. StoresTyped'
    BY <1>1, <1>2 DEF PackInv, StoresTyped
<1>4. SeenSoFar' /\ FoundSoFar' /\ RankedSoFar' /\ PackIsExplained'
    BY <1>2 DEF SeenSoFar, FoundSoFar, RankedSoFar, PackIsExplained
<1> QED
    BY <1>3, <1>4 DEF PackInv

(* The invariant of the pipeline is inductive.                               *)
LEMMA PackInvHolds ==
    ASSUME RetrievalAssumption
    PROVE  RetrievalSpec => []PackInv
<1>1. RetrievalInit => PackInv
    <2>1. Disk \in [Paths -> DOMAIN Names \cup {Gone}]
        BY DEF RetrievalAssumption
    <2>2. ASSUME RetrievalInit
          PROVE  StoresTyped /\ pack.pc = "idle"
        BY <2>1, <2>2, IdlePack DEF RetrievalInit, StoresTyped
    <2>3. ASSUME pack.pc = "idle"
          PROVE  SeenSoFar /\ FoundSoFar /\ RankedSoFar /\ PackIsExplained
        BY <2>3 DEF SeenSoFar, FoundSoFar, RankedSoFar, PackIsExplained
    <2> QED
        BY <2>2, <2>3 DEF PackInv
<1>2. ASSUME PackInv, RetrievalNext
      PROVE  PackInv'
    BY <1>2, EditKeeps, ScanKeeps, OpenKeeps, AskVectorsKeeps, MatchKeeps, RankKeeps, RerankKeeps,
       BuildNavigateKeeps, BuildEditKeeps, AnswerKeeps, Zenon DEF RetrievalNext
<1>3. PackInv /\ UNCHANGED retrievalVars => PackInv'
    BY DEF retrievalVars, PackInv, StoresTyped, SeenSoFar, FoundSoFar, RankedSoFar, PackIsExplained
<1>4. PackInv /\ [RetrievalNext]_retrievalVars => PackInv'
    BY <1>2, <1>3
<1> QED
    BY <1>1, <1>4, PTL DEF RetrievalSpec

(* lvdcp_explain can account for every pack the pipeline returns: its files  *)
(* are the ranking of the trace and the uncommitted ones, each once; what    *)
(* was found by name, text or graph is ranked, dropped for its score or      *)
(* behind Limit others; and a ranked file was in the index while the pack    *)
(* was assembled, or a relation or the vector store names it.                *)
THEOREM EveryPackIsExplained == RetrievalSpec => []PackIsExplained
<1>1. PackInv => PackIsExplained
    BY DEF PackInv
<1> QED
    BY <1>1, WellFormed, PackInvHolds, PTL

(* expand_via_graph with its set of visited nodes gives each file exactly    *)
(* the best score any seed lends it over the chains of relations, forth,     *)
(* back or over a symbol, that run through no other seed.                    *)
THEOREM TheWalkIsExact == RetrievalSpec => []ExpansionIsExact
<1>1. ASSUME PackInv
      PROVE  ExpansionIsExact
    <2>1. SUFFICES ASSUME pack.pc = "rank"
                   PROVE  ExpansionIsExact
        BY DEF ExpansionIsExact
    <2> DEFINE d == Depth(pack.mode)
               D == DOMAIN pack.seeds
               len(p) == Lenders(pack.edges, D, d, p)
    <2>2. pack.edges \in SUBSET (Paths \X (Paths \cup Symbols)) /\ pack.seeds \in Scores
        BY <1>1 DEF PackInv, StoresTyped, Packs
    <2>3. d \in {2, 3}
        BY DEF Depth
    <2>4. ArePairs(pack.edges) /\ IsScores(pack.seeds)
        BY <2>2, RelationsArePairs, ScoresAre
    <2>5. pack.expanded = Expanded(pack.edges, pack.seeds, d)
        BY <1>1, <2>1 DEF PackInv, FoundSoFar
    <2> HIDE DEF d
    <2>6. /\ \A p : p \in DOMAIN pack.expanded <=> p \in Paths /\ len(p) # {}
          /\ \A p \in DOMAIN pack.expanded :
               pack.expanded[p] = Max({Decayed(pack.seeds[l[1]], l[2]) : l \in len(p)})
        BY <2>3, <2>4, <2>5, WellFormed, ExpandedIs
    <2> HIDE DEF len
    <2>7. DOMAIN pack.expanded = {p \in Paths : len(p) # {}}
        BY <2>6
    <2> QED
        BY <2>6, <2>7, Zenon DEF ExpansionIsExact, len, d
<1> QED
    BY <1>1, WellFormed, PackInvHolds, PTL
===============================================================================
