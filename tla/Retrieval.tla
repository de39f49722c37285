------------------------------ MODULE Retrieval ------------------------------
(***************************************************************************)
(* A context pack: the index is opened (names and relations are read), the  *)
(* vector store asked, the full text searched, the graph walked, the scores *)
(* weighted, fused, cut off and ranked, the ranking perhaps rearranged by a *)
(* language model, the uncommitted files added to a pack for edits, and a   *)
(* trace saved for lvdcp_explain, all while a scan rewrites the index file  *)
(* by file.                                                                 *)
(*                                                                         *)
(* Scores are in thousandths, rounded down at each step; what a query finds *)
(* in a name, a text or a path is a number given with the query.  Equal     *)
(* scores stand in the order of their paths (in the middle stages of the    *)
(* code in the order of the rows).  The list of symbols and the Markdown    *)
(* of the pack are left out.                                                *)
(***************************************************************************)
EXTENDS Integers, Sequences, SequencesExt, FiniteSetsExt

CONSTANTS
    Paths,      \* file paths: indexed, gone, or merely named by a relation
    Symbols,    \* qualified names
    Contents,   \* Paths -> the contents its file can have
    Gone,       \* no such file
    Disk,       \* Paths -> the content in the beginning, that of HEAD
    Names,      \* Contents -> the symbols a file with that content defines
    Refs,       \* Contents -> the nodes of the graph it refers to
    Owner,      \* Symbols -> the path whose module prefix the name has
    Derived,    \* Symbols -> the path its prefix is turned into
    Role,       \* Paths -> "source", "test", "config", "docs"
    Position,   \* Paths -> their alphabetical order
    Row,        \* Symbols \X Paths -> the order of names with equal scores
    Central,    \* Paths -> PageRank, in thousandths
    Churned,    \* paths with commits in the last 30 days in git_stats
    Young,      \* paths less than 30 days old in git_stats
    Queries,    \* [name, strict, loose, inPath, config, docs]: symbol scores, scores
                \* of the contents with AND and with OR, path bonuses, keywords
    Answers,    \* what a vector search can give: paths -> hundredths, empty if off
    Limit,      \* files in a pack
    SeedCount,  \* GRAPH_SEED_COUNT, 5 in the code
    MinCorpus, FullCorpus,  \* VECTOR_MIN_CORPUS_SIZE, VECTOR_FULL_CORPUS_SIZE
    MaxEdits    \* bound: changes of files

VARIABLES
    disk,   \* Paths -> content or Gone
    cache,  \* cache.db: the file's row with its symbols and relations
    text,   \* fts.db
    half,   \* the file the scan has written to cache.db only, or Gone
    pack,   \* the pack being assembled
    edits

retrievalVars == <<disk, cache, text, half, pack, edits>>

NoScores == [p \in {} |-> 0]

Idle == [pc |-> "idle", mode |-> "navigate", query |-> CHOOSE q \in Queries : TRUE,
         names |-> {}, edges |-> {}, vectors |-> NoScores, seen |-> {},
         scores |-> NoScores, seeds |-> NoScores, initial |-> {}, expanded |-> NoScores,
         files |-> <<>>, final |-> {}, dropped |-> {}, coverage |-> "none", changed |-> {}]

Nodes(edges) == UNION {{e[1], e[2]} : e \in edges}

Indexed == {p \in Paths : cache[p] # Gone}

SymbolsOf(rows) == {n \in Symbols \X Paths : rows[n[2]] # Gone /\ n[1] \in Names[rows[n[2]]]}

EdgesOf(rows) ==
    {e \in Paths \X (Paths \cup Symbols) : rows[e[1]] # Gone /\ e[2] \in Refs[rows[e[1]]]}

IsScores(s) == DOMAIN s \subseteq Paths /\ s \in [DOMAIN s -> Nat]

(* What the constants are.                                                   *)
RetrievalAssumption ==
    /\ IsFiniteSet(Paths) /\ IsFiniteSet(Symbols)
    /\ Gone \notin Paths \cup DOMAIN Names
    /\ Disk \in [Paths -> DOMAIN Names \cup {Gone}]
    /\ \A p \in Paths : Contents[p] \subseteq DOMAIN Names
    /\ Position \in [Paths -> Nat] /\ \A p, q \in Paths : Position[p] = Position[q] => p = q
    /\ Central \in [Paths -> Nat]
    /\ Queries # {}
    /\ \A q \in Queries : /\ q.name \in [Symbols -> Nat] /\ q.inPath \in [Paths -> Nat]
                          /\ {q.strict, q.loose} \subseteq [DOMAIN Names -> Nat]
    /\ \A answer \in Answers : IsScores(answer)
    /\ {Limit, SeedCount, MinCorpus, FullCorpus} \subseteq Nat /\ MinCorpus < FullCorpus

ASSUME WellFormed == RetrievalAssumption

-----------------------------------------------------------------------------
(* How many stand before p when the highest score comes first and equal ones *)
(* go by the tie.                                                           *)
Place(s, tie, p) ==
    Cardinality({q \in DOMAIN s : s[q] > s[p] \/ (s[q] = s[p] /\ tie[q] < tie[p])})

Sorted(s, tie) ==
    [i \in 1..Cardinality(DOMAIN s) |-> CHOOSE p \in DOMAIN s : Place(s, tie, p) = i - 1]

Ranked(s) == Sorted(s, Position)

BestBy(s, tie, n) == [p \in {q \in DOMAIN s : Place(s, tie, q) < n} |-> s[p]]

Best(s, n) == BestBy(s, Position, n)

Top(s) == IF DOMAIN s = {} THEN 0 ELSE Max({s[p] : p \in DOMAIN s})

At(s, p) == IF p \in DOMAIN s THEN s[p] ELSE 0

Plus(s, t) == [p \in DOMAIN s \cup DOMAIN t |-> At(s, p) + At(t, p)]

Raised(s, t) == [p \in DOMAIN s \cup DOMAIN t |-> Max({At(s, p), At(t, p)})]

(* The names the query matches best, at most twice the limit.                *)
LookedUp(q, names) ==
    DOMAIN BestBy([n \in {m \in names : q.name[m[1]] > 0} |-> q.name[n[1]]], Row, 2 * Limit)

(* A name counts three times, a file has its best one.                       *)
SymbolScores(q, names) ==
    LET hits == LookedUp(q, names)
    IN [p \in {h[2] : h \in hits} |-> 3 * Max({q.name[h[1]] : h \in {g \in hits : g[2] = p}})]

(* All words of the query, or any of them if no file has all.               *)
TextScores(q, rows) ==
    LET found(m) == [p \in {f \in Paths : rows[f] # Gone /\ m[rows[f]] > 0} |-> m[rows[p]]]
    IN Best(IF DOMAIN found(q.strict) # {} THEN found(q.strict) ELSE found(q.loose), 2 * Limit)

(* Variant of Layers, for the mutant of ExpansionIsExact: through the seeds. *)
LayersThroughSeeds(edges, seeds, from, depth) ==
    LET W[k \in 0..depth] ==
            IF k = 0 THEN [seen |-> {from}, front |-> {from}]
            ELSE LET new == {e[2] : e \in {d \in edges : d[1] \in W[k - 1].front}} \ W[k - 1].seen
                 IN [seen |-> W[k - 1].seen \cup new, front |-> new]
    IN W

(* The breadth-first search: what is met after k hops, and not behind a seed. *)
Layers(edges, seeds, from, depth) ==
    LET W[k \in 0..depth] ==
            IF k = 0 THEN [seen |-> {from}, front |-> {from}]
            ELSE LET new == {e[2] : e \in {d \in edges : d[1] \in W[k - 1].front}} \ W[k - 1].seen
                 IN [seen |-> W[k - 1].seen \cup new, front |-> new \ seeds]
    IN W

(* 0.7 per hop.                                                              *)
Decayed(score, hops) == (score * <<700, 490, 343>>[hops]) \div 1000

Walked(edges, seeds, from, depth) ==
    LET W == Layers(edges, DOMAIN seeds, from, depth)
        hop(n) == CHOOSE k \in 1..depth : n \in W[k].front
    IN [n \in UNION {W[k].front : k \in 1..depth} |-> Decayed(seeds[from], hop(n))]

(* Files that refer to a symbol of the seed, and files whose symbols it      *)
(* refers to, if the graph knows the path their name is turned into.        *)
Mixed(edges, from) ==
    {p \in Paths \ {from} : \E s \in Symbols : /\ <<from, s>> \in edges
                                             /\ IF Owner[s] = from
                                                  THEN <<p, s>> \in edges
                                                  ELSE p = Derived[s] /\ p \in Nodes(edges)}

Reversed(edges) == {<<e[2], e[1]>> : e \in edges}

(* What a seed lends to the nodes it leads to.                               *)
Lent(edges, seeds, s, depth) ==
    Raised(Raised(Walked(edges, seeds, s, depth), Walked(Reversed(edges), seeds, s, depth)),
           [p \in Mixed(edges, s) |-> Decayed(seeds[s], 2)])

Expanded(edges, seeds, depth) ==
    LET met == (UNION {DOMAIN Lent(edges, seeds, s, depth) : s \in DOMAIN seeds}) \cap Paths
    IN [p \in met |-> Max({At(Lent(edges, seeds, s, depth), p) : s \in DOMAIN seeds})]

Depth(mode) == IF mode = "edit" THEN 3 ELSE 2

-----------------------------------------------------------------------------
RoleOf(p, rows) == IF rows[p] = Gone THEN "other" ELSE Role[p]

(* Configuration files among the candidates rise to half the best score.     *)
ConfigBoost(s, q, rows) ==
    IF ~q.config THEN s
    ELSE [p \in DOMAIN s |-> IF RoleOf(p, rows) = "config" /\ s[p] > 0
                               THEN Max({s[p], Top(s) \div 2}) ELSE s[p]]

PathBoost(s, q) == [p \in DOMAIN s |-> s[p] + q.inPath[p]]

RoleWeight(role, mode) ==
    CASE role = "source" -> 100
      [] role = "test" -> IF mode = "edit" THEN 95 ELSE 65
      [] role = "config" -> IF mode = "edit" THEN 115 ELSE 110
      [] role = "docs" -> IF mode = "edit" THEN 40 ELSE 35
      [] OTHER -> 70

RoleWeighted(s, q, mode, rows) ==
    [p \in DOMAIN s |-> (s[p] * IF q.docs /\ RoleOf(p, rows) = "docs" THEN 120
                                ELSE RoleWeight(RoleOf(p, rows), mode)) \div 100]

(* Up to a tenth for what is more central than the lower median of the       *)
(* candidates.                                                              *)
CentralityBoost(s, edges) ==
    LET central == [p \in DOMAIN s |-> IF p \in Nodes(edges) THEN Central[p] ELSE 0]
        ranked == Ranked(central)
        mid == central[ranked[Len(ranked) + 1 - Max({1, Len(ranked) \div 2})]]
        top == Top(central)
    IN IF DOMAIN s = {} \/ top <= mid THEN s
       ELSE [p \in DOMAIN s |-> IF central[p] <= mid THEN s[p]
                                ELSE s[p] + (s[p] * (central[p] - mid)) \div (10 * (top - mid))]

GitBoost(s) ==
    [p \in DOMAIN s |-> LET c == IF p \in Churned THEN (s[p] * 110) \div 100 ELSE s[p]
                        IN IF p \in Young THEN (c * 105) \div 100 ELSE c]

(* In hundredths: nothing for a small project or a weak best answer.         *)
VectorWeight(corpus, top) ==
    IF top <= 45 \/ corpus <= MinCorpus THEN 0
    ELSE LET score == IF top >= 70 THEN 100 ELSE ((top - 45) * 100) \div 25
             size == IF corpus >= FullCorpus THEN 100
                     ELSE ((corpus - MinCorpus) * 100) \div (FullCorpus - MinCorpus)
         IN (score * size) \div 100

Reciprocal(s, weight) ==
    [p \in DOMAIN s |-> (10000 * weight) \div (61 + Place(s, Position, p))]

(* Variant of Fused, for the mutant of PackIsExplained: what both have.      *)
FusedBoth(s, vectors, corpus) ==
    LET weight == VectorWeight(corpus, Top(vectors))
        sum == Plus(Reciprocal(s, 100), Reciprocal(vectors, weight))
    IN IF weight = 0 THEN s
       ELSE [p \in DOMAIN s \cap DOMAIN vectors |-> (sum[p] * (IF Top(s) = 0 THEN 1000 ELSE Top(s))) \div Top(sum)]

(* Reciprocal rank fusion with the vector answer, scaled back to the best    *)
(* score there was.                                                         *)
Fused(s, vectors, corpus) ==
    LET weight == VectorWeight(corpus, Top(vectors))
        sum == Plus(Reciprocal(s, 100), Reciprocal(vectors, weight))
    IN IF weight = 0 THEN s
       ELSE [p \in DOMAIN sum |-> (sum[p] * (IF DOMAIN s = {} THEN 1000 ELSE Top(s))) \div Top(sum)]

(* What has less than 40 % of the best score is dropped.                     *)
Kept(s) == [p \in {f \in DOMAIN s : 10 * s[f] >= 4 * Top(s)} |-> s[p]]

Coverage(s) ==
    LET r == Ranked(s)
        tail == s[r[Min({4, Len(r)})]]
    IN IF r = <<>> \/ Top(s) <= 0 THEN "ambiguous"
       ELSE IF Len(r) = 1 \/ tail <= 0 \/ Top(s) >= 2 * tail THEN "high"
       ELSE IF 10 * Top(s) >= 12 * tail THEN "medium" ELSE "ambiguous"

-----------------------------------------------------------------------------
RetrievalInit ==
    /\ disk = Disk
    /\ cache = Disk
    /\ text = Disk
    /\ half = Gone
    /\ pack = Idle
    /\ edits = 0

Edit(p, c) ==
    /\ edits < MaxEdits
    /\ disk[p] # c
    /\ disk' = [disk EXCEPT ![p] = c]
    /\ edits' = edits + 1
    /\ UNCHANGED <<cache, text, half, pack>>

(* What is in the index while a pack is being assembled.                     *)
Noticed(p, c) == pack' = IF pack.pc = "idle" \/ c = Gone THEN pack
                      ELSE [pack EXCEPT !.seen = @ \cup {p}]

(* A scan writes a file to cache.db, or drops it, then does so in fts.db.    *)
ScanCache(p) ==
    /\ half = Gone
    /\ cache[p] # disk[p]
    /\ cache' = [cache EXCEPT ![p] = disk[p]]
    /\ half' = p
    /\ Noticed(p, disk[p])
    /\ UNCHANGED <<disk, text, edits>>

ScanText ==
    /\ half # Gone
    /\ text' = [text EXCEPT ![half] = cache[half]]
    /\ half' = Gone
    /\ Noticed(half, cache[half])
    /\ UNCHANGED <<disk, cache, edits>>

(* ProjectIndex.open reads the names and the relations.                      *)
Open(q, mode) ==
    /\ pack.pc = "idle"
    /\ pack' = [Idle EXCEPT !.pc = "open", !.query = q, !.mode = mode,
                            !.names = SymbolsOf(cache), !.edges = EdgesOf(cache),
                            !.seen = Indexed \cup {p \in Paths : text[p] # Gone}]
    /\ UNCHANGED <<disk, cache, text, half, edits>>

(* The best-effort vector search of lvdcp_pack; `ctx pack` has none.         *)
AskVectors ==
    /\ pack.pc = "open"
    /\ \E answer \in Answers : pack' = [pack EXCEPT !.pc = "match", !.vectors = answer]
    /\ UNCHANGED <<disk, cache, text, half, edits>>

(* Names, full text, graph.                                                  *)
Match ==
    /\ pack.pc = "match"
    /\ LET hits == Plus(SymbolScores(pack.query, pack.names), TextScores(pack.query, text))
           seeds == Best(hits, SeedCount)
           met == Expanded(pack.edges, seeds, Depth(pack.mode))
           halved == IF pack.mode = "edit" THEN met ELSE [p \in DOMAIN met |-> met[p] \div 2]
       IN pack' = [pack EXCEPT !.pc = "rank", !.initial = DOMAIN hits, !.seeds = seeds,
                               !.expanded = met, !.scores = Raised(hits, halved)]
    /\ UNCHANGED <<disk, cache, text, half, edits>>

(* The weights, the roles and the size of the project being those of now;    *)
(* the ranking goes into the trace.                                         *)
Rank ==
    /\ pack.pc = "rank"
    /\ LET q == pack.query
           weighted == RoleWeighted(PathBoost(ConfigBoost(pack.scores, q, cache), q), q, pack.mode, cache)
           fused == Fused(GitBoost(CentralityBoost(weighted, pack.edges)), pack.vectors, Cardinality(Indexed))
           kept == Kept(fused)
           final == Best(kept, Limit)
       IN pack' = [pack EXCEPT !.pc = "rerank", !.scores = final, !.files = Ranked(final),
                               !.final = DOMAIN final, !.dropped = DOMAIN fused \ DOMAIN kept,
                               !.coverage = Coverage(final)]
    /\ UNCHANGED <<disk, cache, text, half, edits>>

(* A language model may give the files relevances, relative to the best      *)
(* score; the coverage stays.                                               *)
Rerank ==
    /\ pack.pc = "rerank"
    /\ \E new \in {pack.scores} \cup [DOMAIN pack.scores -> {0, Top(pack.scores)}] :
         LET old == [p \in DOMAIN new |-> CHOOSE i \in 1..Len(pack.files) : pack.files[i] = p]
         IN pack' = [pack EXCEPT !.pc = "build", !.scores = new, !.files = Sorted(new, old)]
    /\ UNCHANGED <<disk, cache, text, half, edits>>

(* Files that differ from HEAD, deleted ones too.                            *)
Uncommitted == {p \in Paths : Disk[p] # Gone /\ disk[p] # Disk[p]}

BuildNavigate ==
    /\ pack.pc = "build" /\ pack.mode = "navigate"
    /\ pack' = [pack EXCEPT !.pc = "answer"]
    /\ UNCHANGED <<disk, cache, text, half, edits>>

(* A pack for edits has the uncommitted files too, or none if git fails.      *)
BuildEdit ==
    /\ pack.pc = "build" /\ pack.mode = "edit"
    /\ \E changed \in {{}, Uncommitted} :
         LET added == changed \ ToSet(pack.files)
         IN pack' = [pack EXCEPT !.pc = "answer", !.changed = changed,
                       !.files = @ \o Ranked([p \in added |-> 0]),
                       !.scores = [p \in DOMAIN @ \cup added |-> IF p \in added THEN 3000 ELSE @[p]]]
    /\ UNCHANGED <<disk, cache, text, half, edits>>

(* The trace is saved, the pack returned.                                    *)
Answer ==
    /\ pack.pc = "answer"
    /\ pack' = Idle
    /\ UNCHANGED <<disk, cache, text, half, edits>>

RetrievalNext ==
    \/ \E p \in Paths : \E c \in Contents[p] \cup {Gone} : Edit(p, c)
    \/ \E p \in Paths : ScanCache(p)
    \/ ScanText
    \/ \E q \in Queries, mode \in {"navigate", "edit"} : Open(q, mode)
    \/ AskVectors \/ Match \/ Rank \/ Rerank \/ BuildNavigate \/ BuildEdit \/ Answer

RetrievalSpec == RetrievalInit /\ [][RetrievalNext]_retrievalVars

-----------------------------------------------------------------------------
(* Pairs of nodes with k relations from one to the other, none into a seed.  *)
Chains(edges, seeds, depth) ==
    LET R == {e \in edges : e[2] \notin seeds}
        C[k \in 1..depth] ==
            IF k = 1 THEN R
            ELSE {<<c[1][1], c[2][2]>> : c \in {d \in C[k - 1] \X R : d[1][2] = d[2][1]}}
    IN C

(* The seeds that lead to p, and over how many hops.                         *)
Lenders(edges, seeds, depth, p) ==
    LET forth == Chains(edges, seeds, depth)
        back == Chains(Reversed(edges), seeds, depth)
    IN {l \in seeds \X (1..depth) : \/ <<l[1], p>> \in forth[l[2]] \cup back[l[2]]
                                    \/ l[2] = 2 /\ p \in Mixed(edges, l[1])}

(* The walk over the graph gives each file the best score any seed lends it:  *)
(* 0.7 per hop along the relations or against them, over nodes that are no   *)
(* seeds, or two hops over a symbol.  Layers searches with a set of visited   *)
(* nodes; here paths are composed.                                          *)
ExpansionIsExact ==
    pack.pc = "rank" =>
      LET lenders(p) == Lenders(pack.edges, DOMAIN pack.seeds, Depth(pack.mode), p)
      IN /\ DOMAIN pack.expanded = {p \in Paths : lenders(p) # {}}
         /\ \A p \in DOMAIN pack.expanded :
              pack.expanded[p] = Max({Decayed(pack.seeds[l[1]], l[2]) : l \in lenders(p)})

(* lvdcp_explain can account for a pack.  Each of its files is in the trace's *)
(* ranking or uncommitted, and the ranking's files are all in the pack; what *)
(* was found by name, text or graph is ranked, dropped for its score, or     *)
(* behind `limit` others; and a ranked file was in the index while the pack  *)
(* was assembled, or a relation or the vector store names it.               *)
PackIsExplained ==
    pack.pc = "answer" =>
      /\ ToSet(pack.files) = pack.final \cup pack.changed
      /\ Len(pack.files) = Cardinality(ToSet(pack.files))
      /\ \A p \in pack.initial \cup DOMAIN pack.expanded :
           p \in pack.final \cup pack.dropped \/ Cardinality(pack.final) = Limit
      /\ pack.final \subseteq pack.seen \cup Nodes(pack.edges) \cup DOMAIN pack.vectors
===============================================================================
