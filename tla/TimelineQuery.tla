--------------------------- MODULE TimelineQuery ---------------------------
(***************************************************************************)
(* The questions the timeline answers, libs/symbol_timeline/query.py, and  *)
(* the facts a context pack quotes from the answers,                       *)
(* libs/context_pack/timeline_enrich.py.                                   *)
(*                                                                         *)
(* db is the event store: the rows of its tables in the order of their     *)
(* ids.  repo is the repository: its commits in the order they were made,  *)
(* each with its parent, and HEAD, 0 where there is no commit.             *)
(***************************************************************************)
EXTENDS TimelineDiff

CONSTANTS
  Importance, \* [Symbol -> Nat]: what importance_lookup says of a symbol's name
  Limit,      \* limit, limit_per_bucket
  Lines,      \* _SECTION_SIZE_BUDGET_BYTES, counted in lines
  Shown,      \* how many removed symbols a section names, 5 in the code
  Contains_   \* [partial names -> SUBSET Symbol]: whose qualified name contains it

ASSUME TimelineQueryAssumption ==
  /\ Importance \in [Symbol -> Nat]
  /\ Limit \in Nat \ {0} /\ Shown \in Nat
  /\ Lines \in Nat /\ Lines >= 3

-----------------------------------------------------------------------------
(* The rows of a table are known by their places in it.                    *)

\* The members of a finite set in the order in which they stand: before says which stand
\* before each.
Ordered(before) ==
  [n \in 1..Cardinality(DOMAIN before) |-> CHOOSE i \in DOMAIN before : Cardinality(before[i]) = n - 1]

OldestFirst(places) == Ordered([i \in places |-> {j \in places : j < i}])

NewestFirst(places) == Ordered([i \in places |-> {j \in places : j > i}])

Rows(table, places) == [n \in DOMAIN places |-> table[places[n]]]

First(n, rows) == SubSeq(rows, 1, Min({n, Len(rows)}))

-----------------------------------------------------------------------------
\* A commit and those before it.
Ancestors(repo, c) ==
  LET reach[d \in 0..Len(repo.commits)] == IF d = 0 THEN {} ELSE {d} \cup reach[repo.commits[d].parent]
  IN  reach[c]

\* commits_between, and commits_after_ref with HEAD: git rev-list from..to.
CommitsBetween(repo, from, to) == Ancestors(repo, to) \ Ancestors(repo, from)

\* events_for_symbol and events_between.  Timestamps of scans follow the order of the ids.
EventsForSymbol(db, s, includeOrphaned) ==
  {i \in DOMAIN db.events : db.events[i].sym = s /\ (includeOrphaned \/ ~db.events[i].orphaned)}

EventsAfter(db, ts, types) ==
  {i \in DOMAIN db.events : db.events[i].ts > ts /\ db.events[i].type \in types /\ ~db.events[i].orphaned}

\* Variant of Within: the timestamp decides alone.
WithinTime(rows, places, range) == places

\* The precision filter: rows of the commits in the range.  Where git cannot list the
\* range it is every commit and Absent, which rows without a commit have.
Within(rows, places, range) == {i \in places : rows[i].commit \in range}

\* The rename edges of a range, the newest first.
EdgesAfter(db, ts, range) ==
  Rows(db.edges, NewestFirst(Within(db.edges, {i \in DOMAIN db.edges : db.edges[i].ts > ts}, range)))

Confirmed(edges, side) == {edges[i][side] : i \in {i \in DOMAIN edges : ~edges[i].candidate}}

\* list.sort by (importance, timestamp), highest first; ties stay in order.
Above(events, tie, i, j) ==
  LET more == Importance[events[i].sym] - Importance[events[j].sym]
  IN  \/ more > 0
      \/ more = 0 /\ events[i].ts > events[j].ts
      \/ more = 0 /\ events[i].ts = events[j].ts /\ tie[i] < tie[j]

\* The highest of the rows at the given places, limit of them.
Ranked(events, places, tie) ==
  Rows(events, First(Limit, Ordered([i \in places |-> {j \in places : Above(events, tie, j, i)}])))

-----------------------------------------------------------------------------
NotFound == [found |-> FALSE]

\* find_removed_since.  ref is a commit, or Absent where resolve_git_ref fails; range is
\* what commits_after_ref returns.
FindRemovedSince(db, repo, ref, range, includeRenamed) ==
  IF ref = Absent THEN NotFound ELSE
  LET refTs   == repo.commits[ref].ts
      renamed == EdgesAfter(db, refTs, range)
      gone    == {i \in Within(db.events, EventsAfter(db, refTs, {"removed"}), range) :
                    includeRenamed \/ db.events[i].sym \notin Confirmed(renamed, "old")}
  IN  [found |-> TRUE, removed |-> Ranked(db.events, gone, [i \in gone |-> i]), renamed |-> renamed,
       total |-> Cardinality(gone), truncated |-> Cardinality(gone) > Limit]

\* _net_effect: what the first and the last event of a symbol amount to.
NetEffect(events, places) ==
  IF events[Max(places)].type = "removed" THEN "removed"
  ELSE IF events[Min(places)].type = "added" THEN "added" ELSE "modified"

\* What confirmed renames account for is left out of added and removed.
Hidden(renamed, effect) ==
  CASE effect = "added" -> Confirmed(renamed, "new")
    [] effect = "removed" -> Confirmed(renamed, "old")
    [] OTHER -> {}

SameSymbol(events, places, i) == {j \in places : events[j].sym = events[i].sym}

\* The last event of each symbol with the effect.
Bucket(events, places, renamed, effect) ==
  {i \in places : LET mine == SameSymbol(events, places, i)
                  IN  /\ i = Max(mine) /\ NetEffect(events, mine) = effect
                      /\ events[i].sym \notin Hidden(renamed, effect)}

\* diff.  The symbols of a bucket that tie are in the order of their first events.
Diff(db, repo, from, to, range) ==
  IF from = Absent \/ to = Absent THEN NotFound ELSE
  LET fromTs  == repo.commits[from].ts
      places  == Within(db.events, EventsAfter(db, fromTs, {"added", "removed", "modified", "moved"}), range)
      first   == [i \in places |-> Min(SameSymbol(db.events, places, i))]
      renamed == EdgesAfter(db, fromTs, range)
      bucket  == [f \in {"added", "removed", "modified"} |-> Bucket(db.events, places, renamed, f)]
      total   == [f \in DOMAIN bucket |-> Cardinality(bucket[f])]
  IN  IF from = to
      THEN [found |-> TRUE, renamed |-> <<>>, truncated |-> FALSE, total |-> [f \in DOMAIN bucket |-> 0],
            entries |-> [f \in DOMAIN bucket |-> <<>>]]
      ELSE [found |-> TRUE, renamed |-> renamed, truncated |-> \E f \in DOMAIN bucket : total[f] > Limit,
            total |-> total, entries |-> [f \in DOMAIN bucket |-> Ranked(db.events, bucket[f], first)]]

-----------------------------------------------------------------------------
\* fuzzy_symbol_lookup: the symbols with a live event and the name, newest first.  The
\* type shown is that of the last event, orphaned or not.
FuzzySymbolLookup(db, partial) ==
  LET Live(s)     == EventsForSymbol(db, s, FALSE)
      LastTs(s)   == db.events[Max(Live(s))].ts
      hits        == {s \in Contains_[partial] : Live(s) # {}}
      Newer(s, t) == LastTs(s) > LastTs(t) \/ (LastTs(s) = LastTs(t) /\ s < t)
      order       == First(Limit, Ordered([s \in hits |-> {t \in hits : Newer(t, s)}]))
  IN  [n \in DOMAIN order |-> [sym  |-> order[n],
                               type |-> db.events[Max(EventsForSymbol(db, order[n], TRUE))].type]]

\* _rename_pairs_for_symbol.
RenamePairs(db, side, s) == {i \in DOMAIN db.edges : db.edges[i][side] = s}

\* symbol_timeline, asked for an id or for part of a name.  A name must have one
\* candidate.
SymbolTimeline(db, ask, includeOrphaned) ==
  LET candidates == IF ask.byId THEN <<>> ELSE FuzzySymbolLookup(db, ask.partial)
      resolved   == IF ask.byId THEN ask.sym
                    ELSE IF Len(candidates) = 1 THEN candidates[1].sym ELSE Absent
      places     == IF resolved = Absent THEN {} ELSE EventsForSymbol(db, resolved, includeOrphaned)
  IN  IF places = {}
      THEN [found |-> FALSE, candidates |-> IF resolved = Absent THEN candidates ELSE <<>>]
      ELSE [found |-> TRUE, sym |-> resolved, path |-> db.events[Max(places)].path,
            events |-> Rows(db.events, OldestFirst(places)),
            predecessors |-> RenamePairs(db, "new", resolved), successors |-> RenamePairs(db, "old", resolved)]

-----------------------------------------------------------------------------
Line(kind, n) == [kind |-> kind, n |-> n]

\* Variant of AppendLine: the hint is repeated for every line that does not fit.
AppendLineHints(buf, line) ==
  IF buf.used < Lines THEN [buf EXCEPT !.lines = Append(@, line), !.used = @ + 1]
  ELSE [buf EXCEPT !.lines = Append(@, Line("cut", 0)), !.truncated = TRUE]

\* _SectionBuffer.append: a line while there is room, then one hint.
AppendLine(buf, line) ==
  IF buf.used < Lines THEN [buf EXCEPT !.lines = Append(@, line), !.used = @ + 1]
  ELSE IF buf.truncated THEN buf
  ELSE [buf EXCEPT !.lines = Append(@, Line("cut", 0)), !.truncated = TRUE]

AppendLines(buf, lines) ==
  LET after[n \in 0..Len(lines)] == IF n = 0 THEN buf ELSE AppendLine(after[n - 1], lines[n])
  IN  after[Len(lines)]

\* _render_removed: a heading, some of the symbols, how many more there are; then as
\* a heading and three renames.
RenderRemoved(result, buf) ==
  IF ~result.found \/ (result.removed = <<>> /\ result.renamed = <<>>) THEN AppendLine(buf, Line("none", 0)) ELSE
  LET shown    == First(Shown, result.removed)
      heading  == IF shown = <<>> THEN buf ELSE AppendLine(buf, Line("removed", Len(shown)))
      body     == AppendLines(heading, [i \in DOMAIN shown |-> Line("symbol", shown[i].sym)])
      rest     == result.total - Len(shown)
      more     == IF shown # <<>> /\ (result.truncated \/ Len(shown) < Len(result.removed)) /\ rest > 0
                  THEN AppendLine(body, Line("more", rest)) ELSE body
      pairs    == First(3, result.renamed)
  IN  IF shown # <<>> /\ body.truncated THEN body
      ELSE IF pairs = <<>> THEN more
      ELSE AppendLines(AppendLine(more, Line("renamed", Len(pairs))), [i \in DOMAIN pairs |-> Line("rename", pairs[i].new)])

\* _render_diff: the totals, then three entries of each bucket.
RenderDiff(result, buf) ==
  IF ~result.found THEN AppendLine(buf, Line("unresolved", 0)) ELSE
  LET Top(f) == LET e == First(3, result.entries[f]) IN [i \in DOMAIN e |-> Line(f, e[i].sym)]
  IN  AppendLines(AppendLine(buf, Line("totals", result.total["removed"])), Top("added") \o Top("modified") \o Top("removed"))

\* _render_symbol_history: the newest three events and the number of renames.
RenderSymbolHistory(result, buf) ==
  IF ~result.found THEN AppendLine(buf, Line("unknown", 0)) ELSE
  LET newest  == First(3, Reverse(result.events))
      body    == AppendLines(AppendLine(buf, Line("events", Len(result.events))),
                             [i \in DOMAIN newest |-> Line(newest[i].type, newest[i].ts)])
      renames == Cardinality(result.predecessors) + Cardinality(result.successors)
  IN  IF body.truncated \/ renames = 0 THEN body ELSE AppendLine(body, Line("renames", renames))

\* enrich_pack_with_timeline: the lines added to a pack for a question that asks for the
\* kinds, with the refs and the symbol it names.  Three lines head the section; a
\* section without any other is left out.
Enrich(kinds, removed, diff, history) ==
  LET empty == [lines |-> <<>>, used |-> 3, truncated |-> FALSE]
      buf1  == IF "removed_since" \in kinds THEN RenderRemoved(removed, empty) ELSE empty
      buf2  == IF "diff" \in kinds THEN RenderDiff(diff, buf1) ELSE buf1
  IN  (IF "symbol_history" \in kinds THEN RenderSymbolHistory(history, buf2) ELSE buf2).lines

=============================================================================
