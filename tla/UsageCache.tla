------------------------------ MODULE UsageCache -----------------------------
(***************************************************************************)
(* Token accounting from the session files Claude Code appends to.          *)
(* Each file has a row: how far it has been read and the events found so    *)
(* far.  A sync stats the file, selects the row, reads from the row's       *)
(* offset to the end and replaces the row; Claude Code writes meanwhile,    *)
(* and a line may be on disk by half.                                       *)
(*                                                                         *)
(* A line is two halves, so an offset is a number of halves.  The events of  *)
(* a row are kept as how often each line of the file is among them.         *)
(***************************************************************************)
EXTENDS Integers, Sequences

CONSTANTS
    Sessions,       \* the *.jsonl files
    Readers,        \* processes that ask for totals: `ctx status`, the web UI
    Assistant,      \* a line of type "assistant" with a usage
    Other,          \* any other line: skipped
    MaxLines        \* bound: lines a session gets

ASSUME UsageAssumption == MaxLines \in Nat /\ Sessions # {} /\ Assistant # Other

VARIABLES
    lines,          \* Sessions -> the complete lines written, in order
    half,           \* Sessions -> is the next line on disk by half?
    row,            \* Sessions -> [offset, events]: session_cache
    reader,         \* Readers -> [pc, session, size, offset, events]
    late,           \* history: lines (session, number) written while a sync
                    \* was between its stat and its read
    torn,           \* history: lines on disk by half when a sync took the size
    unread,         \* history: complete lines a sync gave up before, on an error
    shrunk          \* history: sessions that have lost lines (once at most: a bound)

usageVars == <<lines, half, row, reader, late, torn, unread, shrunk>>

NoEvents == [n \in 1..MaxLines |-> 0]
NoRow == [offset |-> 0, events |-> NoEvents]
NoReader == [pc |-> "idle", session |-> CHOOSE s \in Sessions : TRUE,
             size |-> 0, offset |-> 0, events |-> NoEvents]

Size(s) == 2 * Len(lines[s]) + (IF half[s] THEN 1 ELSE 0)

(* The line the next bytes belong to. *)
Current(s) == <<s, Len(lines[s]) + 1>>

(* The events and those found from an offset on, up to some line: one for   *)
(* each complete line with a usage; the tail of a line, and a line by half  *)
(* at the end, are no JSON.                                                 *)
ReadSessionFile(s, offset, last, events) ==
    [n \in 1..MaxLines |->
        IF n <= last /\ 2 * (n - 1) >= offset /\ lines[s][n] = Assistant
        THEN events[n] + 1 ELSE events[n]]

UsageInit ==
    /\ lines = [s \in Sessions |-> <<>>]
    /\ half = [s \in Sessions |-> FALSE]
    /\ row = [s \in Sessions |-> NoRow]
    /\ reader = [r \in Readers |-> NoReader]
    /\ late = {}
    /\ torn = {}
    /\ unread = {}
    /\ shrunk = {}

(* Readers that have taken the size of s and not yet read it. *)
Between(s) == {r \in Readers : reader[r].session = s /\ reader[r].pc \in {"sized", "selected"}}

(* What is noted of a line: nothing more once its session has lost lines. *)
Noted(at) == IF at[1] \in shrunk THEN {} ELSE {at}

Mark(s) == late' = IF Between(s) = {} THEN late ELSE late \cup Noted(Current(s))

WriteHalf(s) ==
    /\ ~half[s]
    /\ Len(lines[s]) < MaxLines
    /\ half' = [half EXCEPT ![s] = TRUE]
    /\ Mark(s)
    /\ UNCHANGED <<lines, row, reader, torn, unread, shrunk>>

WriteLine(s, kind) ==
    /\ Len(lines[s]) < MaxLines
    /\ lines' = [lines EXCEPT ![s] = Append(@, kind)]
    /\ half' = [half EXCEPT ![s] = FALSE]
    /\ Mark(s)
    /\ UNCHANGED <<row, reader, torn, unread, shrunk>>

(* The session is rewritten shorter, or deleted and begun anew. *)
Shrink(s) ==
    /\ s \notin shrunk
    /\ \E kept \in 0..(Len(lines[s]) - 1) : lines' = [lines EXCEPT ![s] = SubSeq(@, 1, kept)]
    /\ half' = [half EXCEPT ![s] = FALSE]
    /\ shrunk' = shrunk \cup {s}
    /\ late' = {at \in late : at[1] # s}
    /\ torn' = {at \in torn : at[1] # s}
    /\ unread' = {at \in unread : at[1] # s}
    /\ UNCHANGED <<row, reader>>

(* session_file.stat().st_size *)
Stat(r, s) ==
    /\ reader[r].pc = "idle"
    /\ reader' = [reader EXCEPT ![r] = [NoReader EXCEPT !.pc = "sized", !.session = s,
                                        !.size = Size(s)]]
    /\ torn' = IF half[s] THEN torn \cup Noted(Current(s)) ELSE torn
    /\ UNCHANGED <<lines, half, row, late, unread, shrunk>>

(* The row; a file that has not grown is answered from it. *)
Select(r) ==
    LET s == reader[r].session IN
    /\ reader[r].pc = "sized"
    /\ reader' = [reader EXCEPT ![r] =
                     IF reader[r].size > row[s].offset
                     THEN [reader[r] EXCEPT !.pc = "selected", !.offset = row[s].offset,
                                            !.events = row[s].events]
                     ELSE NoReader]
    /\ UNCHANGED <<lines, half, row, late, torn, unread, shrunk>>

ReadTail(r) ==
    LET s == reader[r].session IN
    /\ reader[r].pc = "selected"
    /\ reader' = [reader EXCEPT
                     ![r].events = ReadSessionFile(s, reader[r].offset, Len(lines[s]), @),
                     ![r].pc = "read"]
    /\ UNCHANGED <<lines, half, row, late, torn, unread, shrunk>>

(* Opening the file, or reading on, fails: what was found by then is all    *)
(* there is, and the sync goes on as if it had come to the end.             *)
ReadBreaksOff(r) ==
    LET s == reader[r].session IN
    /\ reader[r].pc = "selected"
    /\ \E last \in 0..(Len(lines[s]) - 1) :
           /\ 2 * last >= reader[r].offset
           /\ reader' = [reader EXCEPT
                            ![r].events = ReadSessionFile(s, reader[r].offset, last, @),
                            ![r].pc = "read"]
           /\ unread' = unread \cup UNION {Noted(<<s, n>>) : n \in (last + 1)..Len(lines[s])}
    /\ UNCHANGED <<lines, half, row, late, torn, shrunk>>

(* For the mutant of TokensCountedOnce: the offset is taken when the row is written. *)
ReplaceAtEnd(r) ==
    /\ reader[r].pc = "read"
    /\ row' = [row EXCEPT ![reader[r].session] =
                    [offset |-> Size(reader[r].session), events |-> reader[r].events]]
    /\ reader' = [reader EXCEPT ![r] = NoReader]
    /\ UNCHANGED <<lines, half, late, torn, unread, shrunk>>

(* The new offset is the size taken before the read. *)
Replace(r) ==
    /\ reader[r].pc = "read"
    /\ row' = [row EXCEPT ![reader[r].session] =
                    [offset |-> reader[r].size, events |-> reader[r].events]]
    /\ reader' = [reader EXCEPT ![r] = NoReader]
    /\ UNCHANGED <<lines, half, late, torn, unread, shrunk>>

(* The process ends between two statements. *)
Die(r) ==
    /\ reader[r].pc # "idle"
    /\ reader' = [reader EXCEPT ![r] = NoReader]
    /\ UNCHANGED <<lines, half, row, late, torn, unread, shrunk>>

UsageNext ==
    \/ \E s \in Sessions : \/ WriteHalf(s) \/ Shrink(s)
                           \/ \E kind \in {Assistant, Other} : WriteLine(s, kind)
    \/ \E r \in Readers : \/ \E s \in Sessions : Stat(r, s)
                          \/ Select(r) \/ ReadTail(r) \/ ReadBreaksOff(r) \/ Replace(r) \/ Die(r)

UsageSpec == UsageInit /\ [][UsageNext]_usageVars

----------------------------------------------------------------------------
(* Properties. *)

(* What has been counted up to an offset: every assistant line below it     *)
(* once and nothing else, but for the lines written between a stat and its  *)
(* read (they may be counted again by the next sync) and those whose first half *)
(* was there when a sync began (they may never be counted).  A line that a  *)
(* sync gave up before may never be counted either, but not twice.          *)
ExactUpTo(s, offset, events) ==
    s \notin shrunk => \A n \in 1..MaxLines : <<s, n>> \notin late \cup torn =>
        \/ events[n] =
               (IF n <= Len(lines[s]) /\ 2 * n <= offset /\ lines[s][n] = Assistant THEN 1 ELSE 0)
        \/ events[n] = 0 /\ <<s, n>> \in unread

(* Totals stay exact however many processes sync one file at once, whichever *)
(* row replaces which, and wherever one of them dies: the offset and the     *)
(* events of a row belong together (claude_usage/cache.py:52-88).  Nothing  *)
(* is said of a session that has become shorter.                            *)
TokensCountedOnce ==
    /\ \A s \in Sessions : ExactUpTo(s, row[s].offset, row[s].events)
    /\ \A r \in Readers : reader[r].pc = "read" =>
           ExactUpTo(reader[r].session, reader[r].size, reader[r].events)
==============================================================================
