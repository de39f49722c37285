----------------------------- MODULE MemoryStore -----------------------------
(***************************************************************************)
(* Reviewable memories: one markdown file each, whose frontmatter carries   *)
(* the status.  Agents propose, people accept, reject or edit the file by   *)
(* hand, and every context pack shows the newest accepted ones.  A proposal *)
(* is renamed into place; a verdict is written over the file, which is      *)
(* empty until the write ends, after a read of the whole directory.         *)
(***************************************************************************)
EXTENDS Integers, FiniteSets

CONSTANTS
    Memories,       \* files that can be proposed
    Texts,          \* what the body of a memory can say
    Commands,       \* `ctx memory accept` and `reject` processes
    Shown,          \* _MEMORY_LIMIT: memories in a pack
    MaxSaves,       \* bound: saves by hand
    MaxInterrupts        \* bound: processes killed

VARIABLES
    file,           \* Memories -> [state, status, text]
    age,            \* Memories -> created_at, 0 before the proposal
    proposal,       \* Memories -> "none", "written" (the .tmp), "there", "lost"
    command,        \* Commands -> [pc, memory, verdict, found]
    word,           \* history: Memories -> the last status and text somebody
                    \* was told of or saved
    crossed,        \* history: files saved by hand between a command's read
                    \* and its write, and files a kill left empty
    saves, interrupts

memoryVars == <<file, age, proposal, command, word, crossed, saves, interrupts>>

Verdicts == {"accepted", "rejected"}
Statuses == Verdicts \cup {"proposed"}

(* "empty" stands for every file _parse turns down as a MemoryError;        *)
(* "broken" for frontmatter that is no YAML at all, whose error is another. *)
States == {"absent", "good", "empty", "broken"}

Absent == [state |-> "absent", status |-> "proposed", text |-> CHOOSE t \in Texts : TRUE]
Good(status, text) == [state |-> "good", status |-> status, text |-> text]
NoCommand == [pc |-> "idle", memory |-> "none",
              verdict |-> "accepted", found |-> Absent]

MemoryInit ==
    /\ file = [m \in Memories |-> Absent]
    /\ age = [m \in Memories |-> 0]
    /\ proposal = [m \in Memories |-> "none"]
    /\ command = [c \in Commands |-> NoCommand]
    /\ word = [m \in Memories |-> Absent]
    /\ crossed = {}
    /\ saves = 0
    /\ interrupts = 0

----------------------------------------------------------------------------
(* Reading. *)

(* The one exception list_memories does not skip. *)
Unlistable == \E m \in Memories : file[m].state = "broken"

ListMemories(status) ==
    {m \in Memories : file[m].state = "good" /\ file[m].status = status}

(* For the mutant of LastWordStands: oldest first. *)
ApprovedOldestFirst ==
    LET accepted == ListMemories("accepted")
    IN  IF Unlistable THEN {}
        ELSE {m \in accepted : Cardinality({n \in accepted : age[n] < age[m]}) < Shown}

(* Newest first; nothing at all when the listing fails. *)
ApprovedSection ==
    LET accepted == ListMemories("accepted")
    IN  IF Unlistable THEN {}
        ELSE {m \in accepted : Cardinality({n \in accepted : age[n] > age[m]}) < Shown}

----------------------------------------------------------------------------
(* Proposing. *)

WriteTmp(m, t) ==
    /\ proposal[m] = "none"
    /\ proposal' = [proposal EXCEPT ![m] = "written"]
    /\ age' = [age EXCEPT ![m] = 1 + Cardinality({n \in Memories : age[n] > 0})]
    /\ word' = [word EXCEPT ![m] = Good("proposed", t)]
    /\ UNCHANGED <<file, command, crossed, saves, interrupts>>

Rename(m) ==
    /\ proposal[m] = "written"
    /\ proposal' = [proposal EXCEPT ![m] = "there"]
    /\ file' = [file EXCEPT ![m] = word[m]]
    /\ UNCHANGED <<age, command, word, crossed, saves, interrupts>>

(* Killed in between: a .md.tmp no listing looks at. *)
Abandon(m) ==
    /\ proposal[m] = "written"
    /\ interrupts < MaxInterrupts
    /\ proposal' = [proposal EXCEPT ![m] = "lost"]
    /\ interrupts' = interrupts + 1
    /\ UNCHANGED <<file, age, command, word, crossed, saves>>

----------------------------------------------------------------------------
(* Reviewing. *)

(* Commands that have read m and not yet written it. *)
Holding(m) == {c \in Commands : command[c].pc \in {"found", "opened"} /\ command[c].memory = m}

(* _find: an unknown id, or a listing that fails, ends the command. *)
Find(c, m, v) ==
    /\ command[c].pc = "idle"
    /\ ~Unlistable
    /\ file[m].state = "good"
    /\ command' = [command EXCEPT ![c] = [pc |-> "found", memory |-> m, verdict |-> v,
                                          found |-> file[m]]]
    /\ UNCHANGED <<file, age, proposal, word, crossed, saves, interrupts>>

(* write_text opens the file for writing, which empties it ... *)
Truncate(c) ==
    LET m == command[c].memory IN
    /\ command[c].pc = "found"
    /\ file' = [file EXCEPT ![m].state = "empty"]
    /\ command' = [command EXCEPT ![c].pc = "opened"]
    /\ UNCHANGED <<age, proposal, word, crossed, saves, interrupts>>

(* ... and then writes what the read has found, with the new status. *)
SetStatus(c) ==
    LET m == command[c].memory
        updated == Good(command[c].verdict, command[c].found.text)
    IN
    /\ command[c].pc = "opened"
    /\ file' = [file EXCEPT ![m] = updated]
    /\ word' = [word EXCEPT ![m] = Good(command[c].verdict, @.text)]
    /\ command' = [command EXCEPT ![c] = NoCommand]
    /\ UNCHANGED <<age, proposal, crossed, saves, interrupts>>

KillCommand(c) ==
    /\ command[c].pc # "idle"
    /\ interrupts < MaxInterrupts
    /\ crossed' = IF command[c].pc = "opened" THEN crossed \cup {command[c].memory}
                  ELSE crossed
    /\ command' = [command EXCEPT ![c] = NoCommand]
    /\ interrupts' = interrupts + 1
    /\ UNCHANGED <<file, age, proposal, word, saves>>

(* Any editor is a review tool: it saves the file whole, whatever a command *)
(* is doing, and now and then with frontmatter that is no YAML.             *)
Save(m, status, t) ==
    /\ proposal[m] = "there"
    /\ saves < MaxSaves
    /\ \E state \in {"good", "broken"} :
          file' = [file EXCEPT ![m] = [Good(status, t) EXCEPT !.state = state]]
    /\ word' = [word EXCEPT ![m] = Good(status, t)]
    /\ crossed' = (IF Holding(m) = {} THEN crossed \ {m} ELSE crossed \cup {m})
    /\ saves' = saves + 1
    /\ UNCHANGED <<age, proposal, command, interrupts>>

MemoryNext ==
    \/ \E m \in Memories :
          \/ \E t \in Texts : WriteTmp(m, t)
          \/ Rename(m) \/ Abandon(m)
          \/ \E status \in Statuses, t \in Texts : Save(m, status, t)
    \/ \E c \in Commands :
          \/ \E m \in Memories, v \in Verdicts : Find(c, m, v)
          \/ Truncate(c) \/ SetStatus(c) \/ KillCommand(c)

MemorySpec == MemoryInit /\ [][MemoryNext]_memoryVars

----------------------------------------------------------------------------
(* Properties. *)

(* A pack shows exactly the newest memories whose last word was "accepted",  *)
(* with the text last proposed or saved, whichever commands run at once, as  *)
(* long as nobody has saved a file by hand under a command, no command was   *)
(* killed over a file or is writing it now, and every file is YAML           *)
(* (memory/store.py:171-184, context_pack/builder.py:33).                    *)
LastWordStands ==
    LET there == {m \in Memories : proposal[m] = "there"}
        calm == crossed = {} /\ ~Unlistable
                    /\ \A c \in Commands : command[c].pc # "opened"
        accepted == {m \in there : word[m].status = "accepted"}
    IN  calm =>
            /\ \A m \in there : file[m] = word[m]
            /\ ApprovedSection \subseteq accepted
            /\ \A m \in accepted \ ApprovedSection :
                   Shown <= Cardinality({n \in accepted : age[n] > age[m]})
==============================================================================
