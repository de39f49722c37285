------------------------------ MODULE Summaries ------------------------------
(***************************************************************************)
(* `ctx summarize`: one task per indexed file under a semaphore, a cache    *)
(* shared by every project (~/.lvdcp/summaries.db), a paid provider behind  *)
(* a miss, and the budget page that adds up what the cache has recorded.    *)
(*                                                                         *)
(* A run is one asyncio process: between two awaits (the read in a thread,  *)
(* the provider's answer, the pause after a 429) a task is not interrupted   *)
(* by the others, but other processes, the editor and the signal are.       *)
(***************************************************************************)
EXTENDS Integers, FiniteSets, FiniteSetsExt

CONSTANTS
    Runs,           \* processes that summarise the project, possibly at once
    Files,          \* the files of the index that have an allowed role
    Contents,       \* what a file can hold
    Gone,           \* the index still lists a file that left the disk
    Listed,         \* model name -> [input, cached, output]: MODELS
    Names,          \* the model names a caller may give, listed or not
    Concurrency,    \* --concurrency
    MaxRetries,     \* _MAX_RETRIES: pauses after a 429
    MaxEdits,       \* bound: changes to the files on disk
    MaxKills,       \* bound: runs cut short by a signal, and calls charged in vain
    Limit           \* llm.monthly_budget_usd, in the unit of the price list

ASSUME SummariesAssumption ==
    /\ \A m \in DOMAIN Listed : Listed[m] \in [input : Nat, cached : Nat, output : Nat]
    /\ Limit \in Nat

VARIABLES
    disk,           \* Files -> Contents \cup {Gone}
    rows,           \* the table: [content, model] -> what was stored
    llm,            \* config.llm: [enabled, provider, key]
    run,            \* Runs -> [pc, model, still, again, served, paid, errors]
    task,           \* Runs -> Files -> [pc, content, tries]
    billed,         \* history: what the provider charged
    doubtful,       \* history: a charge no row can stand for (see below)
    settled,        \* history: models that have answered for every file as it is
    edits, kills    \* counters of the bounded actions

summariesVars == <<disk, rows, llm, run, task, billed, doubtful, settled, edits, kills>>

----------------------------------------------------------------------------
(* Providers and prices. *)

Providers == {"openai", "anthropic", "ollama"}

(* A client, or "error" when the environment has no key for the provider. *)
CreateClient(cfg) ==
    IF cfg.provider = "ollama" THEN "ollama"
    ELSE IF cfg.provider \in Providers /\ cfg.key THEN cfg.provider
    ELSE "error"

(* What one call uses: tokens read, of which from the provider's cache, and *)
(* written.  One usage is enough: costs are compared, never estimated.      *)
Usage == [input |-> 2, cached |-> 1, output |-> 1]

CalculateCost(model, u) ==
    LET spec == Listed[model]
    IN  Max({0, u.input - u.cached}) * spec.input
            + u.cached * spec.cached + u.output * spec.output

(* How a client's call may end.  Only the OpenAI client pauses on a 429; an *)
(* answer of a model without a price raises what no task catches, and so    *)
(* does an answer of Ollama that is no JSON.                                *)
Priced(model) == IF model \in DOMAIN Listed THEN "answer" ELSE "abort"
OpenAIOutcomes(model) == {"limit", "refusal", Priced(model)}
AnthropicOutcomes(model) == {"refusal", Priced(model)}
OllamaOutcomes(model) == {"refusal", "answer", "abort"}

Outcomes(model) ==
    CASE llm.provider = "openai" -> OpenAIOutcomes(model)
      [] llm.provider = "anthropic" -> AnthropicOutcomes(model)
      [] llm.provider = "ollama" -> OllamaOutcomes(model)

(* For the mutant of SpendingIsRecorded: tokens from the provider's cache taken for free. *)
CostOfFreshTokens(provider, model) ==
    IF provider = "ollama" THEN 0
    ELSE CalculateCost(model, [Usage EXCEPT !.input = @ - Usage.cached, !.cached = 0])

CostOf(provider, model) ==
    IF provider = "ollama" THEN 0 ELSE CalculateCost(model, Usage)

(* What the provider bills, whether or not the program knows the model. *)
Bill(provider, model) ==
    IF provider = "ollama" THEN 0
    ELSE IF model \in DOMAIN Listed
    THEN (Usage.input - Usage.cached) * Listed[model].input
            + Usage.cached * Listed[model].cached + Usage.output * Listed[model].output
    ELSE 1

----------------------------------------------------------------------------
(* The store. *)

Key(content, model) == [content |-> content, model |-> model]

(* For the mutant of RerunIsFree: a row that cost nothing is taken for no row. *)
LookupPriced(content, model) ==
    \E k \in DOMAIN rows : k = Key(content, model) /\ rows[k].cost > 0

Lookup(content, model) == Key(content, model) \in DOMAIN rows

(* INSERT OR REPLACE: the primary key is the content and the model, the     *)
(* path is only what the row says of its first author.                      *)
Persist(key, row) ==
    rows' = [k \in DOMAIN rows \cup {key} |-> IF k = key THEN row ELSE rows[k]]

TotalCost == MapThenSumSet(LAMBDA k : rows[k].cost, DOMAIN rows)

BudgetStatus ==
    IF ~llm.enabled \/ Limit <= 0 THEN "disabled"
    ELSE IF TotalCost >= Limit THEN "exceeded"
    ELSE IF 10 * TotalCost >= 8 * Limit THEN "warning"
    ELSE "ok"

----------------------------------------------------------------------------
NoTask == [pc |-> "none", content |-> Gone, tries |-> 0]
NoRun == [pc |-> "idle", model |-> CHOOSE m \in Names : TRUE,
          still |-> FALSE, again |-> FALSE, served |-> 0, paid |-> 0, errors |-> 0]

SummariesInit ==
    /\ disk \in [Files -> Contents]
    /\ rows = <<>>
    /\ llm \in [enabled : {TRUE}, provider : Providers, key : {TRUE}]
    /\ run = [r \in Runs |-> NoRun]
    /\ task = [r \in Runs |-> [f \in Files |-> NoTask]]
    /\ billed = 0
    /\ doubtful = FALSE
    /\ settled = {}
    /\ edits = 0
    /\ kills = 0

Busy(r) == {f \in Files : task[r][f].pc \in {"reading", "calling", "pausing"}}

Begin(r, m) ==
    /\ run[r].pc = "idle"
    /\ llm.enabled
    /\ CreateClient(llm) # "error"
    /\ run' = [run EXCEPT ![r] = [NoRun EXCEPT !.pc = "going", !.model = m,
                                  !.still = TRUE, !.again = m \in settled]]
    /\ task' = [task EXCEPT ![r] = [f \in Files |-> [NoTask EXCEPT !.pc = "queued"]]]
    /\ UNCHANGED <<disk, rows, llm, billed, doubtful, settled, edits, kills>>

Set(r, f, t) == task' = [task EXCEPT ![r][f] = t]
Done(r, f) == Set(r, f, [task[r][f] EXCEPT !.pc = "done"])

(* async with semaphore *)
Acquire(r, f) ==
    /\ run[r].pc = "going"
    /\ task[r][f].pc = "queued"
    /\ Cardinality(Busy(r)) < Concurrency
    /\ Set(r, f, [task[r][f] EXCEPT !.pc = "reading"])
    /\ UNCHANGED <<disk, rows, llm, run, billed, doubtful, settled, edits, kills>>

(* The file has been read in its thread; hash, lookup and, on a miss, the   *)
(* request follow without another task in between.                          *)
Read(r, f) ==
    LET c == disk[f] IN
    /\ run[r].pc = "going"
    /\ task[r][f].pc = "reading"
    /\ \/ /\ c = Gone
          /\ Done(r, f)
          /\ run' = [run EXCEPT ![r].errors = @ + 1]
       \/ /\ c # Gone
          /\ Lookup(c, run[r].model)
          /\ Done(r, f)
          /\ run' = [run EXCEPT ![r].served = @ + 1]
       \/ /\ c # Gone
          /\ ~Lookup(c, run[r].model)
          /\ Set(r, f, [task[r][f] EXCEPT !.pc = "calling", !.content = c])
          /\ UNCHANGED run
    /\ UNCHANGED <<disk, rows, llm, billed, doubtful, settled, edits, kills>>

(* A 429: a pause and another try, or the last one. *)
RateLimited(r, f) ==
    /\ run[r].pc = "going"
    /\ task[r][f].pc = "calling"
    /\ "limit" \in Outcomes(run[r].model)
    /\ \/ /\ task[r][f].tries < MaxRetries
          /\ Set(r, f, [task[r][f] EXCEPT !.pc = "pausing", !.tries = @ + 1])
          /\ UNCHANGED run
       \/ /\ task[r][f].tries >= MaxRetries
          /\ Done(r, f)
          /\ run' = [run EXCEPT ![r].errors = @ + 1]
    /\ UNCHANGED <<disk, rows, llm, billed, doubtful, settled, edits, kills>>

Resume(r, f) ==
    /\ run[r].pc = "going"
    /\ task[r][f].pc = "pausing"
    /\ Set(r, f, [task[r][f] EXCEPT !.pc = "calling"])
    /\ UNCHANGED <<disk, rows, llm, run, billed, doubtful, settled, edits, kills>>

(* An error of the provider is one warning of the run. *)
Refused(r, f) ==
    /\ run[r].pc = "going"
    /\ task[r][f].pc = "calling"
    /\ "refusal" \in Outcomes(run[r].model)
    /\ Done(r, f)
    /\ run' = [run EXCEPT ![r].errors = @ + 1]
    /\ UNCHANGED <<disk, rows, llm, billed, doubtful, settled, edits, kills>>

(* The provider charges for an answer that never comes to the task: the     *)
(* client times out and asks again or gives up, or the answer is refused    *)
(* for the usage it does not state.                                        *)
ChargedInVain(r, f) ==
    /\ run[r].pc = "going"
    /\ task[r][f].pc = "calling"
    /\ kills < MaxKills
    /\ billed' = billed + Bill(llm.provider, run[r].model)
    /\ doubtful' = (doubtful \/ Bill(llm.provider, run[r].model) > 0)
    /\ kills' = kills + 1
    /\ UNCHANGED <<disk, rows, llm, run, task, settled, edits>>

(* A summary arrives: it is priced, stored and counted in one go. *)
Answered(r, f) ==
    LET t == task[r][f]
        m == run[r].model
        cost == CostOf(llm.provider, m)
    IN
    /\ run[r].pc = "going"
    /\ t.pc = "calling"
    /\ "answer" \in Outcomes(m)
    /\ doubtful' = (doubtful \/ Lookup(t.content, m))
    /\ Persist(Key(t.content, m), [path |-> f, about |-> t.content, cost |-> cost])
    /\ Done(r, f)
    /\ run' = [run EXCEPT ![r].paid = @ + 1]
    /\ billed' = billed + Bill(llm.provider, m)
    /\ UNCHANGED <<disk, llm, settled, edits, kills>>

(* The exception is not one the task catches, so the gather raises it and   *)
(* the loop cancels the other tasks with what they are waiting for.         *)
Aborts(r, f) ==
    /\ run[r].pc = "going"
    /\ task[r][f].pc = "calling"
    /\ "abort" \in Outcomes(run[r].model)
    /\ billed' = billed + Bill(llm.provider, run[r].model)
    /\ doubtful' = TRUE
    /\ run' = [run EXCEPT ![r].pc = "dead"]
    /\ task' = [task EXCEPT ![r] = [g \in Files |-> NoTask]]
    /\ UNCHANGED <<disk, rows, llm, settled, edits, kills>>

Complete(r) ==
    /\ run[r].pc = "going"
    /\ \A f \in Files : task[r][f].pc = "done"
    /\ run' = [run EXCEPT ![r].pc = "over"]
    /\ task' = [task EXCEPT ![r] = [f \in Files |-> NoTask]]
    /\ settled' = IF run[r].errors = 0 /\ run[r].still THEN settled \cup {run[r].model}
                  ELSE settled
    /\ UNCHANGED <<disk, rows, llm, billed, doubtful, edits, kills>>

(* Ctrl-C, or the machine goes down: calls under way may have been charged. *)
Kill(r) ==
    /\ run[r].pc = "going"
    /\ kills < MaxKills
    /\ \E charged \in SUBSET {f \in Files : task[r][f].pc = "calling"} :
           /\ billed' = billed + Cardinality(charged) * Bill(llm.provider, run[r].model)
           /\ doubtful' = (doubtful \/ charged # {})
    /\ run' = [run EXCEPT ![r].pc = "dead"]
    /\ task' = [task EXCEPT ![r] = [f \in Files |-> NoTask]]
    /\ kills' = kills + 1
    /\ UNCHANGED <<disk, rows, llm, settled, edits>>

(* Files change under the runs; what was true of them no longer is. *)
Edit(f, c) ==
    /\ edits < MaxEdits
    /\ c # disk[f]
    /\ disk' = [disk EXCEPT ![f] = c]
    /\ run' = [r \in Runs |-> [run[r] EXCEPT !.still = FALSE, !.again = FALSE]]
    /\ settled' = {}
    /\ edits' = edits + 1
    /\ UNCHANGED <<rows, llm, task, billed, doubtful, kills>>

SummariesNext ==
    \/ \E r \in Runs :
          \/ \E m \in Names : Begin(r, m)
          \/ \E f \in Files : \/ Acquire(r, f) \/ Read(r, f)
                              \/ RateLimited(r, f) \/ Resume(r, f) \/ Refused(r, f)
                              \/ ChargedInVain(r, f) \/ Answered(r, f) \/ Aborts(r, f)
          \/ Complete(r)
          \/ Kill(r)
    \/ \E f \in Files, c \in Contents \cup {Gone} : Edit(f, c)

SummariesSpec == SummariesInit /\ [][SummariesNext]_summariesVars

----------------------------------------------------------------------------
(* Properties. *)

(* A run that begins after another has answered for every file with the     *)
(* same model, nothing having changed on disk since the other began, pays   *)
(* for nothing and meets no error, whatever other runs do meanwhile         *)
(* (summarize.py:41, "Running twice on unchanged files yields 100% cache    *)
(* hits and zero cost").                                                    *)
RerunIsFree ==
    \A r \in Runs : run[r].again =>
        /\ run[r].paid = 0
        /\ run[r].errors = 0
        /\ \A f \in Files : task[r][f].pc # "calling"
        /\ run[r].pc = "over" => run[r].served = Cardinality(Files)

(* What the budget page adds up is never more than what was charged, and it *)
(* is exactly that unless a charge has no row of its own: two calls for one *)
(* content in flight together (the second row replaces the first), a run    *)
(* that died with a call under way, a model that has no price, and an       *)
(* answer that was charged and lost: to a timeout of the client, or refused  *)
(* because it came without its usage (openai_client.py:86-88).              *)
SpendingIsRecorded ==
    /\ TotalCost <= billed
    /\ ~doubtful => /\ TotalCost = billed
                    /\ billed >= Limit /\ Limit > 0 => BudgetStatus = "exceeded"
==============================================================================
