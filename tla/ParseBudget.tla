------------------------------ MODULE ParseBudget ------------------------------
(***************************************************************************)
(* The parse loop of a scan (services/file_parse.py) over the pool of two  *)
(* threads that every scan of a process shares (services/parse_budget.py): *)
(* a parse that overruns its budget is given up, but keeps its thread.     *)
(***************************************************************************)
EXTENDS Naturals, Sequences, FiniteSets, SequencesExt

CONSTANTS
    File,            \* the files of a repository, numbered in scan order
    Scanner,         \* threads that run parse_files
    Process,         \* operating-system processes; each has its own pool
    HostOf(_),       \* the process a scanner runs in
    MaxClaims,       \* settings.max_claims_per_repo; 0 disables the ceiling
    MaxEdits         \* bound: how often a file changes while scans go on

\* What comes of a file: its parse ends, has errors, has its source parser raise
\* inside parse_file, raises, wedges, or emitting its claims raises; or the file is
\* too large or unreadable and is never parsed.
Natures == {"sound", "flawed", "swallowed", "raises", "wedges", "fatal",
            "large", "unreadable"}

ASSUME ParseAssumption ==
    /\ IsFiniteSet(File) /\ File = 1 .. Cardinality(File)
    /\ \A s \in Scanner : HostOf(s) \in Process
    /\ MaxClaims \in Nat /\ MaxEdits \in Nat

VARIABLES
    nature,          \* what comes of each file
    yield,           \* how many claims it makes
    version,         \* each file's content, as a count of its edits
    pool,            \* each process's executor: its threads and its work queue
    todo,            \* the files a scanner has ahead of it
    asked,           \* the file whose result a scanner waits for
    raised,          \* the scanners whose scan an exception ended
    sink             \* each scanner's IngestSink

inputs == <<nature, yield>>
parseVars == <<inputs, version, pool, todo, asked, raised, sink>>

Counters == {"files_seen", "files_parsed", "parse_errors", "parse_timeouts",
             "files_skipped_large", "claims", "capped"}

EmptySink(limit) == [nodes |-> <<>>, count |-> [c \in Counters |-> 0], max_claims |-> limit]

MaxWorkers == 2

NoFile == 0
NoTask == [scanner |-> "none", file |-> NoFile, content |-> 0]
Task == [scanner : Scanner, file : File, content : 0 .. MaxEdits]
NewPool == [thread |-> [t \in 1 .. MaxWorkers |-> NoTask], queue |-> <<>>]

\* Mutant: a forked child keeps the executor it inherits, whose threads are the
\* parent's.
AfterFork_Inherits == [thread |-> <<>>, queue |-> <<>>]

\* _replace_pool_in_child
AfterFork == NewPool

\* No scan has begun in a repository like this.
ParseInit(natures, yields) ==
    /\ nature = natures
    /\ yield = yields
    /\ version = [f \in File |-> 0]
    /\ pool = [p \in Process |-> AfterFork]
    /\ asked = [s \in Scanner |-> NoTask]
    /\ raised = {}
    /\ sink = [s \in Scanner |-> EmptySink(0)]

------------------------------------------------------------------------------
\* IngestSink.claim_budget_exhausted
AtCap(k) == k.max_claims > 0 /\ k.count["claims"] >= k.max_claims

Bump(k, counters) ==
    [k EXCEPT !.count = [c \in Counters |-> @[c] + (IF c \in counters THEN 1 ELSE 0)]]

\* What the emitters put into the sink for a file.
Emit(k, task) ==
    [k EXCEPT !.nodes = Append(@, <<task.file, task.content>>),
              !.count["claims"] = @ + yield[task.file]]

\* _parse_one_file, once the parse has ended.  A parse with errors still yields
\* claims; of one whose parser raised inside parse_file nothing is known.
Parsed(k, task) ==
    CASE nature[task.file] = "sound" -> Emit(Bump(k, {"files_parsed"}), task)
      [] nature[task.file] = "flawed" -> Emit(Bump(k, {"parse_errors"}), task)
      [] nature[task.file] = "raises" -> Bump(k, {"parse_errors"})
      [] nature[task.file] \in {"swallowed", "fatal"} -> k
      [] nature[task.file] = "wedges" -> Emit(Bump(k, {"files_parsed"}), task)

\* One round of the loop: a file too large or unreadable is counted and passed
\* over, any other is read and handed to the pool.
NextFile(s) ==
    LET f == Head(todo[s]) p == HostOf(s)
        task == [scanner |-> s, file |-> f, content |-> version[f]] IN
    /\ asked[s] = NoTask
    /\ todo[s] # <<>>
    /\ ~AtCap(sink[s])
    /\ todo' = [todo EXCEPT ![s] = Tail(@)]
    /\ IF nature[f] \in {"large", "unreadable"}
       THEN /\ sink' = [sink EXCEPT ![s] = Bump(@, {"files_seen",
                            IF nature[f] = "large" THEN "files_skipped_large"
                                                   ELSE "parse_errors"})]
            /\ UNCHANGED <<pool, asked>>
       ELSE /\ sink' = [sink EXCEPT ![s] = Bump(@, {"files_seen"})]
            /\ pool' = [pool EXCEPT ![p].queue = Append(@, task)]
            /\ asked' = [asked EXCEPT ![s] = task]
    /\ UNCHANGED <<inputs, version, raised>>

\* The claim ceiling stops the loop before a file.
StopAtCap(s) ==
    /\ asked[s] = NoTask
    /\ todo[s] # <<>>
    /\ AtCap(sink[s])
    /\ todo' = [todo EXCEPT ![s] = <<>>]
    /\ sink' = [sink EXCEPT ![s] = Bump(@, {"capped"})]
    /\ UNCHANGED <<inputs, version, pool, asked, raised>>

\* A pool thread takes the next task; a cancelled one it only drops.
ThreadTakes(p, t) ==
    LET q == pool[p].queue IN
    /\ pool[p].thread[t] = NoTask
    /\ q # <<>>
    /\ pool' = [pool EXCEPT
                  ![p].queue = Tail(q),
                  ![p].thread[t] = IF asked[Head(q).scanner] = Head(q) THEN Head(q) ELSE NoTask]
    /\ UNCHANGED <<inputs, version, todo, asked, raised, sink>>

Waited(task) == asked[task.scanner] = task

\* Mutant: what a parse found is emitted also when it was given up before.
Deliver_Late(task, k) == Parsed(k, task)

\* A result that nobody waits for any more is dropped with its future.
Deliver(task, k) == IF Waited(task) THEN Parsed(k, task) ELSE k

\* A parse ends, and the scanner that waits for it goes on with what it found; an
\* exception in an emitter ends the scan.  A parse that wedges may still end, but
\* only once it was given up.
ThreadEnds(p, t) ==
    LET task == pool[p].thread[t] s == task.scanner
        Fails == Waited(task) /\ nature[task.file] = "fatal" IN
    /\ task # NoTask
    /\ nature[task.file] = "wedges" => ~Waited(task)
    /\ pool' = [pool EXCEPT ![p].thread[t] = NoTask]
    /\ sink' = [sink EXCEPT ![s] = Deliver(task, @)]
    /\ asked' = [asked EXCEPT ![s] = IF Waited(task) THEN NoTask ELSE @]
    /\ todo' = [todo EXCEPT ![s] = IF Fails THEN <<>> ELSE @]
    /\ raised' = IF Fails THEN raised \cup {s} ELSE raised
    /\ UNCHANGED <<inputs, version>>

Wedged(p, t) == pool[p].thread[t] # NoTask /\ nature[pool[p].thread[t].file] = "wedges"
\* No thread will get to the queue in time.
Blocked(p) == \A t \in DOMAIN pool[p].thread : Wedged(p, t)

\* future.result(timeout) runs out on a parse that wedges, or in the queue of a
\* pool whose threads all do.  Other parses end within the budget.
Overruns(s) ==
    LET p == HostOf(s) IN
    \/ \E t \in DOMAIN pool[p].thread : pool[p].thread[t] = asked[s] /\ Wedged(p, t)
    \/ asked[s] \in ToSet(pool[p].queue) /\ Blocked(p)

\* Mutant: the budget starts when the parse does.
GivesUp_IfRunning(s) ==
    /\ asked[s] # NoTask
    /\ \E t \in DOMAIN pool[HostOf(s)].thread : pool[HostOf(s)].thread[t] = asked[s]
    /\ Overruns(s)
    /\ asked' = [asked EXCEPT ![s] = NoTask]
    /\ sink' = [sink EXCEPT ![s] = Bump(@, {"parse_errors", "parse_timeouts"})]
    /\ UNCHANGED <<inputs, version, pool, todo, raised>>

\* ParseTimeout: the file is given up; a future still queued is cancelled, which
\* leaves it in the queue until a thread comes by.
GivesUp(s) ==
    /\ asked[s] # NoTask
    /\ Overruns(s)
    /\ asked' = [asked EXCEPT ![s] = NoTask]
    /\ sink' = [sink EXCEPT ![s] = Bump(@, {"parse_errors", "parse_timeouts"})]
    /\ UNCHANGED <<inputs, version, pool, todo, raised>>

\* Somebody saves a file while scans go on; contents do not come back.
Edit(f) ==
    /\ version[f] < MaxEdits
    /\ version' = [version EXCEPT ![f] = @ + 1]
    /\ UNCHANGED <<inputs, pool, todo, asked, raised, sink>>

ParseLoop(s) == NextFile(s) \/ StopAtCap(s) \/ GivesUp(s)
Threads(p) == \E t \in DOMAIN pool[p].thread : ThreadTakes(p, t) \/ ThreadEnds(p, t)
\* absence_report names no reason why something found absent could be there.
Complete(k) ==
    \A c \in {"parse_errors", "files_skipped_large", "parse_timeouts", "capped"} :
        k.count[c] = 0

Through(s) == todo[s] = <<>> /\ asked[s] = NoTask

------------------------------------------------------------------------------
\* A file whose parse was given up adds nothing to the graph, also when the parse
\* ends after all and another file of the same scan is waited for by then.
GivenUpStaysOut ==
    \A s \in Scanner :
        LET n == sink[s].count IN
        Len(sink[s].nodes) + n["parse_timeouts"] + n["files_skipped_large"] <= n["files_seen"]

================================================================================
