----------------------------- MODULE Experiment -----------------------------
(***************************************************************************)
(* The experiment executor of internal/experiment (runner.go, factory.go)  *)
(* with the LRU cache of internal/structures/cache.go: several callers of  *)
(* Executor.Run, one gate, a deadline per call, a store that is opened for *)
(* the run and cleaned up after it, and the cache between the two.         *)
(*                                                                         *)
(* A store is the dictionary it holds; that the structures behind the      *)
(* interface are dictionaries is shown in Structures and PageTree.  The    *)
(* writes of a durable store may fail, before or after taking effect.      *)
(***************************************************************************)
EXTENDS Integers, Sequences

CONSTANTS
    Client,         \* goroutines that call Run
    NumKeys,        \* bound: how many different keys are used
    Value,          \* values stored
    None,           \* the value of a missing key
    Requests,       \* the requests clients send
    CapacityLimit,  \* 256 in Validate and NewCache
    DatasetLimit,   \* 5000 in Validate
    DurableLimit,   \* 1000 in Validate
    OperationLimit, \* 128 in Validate
    Faults          \* which calls may fail

Key == 1 .. NumKeys

\* ExperimentRequest.  Capacity 0 stands for a request without a cache; which
\* operations follow is decided as they are executed.
Request == [structure : {"memory", "durable", "unknown"}, capacity : Nat,
            dataset : Nat, operations : Nat]

ASSUME ConstantsAssumption ==
    /\ NumKeys \in Nat \ {0}
    /\ Value # {} /\ None \notin Value
    /\ Requests \subseteq Request
    /\ DatasetLimit \in 0 .. NumKeys
    /\ Faults \subseteq {"directory", "engine", "store", "cleanup"}

VARIABLES
    gate,       \* tokens in Executor.gate, a channel of capacity 1
    phase,      \* client -> where its call of Run is
    late,       \* client -> its context is done
    request,    \* client -> its request
    session,    \* client -> the store and the cache of its run
    dirs,       \* clients whose run left or uses a temporary directory
    stuck,      \* clients for whose run os.RemoveAll failed
    outcome     \* client -> what its last call of Run returned

vars == <<gate, phase, late, request, session, dirs, stuck, outcome>>

Dictionary == [Key -> Value \cup {None}]
Empty == [k \in Key |-> None]

\* The state of one run: the backing store, the cache (entries and order, most
\* recently used first) and how far the run is.  dict, recent and exact are
\* for the properties: the dictionary the answered operations describe, all
\* keys read since their last change, most recent first, and whether every
\* answer was the dictionary's.
NewSession ==
    [store |-> Empty, entries |-> Empty, order |-> << >>, loaded |-> 0, done |-> 0,
     dict |-> Empty, recent |-> << >>, exact |-> TRUE]

-----------------------------------------------------------------------------
(* The cache.                                                              *)

\* list.Remove of the element of key k, if the list has one.
Without(s, k) ==
    LET at == {i \in 1 .. Len(s) : s[i] = k}
        gone == CHOOSE i \in at : TRUE
    IN IF at = {} THEN s
       ELSE [j \in 1 .. Len(s) - 1 |-> IF j < gone THEN s[j] ELSE s[j + 1]]

\* invalidate.
Invalidate(s, k) ==
    [s EXCEPT !.entries[k] = None, !.order = Without(@, k)]

\* Mutant: a hit does not move its entry to the front.
HitInPlace(s, k) == s

\* Cache.Get, entry found.
Hit(s, k) == [s EXCEPT !.order = <<k>> \o Without(@, k)]

\* The entry at the back of the list leaves a full cache.
Evict(s, capacity) ==
    IF Len(s.order) = capacity
    THEN [s EXCEPT !.entries[s.order[Len(s.order)]] = None,
                   !.order = SubSeq(@, 1, Len(@) - 1)]
    ELSE s

\* Cache.Get, entry not found: what the backing store has is cached.
Fill(s, k, capacity) ==
    IF s.store[k] = None THEN s
    ELSE LET e == Evict(s, capacity)
         IN [e EXCEPT !.entries[k] = s.store[k], !.order = <<k>> \o @]

\* What Get answers, with or without a cache.
Lookup(s, k, capacity) ==
    IF capacity > 0 /\ s.entries[k] # None THEN s.entries[k] ELSE s.store[k]

AfterGet(s, k, capacity) ==
    IF capacity = 0 THEN s
    ELSE IF s.entries[k] # None THEN Hit(s, k) ELSE Fill(s, k, capacity)

\* Mutant: the cache forgets nothing when the backing store changes.
AfterWriteStale(s, k, v) == [s EXCEPT !.store[k] = v]

\* Cache.Set and Cache.Delete (v = None) when the backing call succeeds.
AfterWrite(s, k, v) == Invalidate([s EXCEPT !.store[k] = v], k)

-----------------------------------------------------------------------------
(* Executor.Run.                                                           *)

Validate(r) ==
    /\ r.capacity <= CapacityLimit
    /\ r.dataset <= DatasetLimit
    /\ r.structure = "durable" => r.dataset <= DurableLimit
    /\ r.operations <= OperationLimit

NoRequest == [structure |-> "unknown", capacity |-> 0, dataset |-> 0, operations |-> 0]

Durable(c) == request[c].structure = "durable"

Init ==
    /\ gate = 0
    /\ phase = [c \in Client |-> "idle"]
    /\ late = [c \in Client |-> FALSE]
    /\ request = [c \in Client |-> NoRequest]
    /\ session = [c \in Client |-> NewSession]
    /\ dirs = {}
    /\ stuck = {}
    /\ outcome = [c \in Client |-> "none"]

\* Run up to the select: a request that does not validate is refused at once.
Run(c) ==
    /\ phase[c] = "idle"
    /\ \E r \in Requests :
          /\ Validate(r)
          /\ request' = [request EXCEPT ![c] = r]
    /\ phase' = [phase EXCEPT ![c] = "gate"]
    /\ dirs' = dirs \ {c}
    /\ stuck' = stuck \ {c}
    /\ outcome' = [outcome EXCEPT ![c] = "none"]
    /\ UNCHANGED <<gate, late, session>>

\* The 30 seconds are over, or the caller's own context is cancelled.
Expire(c) ==
    /\ phase[c] # "idle" /\ ~late[c]
    /\ late' = [late EXCEPT ![c] = TRUE]
    /\ UNCHANGED <<gate, phase, request, session, dirs, stuck, outcome>>

\* Mutant: a gate with room for two.
EnterTwo(c) ==
    /\ phase[c] = "gate"
    /\ gate < 2
    /\ gate' = gate + 1
    /\ phase' = [phase EXCEPT ![c] = "open"]
    /\ UNCHANGED <<late, request, session, dirs, stuck, outcome>>

\* select: the send to the gate succeeds, even when the context is done too.
Enter(c) ==
    /\ phase[c] = "gate"
    /\ gate = 0
    /\ gate' = 1
    /\ phase' = [phase EXCEPT ![c] = "open"]
    /\ UNCHANGED <<late, request, session, dirs, stuck, outcome>>

\* Mutant: the deferred receive from the gate was registered before the select.
GiveUpReleasing(c) ==
    /\ phase[c] = "gate"
    /\ late[c]
    /\ gate' = 0
    /\ phase' = [phase EXCEPT ![c] = "idle"]
    /\ late' = [late EXCEPT ![c] = FALSE]
    /\ outcome' = [outcome EXCEPT ![c] = "error"]
    /\ UNCHANGED <<request, session, dirs, stuck>>

\* Mutant: a plain send to the gate instead of a select.
WaitForever(c) == FALSE /\ UNCHANGED vars

\* select: ctx.Done.
GiveUp(c) ==
    /\ phase[c] = "gate"
    /\ late[c]
    /\ phase' = [phase EXCEPT ![c] = "idle"]
    /\ late' = [late EXCEPT ![c] = FALSE]
    /\ outcome' = [outcome EXCEPT ![c] = "error"]
    /\ UNCHANGED <<gate, request, session, dirs, stuck>>

\* Run returns an error after the gate: the deferred calls follow.
Fail(c, next) ==
    /\ phase' = [phase EXCEPT ![c] = next]
    /\ outcome' = [outcome EXCEPT ![c] = "error"]
    /\ UNCHANGED <<gate, late, request>>

\* Factory.Open: cancelled, unsupported, or os.MkdirTemp fails.
OpenFails(c) ==
    /\ phase[c] = "open"
    /\ \/ late[c]
       \/ request[c].structure = "unknown"
       \/ Durable(c) /\ "directory" \in Faults
    /\ Fail(c, "release")
    /\ UNCHANGED <<session, dirs, stuck>>

\* Factory.Open of an in-memory structure, or the temporary directory of a
\* durable one.
Open(c) ==
    /\ phase[c] = "open"
    /\ ~late[c] /\ request[c].structure # "unknown"
    /\ phase' = [phase EXCEPT ![c] = IF Durable(c) THEN "engine" ELSE "load"]
    /\ dirs' = IF Durable(c) THEN dirs \cup {c} ELSE dirs
    /\ UNCHANGED <<gate, late, request, session, stuck, outcome>>

\* engine.Open.
OpenEngine(c) ==
    /\ phase[c] = "engine"
    /\ phase' = [phase EXCEPT ![c] = "load"]
    /\ UNCHANGED <<gate, late, request, session, dirs, stuck, outcome>>

\* os.RemoveAll of the run's directory, which may fail.
RemoveAll(c) ==
    \/ dirs' = dirs \ {c} /\ UNCHANGED stuck
    \/ "cleanup" \in Faults /\ c \in dirs /\ stuck' = stuck \cup {c} /\ UNCHANGED dirs

\* Mutant: the directory stays when the engine does not open.
OpenEngineFailsLeaving(c) ==
    /\ phase[c] = "engine"
    /\ "engine" \in Faults
    /\ Fail(c, "release")
    /\ UNCHANGED <<session, dirs, stuck>>

\* engine.Open fails and the directory is removed.
OpenEngineFails(c) ==
    /\ phase[c] = "engine"
    /\ "engine" \in Faults
    /\ RemoveAll(c)
    /\ Fail(c, "release")
    /\ UNCHANGED session

\* SampleRecord: the keys of the dataset are in order, its values fixed.
Sample == CHOOSE v \in Value : TRUE

\* One round of the dataset loop.
LoadRecord(c) ==
    /\ phase[c] = "load"
    /\ session[c].loaded < request[c].dataset
    /\ ~late[c]
    /\ LET i == session[c].loaded + 1
       IN session' = [session EXCEPT ![c].loaded = i, ![c].store[i] = Sample,
                                     ![c].dict[i] = Sample]
    /\ UNCHANGED <<gate, phase, late, request, dirs, stuck, outcome>>

\* The dataset loop ends early: deadline or failed Set.
LoadFails(c) ==
    /\ phase[c] = "load"
    /\ session[c].loaded < request[c].dataset
    /\ late[c] \/ (Durable(c) /\ "store" \in Faults)
    /\ Fail(c, "cleanup")
    /\ UNCHANGED <<session, dirs, stuck>>

\* The dataset is complete; NewCache puts an empty cache before the store.
StartOperations(c) ==
    /\ phase[c] = "load"
    /\ session[c].loaded = request[c].dataset
    /\ phase' = [phase EXCEPT ![c] = "run"]
    /\ UNCHANGED <<gate, late, request, session, dirs, stuck, outcome>>

\* An operation of the loop, reached in time.
Operating(c) == phase[c] = "run" /\ session[c].done < request[c].operations

\* execute: an answered Get.
Get(c, k) ==
    LET s == session[c]
        capacity == request[c].capacity
        answer == Lookup(s, k, capacity)
    IN /\ Operating(c) /\ ~late[c]
       /\ session' = [session EXCEPT ![c] =
              [AfterGet(s, k, capacity) EXCEPT
                  !.done = @ + 1,
                  !.exact = @ /\ answer = s.dict[k],
                  !.recent = IF answer = None THEN @ ELSE <<k>> \o Without(@, k)]]
       /\ UNCHANGED <<gate, phase, late, request, dirs, stuck, outcome>>

\* execute: an answered Set, or Delete (v = None) with its "found" answer.
Write(c, k, v) ==
    LET s == session[c]
    IN /\ Operating(c) /\ ~late[c]
       /\ session' = [session EXCEPT ![c] =
              [AfterWrite(s, k, v) EXCEPT
                  !.done = @ + 1,
                  !.dict[k] = v,
                  !.exact = @ /\ (v = None => (s.store[k] = None <=> s.dict[k] = None)),
                  !.recent = Without(@, k)]]
       /\ UNCHANGED <<gate, phase, late, request, dirs, stuck, outcome>>

\* execute: Range, which reads the backing store past the cache.
Range(c, start, end) ==
    LET s == session[c]
    IN /\ Operating(c) /\ ~late[c]
       /\ start <= end
       /\ session' = [session EXCEPT ![c].done = @ + 1,
              ![c].exact = @ /\ \A k \in start .. end : s.store[k] = s.dict[k]]
       /\ UNCHANGED <<gate, phase, late, request, dirs, stuck, outcome>>

\* The loop ends early: the deadline, or a failed call of the durable store,
\* which may have taken effect; the cache is left as it is.
OperationFails(c) ==
    /\ Operating(c)
    /\ \/ late[c] /\ UNCHANGED session
       \/ /\ Durable(c) /\ "store" \in Faults
          /\ \/ UNCHANGED session
             \/ \E k \in Key, v \in Value \cup {None} :
                   session' = [session EXCEPT ![c].store[k] = v]
    /\ Fail(c, "cleanup")
    /\ UNCHANGED <<dirs, stuck>>

\* The loop is over; the result is complete.
Finish(c) ==
    /\ phase[c] = "run"
    /\ session[c].done = request[c].operations
    /\ phase' = [phase EXCEPT ![c] = "cleanup"]
    /\ outcome' = [outcome EXCEPT ![c] = "ok"]
    /\ UNCHANGED <<gate, late, request, session, dirs, stuck>>

\* The deferred cleanup: store.Close and os.RemoveAll, whose errors are joined
\* to the result.
Cleanup(c) ==
    /\ phase[c] = "cleanup"
    /\ RemoveAll(c)
    /\ \/ c \notin stuck' /\ UNCHANGED outcome
       \/ /\ c \in stuck' \/ (Durable(c) /\ "cleanup" \in Faults)
          /\ outcome' = [outcome EXCEPT ![c] = "error"]
    /\ phase' = [phase EXCEPT ![c] = "release"]
    /\ UNCHANGED <<gate, late, request, session>>

\* The deferred receive from the gate and the cancellation of the context; Run
\* returns.
Release(c) ==
    /\ phase[c] = "release"
    /\ gate' = 0
    /\ phase' = [phase EXCEPT ![c] = "idle"]
    /\ late' = [late EXCEPT ![c] = FALSE]
    /\ request' = [request EXCEPT ![c] = NoRequest]
    /\ session' = [session EXCEPT ![c] = NewSession]
    /\ UNCHANGED <<dirs, stuck, outcome>>

\* execute.
Execute(c) ==
    \/ \E k \in Key : Get(c, k) \/ \E v \in Value \cup {None} : Write(c, k, v)
    \/ \E start, end \in Key : Range(c, start, end)

\* What the goroutine of client c does by itself once Run was called.
Step(c) ==
    \/ Enter(c) \/ GiveUp(c) \/ OpenFails(c) \/ Open(c) \/ OpenEngine(c)
    \/ OpenEngineFails(c) \/ LoadRecord(c) \/ LoadFails(c) \/ StartOperations(c)
    \/ Execute(c) \/ OperationFails(c) \/ Finish(c) \/ Cleanup(c) \/ Release(c)

Next == \E c \in Client : Run(c) \/ Expire(c) \/ Step(c)

Spec == Init /\ [][Next]_vars

\* A goroutine that can go on is scheduled; context.WithTimeout fires.  Nothing
\* is assumed of the order in which the gate admits waiting clients.
Fairness == \A c \in Client : WF_vars(Step(c)) /\ WF_vars(Expire(c))

FairSpec == Spec /\ Fairness

-----------------------------------------------------------------------------
(* Properties.                                                             *)

Phases == {"idle", "gate", "open", "engine", "load", "run", "cleanup", "release"}
Session ==
    [store : Dictionary, entries : Dictionary, order : Seq(Key), loaded : Nat, done : Nat,
     dict : Dictionary, recent : Seq(Key), exact : BOOLEAN]

\* Type invariant of the executor, its runs and their caches.
TypeOK ==
    /\ gate \in 0 .. 1
    /\ phase \in [Client -> Phases]
    /\ late \in [Client -> BOOLEAN]
    /\ request \in [Client -> Request]
    /\ session \in [Client -> Session]
    /\ dirs \subseteq Client /\ stuck \subseteq Client
    /\ outcome \in [Client -> {"none", "ok", "error"}]

Inside(c) == phase[c] \notin {"idle", "gate"}

\* "Executor owns one bounded experiment at a time, including setup and
\* cleanup" (runner.go): at most one call is past the gate, and the gate holds
\* a token exactly while one is, whichever way calls time out or fail.
OneAtATime ==
    /\ \A c, d \in Client : Inside(c) /\ Inside(d) => c = d
    /\ gate = 1 <=> \E c \in Client : Inside(c)

\* Every answer of a run with a cache is the one the dictionary of its
\* acknowledged writes gives: the cache is transparent, although a failed
\* write that took effect leaves its old entry behind.
AnswersExact == \A c \in Client : session[c].exact

\* The cache holds a prefix of the keys in the order of their last use, as
\* many as its capacity allows, and its map and its list name the same keys:
\* the entry evicted is always the least recently used one.
LeastRecentlyUsed ==
    \A c \in Client :
      LET s == session[c]
          n == Len(s.order)
      IN request[c].capacity > 0 /\ Inside(c) =>
           /\ n <= request[c].capacity
           /\ n <= Len(s.recent) /\ s.order = SubSeq(s.recent, 1, n)
           /\ {k \in Key : s.entries[k] # None} = {s.order[i] : i \in 1 .. n}

\* "Durable files are closed and removed even after an operation fails"
\* (experiment-runner.md): once the store of a run is closed its directory is
\* gone, or removing it failed and Run reports an error.
DirectoriesRemoved ==
    \A c \in Client :
      c \in dirs /\ phase[c] \in {"idle", "release"} => c \in stuck /\ outcome[c] = "error"

\* Every call of Run returns, however long others hold the gate: the holder
\* comes to its end or the deadline passes.
EveryRunReturns == \A c \in Client : phase[c] # "idle" ~> phase[c] = "idle"

=============================================================================
