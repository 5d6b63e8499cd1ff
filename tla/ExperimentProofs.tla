-------------------------- MODULE ExperimentProofs --------------------------
(***************************************************************************)
(* Proofs about Experiment, for any number of clients, keys, values and    *)
(* requests and any limits: one run at a time, exact answers through the   *)
(* cache, eviction of the least recently used entry, and no directory left *)
(* behind unreported.                                                      *)
(***************************************************************************)
EXTENDS Experiment, TLAPS

USE SMTT(20), ZenonT(20)

\* The variables are functions of the client; the phases are the ones of Run.
ByClient ==
    /\ gate \in 0 .. 1
    /\ phase \in [Client -> Phases]
    /\ session = [c \in Client |-> session[c]]
    /\ outcome = [c \in Client |-> outcome[c]]

GateInv == ByClient /\ OneAtATime

\* A step moves the phase of its own client only.
Moves(c, from, to) == phase[c] = from /\ phase' = [phase EXCEPT ![c] = to]

\* Every action of Run that is not about the gate keeps its client on one side
\* of the gate.
LEMMA PhaseKept ==
    ASSUME GateInv, NEW c \in Client, UNCHANGED gate,
           UNCHANGED phase \/ \E from, to \in Phases :
               Moves(c, from, to) /\ (from \in {"idle", "gate"} <=> to \in {"idle", "gate"})
    PROVE gate' \in 0 .. 1 /\ phase' \in [Client -> Phases] /\ OneAtATime'
<1>1. phase' \in [Client -> Phases]
  BY DEF GateInv, ByClient, Moves
<1>2. \A d \in Client : Inside(d)' <=> Inside(d)
  BY DEF GateInv, ByClient, Moves, Inside
<1> QED
  BY <1>1, <1>2 DEF GateInv, ByClient, OneAtATime

\* A token is taken by the client that enters and given back by the one that
\* leaves.
LEMMA GateStep ==
    ASSUME GateInv, [Next]_vars
    PROVE GateInv'
<1>1. ASSUME NEW c \in Client, Enter(c)
      PROVE gate' \in 0 .. 1 /\ phase' \in [Client -> Phases] /\ OneAtATime'
  <2>1. phase' \in [Client -> Phases] /\ gate' = 1 /\ gate = 0
    BY <1>1 DEF Enter, GateInv, ByClient, Phases
  <2>2. \A d \in Client : Inside(d)' <=> d = c
    BY <1>1, <2>1 DEF Enter, GateInv, ByClient, OneAtATime, Inside
  <2> QED
    BY <2>1, <2>2 DEF OneAtATime
<1>2. ASSUME NEW c \in Client, Release(c)
      PROVE gate' \in 0 .. 1 /\ phase' \in [Client -> Phases] /\ OneAtATime'
  <2>1. phase' \in [Client -> Phases] /\ gate' = 0 /\ Inside(c)
    BY <1>2 DEF Release, GateInv, ByClient, Phases, Inside
  <2>2. \A d \in Client : ~Inside(d)'
    BY <1>2, <2>1 DEF Release, GateInv, ByClient, OneAtATime, Inside
  <2> QED
    BY <2>1, <2>2 DEF OneAtATime
<1>3. ASSUME NEW c \in Client, Run(c) \/ Expire(c) \/ Step(c), ~Enter(c), ~Release(c)
      PROVE gate' \in 0 .. 1 /\ phase' \in [Client -> Phases] /\ OneAtATime'
  <2>1. /\ UNCHANGED gate
        /\ UNCHANGED phase \/ \E from, to \in Phases :
             Moves(c, from, to) /\ (from \in {"idle", "gate"} <=> to \in {"idle", "gate"})
    BY <1>3, Zenon DEF Run, Expire, Step, GiveUp, OpenFails, Open, OpenEngine, OpenEngineFails, Fail,
       LoadRecord, LoadFails, StartOperations, Execute, Get, Write, Range, OperationFails,
       Operating, Finish, Cleanup, Moves, Phases
  <2> QED
    BY <2>1, PhaseKept
<1>4. ASSUME NEW c \in Client, Run(c) \/ Expire(c) \/ Step(c)
      PROVE /\ session' = [d \in Client |-> session'[d]]
            /\ outcome' = [d \in Client |-> outcome'[d]]
  <2>1. session' = session \/ \E x : session' = [session EXCEPT ![c] = x]
    BY <1>4, Zenon DEF Run, Expire, Step, Enter, GiveUp, OpenFails, Open, OpenEngine, OpenEngineFails,
       Fail, LoadRecord, LoadFails, StartOperations, Execute, Get, Write, Range, OperationFails,
       Finish, Cleanup, Release
  <2>2. outcome' = outcome \/ \E x : outcome' = [outcome EXCEPT ![c] = x]
    BY <1>4, Zenon DEF Run, Expire, Step, Enter, GiveUp, OpenFails, Open, OpenEngine, OpenEngineFails,
       Fail, LoadRecord, LoadFails, StartOperations, Execute, Get, Write, Range, OperationFails,
       Finish, Cleanup, Release
  <2> QED
    BY <2>1, <2>2 DEF GateInv, ByClient
<1>5. CASE Next
  <2>1. PICK c \in Client : Run(c) \/ Expire(c) \/ Step(c)
    BY <1>5 DEF Next
  <2> QED
    BY <1>1, <1>2, <1>3, <1>4, <2>1 DEF GateInv, ByClient
<1>6. CASE UNCHANGED vars
  BY <1>6 DEF vars, GateInv, ByClient, OneAtATime, Inside
<1> QED
  BY <1>5, <1>6

-----------------------------------------------------------------------------
(* The cache.                                                              *)

\* A session has the fields of NewSession, and dictionaries in three of them.
Shaped(s) ==
    s \in [store : Dictionary, entries : Dictionary, order : {s.order}, loaded : {s.loaded},
           done : {s.done}, dict : Dictionary, recent : {s.recent}, exact : BOOLEAN]

\* What the cache holds is what the store holds, which is what callers know.
Coherent(s) == s.store = s.dict /\ \A k \in Key : s.entries[k] \in {None, s.store[k]}

\* Until an operation fails, the cache is coherent, and empty until the first one.
CacheInv ==
    \A c \in Client :
        /\ Shaped(session[c]) /\ session[c].exact = TRUE
        /\ phase[c] \notin {"cleanup", "release"} => Coherent(session[c])
        /\ phase[c] \notin {"run", "cleanup", "release"} => session[c].entries = Empty

\* The dictionaries of a session.
LEMMA Dictionaries ==
    ASSUME NEW s, Shaped(s)
    PROVE /\ s.store \in Dictionary /\ s.entries \in Dictionary /\ s.dict \in Dictionary
          /\ s.exact \in BOOLEAN
BY DEF Shaped

\* What the caller knows and the store holds stay, the cache may change.
SameBooks(s, t) == t.store = s.store /\ t.dict = s.dict /\ t.exact = s.exact

\* An entry less in a full cache.
LEMMA EvictCoherent ==
    ASSUME NEW s, Shaped(s), Coherent(s), NEW capacity, NEW t, t = Evict(s, capacity)
    PROVE Shaped(t) /\ Coherent(t) /\ SameBooks(s, t)
<1> DEFINE last == s.order[Len(s.order)]
           o == SubSeq(s.order, 1, Len(s.order) - 1)
           f == [s.entries EXCEPT ![last] = None]
<1>1. t = s \/ t = [s EXCEPT !.entries = f, !.order = o]
  BY DEF Evict
<1>2. f \in Dictionary /\ \A j \in Key : f[j] \in {None, s.entries[j]}
  <2>1. s.entries \in Dictionary
    BY Dictionaries
  <2> HIDE DEF last
  <2> QED
    BY <2>1, Zenon DEF Dictionary
<1> HIDE DEF f, o
<1>3. t = s \/ (Shaped(t) /\ SameBooks(s, t) /\ t.entries = f)
  BY <1>1, <1>2, Zenon DEF Shaped, SameBooks
<1> QED
  BY <1>2, <1>3 DEF Coherent, SameBooks

\* Reading through the cache keeps it coherent and the store as it is.
LEMMA GetCoherent ==
    ASSUME NEW s, Shaped(s), Coherent(s), NEW k \in Key, NEW capacity,
           NEW t, t = AfterGet(s, k, capacity)
    PROVE Shaped(t) /\ Coherent(t) /\ SameBooks(s, t) /\ Lookup(s, k, capacity) = s.dict[k]
<1>1. Lookup(s, k, capacity) = s.dict[k]
  BY DEF Lookup, Coherent
<1>2. ASSUME t = Hit(s, k)
      PROVE Shaped(t) /\ Coherent(t) /\ SameBooks(s, t)
  <2> DEFINE o == <<k>> \o Without(s.order, k)
  <2>1. t = [s EXCEPT !.order = o]
    BY <1>2 DEF Hit
  <2> HIDE DEF o
  <2>2. Shaped(t) /\ SameBooks(s, t) /\ t.entries = s.entries
    BY <2>1 DEF Shaped, SameBooks
  <2> QED
    BY <2>2 DEF Coherent, SameBooks
<1>3. ASSUME t = Fill(s, k, capacity)
      PROVE Shaped(t) /\ Coherent(t) /\ SameBooks(s, t)
  <2> DEFINE e == Evict(s, capacity)
             o == <<k>> \o e.order
             f == [e.entries EXCEPT ![k] = s.store[k]]
  <2>1. t = s \/ t = [e EXCEPT !.entries = f, !.order = o]
    BY <1>3 DEF Fill
  <2>2. Shaped(e) /\ Coherent(e) /\ SameBooks(s, e)
    BY EvictCoherent
  <2> HIDE DEF e
  <2>3. f \in Dictionary /\ \A j \in Key : f[j] = IF j = k THEN s.store[k] ELSE e.entries[j]
    <3>1. e.entries \in Dictionary /\ s.store \in Dictionary
      BY <2>2, Dictionaries
    <3> QED
      BY <3>1 DEF Dictionary
  <2> HIDE DEF o, f
  <2>4. t = s \/ (Shaped(t) /\ SameBooks(e, t) /\ t.entries = f)
    BY <2>1, <2>2, <2>3, Zenon DEF Shaped, SameBooks
  <2> QED
    BY <2>2, <2>3, <2>4 DEF Coherent, SameBooks
<1>4. t = s \/ t = Hit(s, k) \/ t = Fill(s, k, capacity)
  BY DEF AfterGet
<1> QED
  BY <1>1, <1>2, <1>3, <1>4 DEF SameBooks

\* Writing through the cache forgets the entry of the key.
LEMMA WriteCoherent ==
    ASSUME NEW s, Shaped(s), Coherent(s), NEW k \in Key, NEW v \in Value \cup {None},
           NEW t, t = AfterWrite(s, k, v)
    PROVE /\ Shaped(t) /\ t.store = [s.dict EXCEPT ![k] = v]
          /\ t.dict = s.dict /\ t.exact = s.exact
          /\ \A j \in Key : t.entries[j] \in {None, t.store[j]}
<1> DEFINE f == [s.store EXCEPT ![k] = v]
           u == [s EXCEPT !.store = f]
           o == Without(u.order, k)
           g == [s.entries EXCEPT ![k] = None]
<1>1. /\ f \in Dictionary /\ \A j \in Key : f[j] = IF j = k THEN v ELSE s.store[j]
      /\ g \in Dictionary /\ \A j \in Key : g[j] = IF j = k THEN None ELSE s.entries[j]
  <2>1. s.store \in Dictionary /\ s.entries \in Dictionary
    BY Dictionaries
  <2> QED
    BY <2>1 DEF Dictionary
<1>2. t = [u EXCEPT !.entries[k] = None, !.order = o]
  BY DEF AfterWrite, Invalidate
<1>3. f = [s.dict EXCEPT ![k] = v]
  BY DEF Coherent
<1> HIDE DEF f
<1>4. /\ Shaped(u) /\ u.store = f /\ u.dict = s.dict
      /\ u.entries = s.entries /\ u.exact = s.exact
  BY <1>1 DEF Shaped
<1> HIDE DEF u, o
<1>5. t = [u EXCEPT !.entries = g, !.order = o]
  BY <1>2, <1>4
<1> HIDE DEF g
<1>6. Shaped(t) /\ t.entries = g /\ t.store = f /\ t.dict = s.dict /\ t.exact = s.exact
  BY <1>1, <1>4, <1>5, Zenon DEF Shaped
<1> QED
  BY <1>1, <1>3, <1>6 DEF Coherent

\* Phases after which a run does not become coherent, or empty, again.
Ended == {"cleanup", "release"}
Cached == {"run", "cleanup", "release"}

\* A step that leaves the sessions alone and goes on.
LEMMA SessionsKept ==
    ASSUME GateInv, CacheInv, UNCHANGED session, NEW c \in Client,
           \/ UNCHANGED phase
           \/ \E to : /\ phase' = [phase EXCEPT ![c] = to]
                      /\ phase[c] \in Ended => to \in Ended
                      /\ phase[c] \in Cached => to \in Cached
    PROVE CacheInv'
BY DEF GateInv, ByClient, CacheInv, Ended, Cached

\* A step that gives the run of one client a new session.
LEMMA SessionChanged ==
    ASSUME GateInv, CacheInv, NEW c \in Client, NEW x, session' = [session EXCEPT ![c] = x],
           Shaped(x), x.exact = TRUE,
           NEW to, phase' = [phase EXCEPT ![c] = to],
           to \notin Ended => Coherent(x),
           to \notin Cached => x.entries = Empty
    PROVE CacheInv'
<1>1. \A d \in Client : session'[d] = IF d = c THEN x ELSE session[d]
  BY DEF GateInv, ByClient
<1>2. \A d \in Client : phase'[d] = IF d = c THEN to ELSE phase[d]
  BY DEF GateInv, ByClient
<1> QED
  BY <1>1, <1>2 DEF CacheInv, Ended, Cached

\* Every step keeps the caches coherent and every answer exact.
LEMMA CacheStep ==
    ASSUME GateInv, CacheInv, [Next]_vars
    PROVE CacheInv'
<1>1. ASSUME NEW c \in Client,
             \/ Run(c) \/ Expire(c) \/ Enter(c) \/ GiveUp(c) \/ OpenFails(c) \/ Open(c)
             \/ OpenEngine(c) \/ OpenEngineFails(c) \/ LoadFails(c) \/ StartOperations(c)
             \/ Finish(c) \/ Cleanup(c)
      PROVE CacheInv'
  <2>1. /\ UNCHANGED session
        /\ \/ UNCHANGED phase
           \/ \E to : /\ phase' = [phase EXCEPT ![c] = to]
                      /\ phase[c] \in Ended => to \in Ended
                      /\ phase[c] \in Cached => to \in Cached
    BY <1>1 DEF Run, Expire, Enter, GiveUp, OpenFails, Open, OpenEngine, OpenEngineFails, Fail,
       LoadFails, StartOperations, Finish, Cleanup, Ended, Cached
  <2> QED
    BY <2>1, SessionsKept
<1>2. ASSUME NEW c \in Client, LoadRecord(c)
      PROVE CacheInv'
  <2> DEFINE s == session[c]
             i == s.loaded + 1
             f == [s.store EXCEPT ![i] = Sample]
             g == [s.dict EXCEPT ![i] = Sample]
             t == [s EXCEPT !.loaded = i, !.store = f, !.dict = g]
  <2>1. Shaped(s) /\ Coherent(s) /\ s.exact = TRUE /\ s.entries = Empty
    BY <1>2 DEF LoadRecord, CacheInv
  <2>2. session' = [session EXCEPT ![c] = t] /\ phase' = [phase EXCEPT ![c] = "load"]
    BY <1>2, ZenonT(30) DEF LoadRecord, GateInv, ByClient
  <2>3. Sample \in Value
    BY ConstantsAssumption DEF Sample
  <2>4. s.store \in Dictionary /\ s.dict \in Dictionary
    BY <2>1, Dictionaries
  <2> HIDE DEF s, i
  <2>5. f \in Dictionary /\ g \in Dictionary /\ f = g
    BY <2>1, <2>3, <2>4, Zenon DEF Dictionary, Coherent
  <2> HIDE DEF f, g
  <2>6. Shaped(t) /\ t.store = f /\ t.dict = g /\ t.entries = s.entries /\ t.exact = s.exact
    BY <2>1, <2>5, Zenon DEF Shaped
  <2> HIDE DEF t
  <2>7. Coherent(t)
    BY <2>1, <2>5, <2>6 DEF Coherent, Empty
  <2> QED
    BY <2>1, <2>2, <2>6, <2>7, SessionChanged, Zenon
<1>3. ASSUME NEW c \in Client, NEW k \in Key, Get(c, k)
      PROVE CacheInv'
  <2> DEFINE s == session[c]
             n == request[c].capacity
             u == AfterGet(s, k, n)
             answer == Lookup(s, k, n)
             x == u.exact /\ answer = s.dict[k]
             r == IF answer = None THEN u.recent ELSE <<k>> \o Without(u.recent, k)
             t == [u EXCEPT !.done = u.done + 1, !.exact = x, !.recent = r]
  <2>1. Shaped(s) /\ Coherent(s) /\ s.exact = TRUE
    BY <1>3 DEF Get, Operating, CacheInv
  <2>2. session' = [session EXCEPT ![c] = t] /\ phase' = [phase EXCEPT ![c] = "run"]
    BY <1>3 DEF Get, Operating, GateInv, ByClient
  <2>3. Shaped(u) /\ Coherent(u) /\ SameBooks(s, u) /\ answer = s.dict[k]
    BY <2>1, GetCoherent
  <2> HIDE DEF s, n, u, answer, r
  <2>4. x = TRUE
    BY <2>1, <2>3 DEF SameBooks
  <2> HIDE DEF x
  <2>5. Shaped(t) /\ t.exact = TRUE /\ t.store = u.store /\ t.dict = u.dict /\ t.entries = u.entries
    BY <2>3, <2>4, Zenon DEF Shaped
  <2> HIDE DEF t
  <2>6. Coherent(t)
    BY <2>3, <2>5 DEF Coherent
  <2> QED
    BY <2>2, <2>5, <2>6, SessionChanged, Zenon DEF Cached
<1>4. ASSUME NEW c \in Client, NEW k \in Key, NEW v \in Value \cup {None}, Write(c, k, v)
      PROVE CacheInv'
  <2> DEFINE s == session[c]
             u == AfterWrite(s, k, v)
             g == [u.dict EXCEPT ![k] = v]
             x == u.exact /\ (v = None => (s.store[k] = None <=> s.dict[k] = None))
             r == Without(u.recent, k)
             t == [u EXCEPT !.done = u.done + 1, !.dict = g, !.exact = x, !.recent = r]
  <2>1. Shaped(s) /\ Coherent(s) /\ s.exact = TRUE
    BY <1>4 DEF Write, Operating, CacheInv
  <2>2. session' = [session EXCEPT ![c] = t] /\ phase' = [phase EXCEPT ![c] = "run"]
    BY <1>4 DEF Write, Operating, GateInv, ByClient
  <2>3. /\ Shaped(u) /\ u.store = [s.dict EXCEPT ![k] = v]
        /\ u.dict = s.dict /\ u.exact = s.exact
        /\ \A j \in Key : u.entries[j] \in {None, u.store[j]}
    BY <2>1, WriteCoherent
  <2> HIDE DEF s, u, r
  <2>4. x = TRUE
    BY <2>1, <2>3 DEF Coherent
  <2>5. g = u.store /\ g \in Dictionary
    BY <2>3, Dictionaries
  <2> HIDE DEF x, g
  <2>6. Shaped(t) /\ t.exact = TRUE /\ t.store = u.store /\ t.dict = g /\ t.entries = u.entries
    BY <2>3, <2>4, <2>5, Zenon DEF Shaped
  <2> HIDE DEF t
  <2>7. Coherent(t)
    BY <2>3, <2>5, <2>6 DEF Coherent
  <2> QED
    BY <2>2, <2>6, <2>7, SessionChanged, Zenon DEF Cached
<1>5. ASSUME NEW c \in Client, NEW start \in Key, NEW end \in Key, Range(c, start, end)
      PROVE CacheInv'
  <2> DEFINE s == session[c]
             x == s.exact /\ \A k \in start .. end : s.store[k] = s.dict[k]
             t == [s EXCEPT !.done = s.done + 1, !.exact = x]
  <2>1. Shaped(s) /\ Coherent(s) /\ s.exact = TRUE
    BY <1>5 DEF Range, Operating, CacheInv
  <2>2. session' = [session EXCEPT ![c] = t] /\ phase' = [phase EXCEPT ![c] = "run"]
    BY <1>5, Zenon DEF Range, Operating, GateInv, ByClient
  <2> HIDE DEF s
  <2>3. x = TRUE
    BY <2>1 DEF Coherent
  <2> HIDE DEF x
  <2>4. Shaped(t) /\ t.exact = TRUE /\ t.store = s.store /\ t.dict = s.dict /\ t.entries = s.entries
    BY <2>1, <2>3, Zenon DEF Shaped
  <2> HIDE DEF t
  <2>5. Coherent(t)
    BY <2>1, <2>4 DEF Coherent
  <2> QED
    BY <2>2, <2>4, <2>5, SessionChanged, Zenon DEF Cached
<1>6. ASSUME NEW c \in Client, OperationFails(c)
      PROVE CacheInv'
  <2> DEFINE s == session[c]
  <2>1. phase' = [phase EXCEPT ![c] = "cleanup"] /\ Shaped(s) /\ s.exact = TRUE
    BY <1>6 DEF OperationFails, Fail, CacheInv
  <2>2. CASE UNCHANGED session
    BY <2>1, <2>2, SessionsKept, Zenon DEF Ended, Cached
  <2>3. ASSUME NEW k \in Key, NEW v \in Value \cup {None},
               session' = [session EXCEPT ![c].store[k] = v]
        PROVE CacheInv'
    <3> DEFINE f == [s.store EXCEPT ![k] = v]
               t == [s EXCEPT !.store = f]
    <3>1. session' = [session EXCEPT ![c] = t]
      BY <2>3 DEF GateInv, ByClient
    <3>2. s.store \in Dictionary
      BY <2>1, Dictionaries
    <3> HIDE DEF s
    <3>3. f \in Dictionary
      BY <3>2 DEF Dictionary
    <3> HIDE DEF f
    <3>4. Shaped(t) /\ t.exact = TRUE
      BY <2>1, <3>3 DEF Shaped
    <3> HIDE DEF t
    <3> QED
      BY <2>1, <3>1, <3>4, SessionChanged, Zenon DEF Ended, Cached
  <2> QED
    BY <1>6, <2>2, <2>3 DEF OperationFails
<1>7. ASSUME NEW c \in Client, Release(c)
      PROVE CacheInv'
  <2>1. /\ session' = [session EXCEPT ![c] = NewSession]
        /\ phase' = [phase EXCEPT ![c] = "idle"]
    BY <1>7 DEF Release
  <2>2. /\ Shaped(NewSession) /\ Coherent(NewSession) /\ NewSession.exact = TRUE
        /\ NewSession.entries = Empty
    BY DEF NewSession, Shaped, Coherent, Empty, Dictionary
  <2> QED
    BY <2>1, <2>2, SessionChanged, Zenon
<1>8. CASE Next
  <2>1. PICK c \in Client : Run(c) \/ Expire(c) \/ Step(c)
    BY <1>8 DEF Next
  <2> QED
    BY <1>1, <1>2, <1>3, <1>4, <1>5, <1>6, <1>7, <2>1 DEF Step, Execute
<1>9. CASE UNCHANGED vars
  BY <1>9 DEF vars, CacheInv
<1> QED
  BY <1>8, <1>9

-----------------------------------------------------------------------------
(* The directories.                                                        *)

\* A run has no directory before Factory.Open made one.
DirectoryInv ==
    /\ DirectoriesRemoved
    /\ \A c \in Client : phase[c] \in {"gate", "open"} => c \notin dirs

\* Every step removes the directory of a run that ends, or reports that it is
\* still there.
LEMMA DirectoryStep ==
    ASSUME GateInv, DirectoryInv, [Next]_vars
    PROVE DirectoryInv'
<1>1. ASSUME NEW c \in Client, Run(c) \/ Expire(c) \/ Step(c)
      PROVE DirectoryInv'
  <2>1. \A d \in Client \ {c} :
           /\ phase'[d] = phase[d] /\ outcome'[d] = outcome[d]
           /\ d \in dirs' <=> d \in dirs
           /\ d \in stuck' <=> d \in stuck
    BY <1>1, Zenon DEF Run, Expire, Step, Enter, GiveUp, OpenFails, Open, OpenEngine, OpenEngineFails,
       RemoveAll, Fail, LoadRecord, LoadFails, StartOperations, Execute, Get, Write, Range,
       OperationFails, Finish, Cleanup, Release, GateInv, ByClient
  <2>2. /\ c \in dirs' /\ phase'[c] \in {"idle", "release"} => c \in stuck' /\ outcome'[c] = "error"
        /\ phase'[c] \in {"gate", "open"} => c \notin dirs'
    BY <1>1, Zenon DEF Run, Expire, Step, Enter, GiveUp, OpenFails, Open, OpenEngine, OpenEngineFails,
       RemoveAll, Fail, LoadRecord, LoadFails, StartOperations, Execute, Get, Write, Range,
       OperationFails, Finish, Cleanup, Release, GateInv, ByClient, DirectoryInv,
       DirectoriesRemoved
  <2> QED
    BY <2>1, <2>2 DEF DirectoryInv, DirectoriesRemoved
<1>2. CASE UNCHANGED vars
  BY <1>2 DEF vars, DirectoryInv, DirectoriesRemoved
<1> QED
  BY <1>1, <1>2 DEF Next

-----------------------------------------------------------------------------
(* The order of use.                                                       *)

\* A list without repetitions.
Distinct(s) == \A i, j \in 1 .. Len(s) : s[i] = s[j] => i = j

\* Removing a key that is not there.
LEMMA WithoutNothing ==
    ASSUME NEW s \in Seq(Key), NEW k, \A i \in 1 .. Len(s) : s[i] # k
    PROVE Without(s, k) = s
BY DEF Without

\* Removing the key at position i of a list without repetitions.
LEMMA WithoutAt ==
    ASSUME NEW s \in Seq(Key), NEW i \in 1 .. Len(s), Distinct(s)
    PROVE /\ Without(s, s[i]) \in Seq(Key)
          /\ Len(Without(s, s[i])) = Len(s) - 1
          /\ \A j \in 1 .. Len(s) - 1 : Without(s, s[i])[j] = IF j < i THEN s[j] ELSE s[j + 1]
<1> DEFINE k == s[i]
           at == {j \in 1 .. Len(s) : s[j] = k}
           t == [j \in 1 .. Len(s) - 1 |-> IF j < i THEN s[j] ELSE s[j + 1]]
<1>1. at = {i}
  BY DEF Distinct
<1>2. (CHOOSE j \in at : TRUE) = i
  BY <1>1
<1>3. Without(s, k) = t
  BY <1>1, <1>2, Zenon DEF Without
<1>4. Len(s) - 1 \in Nat /\ \A j \in 1 .. Len(s) - 1 : t[j] \in Key
  OBVIOUS
<1>5. t \in Seq(Key) /\ Len(t) = Len(s) - 1
  BY <1>4
<1> QED
  BY <1>3, <1>5

\* A key put before a list.
LEMMA InFront ==
    ASSUME NEW k \in Key, NEW s \in Seq(Key)
    PROVE /\ <<k>> \o s \in Seq(Key)
          /\ Len(<<k>> \o s) = Len(s) + 1
          /\ (<<k>> \o s)[1] = k
          /\ \A i \in 1 .. Len(s) : (<<k>> \o s)[i + 1] = s[i]
OBVIOUS

\* The keys of a list.
Keys(s) == {s[i] : i \in 1 .. Len(s)}

\* The list o is a prefix of the list r.
Starts(o, r) == Len(o) <= Len(r) /\ \A i \in 1 .. Len(o) : o[i] = r[i]

\* Removing a key from a list without repetitions: the others remain.
LEMMA WithoutKeys ==
    ASSUME NEW s \in Seq(Key), Distinct(s), NEW k
    PROVE /\ Without(s, k) \in Seq(Key) /\ Distinct(Without(s, k))
          /\ Keys(Without(s, k)) = Keys(s) \ {k}
          /\ Len(Without(s, k)) <= Len(s)
<1> DEFINE t == Without(s, k)
<1>1. CASE \A i \in 1 .. Len(s) : s[i] # k
  BY <1>1, WithoutNothing DEF Keys
<1>2. CASE \E i \in 1 .. Len(s) : s[i] = k
  <2>1. PICK i \in 1 .. Len(s) : s[i] = k
    BY <1>2
  <2>2. /\ t \in Seq(Key) /\ Len(t) = Len(s) - 1
        /\ \A j \in 1 .. Len(s) - 1 : t[j] = IF j < i THEN s[j] ELSE s[j + 1]
    BY <2>1, WithoutAt, Zenon
  <2> HIDE DEF t
  <2>3. Distinct(t)
    <3> SUFFICES ASSUME NEW a \in 1 .. Len(t), NEW b \in 1 .. Len(t), t[a] = t[b] PROVE a = b
      BY DEF Distinct
    <3> DEFINE from(j) == IF j < i THEN j ELSE j + 1
    <3>1. from(a) \in 1 .. Len(s) /\ from(b) \in 1 .. Len(s)
      BY <2>2
    <3>2. t[a] = s[from(a)] /\ t[b] = s[from(b)]
      BY <2>2
    <3>3. from(a) = from(b)
      BY <3>1, <3>2, Zenon DEF Distinct
    <3> QED
      BY <3>3
  <2>4. ASSUME NEW x \in Keys(t) PROVE x \in Keys(s) \ {k}
    BY <2>1, <2>2, <2>4 DEF Keys, Distinct
  <2>5. ASSUME NEW j \in 1 .. Len(s), s[j] # k PROVE s[j] \in Keys(t)
    <3>1. CASE j < i
      BY <2>1, <2>2, <3>1 DEF Keys
    <3>2. CASE j > i
      <4>1. j - 1 \in 1 .. Len(t) /\ t[j - 1] = s[j]
        BY <2>2, <3>2
      <4> QED
        BY <4>1 DEF Keys
    <3> QED
      BY <2>1, <2>5, <3>1, <3>2
  <2>6. Keys(t) = Keys(s) \ {k}
    <3>1. Keys(t) \subseteq Keys(s) \ {k}
      BY <2>4
    <3>2. Keys(s) \ {k} \subseteq Keys(t)
      BY <2>5 DEF Keys
    <3> QED
      BY <3>1, <3>2
  <2> QED
    BY <2>2, <2>3, <2>6 DEF t
<1> QED
  BY <1>1, <1>2

\* Removing a key from a list and from a prefix of it.
LEMMA WithoutStarts ==
    ASSUME NEW o \in Seq(Key), NEW r \in Seq(Key), Distinct(r), Starts(o, r), NEW k
    PROVE Starts(Without(o, k), Without(r, k))
<1>0. Distinct(o)
  BY DEF Distinct, Starts
<1>1. CASE \E i \in 1 .. Len(o) : o[i] = k
  <2>1. PICK i \in 1 .. Len(o) : o[i] = k
    BY <1>1
  <2>2. i \in 1 .. Len(r) /\ r[i] = k
    BY <2>1 DEF Starts
  <2>3. /\ Len(Without(o, k)) = Len(o) - 1
        /\ \A j \in 1 .. Len(o) - 1 : Without(o, k)[j] = IF j < i THEN o[j] ELSE o[j + 1]
    BY <1>0, <2>1, WithoutAt, Zenon
  <2>4. /\ Len(Without(r, k)) = Len(r) - 1
        /\ \A j \in 1 .. Len(r) - 1 : Without(r, k)[j] = IF j < i THEN r[j] ELSE r[j + 1]
    BY <2>2, WithoutAt, Zenon
  <2> QED
    BY <2>3, <2>4 DEF Starts
<1>2. CASE \A i \in 1 .. Len(o) : o[i] # k
  <2>1. Without(o, k) = o
    BY <1>2, WithoutNothing
  <2>2. CASE \A i \in 1 .. Len(r) : r[i] # k
    BY <2>1, <2>2, WithoutNothing
  <2>3. CASE \E i \in 1 .. Len(r) : r[i] = k
    <3>1. PICK i \in 1 .. Len(r) : r[i] = k
      BY <2>3
    <3>2. i > Len(o)
      BY <1>2, <3>1 DEF Starts
    <3>3. /\ Len(Without(r, k)) = Len(r) - 1
          /\ \A j \in 1 .. Len(r) - 1 : Without(r, k)[j] = IF j < i THEN r[j] ELSE r[j + 1]
      BY <3>1, WithoutAt, Zenon
    <3> QED
      BY <2>1, <3>2, <3>3 DEF Starts
  <2> QED
    BY <2>2, <2>3
<1> QED
  BY <1>1, <1>2

\* A key put before a list that has no such key, and before a prefix of it.
LEMMA FrontKept ==
    ASSUME NEW o \in Seq(Key), NEW r \in Seq(Key), Distinct(r), Starts(o, r),
           NEW k \in Key, k \notin Keys(r)
    PROVE /\ Distinct(<<k>> \o r) /\ Starts(<<k>> \o o, <<k>> \o r)
          /\ Keys(<<k>> \o o) = Keys(o) \cup {k}
<1> DEFINE p == <<k>> \o o
           q == <<k>> \o r
<1>1. /\ p \in Seq(Key) /\ Len(p) = Len(o) + 1 /\ p[1] = k
      /\ \A i \in 1 .. Len(o) : p[i + 1] = o[i]
  BY InFront
<1>2. /\ q \in Seq(Key) /\ Len(q) = Len(r) + 1 /\ q[1] = k
      /\ \A i \in 1 .. Len(r) : q[i + 1] = r[i]
  BY InFront
<1> HIDE DEF p, q
<1>3. \A i \in 2 .. Len(p) : i - 1 \in 1 .. Len(o) /\ p[i] = o[i - 1]
  BY <1>1
<1>4. \A i \in 2 .. Len(q) : i - 1 \in 1 .. Len(r) /\ q[i] = r[i - 1]
  BY <1>2
<1>5. Distinct(q)
  <2> SUFFICES ASSUME NEW i \in 1 .. Len(q), NEW j \in 1 .. Len(q), q[i] = q[j] PROVE i = j
    BY DEF Distinct
  <2>1. \A n \in 2 .. Len(q) : q[n] # k
    BY <1>4, Zenon DEF Keys
  <2>2. CASE i = 1 \/ j = 1
    BY <1>2, <2>1, <2>2
  <2>3. CASE i # 1 /\ j # 1
    <3>1. i - 1 \in 1 .. Len(r) /\ j - 1 \in 1 .. Len(r) /\ r[i - 1] = r[j - 1]
      BY <1>2, <1>4, <2>3
    <3>2. i - 1 = j - 1
      BY <3>1 DEF Distinct
    <3> QED
      BY <1>2, <3>2
  <2> QED
    BY <2>2, <2>3
<1>6. Starts(p, q)
  <2>1. \A i \in 1 .. Len(p) : p[i] = q[i]
    BY <1>1, <1>2, <1>3, <1>4 DEF Starts
  <2> QED
    BY <1>1, <1>2, <2>1 DEF Starts
<1>7. Keys(p) = Keys(o) \cup {k}
  <2>1. ASSUME NEW i \in 1 .. Len(p) PROVE p[i] \in Keys(o) \cup {k}
    <3>1. CASE i = 1
      BY <1>1, <3>1
    <3>2. CASE i # 1
      <4>1. i - 1 \in 1 .. Len(o) /\ p[i] = o[i - 1]
        BY <1>1, <1>3, <3>2
      <4> QED
        BY <4>1 DEF Keys
    <3> QED
      BY <3>1, <3>2
  <2>2. ASSUME NEW i \in 1 .. Len(o) PROVE o[i] \in Keys(p)
    <3>1. i + 1 \in 1 .. Len(p) /\ p[i + 1] = o[i]
      BY <1>1
    <3> QED
      BY <3>1 DEF Keys
  <2>3. k \in Keys(p)
    <3>1. 1 \in 1 .. Len(p)
      BY <1>1
    <3> QED
      BY <1>1, <3>1 DEF Keys
  <2> QED
    BY <2>1, <2>2, <2>3, Zenon DEF Keys
<1> QED
  BY <1>5, <1>6, <1>7 DEF p, q

\* The cache with the list o and the map e holds the first of the keys r that
\* were read, at most n of them.
Lru(o, r, e, n) ==
    /\ o \in Seq(Key) /\ r \in Seq(Key) /\ Distinct(r) /\ Starts(o, r) /\ Len(o) <= n
    /\ {k \in Key : e[k] # None} = Keys(o)

\* A hit moves its key to the front.
LEMMA LruHit ==
    ASSUME NEW o, NEW r, NEW e, NEW n \in Nat, Lru(o, r, e, n), NEW k \in Keys(o)
    PROVE Lru(<<k>> \o Without(o, k), <<k>> \o Without(r, k), e, n)
<1>1. /\ o \in Seq(Key) /\ r \in Seq(Key) /\ Distinct(r) /\ Starts(o, r) /\ Len(o) <= n
      /\ {j \in Key : e[j] # None} = Keys(o)
  BY DEF Lru
<1>2. Distinct(o) /\ k \in Key
  <2>1. Distinct(o)
    BY <1>1 DEF Distinct, Starts
  <2>2. k \in Key
    BY <1>1 DEF Keys
  <2> QED
    BY <2>1, <2>2
<1>3. /\ Without(o, k) \in Seq(Key) /\ Keys(Without(o, k)) = Keys(o) \ {k}
      /\ Without(r, k) \in Seq(Key) /\ Keys(Without(r, k)) = Keys(r) \ {k}
      /\ Distinct(Without(r, k)) /\ Starts(Without(o, k), Without(r, k))
  BY <1>1, <1>2, WithoutKeys, WithoutStarts
<1>4. Len(Without(o, k)) = Len(o) - 1
  BY <1>1, <1>2, WithoutAt DEF Keys
<1>5. /\ Distinct(<<k>> \o Without(r, k))
      /\ Starts(<<k>> \o Without(o, k), <<k>> \o Without(r, k))
      /\ Keys(<<k>> \o Without(o, k)) = Keys(o)
  <2>1. k \notin Keys(Without(r, k)) /\ Keys(o) = Keys(Without(o, k)) \cup {k}
    BY <1>3
  <2> QED
    BY <1>2, <1>3, <2>1, FrontKept
<1>6. /\ <<k>> \o Without(o, k) \in Seq(Key) /\ <<k>> \o Without(r, k) \in Seq(Key)
      /\ Len(<<k>> \o Without(o, k)) = Len(o)
  BY <1>1, <1>2, <1>3, <1>4, InFront
<1> QED
  BY <1>1, <1>5, <1>6 DEF Lru

\* A full cache loses the key at the back.
LEMMA LruEvict ==
    ASSUME NEW o, NEW r, NEW e \in Dictionary, NEW n \in Nat, n > 0, Lru(o, r, e, n), Len(o) = n
    PROVE Lru(SubSeq(o, 1, Len(o) - 1), r, [e EXCEPT ![o[Len(o)]] = None], n - 1)
<1> DEFINE p == SubSeq(o, 1, Len(o) - 1)
           f == [e EXCEPT ![o[Len(o)]] = None]
<1>1. /\ o \in Seq(Key) /\ r \in Seq(Key) /\ Distinct(r) /\ Starts(o, r)
      /\ {j \in Key : e[j] # None} = Keys(o)
  BY DEF Lru
<1>2. Distinct(o) /\ n \in 1 .. Len(o) /\ o[n] \in Key
  BY <1>1 DEF Distinct, Starts
<1>3. p \in Seq(Key) /\ Len(p) = n - 1 /\ \A i \in 1 .. n - 1 : p[i] = o[i]
  BY <1>1
<1>4. \A j \in Key : f[j] = IF j = o[n] THEN None ELSE e[j]
  BY <1>2 DEF Dictionary
<1> HIDE DEF p, f
<1>5. Keys(p) = Keys(o) \ {o[n]}
  <2>1. ASSUME NEW i \in 1 .. Len(p) PROVE p[i] \in Keys(o) \ {o[n]}
    <3>1. i \in 1 .. Len(o) /\ i # n /\ p[i] = o[i]
      BY <1>3
    <3> QED
      BY <1>2, <3>1 DEF Keys, Distinct
  <2>2. ASSUME NEW i \in 1 .. Len(o), o[i] # o[n] PROVE o[i] \in Keys(p)
    <3>1. i \in 1 .. Len(p) /\ p[i] = o[i]
      BY <1>3, <2>2
    <3> QED
      BY <3>1 DEF Keys
  <2>3. Keys(p) \subseteq Keys(o) \ {o[n]}
    BY <2>1 DEF Keys
  <2>4. Keys(o) \ {o[n]} \subseteq Keys(p)
    BY <2>2 DEF Keys
  <2> QED
    BY <2>3, <2>4
<1>6. {j \in Key : f[j] # None} = {j \in Key : e[j] # None} \ {o[n]}
  BY <1>4
<1>7. Starts(p, r)
  BY <1>1, <1>3 DEF Starts
<1> QED
  BY <1>1, <1>3, <1>5, <1>6, <1>7 DEF Lru, p, f

\* A miss puts its key at the front of a cache that has room.
LEMMA LruFill ==
    ASSUME NEW o, NEW r, NEW e \in Dictionary, NEW n \in Nat, Lru(o, r, e, n), Len(o) < n,
           NEW k \in Key, k \notin Keys(o), NEW v, v # None
    PROVE Lru(<<k>> \o o, <<k>> \o Without(r, k), [e EXCEPT ![k] = v], n)
<1>1. /\ o \in Seq(Key) /\ r \in Seq(Key) /\ Distinct(r) /\ Starts(o, r)
      /\ {j \in Key : e[j] # None} = Keys(o)
  BY DEF Lru
<1>2. Without(o, k) = o
  BY <1>1, WithoutNothing DEF Keys
<1>3. /\ Without(r, k) \in Seq(Key) /\ Keys(Without(r, k)) = Keys(r) \ {k}
      /\ Distinct(Without(r, k)) /\ Starts(o, Without(r, k))
  BY <1>1, <1>2, WithoutKeys, WithoutStarts
<1>4. /\ Distinct(<<k>> \o Without(r, k)) /\ Starts(<<k>> \o o, <<k>> \o Without(r, k))
      /\ Keys(<<k>> \o o) = Keys(o) \cup {k}
  BY <1>1, <1>3, FrontKept
<1>5. /\ <<k>> \o o \in Seq(Key) /\ <<k>> \o Without(r, k) \in Seq(Key)
      /\ Len(<<k>> \o o) = Len(o) + 1 /\ Len(o) \in Nat
  BY <1>1, <1>3, InFront
<1> DEFINE f == [e EXCEPT ![k] = v]
<1>6. \A j \in Key : f[j] = IF j = k THEN v ELSE e[j]
  BY DEF Dictionary
<1> HIDE DEF f
<1>7. {j \in Key : f[j] # None} = {j \in Key : e[j] # None} \cup {k}
  BY <1>6
<1> QED
  BY <1>1, <1>4, <1>5, <1>7 DEF Lru, f

\* Reading past the cache a key it does not hold changes nothing in it.
LEMMA LruRead ==
    ASSUME NEW o, NEW r, NEW e, NEW n, Lru(o, r, e, n), Len(o) = 0, NEW k \in Key
    PROVE Lru(o, <<k>> \o Without(r, k), e, n)
<1>1. o \in Seq(Key) /\ r \in Seq(Key) /\ Distinct(r)
  BY DEF Lru
<1>2. /\ Without(r, k) \in Seq(Key) /\ Keys(Without(r, k)) = Keys(r) \ {k}
      /\ Distinct(Without(r, k))
  BY <1>1, WithoutKeys
<1>3. <<k>> \o Without(r, k) \in Seq(Key)
  BY <1>2, InFront
<1>4. Starts(o, Without(r, k))
  BY <1>2 DEF Starts
<1>5. Distinct(<<k>> \o Without(r, k))
  BY <1>1, <1>2, <1>4, FrontKept, Zenon
<1>6. Starts(o, <<k>> \o Without(r, k))
  BY <1>3 DEF Starts
<1> QED
  BY <1>3, <1>5, <1>6 DEF Lru

\* A write forgets its key.
LEMMA LruForget ==
    ASSUME NEW o, NEW r, NEW e \in Dictionary, NEW n \in Nat, Lru(o, r, e, n), NEW k \in Key
    PROVE Lru(Without(o, k), Without(r, k), [e EXCEPT ![k] = None], n)
<1>1. /\ o \in Seq(Key) /\ r \in Seq(Key) /\ Distinct(r) /\ Starts(o, r) /\ Len(o) <= n
      /\ {j \in Key : e[j] # None} = Keys(o)
  BY DEF Lru
<1>2. Distinct(o)
  BY <1>1 DEF Distinct, Starts
<1>3. /\ Without(o, k) \in Seq(Key) /\ Keys(Without(o, k)) = Keys(o) \ {k}
      /\ Len(Without(o, k)) <= Len(o)
      /\ Without(r, k) \in Seq(Key) /\ Distinct(Without(r, k))
      /\ Starts(Without(o, k), Without(r, k))
  BY <1>1, <1>2, WithoutKeys, WithoutStarts
<1>4. Len(Without(o, k)) \in Nat /\ Len(o) \in Nat
  BY <1>1, <1>3
<1> DEFINE f == [e EXCEPT ![k] = None]
<1>5. \A j \in Key : f[j] = IF j = k THEN None ELSE e[j]
  BY DEF Dictionary
<1> HIDE DEF f
<1>6. {j \in Key : f[j] # None} = {j \in Key : e[j] # None} \ {k}
  BY <1>5
<1> QED
  BY <1>1, <1>3, <1>4, <1>6 DEF Lru, f

\* The inductive invariant behind LeastRecentlyUsed, with the types it needs.
\* A session is new whenever its client is not past the gate, so a request may
\* change there.
OrderInv ==
    /\ session \in [Client -> Session] /\ request \in [Client -> Request]
    /\ \A c \in Client :
         /\ Lru(session[c].order, session[c].recent, session[c].entries, request[c].capacity)
         /\ ~Inside(c) => session[c] = NewSession

\* The cache of a new session is empty, whatever its capacity.
LEMMA NewSessionOrdered ==
    /\ NewSession \in Session
    /\ \A n \in Nat : Lru(NewSession.order, NewSession.recent, NewSession.entries, n)
<1>1. << >> \in Seq(Key) /\ Len(<< >>) = 0
  OBVIOUS
<1>2. Empty \in Dictionary /\ {k \in Key : Empty[k] # None} = {}
  BY DEF Empty, Dictionary
<1>3. Distinct(<< >>) /\ Starts(<< >>, << >>) /\ Keys(<< >>) = {}
  BY <1>1 DEF Distinct, Starts, Keys
<1>4. NewSession \in Session
  BY <1>1, <1>2 DEF NewSession, Session
<1>5. NewSession.order = << >> /\ NewSession.recent = << >> /\ NewSession.entries = Empty
  BY DEF NewSession
<1> QED
  BY <1>1, <1>2, <1>3, <1>4, <1>5 DEF Lru

\* The fields of a session.
LEMMA SessionFields ==
    ASSUME NEW s \in Session
    PROVE /\ s.store \in Dictionary /\ s.entries \in Dictionary /\ s.dict \in Dictionary
          /\ s.order \in Seq(Key) /\ s.recent \in Seq(Key)
          /\ s.loaded \in Nat /\ s.done \in Nat /\ s.exact \in BOOLEAN
BY DEF Session

\* A step that changes the session, the request or the phase of one client.
LEMMA OrderChanged ==
    ASSUME GateInv, OrderInv, NEW c \in Client,
           NEW x \in Session, session' = [session EXCEPT ![c] = x],
           NEW q \in Request, request' = [request EXCEPT ![c] = q],
           NEW to, phase' = [phase EXCEPT ![c] = to],
           Lru(x.order, x.recent, x.entries, q.capacity),
           to \in {"idle", "gate"} => x = NewSession
    PROVE OrderInv'
<1>1. /\ \A d \in Client : session'[d] = IF d = c THEN x ELSE session[d]
      /\ \A d \in Client : request'[d] = IF d = c THEN q ELSE request[d]
      /\ \A d \in Client : phase'[d] = IF d = c THEN to ELSE phase[d]
  BY DEF GateInv, ByClient, OrderInv
<1>2. session' \in [Client -> Session] /\ request' \in [Client -> Request]
  BY DEF OrderInv
<1>3. ASSUME NEW d \in Client
      PROVE /\ Lru(session'[d].order, session'[d].recent, session'[d].entries, request'[d].capacity)
            /\ ~Inside(d)' => session'[d] = NewSession
  BY <1>1 DEF OrderInv, Inside
<1> QED
  BY <1>2, <1>3 DEF OrderInv

\* A step that changes no session and no request, and takes nobody from past
\* the gate to before it.
LEMMA OrderKept ==
    ASSUME GateInv, OrderInv, UNCHANGED <<session, request>>, NEW c \in Client,
           \/ UNCHANGED phase
           \/ \E to : /\ phase' = [phase EXCEPT ![c] = to]
                      /\ Inside(c) => to \notin {"idle", "gate"}
    PROVE OrderInv'
<1>1. \A d \in Client : ~Inside(d)' => ~Inside(d)
  BY DEF GateInv, ByClient, Inside
<1> QED
  BY <1>1 DEF OrderInv

\* Cache.Get keeps the order of use.
LEMMA GetOrdered ==
    ASSUME NEW s \in Session, NEW n \in Nat, Lru(s.order, s.recent, s.entries, n),
           NEW k \in Key, NEW x \in BOOLEAN,
           NEW t, t = [AfterGet(s, k, n) EXCEPT !.done = @ + 1, !.exact = x,
                          !.recent = IF Lookup(s, k, n) = None THEN @ ELSE <<k>> \o Without(@, k)]
    PROVE t \in Session /\ Lru(t.order, t.recent, t.entries, n)
<1>1. /\ s.store \in Dictionary /\ s.entries \in Dictionary /\ s.dict \in Dictionary
      /\ s.order \in Seq(Key) /\ s.recent \in Seq(Key)
      /\ s.loaded \in Nat /\ s.done \in Nat /\ s.exact \in BOOLEAN
  BY SessionFields
<1>2. {j \in Key : s.entries[j] # None} = Keys(s.order)
  BY DEF Lru
<1> DEFINE front == <<k>> \o Without(s.recent, k)
\* With the new order o, entries e and keys r the session is one again.
<1>3. ASSUME NEW o, NEW e \in Dictionary, NEW r, Lru(o, r, e, n),
             t = [s EXCEPT !.order = o, !.entries = e, !.recent = r, !.done = s.done + 1, !.exact = x]
      PROVE t \in Session /\ Lru(t.order, t.recent, t.entries, n)
  <2>1. o \in Seq(Key) /\ r \in Seq(Key) /\ s.done + 1 \in Nat
    BY <1>1, <1>3 DEF Lru
  <2>2. t \in Session /\ t.order = o /\ t.recent = r /\ t.entries = e
    BY <1>1, <1>3, <2>1, Zenon DEF Session
  <2> QED
    BY <1>3, <2>2, Zenon
<1>4. CASE n = 0
  <2>1. AfterGet(s, k, n) = s
    BY <1>4 DEF AfterGet
  <2> DEFINE r == IF Lookup(s, k, n) = None THEN s.recent ELSE front
  <2>2. Lru(s.order, r, s.entries, n)
    <3>1. Len(s.order) = 0
      BY <1>1, <1>4 DEF Lru
    <3> QED
      BY <3>1, LruRead
  <2> HIDE DEF r
  <2>3. t = [s EXCEPT !.order = s.order, !.entries = s.entries, !.recent = r, !.done = s.done + 1, !.exact = x]
    BY <1>1, <2>1, Zenon DEF r, Session
  <2> QED
    BY <1>1, <1>3, <2>2, <2>3, Zenon
<1>5. CASE n # 0 /\ s.entries[k] # None
  <2>1. AfterGet(s, k, n) = Hit(s, k) /\ Lookup(s, k, n) # None
    BY <1>5 DEF AfterGet, Lookup
  <2> DEFINE o == <<k>> \o Without(s.order, k)
  <2>2. Lru(o, front, s.entries, n)
    BY <1>2, <1>5, LruHit
  <2>3. t = [s EXCEPT !.order = o, !.entries = s.entries, !.recent = front, !.done = s.done + 1, !.exact = x]
    BY <1>1, <2>1, Zenon DEF Hit, Session
  <2> HIDE DEF o, front
  <2> QED
    BY <1>1, <1>3, <2>2, <2>3, Zenon
<1>6. CASE n # 0 /\ s.entries[k] = None /\ s.store[k] = None
  <2>1. AfterGet(s, k, n) = s /\ Lookup(s, k, n) = None
    BY <1>6 DEF AfterGet, Lookup, Fill
  <2>2. t = [s EXCEPT !.order = s.order, !.entries = s.entries, !.recent = s.recent,
                      !.done = s.done + 1, !.exact = x]
    BY <1>1, <2>1, Zenon DEF Session
  <2> QED
    BY <1>1, <1>3, <2>2, Zenon
<1>7. CASE n # 0 /\ s.entries[k] = None /\ s.store[k] # None
  <2>1. AfterGet(s, k, n) = Fill(s, k, n) /\ Lookup(s, k, n) # None /\ k \notin Keys(s.order)
    BY <1>2, <1>7 DEF AfterGet, Lookup
  <2> DEFINE v == s.store[k]
  <2>2. CASE Len(s.order) = n
    <3> DEFINE p == SubSeq(s.order, 1, Len(s.order) - 1)
               g == [s.entries EXCEPT ![s.order[Len(s.order)]] = None]
               o == <<k>> \o p
               e == [g EXCEPT ![k] = v]
    <3>1. Lru(p, s.recent, g, n - 1)
      BY <1>1, <1>7, <2>2, LruEvict
    <3>2. g \in Dictionary /\ \A j \in Key : g[j] \in {None, s.entries[j]}
      BY <1>1, Zenon DEF Dictionary
    <3>3. t = [s EXCEPT !.order = o, !.entries = e, !.recent = front, !.done = s.done + 1, !.exact = x]
      BY <1>1, <1>7, <2>1, <2>2, ZenonT(30) DEF Fill, Evict, Session
    <3> HIDE DEF p, g
    <3>4. Lru(p, s.recent, g, n) /\ Len(p) < n
      BY <3>1 DEF Lru
    <3>5. k \notin Keys(p)
      BY <1>7, <3>1, <3>2, Zenon DEF Lru
    <3>6. Lru(o, front, e, n)
      BY <1>7, <3>2, <3>4, <3>5, LruFill, Zenon
    <3>7. e \in Dictionary
      BY <1>1, <3>2 DEF Dictionary
    <3> HIDE DEF o, e, front
    <3> QED
      BY <1>3, <3>3, <3>6, <3>7, Zenon
  <2>3. CASE Len(s.order) # n
    <3> DEFINE o == <<k>> \o s.order
               e == [s.entries EXCEPT ![k] = v]
    <3>1. Len(s.order) < n
      BY <1>1, <2>3 DEF Lru
    <3>2. Lru(o, front, e, n)
      BY <1>1, <1>7, <2>1, <3>1, LruFill, Zenon
    <3>3. e \in Dictionary
      BY <1>1 DEF Dictionary
    <3>4. t = [s EXCEPT !.order = o, !.entries = e, !.recent = front, !.done = s.done + 1, !.exact = x]
      BY <1>1, <1>7, <2>1, <2>3, Zenon DEF Fill, Evict, Session
    <3> HIDE DEF o, e, front
    <3> QED
      BY <1>3, <3>2, <3>3, <3>4, Zenon
  <2> QED
    BY <2>2, <2>3
<1> QED
  BY <1>4, <1>5, <1>6, <1>7

\* Cache.Set and Cache.Delete keep the order of use.
LEMMA WriteOrdered ==
    ASSUME NEW s \in Session, NEW n \in Nat, Lru(s.order, s.recent, s.entries, n),
           NEW k \in Key, NEW v \in Value \cup {None}, NEW x \in BOOLEAN,
           NEW t, t = [AfterWrite(s, k, v) EXCEPT !.done = @ + 1, !.dict[k] = v, !.exact = x,
                          !.recent = Without(@, k)]
    PROVE t \in Session /\ Lru(t.order, t.recent, t.entries, n)
<1>1. /\ s.store \in Dictionary /\ s.entries \in Dictionary /\ s.dict \in Dictionary
      /\ s.order \in Seq(Key) /\ s.recent \in Seq(Key)
      /\ s.loaded \in Nat /\ s.done \in Nat /\ s.exact \in BOOLEAN
  BY SessionFields
<1> DEFINE o == Without(s.order, k)
           r == Without(s.recent, k)
           e == [s.entries EXCEPT ![k] = None]
           f == [s.store EXCEPT ![k] = v]
           g == [s.dict EXCEPT ![k] = v]
<1>2. Lru(o, r, e, n)
  BY <1>1, LruForget
<1>3. e \in Dictionary /\ f \in Dictionary /\ g \in Dictionary
  BY <1>1 DEF Dictionary
<1>4. t = [s EXCEPT !.store = f, !.entries = e, !.order = o, !.done = s.done + 1, !.dict = g,
                    !.exact = x, !.recent = r]
  BY <1>1 DEF AfterWrite, Invalidate, Session
<1>5. o \in Seq(Key) /\ r \in Seq(Key) /\ s.done + 1 \in Nat
  BY <1>1, <1>2 DEF Lru
<1> HIDE DEF o, r, e, f, g
<1>6. t \in Session /\ t.order = o /\ t.recent = r /\ t.entries = e
  BY <1>1, <1>3, <1>4, <1>5, ZenonT(30) DEF Session
<1> QED
  BY <1>2, <1>6

\* Every step keeps the order of use.
LEMMA OrderStep ==
    ASSUME GateInv, OrderInv, [Next]_vars
    PROVE OrderInv'
<1>0. \A c \in Client : /\ session[c] \in Session /\ request[c] \in Request
                        /\ request[c].capacity \in Nat
                        /\ Lru(session[c].order, session[c].recent, session[c].entries, request[c].capacity)
  BY DEF OrderInv, Request
<1>1. ASSUME NEW c \in Client,
             \/ Expire(c) \/ Enter(c) \/ GiveUp(c) \/ OpenFails(c) \/ Open(c)
             \/ OpenEngine(c) \/ OpenEngineFails(c) \/ LoadFails(c) \/ StartOperations(c)
             \/ Finish(c) \/ Cleanup(c)
      PROVE OrderInv'
  <2>1. /\ UNCHANGED <<session, request>>
        /\ \/ UNCHANGED phase
           \/ \E to : /\ phase' = [phase EXCEPT ![c] = to]
                      /\ Inside(c) => to \notin {"idle", "gate"}
    BY <1>1 DEF Expire, Enter, GiveUp, OpenFails, Open, OpenEngine, OpenEngineFails, Fail,
       LoadFails, StartOperations, Finish, Cleanup, Inside
  <2> QED
    BY <2>1, OrderKept
\* A step of a run that changes nothing but its session.
<1>2. ASSUME NEW c \in Client, NEW x \in Session, session' = [session EXCEPT ![c] = x],
             UNCHANGED request, NEW to, phase' = [phase EXCEPT ![c] = to], to \notin {"idle", "gate"},
             Lru(x.order, x.recent, x.entries, request[c].capacity)
      PROVE OrderInv'
  <2>1. request' = [request EXCEPT ![c] = request[c]] /\ request[c] \in Request
    BY <1>2 DEF OrderInv
  <2> QED
    BY <1>2, <2>1, OrderChanged, Zenon
<1>3. ASSUME NEW c \in Client, Run(c)
      PROVE OrderInv'
  <2>1. PICK q \in Requests : request' = [request EXCEPT ![c] = q]
    BY <1>3, Zenon DEF Run
  <2>2. phase' = [phase EXCEPT ![c] = "gate"] /\ UNCHANGED session /\ ~Inside(c)
    BY <1>3 DEF Run, Inside
  <2>3. q \in Request /\ q.capacity \in Nat
    BY ConstantsAssumption DEF Request
  <2>4. session[c] = NewSession /\ session' = [session EXCEPT ![c] = NewSession]
    BY <2>2 DEF OrderInv
  <2> QED
    BY <2>1, <2>2, <2>3, <2>4, NewSessionOrdered, OrderChanged, Zenon
<1>4. ASSUME NEW c \in Client, Release(c)
      PROVE OrderInv'
  <2>1. /\ session' = [session EXCEPT ![c] = NewSession]
        /\ request' = [request EXCEPT ![c] = NoRequest]
        /\ phase' = [phase EXCEPT ![c] = "idle"]
    BY <1>4 DEF Release
  <2>2. NoRequest \in Request /\ NoRequest.capacity \in Nat
    BY DEF NoRequest, Request
  <2> QED
    BY <2>1, <2>2, NewSessionOrdered, OrderChanged, Zenon
<1>5. ASSUME NEW c \in Client, LoadRecord(c)
      PROVE OrderInv'
  <2> DEFINE s == session[c]
             i == s.loaded + 1
             f == [s.store EXCEPT ![i] = Sample]
             g == [s.dict EXCEPT ![i] = Sample]
             t == [s EXCEPT !.loaded = i, !.store = f, !.dict = g]
  <2>1. session' = [session EXCEPT ![c] = t] /\ phase' = [phase EXCEPT ![c] = "load"]
        /\ UNCHANGED request
    BY <1>5, ZenonT(30) DEF LoadRecord, GateInv, ByClient
  <2>2. Sample \in Value
    BY ConstantsAssumption DEF Sample
  <2>3. s \in Session
    BY <1>0
  <2>4. f \in Dictionary /\ g \in Dictionary /\ i \in Nat
    <3>1. s.store \in Dictionary /\ s.dict \in Dictionary /\ s.loaded \in Nat
      BY <2>3, SessionFields
    <3>2. i \in Nat
      BY <3>1
    <3> HIDE DEF s, i
    <3>3. Sample \in Value \cup {None}
      BY <2>2
    <3> QED
      BY <3>1, <3>2, <3>3, Zenon DEF Dictionary
  <2>5. Lru(s.order, s.recent, s.entries, request[c].capacity)
    BY <1>0
  <2> HIDE DEF s, i, f, g
  <2>6. t \in Session /\ t.order = s.order /\ t.recent = s.recent /\ t.entries = s.entries
    BY <2>3, <2>4, Zenon DEF Session
  <2> HIDE DEF t
  <2> QED
    BY <1>2, <2>1, <2>5, <2>6, Zenon
<1>6. ASSUME NEW c \in Client, NEW k \in Key, Get(c, k)
      PROVE OrderInv'
  <2> DEFINE s == session[c]
             n == request[c].capacity
             x == AfterGet(s, k, n).exact /\ Lookup(s, k, n) = s.dict[k]
             t == [AfterGet(s, k, n) EXCEPT !.done = @ + 1, !.exact = x,
                      !.recent = IF Lookup(s, k, n) = None THEN @ ELSE <<k>> \o Without(@, k)]
  <2>1. session' = [session EXCEPT ![c] = t] /\ phase' = [phase EXCEPT ![c] = "run"]
        /\ UNCHANGED request
    BY <1>6 DEF Get, Operating, GateInv, ByClient
  <2>2. s \in Session /\ n \in Nat /\ Lru(s.order, s.recent, s.entries, n)
    BY <1>0
  <2>3. x \in BOOLEAN
    OBVIOUS
  <2> HIDE DEF s, n, x
  <2>4. t \in Session /\ Lru(t.order, t.recent, t.entries, n)
    BY <2>2, <2>3, GetOrdered, Zenon
  <2> HIDE DEF t
  <2> QED
    BY <1>2, <2>1, <2>4, Zenon DEF n
<1>7. ASSUME NEW c \in Client, NEW k \in Key, NEW v \in Value \cup {None}, Write(c, k, v)
      PROVE OrderInv'
  <2> DEFINE s == session[c]
             n == request[c].capacity
             x == AfterWrite(s, k, v).exact /\ (v = None => (s.store[k] = None <=> s.dict[k] = None))
             t == [AfterWrite(s, k, v) EXCEPT !.done = @ + 1, !.dict[k] = v, !.exact = x,
                      !.recent = Without(@, k)]
  <2>1. session' = [session EXCEPT ![c] = t] /\ phase' = [phase EXCEPT ![c] = "run"]
        /\ UNCHANGED request
    BY <1>7 DEF Write, Operating, GateInv, ByClient
  <2>2. s \in Session /\ n \in Nat /\ Lru(s.order, s.recent, s.entries, n)
    BY <1>0
  <2>3. x \in BOOLEAN
    OBVIOUS
  <2> HIDE DEF s, n, x
  <2>4. t \in Session /\ Lru(t.order, t.recent, t.entries, n)
    BY <2>2, <2>3, WriteOrdered, Zenon
  <2> HIDE DEF t
  <2> QED
    BY <1>2, <2>1, <2>4, Zenon DEF n
<1>8. ASSUME NEW c \in Client, NEW start \in Key, NEW end \in Key, Range(c, start, end)
      PROVE OrderInv'
  <2> DEFINE s == session[c]
             x == s.exact /\ \A k \in start .. end : s.store[k] = s.dict[k]
             d == s.done + 1
             t == [s EXCEPT !.done = d, !.exact = x]
  <2>1. session' = [session EXCEPT ![c] = t] /\ phase' = [phase EXCEPT ![c] = "run"]
        /\ UNCHANGED request
    BY <1>8, Zenon DEF Range, Operating, GateInv, ByClient
  <2>2. s \in Session /\ Lru(s.order, s.recent, s.entries, request[c].capacity)
    BY <1>0
  <2>3. x \in BOOLEAN /\ d \in Nat
    BY <2>2, SessionFields
  <2> HIDE DEF s, x, d
  <2>4. t \in Session /\ t.order = s.order /\ t.recent = s.recent /\ t.entries = s.entries
    BY <2>2, <2>3, Zenon DEF Session
  <2> HIDE DEF t
  <2> QED
    BY <1>2, <2>1, <2>2, <2>4, Zenon
<1>9. ASSUME NEW c \in Client, OperationFails(c)
      PROVE OrderInv'
  <2> DEFINE s == session[c]
  <2>1. phase' = [phase EXCEPT ![c] = "cleanup"] /\ UNCHANGED request
    BY <1>9 DEF OperationFails, Fail
  <2>2. CASE UNCHANGED session
    <3>1. session' = [session EXCEPT ![c] = session[c]]
      BY <2>2 DEF OrderInv
    <3> QED
      BY <1>0, <1>2, <2>1, <3>1, ZenonT(30)
  <2>3. ASSUME NEW k \in Key, NEW v \in Value \cup {None},
               session' = [session EXCEPT ![c].store[k] = v]
        PROVE OrderInv'
    <3> DEFINE f == [s.store EXCEPT ![k] = v]
               t == [s EXCEPT !.store = f]
    <3>1. session' = [session EXCEPT ![c] = t]
      BY <2>3 DEF GateInv, ByClient
    <3>2. s \in Session /\ Lru(s.order, s.recent, s.entries, request[c].capacity)
      BY <1>0
    <3>3. f \in Dictionary
      BY <3>2, SessionFields DEF Dictionary
    <3> HIDE DEF s, f
    <3>4. t \in Session /\ t.order = s.order /\ t.recent = s.recent /\ t.entries = s.entries
      BY <3>2, <3>3 DEF Session
    <3> HIDE DEF t
    <3> QED
      BY <1>2, <2>1, <3>1, <3>2, <3>4, Zenon
  <2> QED
    BY <1>9, <2>2, <2>3 DEF OperationFails
<1>10. CASE Next
  <2>1. PICK c \in Client : Run(c) \/ Expire(c) \/ Step(c)
    BY <1>10 DEF Next
  <2> QED
    BY <1>1, <1>3, <1>4, <1>5, <1>6, <1>7, <1>8, <1>9, <2>1 DEF Step, Execute
<1>11. CASE UNCHANGED vars
  BY <1>11 DEF vars, OrderInv, Inside
<1> QED
  BY <1>10, <1>11

\* The other variables keep their types.
LEMMA CallTypes ==
    ASSUME TypeOK, [Next]_vars
    PROVE /\ late' \in [Client -> BOOLEAN]
          /\ dirs' \subseteq Client /\ stuck' \subseteq Client
          /\ outcome' \in [Client -> {"none", "ok", "error"}]
<1>1. ASSUME NEW c \in Client, Run(c) \/ Expire(c) \/ Step(c)
      PROVE /\ late' \in [Client -> BOOLEAN]
            /\ dirs' \subseteq Client /\ stuck' \subseteq Client
            /\ outcome' \in [Client -> {"none", "ok", "error"}]
  <2>1. late' = late \/ late' = [late EXCEPT ![c] = TRUE] \/ late' = [late EXCEPT ![c] = FALSE]
    BY <1>1, Zenon DEF Run, Expire, Step, Enter, GiveUp, OpenFails, Open, OpenEngine, OpenEngineFails,
       Fail, LoadRecord, LoadFails, StartOperations, Execute, Get, Write, Range,
       OperationFails, Finish, Cleanup, Release
  <2>2. dirs' \in {dirs, dirs \ {c}, dirs \cup {c}} /\ stuck' \in {stuck, stuck \ {c}, stuck \cup {c}}
    BY <1>1, Zenon DEF Run, Expire, Step, Enter, GiveUp, OpenFails, Open, OpenEngine, OpenEngineFails,
       RemoveAll, Fail, LoadRecord, LoadFails, StartOperations, Execute, Get, Write, Range,
       OperationFails, Finish, Cleanup, Release
  <2>3. outcome' = outcome \/ \E o \in {"none", "ok", "error"} : outcome' = [outcome EXCEPT ![c] = o]
    BY <1>1, Zenon DEF Run, Expire, Step, Enter, GiveUp, OpenFails, Open, OpenEngine, OpenEngineFails,
       Fail, LoadRecord, LoadFails, StartOperations, Execute, Get, Write, Range,
       OperationFails, Finish, Cleanup, Release
  <2>4. late' \in [Client -> BOOLEAN]
    BY <2>1, Zenon DEF TypeOK
  <2> QED
    BY <2>2, <2>3, <2>4 DEF TypeOK
<1>2. CASE UNCHANGED vars
  BY <1>2 DEF vars, TypeOK
<1> QED
  BY <1>1, <1>2 DEF Next

-----------------------------------------------------------------------------
(* The theorems.                                                           *)

\* The invariants hold initially.
LEMMA InitInv == Init => GateInv /\ CacheInv /\ DirectoryInv
<1> SUFFICES ASSUME Init PROVE GateInv /\ CacheInv /\ DirectoryInv
  OBVIOUS
<1>1. GateInv
  BY DEF Init, GateInv, ByClient, OneAtATime, Inside, Phases
<1>2. CacheInv
  <2>1. /\ Shaped(NewSession) /\ Coherent(NewSession) /\ NewSession.exact = TRUE
        /\ NewSession.entries = Empty
    BY DEF NewSession, Shaped, Coherent, Empty, Dictionary
  <2> QED
    BY <2>1, Zenon DEF Init, CacheInv
<1>3. DirectoryInv
  BY DEF Init, DirectoryInv, DirectoriesRemoved
<1> QED
  BY <1>1, <1>2, <1>3

\* Executor.Run: however many clients call it, at most one is past the gate,
\* and the gate holds a token exactly while one is.
THEOREM GateCorrect == Spec => []OneAtATime
<1>1. GateInv => OneAtATime
  BY DEF GateInv
<1> QED
  BY <1>1, InitInv, GateStep, PTL DEF Spec

\* Cache: for every capacity, dataset and sequence of operations, with the
\* failures of a durable store, every answer is the dictionary's.
THEOREM CacheTransparent == Spec => []AnswersExact
<1>1. CacheInv => AnswersExact
  BY Zenon DEF CacheInv, AnswersExact
<1> QED
  BY <1>1, InitInv, GateStep, CacheStep, PTL DEF Spec

\* Run's cleanup: on every path, a run that is over left no directory, or
\* removing it failed and the run returned an error.
THEOREM CleanupCorrect == Spec => []DirectoriesRemoved
<1>1. DirectoryInv => DirectoriesRemoved
  BY DEF DirectoryInv
<1> QED
  BY <1>1, InitInv, GateStep, DirectoryStep, PTL DEF Spec

\* Types and order hold initially.
LEMMA InitOrder == Init => TypeOK /\ OrderInv
<1> SUFFICES ASSUME Init PROVE TypeOK /\ OrderInv
  OBVIOUS
<1>1. NoRequest \in Request /\ NoRequest.capacity \in Nat
  BY DEF NoRequest, Request
<1>2. session \in [Client -> Session] /\ request \in [Client -> Request]
  BY <1>1, NewSessionOrdered DEF Init
<1>3. OrderInv
  BY <1>1, <1>2, NewSessionOrdered DEF Init, OrderInv
<1>4. TypeOK
  BY <1>2 DEF Init, TypeOK, Phases
<1> QED
  BY <1>3, <1>4

\* Types and order in every reachable state.
LEMMA OrderInvariant == Spec => [](TypeOK /\ OrderInv)
<1>1. TypeOK /\ GateInv /\ GateInv' /\ OrderInv /\ [Next]_vars => TypeOK' /\ OrderInv'
  <2> SUFFICES ASSUME TypeOK, GateInv, GateInv', OrderInv, [Next]_vars
               PROVE TypeOK' /\ OrderInv'
    OBVIOUS
  <2>1. OrderInv'
    BY OrderStep
  <2>2. TypeOK'
    BY <2>1, CallTypes DEF TypeOK, OrderInv, GateInv, ByClient
  <2> QED
    BY <2>1, <2>2
<1> QED
  BY <1>1, InitInv, InitOrder, GateStep, PTL DEF Spec

\* Executor and cache: every variable keeps its type, for any number of clients.
THEOREM ExperimentTypes == Spec => []TypeOK
BY OrderInvariant, PTL

\* Cache: for every capacity and every sequence of reads and writes, the keys
\* held are the ones used last, in that order, as many as fit, and the map and
\* the list of the cache name the same keys.
THEOREM EvictionCorrect == Spec => []LeastRecentlyUsed
<1>1. TypeOK /\ OrderInv => LeastRecentlyUsed
  <2> SUFFICES ASSUME TypeOK, OrderInv, NEW c \in Client,
                      request[c].capacity > 0, Inside(c)
               PROVE LET s == session[c]
                         n == Len(s.order)
                     IN /\ n <= request[c].capacity
                        /\ n <= Len(s.recent) /\ s.order = SubSeq(s.recent, 1, n)
                        /\ {k \in Key : s.entries[k] # None} = {s.order[i] : i \in 1 .. n}
    BY DEF LeastRecentlyUsed
  <2> DEFINE o == session[c].order
             r == session[c].recent
  <2>1. /\ o \in Seq(Key) /\ r \in Seq(Key) /\ Len(o) <= request[c].capacity
        /\ Len(o) <= Len(r) /\ \A i \in 1 .. Len(o) : o[i] = r[i]
        /\ {k \in Key : session[c].entries[k] # None} = {o[i] : i \in 1 .. Len(o)}
    BY DEF OrderInv, Lru, Starts, Keys
  <2> HIDE DEF o, r
  <2>2. /\ SubSeq(r, 1, Len(o)) \in Seq(Key) /\ Len(SubSeq(r, 1, Len(o))) = Len(o)
        /\ \A i \in 1 .. Len(o) : SubSeq(r, 1, Len(o))[i] = r[i]
    BY <2>1
  <2>3. o = SubSeq(r, 1, Len(o))
    BY <2>1, <2>2
  <2> QED
    BY <2>1, <2>3 DEF o, r
<1> QED
  BY <1>1, OrderInvariant, PTL
=============================================================================
