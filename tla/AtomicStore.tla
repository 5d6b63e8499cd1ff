----------------------------- MODULE AtomicStore -----------------------------
(***************************************************************************)
(* What the durable store promises: one version of the whole map at a      *)
(* time.  A commit in flight is in doubt until it is acknowledged; a crash *)
(* or a failed commit may resolve it either way, but never to anything     *)
(* else, and an acknowledged version never gives way to an older one.      *)
(***************************************************************************)
EXTENDS Integers

VARIABLES
    bound,      \* the version the store is bound to keep
    doubtful,   \* versions that may replace it
    view,       \* the version an open handle shows, or -1 when closed
    last        \* the newest version anyone proposed

vars == <<bound, doubtful, view, last>>

Candidates == {bound} \cup doubtful

Init ==
    /\ bound = 0
    /\ doubtful = {}
    /\ view = -1
    /\ last = 0

\* Open, or repair of an open handle: show one of the candidates.
Show ==
    /\ view' \in Candidates
    /\ UNCHANGED <<bound, doubtful, last>>

\* A writer starts to build the next version.
Propose ==
    /\ view # -1
    /\ last' = last + 1
    /\ UNCHANGED <<bound, doubtful, view>>

\* The version being built may now survive a crash.
Doubt ==
    /\ view # -1
    /\ doubtful' = doubtful \cup {last}
    /\ UNCHANGED <<bound, view, last>>

\* The version being built is acknowledged.
Commit ==
    /\ view # -1
    /\ last \in doubtful
    /\ bound' = last
    /\ view' = last
    /\ doubtful' = {}
    /\ UNCHANGED last

\* The version shown turns out to be durable.
Settle ==
    /\ view \in Candidates
    /\ bound' = view
    /\ doubtful' = {}
    /\ UNCHANGED <<view, last>>

Close ==
    /\ view' = -1
    /\ UNCHANGED <<bound, doubtful, last>>

\* A power loss decides which candidate survived.
Lose ==
    /\ view' = -1
    /\ bound' \in Candidates
    /\ doubtful' = {}
    /\ UNCHANGED last

Next == Show \/ Propose \/ Doubt \/ Commit \/ Settle \/ Close \/ Lose

Spec == Init /\ [][Next]_vars
=============================================================================
