----------------------------- MODULE MCPageTree -----------------------------
(***************************************************************************)
(* The key lengths of the instances of PageTree that TLC checks.           *)
(***************************************************************************)
EXTENDS PageTree

\* Four long keys and a short one overflow an internal page, and a value of
\* 3000 bytes fills a leaf, so that six keys make a tree of three levels.  A
\* leaf with a short key alone is underfull; whether it merges depends on the
\* value beside it.
TwoShortKeys == <<5, 1000, 1000, 5, 1000, 1000>>

SmallKeys == [k \in Key |-> 8]

\* An internal page over keys 2 .. 6 is nearly full; key 6 is shorter than 7.
MixedKeys == <<5, 5, 1000, 1000, 1000, 400, 1000>>
=============================================================================
