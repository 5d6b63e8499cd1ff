----------------------------- MODULE MCDurableKV -----------------------------
(***************************************************************************)
(* The instances of DurableKV that TLC checks, and the claims of the       *)
(* documentation that single runs put to it.                               *)
(***************************************************************************)
EXTENDS DurableKV

\* Five pages: the page of the tree, its replacement, the current and the
\* previous free-list node, and the page retired one commit ago.
GrowthBound == 5

\* Every update attempted so far was published, or is under way.
NoneFailed == IsOpen /\ pm.generation = IF Updating THEN version - 1 ELSE version

\* "Reuse prevents unbounded growth during steady workloads"
\* (durable-storage.md): rewriting a one-page tree over and over never needs
\* more than GrowthBound pages, because reservePage and writeFreeListSnapshot
\* take every page that became eligible, as long as no update fails; closing,
\* crashing and reopening between the updates costs no page.
BoundedGrowth == NoneFailed => pm.next - 1 <= GrowthBound

\* durable-storage.md: "if both metadata slots fail metadata decoding, an
\* otherwise page-aligned file is treated as an empty database".
BothSlotsBadIsEmpty ==
    pc = "recover" /\ size >= 0 /\ ~ragged /\ ~slot[0].ok /\ ~slot[1].ok => CanRecover

=============================================================================
