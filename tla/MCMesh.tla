------------------------------- MODULE MCMesh -------------------------------
(***************************************************************************)
(* NotaryMesh for TLC: every pair of nodes has a socket.                   *)
(***************************************************************************)
EXTENDS NotaryMesh

CONSTANTS NODE0, NODE1, NODE2, NODE3  \* the owners of the validator keys

FullMesh == {l \in Node \X Node : l[1] # l[2]}

\* Everything is prompt but the sockets to NODE1, and in some runs its own to NODE3.
SlowToB == {l \in FullMesh : l[2] # NODE1}
SlowAtB == SlowToB \ {<<NODE1, NODE3>>}

\* The sockets between backups open late, or all do.
ProposerLinks == {l \in FullMesh : Proposer \in {l[1], l[2]}}
NoLinks == {}
=============================================================================
