-------------------------- MODULE MCSharedCgroup --------------------------
(* Instances of SharedCgroup for TLC.                                       *)
EXTENDS SharedCgroup

\* Two supervisors with different limits and one without.
Limits == [s \in Sup |-> s % 3]
=============================================================================
