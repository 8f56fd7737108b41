-------------------------- MODULE MCModelArtifacts --------------------------
(* An instance of ModelArtifacts for TLC: a csv with no label, one or two. *)
EXTENDS ModelArtifacts

CONSTANTS l1, l2

MCLabelSets == {{}, {l1}, {l1, l2}}
=============================================================================
