-------------------------- MODULE MCIngestPipeline --------------------------
(* Instances of IngestPipeline for TLC.                                    *)
EXTENDS IngestPipeline, TLC

Symmetry == Permutations(Events) \cup Permutations(Workers)
=============================================================================
