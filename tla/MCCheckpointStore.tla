-------------------------- MODULE MCCheckpointStore -------------------------
(* Heads of two rival chains, saved by tabs that may all be behind.         *)
EXTENDS CheckpointStore

CONSTANTS MaxSeq, Chains

MCCheckpoints == [seq : 1..MaxSeq, hash : Chains]

=============================================================================
