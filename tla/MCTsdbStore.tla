---------------------------- MODULE MCTsdbStore ----------------------------
(* Two series pushed in batches, chunks of two buckets.                      *)
EXTENDS TsdbStore
=============================================================================
