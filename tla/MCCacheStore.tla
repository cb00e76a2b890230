---------------------------- MODULE MCCacheStore ----------------------------
(* Sets of operations for the model-checking runs of CacheStore. *)
EXTENDS CacheStore, TLC

Persisted  == {"answer", "apiClear", "compact"}
=============================================================================
