----------------------------- MODULE MCRedisLock -----------------------------
(* Two calls of the wrapper: one that holds the key and one that competes  *)
(* for it, inherits it, or finds it orphaned.                              *)
EXTENDS RedisLock
=============================================================================
