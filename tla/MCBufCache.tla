---------------------------- MODULE MCBufCache ----------------------------
(* The instance of BufCache that MCBufCache.cfg describes. *)
EXTENDS BufCache
=============================================================================
