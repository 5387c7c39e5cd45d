----------------------------- MODULE MCGraphLock -----------------------------
(***************************************************************************)
(* Four threads: two ingest workers, the linker worker, and one more than  *)
(* the default configuration starts.  Enough for a waiting writer behind   *)
(* two readers with a third thread arriving.                               *)
(***************************************************************************)
EXTENDS GraphLock
==============================================================================
