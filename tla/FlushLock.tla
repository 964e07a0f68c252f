----------------------------- MODULE FlushLock -----------------------------
(* flushMu (state.go): the ride writer, the chair writer, the flusher of the
   distances and POST /api/initialize write to the database one at a time. *)

VARIABLE flush    \* who holds flushMu

LockFlushMu(who) == flush = "free" /\ flush' = who

UnlockFlushMu == flush' = "free"
=============================================================================
