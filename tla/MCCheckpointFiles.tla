-------------------------- MODULE MCCheckpointFiles --------------------------
(* Eight events, four checkpoints and three I/O errors: later checkpoints find  *)
(* a log that earlier ones have truncated and, after an error, a leftover .bak. *)
EXTENDS CheckpointFiles
=============================================================================
