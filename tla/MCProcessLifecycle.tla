------------------------- MODULE MCProcessLifecycle -------------------------
(* Every mode of both processes: a worker with its one job and one post at a time,
   a web process with two requests. *)
EXTENDS ProcessLifecycle
=============================================================================
