---------------------------- MODULE MCThreadPool ----------------------------
(* Model-checking instances of ThreadPool.  Each .cfg file chooses how many *)
(* threads, tasks and clients there are, which kinds of task are submitted  *)
(* and which clients add tasks, wait for them or destroy the pool.          *)
EXTENDS ThreadPool
=============================================================================
