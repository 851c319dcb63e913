--------------------------- MODULE MCWorkerControl ---------------------------
(***************************************************************************)
(* WorkerControl for TLC: one row with two pool threads, so that a task of *)
(* a skipped stage lives on beside the tasks of the next one, and one row  *)
(* with a single thread, which shares the events with the first.           *)
(***************************************************************************)
EXTENDS WorkerControl, TLC

CONSTANTS r1, r2, w1, w2

MCPool == r1 :> {w1, w2} @@ r2 :> {w1}
=============================================================================
