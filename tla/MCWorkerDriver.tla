--------------------------- MODULE MCWorkerDriver ---------------------------
(* A Worker with two GPUs: the first assignment uses both, the others one.  *)
EXTENDS WorkerDriver

TwoGpus == { "gpu:0", "gpu:1" }
FirstTakesBoth == [a \in Assignment |-> IF a = 1 THEN TwoGpus ELSE { "gpu:1" }]
=============================================================================
