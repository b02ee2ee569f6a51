----------------------------- MODULE MCScheduler -----------------------------
(* Small systems for TLC.  Each pair of Tasks competes for something.      *)
EXTENDS SchedulerInv

CONSTANTS t1, t2, t3, w1, w2, c1, c2

(* One Worker with two GPUs.  t1 takes one GPU and t2 both; their          *)
(* containers differ, so only the GPUs keep them apart.                    *)
GpuUnits      == [t \in Task |-> 1]
GpuWorker     == [t \in Task |-> [u \in 1 .. 1 |-> w1]]
GpuContainer  == [t \in Task |-> [u \in 1 .. 1 |-> IF t = t1 THEN c1 ELSE c2]]
GpuNeed       == [t \in Task |-> [u \in 1 .. 1 |-> IF t = t1 THEN 1 ELSE 2]]

(* Two Workers with one GPU each.  t1 needs both, t2 one of them, in the   *)
(* same container.                                                         *)
GangUnits     == [t \in Task |-> IF t = t1 THEN 2 ELSE 1]
GangWorker    == [t \in Task |-> [u \in 1 .. 2 |-> IF t = t1 /\ u = 1 THEN w1 ELSE w2]]
GangContainer == [t \in Task |-> [u \in 1 .. 2 |-> c1]]
GangNeed      == [t \in Task |-> [u \in 1 .. 2 |-> 1]]
=============================================================================
