---------------------------- MODULE WorkerDriver ----------------------------
(* A Worker's driver (worker/driver.py), the docker commands it gives       *)
(* (worker/docker.py) and the handlers of its client that call it           *)
(* (worker/client.py), with the master as the caller of this one Worker.    *)
(*                                                                          *)
(* The client handles one call at a time, except EXECUTE, which gets a      *)
(* thread of its own; every docker command is a step of its own, so that a  *)
(* thread, a cancel and a restart of the Worker meet between any two.  The  *)
(* driver accepts one container name only, the box; every manifest names    *)
(* it.  Lease epochs of the box grow with every lease (Scheduler!EpochsGrow)*)
(* and identify the assignment, so an assignment is its lease epoch, and    *)
(* epoch_high_water and resource_owner of a resource are one number.  The   *)
(* hub sends no call twice, so that EXECUTE is never found completed.       *)
EXTENDS Naturals, Sequences, FiniteSets

CONSTANTS
  MaxAssignment, \* assignments 1 .. MaxAssignment, in the order of their leases
  Gpu,           \* "gpu:<id>" of this Worker
  GpusOf,        \* the GPUs of each assignment's manifest
  MaxMail,       \* calls under way to the Worker (a bound of the instance)
  MaxEarly,      \* early RECONCILEs (a bound of the instance)
  Faults         \* "docker", "restart", "timeout"

Assignment == 1 .. MaxAssignment
Box == "container"
Resource == Gpu \cup { Box }
Resources(a) == GpusOf[a] \cup { Box }

ASSUME DriverAssumption ==
  /\ MaxAssignment \in Nat /\ MaxMail \in Nat /\ MaxEarly \in Nat
  /\ Box \notin Gpu
  /\ GpusOf \in [Assignment -> SUBSET Gpu]

VARIABLES
  mem,      \* _epoch_high_water and _resource_owner, _prepared, _plans
  saved,    \* driver-state.json
  box,      \* the container
  inside,   \* the assignments whose commands run in it
  attached, \* the threads that wait for a docker exec
  thread,   \* where the thread of each EXECUTE is
  loop,     \* the call the receive loop handles, and where
  mail,     \* calls sent to the Worker and not taken yet
  lease,    \* the assignment that has the leases of the Worker, 0 for none
  next,     \* the next assignment
  stage,    \* what the dispatch of each waits for, or has come to
  written,  \* assignments whose plan the master has written
  asked,    \* the call of cancel_task or reconcile_execution under way
  early     \* RECONCILEs sent while the Worker was not done (history)

workerMemory == <<mem, attached, thread, loop>>
container == <<box, inside>>
master == <<lease, next, stage, written, asked, early>>
vars == <<workerMemory, saved, container, mail, master>>

Cleaning == { "stop", "look", "kill", "relook" }
Ended    == { "idle", "done", "gone" }
Phase    == { "setup", "run", "teardown" }
Thread   == Cleaning \cup Ended \cup Phase
              \cup { "check", "validate", "start", "confirm", "clean", "unclean" }
Waiting  == { "PREPARE", "STATUS_QUERY", "PLAN", "EXECUTE" }
Stage    == { "free", "prepared", "planned", "kept" } \cup Waiting
Calls    == { "PREPARE", "STATUS_QUERY", "PLAN", "EXECUTE", "CANCEL", "RECONCILE" }
Resting  == [call |-> "none", a |-> 0, at |-> "idle"]
Nothing  == [call |-> "none", a |-> 0]

Init ==
  /\ mem = [fence |-> [r \in Resource |-> 0], prepared |-> {}, plans |-> {}]
  /\ saved = mem
  /\ box = "stopped" /\ inside = {}
  /\ attached = {} /\ thread = [a \in Assignment |-> "idle"]
  /\ loop = Resting /\ mail = <<>>
  /\ lease = 0 /\ next = 1 /\ written = {}
  /\ stage = [a \in Assignment |-> "free"]
  /\ asked = Nothing /\ early = 0
-----------------------------------------------------------------------------
(* The master.  Several assignments compete for this Worker, one has the    *)
(* lease.  The other units of a gang are the choices below that this        *)
(* Worker has no part in.                                                   *)

Busy(a)  == thread[a] \notin Ended
Quiet(a) == ~Busy(a) /\ \A i \in 1 .. Len(mail) : mail[i] # [call |-> "EXECUTE", a |-> a]

Send(call, a) ==
  /\ Len(mail) < MaxMail
  /\ mail' = Append(mail, [call |-> call, a |-> a])

(* The dispatch of a goes from one stage to another; where it ends without  *)
(* doubt it deletes the leases of its assignment, if they are there still.  *)
Moves(a, from, to) ==
  /\ stage[a] = from /\ stage' = [stage EXCEPT ![a] = to]
  /\ lease' = IF to = "free" /\ lease = a THEN 0 ELSE lease

(* Nobody has a lease of the Worker.  A dispatch whose leases an early      *)
(* RECONCILE deleted may still be under way: its holds, which would stop    *)
(* this one, go with the first other dispatch that fails on them.           *)
Lease ==
  /\ lease = 0 /\ next \in Assignment
  /\ lease' = next /\ next' = next + 1 /\ stage' = [stage EXCEPT ![next] = "PREPARE"]
  /\ Send("PREPARE", next)
  /\ UNCHANGED <<workerMemory, saved, container, written, asked, early>>

SendPlan(a) ==
  /\ Moves(a, "prepared", "PLAN")
  /\ written' = written \cup { a }
  /\ Send("PLAN", a)
  /\ UNCHANGED <<workerMemory, saved, container, next, asked, early>>

(* The dispatch looks at no lease before it sends EXECUTE.                  *)
SendExecute(a) ==
  /\ Moves(a, "planned", "EXECUTE")
  /\ Send("EXECUTE", a)
  /\ UNCHANGED <<workerMemory, saved, container, next, written, asked, early>>

(* Another unit was not prepared, or a cancel came before the start: the    *)
(* leases of all units go.  Or another unit is in doubt: all are kept.      *)
Withdraw(a) ==
  /\ \E from \in { "prepared", "planned" }, to \in { "free", "kept" } : Moves(a, from, to)
  /\ UNCHANGED <<workerMemory, saved, container, mail, next, written, asked, early>>

(* A dispatch gives up waiting, or the master restarts.  Not knowing what   *)
(* became of PREPARE, a dispatch queries the Worker; in all other cases the *)
(* lease is kept, whatever a query says.                                    *)
GiveUpAndFree(a) ==   \* mutant: what was not answered did not happen
  /\ "timeout" \in Faults
  /\ \E from \in Waiting : Moves(a, from, "free")
  /\ UNCHANGED <<workerMemory, saved, container, mail, next, written, asked, early>>
GiveUp(a) ==
  /\ "timeout" \in Faults
  /\ \/ Moves(a, "PREPARE", "STATUS_QUERY") /\ Send("STATUS_QUERY", a)
     \/ (\E from \in Waiting : Moves(a, from, "kept")) /\ UNCHANGED mail
  /\ UNCHANGED <<workerMemory, saved, container, next, written, asked, early>>

(* cancel_task looks up the plans under the lock and calls the Worker       *)
(* outside of it: by then the lease may be gone, or another's.              *)
AskCancel(a) ==
  /\ asked = Nothing
  /\ a \in written
  /\ asked' = [call |-> "CANCEL", a |-> a]
  /\ Send("CANCEL", a)
  /\ UNCHANGED <<workerMemory, saved, container, lease, next, stage, written, early>>

(* reconcile_execution holds the lock.  The documents name the states whose *)
(* leases are kept; the code looks at no state, and cannot know whether the *)
(* Worker has given up what the master has.                                 *)
InTime(a) == stage[a] = "kept" /\ Quiet(a)
AskReconcile(a) ==
  /\ asked = Nothing
  /\ lease = a /\ a \in written
  /\ \/ InTime(a) /\ UNCHANGED early
     \/ ~InTime(a) /\ early < MaxEarly /\ early' = early + 1
  /\ asked' = [call |-> "RECONCILE", a |-> a]
  /\ Send("RECONCILE", a)
  /\ UNCHANGED <<workerMemory, saved, container, lease, next, stage, written>>

AskingEnds ==
  /\ "timeout" \in Faults
  /\ asked # Nothing
  /\ asked' = Nothing
  /\ UNCHANGED <<workerMemory, saved, container, mail, lease, next, stage, written, early>>

(* What an answer leads to, for the dispatch that waits for it.  A clean    *)
(* result frees the lease unless another unit is not as far; an unclean     *)
(* result, a refused plan or a status other than NOT_REGISTERED keeps it.   *)
After(call, yes) ==
  CASE call = "PREPARE"      -> IF yes THEN { "prepared" } ELSE { "free" }
    [] call = "STATUS_QUERY" -> IF yes THEN { "free", "kept" } ELSE { "kept" }
    [] call = "PLAN"         -> IF yes THEN { "planned" } ELSE { "kept" }
    [] call = "EXECUTE"      -> IF yes THEN { "free", "kept" } ELSE { "kept" }

(* A container found stopped frees the lease, unless another unit refuses;  *)
(* the dispatch, if there is one still, does not notice and goes on.        *)
Reconciled(a, yes) ==
  /\ lease' \in IF yes /\ lease = a THEN { 0, lease } ELSE { lease }
  /\ UNCHANGED stage

(* An answer nobody waits for any more has no effect.                       *)
Answer(call, a, yes) ==
  /\ asked' = IF asked = [call |-> call, a |-> a] THEN Nothing ELSE asked
  /\ \/ stage[a] = call /\ \E to \in After(call, yes) : Moves(a, call, to)
     \/ asked = [call |-> call, a |-> a] /\ call = "RECONCILE" /\ Reconciled(a, yes)
     \/ /\ stage[a] # call /\ ~(asked = [call |-> call, a |-> a] /\ call = "RECONCILE")
        /\ UNCHANGED <<stage, lease>>
  /\ UNCHANGED <<next, written, early>>
-----------------------------------------------------------------------------
(* docker.  With the fault "docker" a command may fail, or time out with    *)
(* or without its effect.                                                   *)

DockerFails == "docker" \in Faults

(* docker stop, or docker kill. *)
StopBox ==
  \/ box' = "stopped" /\ inside' = {}
  \/ DockerFails /\ UNCHANGED container

(* DockerCLI.stop inside DockerWorkerDriver._cleanup, a command at a time:  *)
(* from stage s to stage n.  The last inspect decides; two inspects in a    *)
(* row are one.                                                             *)
CleanupStep(s, n) ==
  \/ s = "stop" /\ n = "look" /\ StopBox
  \/ s = "look" /\ n = (IF box = "stopped" THEN "clean" ELSE "kill") /\ UNCHANGED container
  \/ s = "look" /\ n = "relook" /\ DockerFails /\ UNCHANGED container
  \/ s = "kill" /\ n = "relook" /\ StopBox
  \/ s = "relook" /\ n = (IF box = "stopped" THEN "clean" ELSE "unclean") /\ UNCHANGED container
  \/ s = "relook" /\ n = "unclean" /\ DockerFails /\ UNCHANGED container
-----------------------------------------------------------------------------
(* The receive loop of the client, and what the driver does for it.         *)

Current(m, a) == \A r \in Resources(a) : m.fence[r] = a

Take(call) == loop = Resting /\ mail # <<>> /\ Head(mail).call = call /\ mail' = Tail(mail)
Caller == Head(mail).a
Handling(a, at) == loop' = [call |-> Head(mail).call, a |-> a, at |-> at]

(* prepare: the container is there and stopped, and no resource has seen a  *)
(* higher epoch.                                                            *)
MayPrepare(a) == box = "stopped" /\ \A r \in Resources(a) : mem.fence[r] <= a
TakePrepare ==
  /\ Take("PREPARE")
  /\ \/ /\ MayPrepare(Caller)
        /\ mem' = [mem EXCEPT !.fence = [r \in Resource |->
                                           IF r \in Resources(Caller) THEN Caller ELSE @[r]],
                              !.prepared = @ \cup { Caller }]
        /\ Handling(Caller, "save")
     \/ /\ ~MayPrepare(Caller) \/ DockerFails
        /\ Handling(Caller, "no")
        /\ UNCHANGED mem
  /\ UNCHANGED <<saved, attached, thread, container, master>>

(* acknowledge_plan: there is a manifest that the plan agrees with.         *)
TakePlan ==
  /\ Take("PLAN")
  /\ \/ /\ Caller \in mem.prepared
        /\ mem' = [mem EXCEPT !.plans = @ \cup { Caller }]
        /\ Handling(Caller, "save")
     \/ /\ Caller \notin mem.prepared
        /\ Handling(Caller, "no")
        /\ UNCHANGED mem
  /\ UNCHANGED <<saved, attached, thread, container, master>>

(* query_status, of which the master only wants to know NOT_REGISTERED.     *)
TakeQuery ==
  /\ Take("STATUS_QUERY")
  /\ Handling(Caller, IF Caller \in mem.prepared \cup mem.plans THEN "no" ELSE "yes")
  /\ UNCHANGED <<mem, saved, attached, thread, container, master>>

(* _persist_state, by a replaced file. *)
SaveNoManifests ==   \* mutant: prepared is left out of the payload
  /\ loop.at = "save"
  /\ saved' = [mem EXCEPT !.prepared = {}]
  /\ loop' = [loop EXCEPT !.at = "yes"]
  /\ UNCHANGED <<mem, attached, thread, container, mail, master>>
SaveNoPlans ==   \* mutant: acknowledge_plan does not persist
  /\ loop.at = "save"
  /\ saved' = [mem EXCEPT !.plans = saved.plans]
  /\ loop' = [loop EXCEPT !.at = "yes"]
  /\ UNCHANGED <<mem, attached, thread, container, mail, master>>
Save ==
  /\ loop.at = "save"
  /\ saved' = mem
  /\ loop' = [loop EXCEPT !.at = "yes"]
  /\ UNCHANGED <<mem, attached, thread, container, mail, master>>

(* cancel: the plan must be current; the container is stopped while its     *)
(* thread, if there is one, goes on.                                        *)
AnyPlan(a) == a \in mem.plans   \* mutant
CurrentPlan(a) == a \in mem.plans /\ Current(mem, a)
TakeCancel ==
  /\ Take("CANCEL")
  /\ Handling(Caller, IF CurrentPlan(Caller) THEN "stop" ELSE "no")
  /\ UNCHANGED <<mem, saved, attached, thread, container, master>>

CancelStep ==
  /\ loop.at \in Cleaning
  /\ \E n \in Thread : CleanupStep(loop.at, n) /\ loop' = [loop EXCEPT !.at = n]
  /\ UNCHANGED <<mem, saved, attached, thread, mail, master>>

(* reconcile: the plan must be current and the container stopped.           *)
TakeReconcile ==
  /\ Take("RECONCILE")
  /\ \/ Handling(Caller, IF CurrentPlan(Caller) /\ box = "stopped" THEN "yes" ELSE "no")
     \/ DockerFails /\ Handling(Caller, "no")
  /\ UNCHANGED <<mem, saved, attached, thread, container, master>>

Reply ==
  /\ loop.at \in { "yes", "no", "clean", "unclean" }
  /\ Answer(loop.call, loop.a, loop.at \in { "yes", "clean" })
  /\ loop' = Resting
  /\ UNCHANGED <<mem, saved, attached, thread, container, mail>>

(* EXECUTE gets a thread; the supervising harness, asked first, may fail,   *)
(* and then nothing is executed and nothing answered.                       *)
TakeExecute ==
  /\ Take("EXECUTE")
  /\ \/ thread' = [thread EXCEPT ![Caller] = "check"]
     \/ "timeout" \in Faults /\ thread' = [thread EXCEPT ![Caller] = "gone"]
  /\ UNCHANGED <<mem, saved, attached, loop, container, master>>

Loop ==
  \/ TakePrepare \/ TakePlan \/ TakeQuery \/ TakeExecute \/ TakeReconcile
  \/ TakeCancel \/ CancelStep \/ Save \/ Reply
-----------------------------------------------------------------------------
(* DockerWorkerDriver.execute, in a thread.                                 *)

Goes(a, from, to) == thread[a] = from /\ thread' = [thread EXCEPT ![a] = to]

(* A plan that is not current is refused, as a failed but clean execution.  *)
Check(a) ==
  /\ Goes(a, "check", IF CurrentPlan(a) THEN "validate" ELSE "clean")
  /\ UNCHANGED <<mem, saved, attached, loop, container, mail, master>>

(* A container that is not as it should be is left alone. *)
Validate(a) ==
  /\ \/ Goes(a, "validate", IF box = "stopped" THEN "start" ELSE "clean")
     \/ DockerFails /\ Goes(a, "validate", "clean")
  /\ UNCHANGED <<mem, saved, attached, loop, container, mail, master>>

(* docker start; from here on every path leads through the cleanup.         *)
StartOrLeave(a) ==   \* mutant: a failed start needs no cleanup
  /\ \/ Goes(a, "start", "confirm") /\ box' = "running"
     \/ DockerFails /\ Goes(a, "start", "clean") /\ box' \in { box, "running" }
  /\ UNCHANGED <<mem, saved, attached, inside, loop, mail, master>>
Start(a) ==
  /\ \/ Goes(a, "start", "confirm") /\ box' = "running"
     \/ DockerFails /\ Goes(a, "start", "stop") /\ box' \in { box, "running" }
  /\ UNCHANGED <<mem, saved, attached, inside, loop, mail, master>>

Confirm(a) ==
  /\ Goes(a, "confirm", IF box = "running" THEN "setup" ELSE "stop")
  /\ UNCHANGED <<mem, saved, attached, loop, container, mail, master>>

(* A phase whose command has ended with or without success: a setup that    *)
(* failed skips the run, and the teardown's result does not matter.         *)
FollowedBy(p, ok) ==
  CASE p = "setup" -> IF ok THEN "run" ELSE "teardown"
    [] p = "run" -> "teardown"
    [] OTHER -> "stop"

(* docker exec runs a command of the phase, or finds no running container.  *)
ExecBegins(a) ==
  /\ thread[a] \in Phase /\ a \notin attached
  /\ \/ /\ box = "running"
        /\ inside' = inside \cup { a } /\ attached' = attached \cup { a }
        /\ UNCHANGED thread
     \/ /\ box = "stopped"
        /\ Goes(a, thread[a], FollowedBy(thread[a], FALSE))
        /\ UNCHANGED <<inside, attached>>
  /\ UNCHANGED <<mem, saved, box, loop, mail, master>>

(* The command ends by itself; or fails because the container stopped; or   *)
(* the deadline passes (or a script is not what was signed): the thread     *)
(* goes on to the cleanup and leaves the command running.                   *)
ExecEnds(a) ==
  /\ a \in attached
  /\ attached' = attached \ { a }
  /\ \/ /\ inside' = inside \ { a }
        /\ \E ok \in (IF a \in inside THEN BOOLEAN ELSE { FALSE }) :
              Goes(a, thread[a], FollowedBy(thread[a], ok))
     \/ /\ Goes(a, thread[a], "stop")
        /\ UNCHANGED inside
  /\ UNCHANGED <<mem, saved, box, loop, mail, master>>

Cleanup(a) ==
  /\ \E s \in Cleaning, n \in Thread : Goes(a, s, n) /\ CleanupStep(s, n)
  /\ UNCHANGED <<mem, saved, attached, loop, mail, master>>

Finish(a) ==
  /\ \E s \in { "clean", "unclean" } :
        Goes(a, s, "done") /\ Answer("EXECUTE", a, s = "clean")
  /\ UNCHANGED <<mem, saved, attached, loop, container, mail>>

Execution(a) ==
  \/ Check(a) \/ Validate(a) \/ Start(a) \/ Confirm(a)
  \/ ExecBegins(a) \/ ExecEnds(a) \/ Cleanup(a) \/ Finish(a)
-----------------------------------------------------------------------------
(* The Worker process stops and comes back: the file is read, the container *)
(* and what runs in it stay as they are.                                    *)
Restart ==
  /\ "restart" \in Faults
  /\ mem' = saved
  /\ attached' = {} /\ loop' = Resting /\ mail' = <<>>
  /\ thread' = [a \in Assignment |-> IF Busy(a) THEN "gone" ELSE thread[a]]
  /\ UNCHANGED <<saved, container, master>>

Next ==
  \/ Lease \/ AskingEnds
  \/ \E a \in Assignment : SendPlan(a) \/ SendExecute(a) \/ Withdraw(a) \/ GiveUp(a)
  \/ \E a \in Assignment : AskCancel(a) \/ AskReconcile(a)
  \/ Loop
  \/ \E a \in Assignment : Execution(a)
  \/ Restart

Spec == Init /\ [][Next]_vars

-----------------------------------------------------------------------------
TypeOK ==
  /\ \A m \in { mem, saved } :
        /\ m.fence \in [Resource -> 0 .. MaxAssignment]
        /\ m.plans \subseteq m.prepared /\ m.prepared \subseteq Assignment
  /\ box \in { "stopped", "running" }
  /\ inside \subseteq Assignment /\ (box = "stopped" => inside = {})
  /\ thread \in [Assignment -> Thread]
  /\ attached \subseteq { a \in Assignment : thread[a] \in Phase }
  /\ loop \in [call : Calls \cup { "none" }, a : 0 .. MaxAssignment,
               at : Cleaning \cup { "idle", "save", "yes", "no", "clean", "unclean" }]
  /\ mail \in Seq([call : Calls, a : Assignment])
  /\ lease \in 0 .. MaxAssignment /\ next \in 1 .. MaxAssignment + 1
  /\ stage \in [Assignment -> Stage]
  /\ \A a \in Assignment : a = lease => stage[a] # "free"
  /\ written \subseteq Assignment
  /\ asked \in [call : Calls \cup { "none" }, a : 0 .. MaxAssignment]
  /\ early \in 0 .. MaxEarly

(* The container runs, and commands run in it, only for the assignment that *)
(* has the lease: a lease is given back only when cleanup, reconcile or the *)
(* lack of a start have left the container stopped, whatever docker, the    *)
(* network and restarts did; an early RECONCILE breaks it, and is excluded. *)
(* (core.py 269-281, driver.py 264-305, 371-380)                            *)
RunsUnderLease ==
  early = 0 => (box = "running" => lease # 0) /\ inside \subseteq { lease }

(* No thread that will still start, stop or use the container outlives the  *)
(* lease of its assignment, so that no late cleanup hits the next one.      *)
ThreadsUnderLease == early = 0 => \A a \in Assignment : Busy(a) => a = lease

(* A running container can always be stopped by a cancel of the assignment  *)
(* that has the lease, also by a Worker that restarts first: what is        *)
(* running is planned and current on the Worker's disk.                     *)
Stoppable ==
  early = 0 /\ box = "running" =>
     lease \in saved.plans \cap written /\ Current(saved, lease)

(* Fencing: an execution begins, and a cancel stops the container, only for *)
(* the newest assignment that was ever answered as prepared, also after a   *)
(* restart, and also when a RECONCILE came too early and the dispatch whose *)
(* leases it deleted sends its EXECUTE after another one's PREPARE.         *)
Newest(a) == \A b \in saved.prepared : b <= a
OnlyNewestActs ==
  [][\A a \in Assignment :
        (\/ thread[a] = "check" /\ thread'[a] = "validate"
         \/ loop.at = "idle" /\ loop'.at = "stop" /\ loop'.a = a)
        => Newest(a)]_vars

=============================================================================
