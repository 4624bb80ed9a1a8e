---------------------------- MODULE ThreadPoolMC ----------------------------
(***************************************************************************)
(* Instances for TLC: the pools, or (world = "direct") the threads of a    *)
(* blocking pool as direct users of its queue, the clients as producers    *)
(* and the workers as consumers, with the bulk and the timed calls that    *)
(* the pool does not make.                                                 *)
(***************************************************************************)
EXTENDS ThreadPool, TLC

CONSTANTS Other, a, c, d,
          MaxElements   \* bounds the elements of the direct world

VARIABLES world, sent

(* a comes from the owner, c from another client, and d from a.            *)
Submitters == a :> Owner @@ c :> Other @@ d :> a

InitMC == Init /\ sent = 0 /\ (world = "pool" \/ (world = "direct" /\ blocking))

EnqueueDirectly(t, n) ==
    /\ sent + n <= MaxElements /\ sent' = sent + n
    /\ task_queue!Enqueue(t, t, [i \in 1 .. n |-> Exit])

CallDirectly(t) ==
    \/ task_queue!TryDequeueBulk(t, 2)
    \/ task_queue!WaitDequeueTimed(t)
    \/ task_queue!WaitDequeueBulk(t, 2)
    \/ task_queue!WaitDequeueBulkTimed(t, 2)

CollectDirectly(t) == task_queue!Collect(t) /\ UNCHANGED <<inner, m_count, m_sema, at>>
StepDirectly(t) == task_queue!Step(t) \/ CollectDirectly(t)

Direct == UNCHANGED <<pool, worker, client, submitted, done>>

NextMC ==
    /\ UNCHANGED world
    /\ \/ world = "pool" /\ Next /\ UNCHANGED sent
       \/ world = "direct" /\ Direct /\ \E t \in Clients, n \in 1 .. 2 : EnqueueDirectly(t, n)
       \/ world = "direct" /\ Direct /\ UNCHANGED sent /\ \E t \in Workers : CallDirectly(t)
       \/ world = "direct" /\ Direct /\ UNCHANGED sent /\ \E t \in Threads : StepDirectly(t)

varsMC == <<vars, world, sent>>

(* The fairness of ThreadPool in its world; a direct user need not call,   *)
(* but a call goes on.                                                     *)
SpecMC ==
    /\ InitMC /\ [][NextMC]_varsMC
    /\ \A w \in Workers : WF_vars(world = "pool" /\ WorkerStep(w))
    /\ \A t \in Threads : WF_vars(world = "pool" /\ QueueStep(t))
    /\ WF_vars(world = "pool" /\ phase = "terminal" /\ terminal)
    /\ WF_vars(world = "pool" /\ join)
    /\ \A t \in Threads : WF_vars(world = "direct" /\ Direct /\ StepDirectly(t))

(* Whoever waits without a time limit does not sleep on beside an element. *)
Served ==
    world = "direct" =>
       []<>(\/ task_queue!Elements = 0
            \/ \A t \in Threads : ~(at[t] = "asleep" /\ r[t].kind = "wait"))

(* Every task runs, and no wake-up is lost: see EveryTaskRuns.             *)
EverybodyServed == EveryTaskRuns /\ Served
=============================================================================
