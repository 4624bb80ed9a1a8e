----------------------------- MODULE ThreadPool -----------------------------
(***************************************************************************)
(* The two thread pools of utility/thread_pool.hpp (blocking = FALSE: a    *)
(* ConcurrentQueue, idle workers spin, the destructor raises a flag) and   *)
(* thread_pool_block.hpp (blocking = TRUE: a BlockingConcurrentQueue, idle *)
(* workers sleep in it, the destructor only joins, and terminal() sends    *)
(* every worker a task that ends its thread).                              *)
(*                                                                         *)
(* One client owns the pool: it submits, may call terminal(), and destroys *)
(* the pool once the other clients have submitted all they will.  Tasks    *)
(* may submit tasks, in the order of the thread that runs them.            *)
(***************************************************************************)
EXTENDS Integers, Sequences, FiniteSets

CONSTANTS
    Workers,
    Clients, Owner,
    Tasks,
    By,             \* By[k]: the client or the task that submits task k
    Exit            \* bind(pthread_exit, nullptr)

ASSUME ThreadPoolAssumption ==
    /\ Owner \in Clients
    /\ By \in [Tasks -> Clients \cup Tasks]
    /\ Exit \notin Tasks \cup Clients
    /\ Clients \cap Tasks = {} /\ Clients \cap Workers = {}
    /\ Workers # {}
    /\ IsFiniteSet(Workers) /\ IsFiniteSet(Clients) /\ IsFiniteSet(Tasks)

VARIABLES
    blocking,   \* which of the two pools this is
    inner, m_count, m_sema, at, r,      \* task_queue
    flag,       \* __flag
    pc,         \* where each worker is
    task,       \* the task it has taken
    phase,      \* what the owner has done with the pool
    exits,      \* exit tasks terminal() has submitted
    submitted, done

pool == <<blocking, flag>>
queue == <<inner, m_count, m_sema, at, r>>
client == <<phase, exits>>
worker == <<pc, task>>
vars == <<pool, queue, worker, client, submitted, done>>

(* Each client thread is one producer.  A task submits with a token that   *)
(* lives for that submission alone: every such task has its own producer.  *)
Producers == Clients \cup Tasks
Threads == Workers \cup Clients
SubmittedBy(p) == {k \in Tasks : By[k] = p}

task_queue == INSTANCE BlockingQueue

Init ==
    /\ blocking \in BOOLEAN
    /\ task_queue!Init
    /\ flag = FALSE
    /\ pc = [w \in Workers |-> "check"]
    /\ task = [w \in Workers |-> Exit]
    /\ phase = "open" /\ exits = 0
    /\ submitted = {} /\ done = {}

(* Thread t hands an item to the queue, where it may then have to signal.  *)
Enqueue(t, p, item) ==
    /\ at[t] = "idle"
    /\ IF blocking
       THEN task_queue!Enqueue(t, p, <<item>>)
       ELSE task_queue!Put(p, <<item>>) /\ UNCHANGED <<m_count, m_sema, at, r>>

QueueStep(t) ==
    /\ task_queue!Step(t)
    /\ UNCHANGED <<pool, worker, client, submitted, done>>

(***************************************************************************)
(* Clients                                                                 *)
(***************************************************************************)
submit(c, k) ==
    /\ By[k] = c /\ k \notin submitted
    /\ phase = "open" \/ (c # Owner /\ phase = "terminal")
    /\ submitted' = submitted \cup {k}
    /\ Enqueue(c, c, k)
    /\ UNCHANGED <<pool, worker, client, done>>

terminal ==
    /\ phase \in {"open", "terminal"}
    /\ exits' = exits + 1
    /\ phase' = IF exits' = Cardinality(Workers) THEN "terminated" ELSE "terminal"
    /\ Enqueue(Owner, Owner, Exit)
    /\ UNCHANGED <<pool, worker, submitted, done>>

(* ~thread_pool(): the flag, if it is raised at all, and then join().      *)
Destroyable ==
    /\ phase = "terminated" \/ (phase = "open" /\ ~blocking)
    /\ \A c \in Clients : at[c] = "idle"
    /\ \A c \in Clients \ {Owner} : SubmittedBy(c) \subseteq submitted

(* Mutants: the flag is left down, or raised in either pool.               *)
destroyQuietly ==
    /\ Destroyable
    /\ phase' = "destroying"
    /\ UNCHANGED <<pool, queue, worker, exits, submitted, done>>

destroyLoudly ==
    /\ Destroyable
    /\ phase' = "destroying"
    /\ flag' = TRUE
    /\ UNCHANGED <<blocking, queue, worker, exits, submitted, done>>

destroy ==
    /\ Destroyable
    /\ phase' = "destroying"
    /\ flag' = ~blocking
    /\ UNCHANGED <<blocking, queue, worker, exits, submitted, done>>

join ==
    /\ phase = "destroying"
    /\ \A w \in Workers : pc[w] = "exited"
    /\ phase' = "destroyed"
    /\ UNCHANGED <<pool, queue, worker, exits, submitted, done>>

(***************************************************************************)
(* Workers: a call with a token, one without, and then wait_dequeue() in   *)
(* the blocking pool, yield() in the other.                                *)
(***************************************************************************)
Goto(w, label) == pc' = [pc EXCEPT ![w] = label]
AfterTry(w) == IF pc[w] = "token" THEN "plain" ELSE IF blocking THEN "wait" ELSE "check"

work_thread(w) ==
    /\ pc[w] = "check"
    /\ Goto(w, IF flag THEN "exited" ELSE "token")
    /\ UNCHANGED <<pool, queue, task, client, submitted, done>>

(* The call of a BlockingConcurrentQueue takes steps of its own.           *)
try_dequeue(w) ==
    /\ blocking /\ pc[w] \in {"token", "plain"}
    /\ task_queue!TryDequeue(w)
    /\ UNCHANGED <<pool, worker, client, submitted, done>>

wait_dequeue(w) ==
    /\ blocking /\ pc[w] = "wait"
    /\ task_queue!WaitDequeue(w)
    /\ UNCHANGED <<pool, worker, client, submitted, done>>

Dequeued(w) ==
    /\ task_queue!Collect(w)
    /\ IF r[w].got = <<>>
       THEN Goto(w, AfterTry(w)) /\ UNCHANGED task
       ELSE Goto(w, "run") /\ task' = [task EXCEPT ![w] = Head(r[w].got)]
    /\ UNCHANGED <<pool, inner, m_count, m_sema, at, client, submitted, done>>

(* That of a ConcurrentQueue finds an element of some producer, or none.   *)
try_dequeueAtOnce(w) ==
    /\ ~blocking /\ pc[w] \in {"token", "plain"}
    /\ IF \A p \in Producers : inner[p] = <<>>
       THEN Goto(w, AfterTry(w)) /\ UNCHANGED <<inner, task>>
       ELSE /\ Goto(w, "run")
            /\ \E p \in Producers :
                  /\ inner[p] # <<>>
                  /\ task' = [task EXCEPT ![w] = Head(inner[p])]
                  /\ inner' = [inner EXCEPT ![p] = Tail(@)]
    /\ UNCHANGED <<pool, m_count, m_sema, at, r, client, submitted, done>>

(* On its way a task submits its own tasks.                                *)
submitFromTask(w) ==
    /\ pc[w] = "run"
    /\ \E k \in SubmittedBy(task[w]) \ submitted :
          /\ submitted' = submitted \cup {k}
          /\ Enqueue(w, task[w], k)
    /\ UNCHANGED <<pool, worker, client, done>>

run_pending_task(w) ==
    /\ pc[w] = "run" /\ at[w] = "idle"
    /\ SubmittedBy(task[w]) \subseteq submitted
    /\ Goto(w, IF task[w] = Exit THEN "exited" ELSE "check")
    /\ done' = done \cup ({task[w]} \ {Exit})
    /\ UNCHANGED <<pool, queue, task, client, submitted>>

WorkerStep(w) ==
    \/ work_thread(w) \/ try_dequeue(w) \/ wait_dequeue(w) \/ Dequeued(w)
    \/ try_dequeueAtOnce(w) \/ submitFromTask(w) \/ run_pending_task(w)

Next ==
    \/ \E c \in Clients, k \in Tasks : submit(c, k)
    \/ terminal \/ destroy \/ join
    \/ \E w \in Workers : WorkerStep(w)
    \/ \E t \in Threads : QueueStep(t)

Spec == Init /\ [][Next]_vars

(* Threads are scheduled; an owner that began terminal() or the destructor *)
(* goes on.  Nobody is bound to submit or to destroy.                      *)
Fairness ==
    /\ \A w \in Workers : WF_vars(WorkerStep(w))
    /\ \A t \in Threads : WF_vars(QueueStep(t))
    /\ WF_vars(phase = "terminal" /\ terminal)
    /\ WF_vars(join)

FairSpec == Spec /\ Fairness

-----------------------------------------------------------------------------
TypeOK ==
    /\ blocking \in BOOLEAN /\ flag \in BOOLEAN
    /\ pc \in [Workers -> {"check", "token", "plain", "wait", "run", "exited"}]
    /\ task \in [Workers -> Tasks \cup {Exit}]
    /\ phase \in {"open", "terminal", "terminated", "destroying", "destroyed"}
    /\ exits \in 0 .. Cardinality(Workers)
    /\ done \subseteq submitted /\ submitted \subseteq Tasks

(* Tokens and elements agree in the queue of the blocking pool.            *)
PoolSound == TypeOK /\ (blocking => task_queue!QueueSound)

(* While the pool is in use every task runs, those submitted by tasks too. *)
EveryTaskRuns == \A k \in Tasks : k \in submitted ~> k \in done \/ phase # "open"

(* The destructor returns.                                                 *)
DestructorReturns == phase = "destroying" ~> phase = "destroyed"

(* The blocking pool can be drained: what the owner submitted before       *)
(* terminal() has run when the destructor returns.  Other clients' tasks   *)
(* and the tasks of tasks may be lost: an exit task can overtake them.     *)
OwnersTasksRun == phase = "destroyed" /\ blocking =>
                     SubmittedBy(Owner) \cap submitted \subseteq done
=============================================================================
