---------------------------- MODULE BlockingQueue ----------------------------
(***************************************************************************)
(* BlockingConcurrentQueue of utility/blockingconcurrentqueue.h: the       *)
(* concurrent queue, and a semaphore that counts its elements.  An element *)
(* is enqueued first and signalled afterwards; a consumer first acquires a *)
(* token from the semaphore and then takes an element that must be there.  *)
(* LightweightSemaphore is a counter, in which a negative number counts    *)
(* the threads that sleep, over a semaphore of the operating system, which *)
(* is external; one atomic access is one step, except that a load and the  *)
(* compare_exchange that confirms it are one.                              *)
(*                                                                         *)
(* The queue itself (ExplicitQueue, ImplicitQueue, Producers, Consumers)   *)
(* is taken as what those modules show it to be: one sequence per          *)
(* producer, from which a call takes as much as it wants from one of them. *)
(***************************************************************************)
EXTENDS Integers, Sequences, FiniteSetsExt

CONSTANTS Threads, Producers

VARIABLES
  inner,        \* the elements of each producer
  m_count,      \* tokens to be had, or minus the threads that sleep without one
  m_sema,       \* the semaphore of the operating system
  at, r         \* where each thread is in the queue's code, and its registers

vars == <<inner, m_count, m_sema, at, r>>

\* How much a call asks for, what it acquired, what it has taken; what to signal or post.
NoCall == [kind |-> "none", max |-> 0, owed |-> 0, got |-> <<>>, count |-> 0]

Init ==
  /\ inner = [p \in Producers |-> <<>>]
  /\ m_count = 0 /\ m_sema = 0
  /\ at = [t \in Threads |-> "idle"]
  /\ r = [t \in Threads |-> NoCall]

Goto(t, step, registers) ==
  at' = [at EXCEPT ![t] = step] /\ r' = [r EXCEPT ![t] = registers]

------------------------------------------------------------------------------
(* enqueue, try_enqueue and their bulk forms.  One that fails changes nothing. *)

Put(p, items) == inner' = [inner EXCEPT ![p] = @ \o items]

Enqueue(t, p, items) ==
  /\ at[t] = "idle" /\ r[t] = NoCall
  /\ Put(p, items)
  /\ Goto(t, "signal", [NoCall EXCEPT !.count = Len(items)])
  /\ UNCHANGED <<m_count, m_sema>>

\* Mutant: the sleepers are counted after the addition.
SignalLate(t) ==
  LET toRelease == Min({-(m_count + r[t].count), r[t].count}) IN
  /\ at[t] = "signal"
  /\ m_count' = m_count + r[t].count
  /\ IF toRelease > 0
     THEN Goto(t, "post", [NoCall EXCEPT !.count = toRelease])
     ELSE Goto(t, "idle", NoCall)
  /\ UNCHANGED <<inner, m_sema>>

Signal(t) ==
  LET toRelease == Min({-m_count, r[t].count}) IN
  /\ at[t] = "signal"
  /\ m_count' = m_count + r[t].count
  /\ IF toRelease > 0
     THEN Goto(t, "post", [NoCall EXCEPT !.count = toRelease])
     ELSE Goto(t, "idle", NoCall)
  /\ UNCHANGED <<inner, m_sema>>

Post(t) ==
  /\ at[t] = "post"
  /\ m_sema' = m_sema + 1
  /\ IF r[t].count > 1
     THEN Goto(t, "post", [r[t] EXCEPT !.count = @ - 1])
     ELSE Goto(t, "idle", NoCall)
  /\ UNCHANGED <<inner, m_count>>

------------------------------------------------------------------------------
(* Tokens.  A call for one element is a call for at most one. *)

Claim(t, registers, n, step) ==
  /\ m_count' = m_count - n
  /\ Goto(t, step, [registers EXCEPT !.owed = @ + n])

\* Every call begins with tryWaitMany().
TryWaitMany(t, kind, max) ==
  LET call == [NoCall EXCEPT !.kind = kind, !.max = max] IN
  /\ at[t] = "idle" /\ r[t] = NoCall
  /\ IF m_count > 0
     THEN Claim(t, call, Min({m_count, max}), "take")
     ELSE Goto(t, IF kind = "try" THEN "idle" ELSE "spin", call) /\ UNCHANGED m_count
  /\ UNCHANGED <<inner, m_sema>>

TryDequeue(t) == TryWaitMany(t, "try", 1)
TryDequeueBulk(t, max) == TryWaitMany(t, "try", max)
WaitDequeue(t) == TryWaitMany(t, "wait", 1)
WaitDequeueTimed(t) == TryWaitMany(t, "timed", 1)
WaitDequeueBulk(t, max) == TryWaitMany(t, "wait", max)
WaitDequeueBulkTimed(t, max) == TryWaitMany(t, "timed", max)

\* The call is over and its caller looks at what it got.
Collect(t) ==
  /\ at[t] = "idle" /\ r[t] # NoCall
  /\ r' = [r EXCEPT ![t] = NoCall]

Spin(t) ==
  /\ at[t] = "spin" /\ m_count > 0
  /\ Claim(t, r[t], Min({m_count, r[t].max}), "take")
  /\ UNCHANGED <<inner, m_sema>>

\* The spinning ends; one token is taken in any case, perhaps before it exists.
Join(t) ==
  /\ at[t] = "spin"
  /\ IF m_count > 0
     THEN Claim(t, r[t], 1, "more")
     ELSE m_count' = m_count - 1 /\ Goto(t, "asleep", r[t])
  /\ UNCHANGED <<inner, m_sema>>

Awake(t) ==
  /\ m_sema' = m_sema - 1
  /\ Goto(t, "more", [r[t] EXCEPT !.owed = 1])
  /\ UNCHANGED <<inner, m_count>>

Wake(t) == at[t] = "asleep" /\ m_sema > 0 /\ Awake(t)

\* A timed call that is not negative; the post it waits for may come right then.
TimeOut(t) ==
  /\ at[t] = "asleep" /\ r[t].kind = "timed"
  /\ Goto(t, "restore", r[t])
  /\ UNCHANGED <<inner, m_count, m_sema>>

\* Mutant: the thread goes, and is still counted among those that sleep.
RestoreForgetful(t) ==
  /\ at[t] = "restore"
  /\ IF m_count < 0
     THEN Goto(t, "idle", r[t])
     ELSE Goto(t, "trywait", r[t])
  /\ UNCHANGED <<inner, m_count, m_sema>>

\* Nobody has signalled for this thread, or else the post is there or will be.
Restore(t) ==
  /\ at[t] = "restore"
  /\ IF m_count < 0
     THEN m_count' = m_count + 1 /\ Goto(t, "idle", r[t])
     ELSE UNCHANGED m_count /\ Goto(t, "trywait", r[t])
  /\ UNCHANGED <<inner, m_sema>>

TryWait(t) ==
  /\ at[t] = "trywait"
  /\ \/ m_sema > 0 /\ Awake(t)
     \/ m_sema = 0 /\ Goto(t, "restore", r[t]) /\ UNCHANGED <<inner, m_count, m_sema>>

\* A bulk call that has one token takes what else is there.
TryWaitMore(t) ==
  /\ at[t] = "more"
  /\ Claim(t, r[t], IF m_count > 0 THEN Min({m_count, r[t].max - 1}) ELSE 0, "take")
  /\ UNCHANGED <<inner, m_sema>>

------------------------------------------------------------------------------
(* Elements: as many as there are tokens, from one producer at a time. *)

Take(t) ==
  /\ at[t] = "take"
  /\ \E p \in Producers :
       LET n == Min({r[t].owed, Len(inner[p])}) IN
       /\ n > 0
       /\ inner' = [inner EXCEPT ![p] = SubSeq(@, n + 1, Len(@))]
       /\ Goto(t, IF n = r[t].owed THEN "idle" ELSE "take",
               [r[t] EXCEPT !.owed = @ - n, !.got = @ \o SubSeq(inner[p], 1, n)])
  /\ UNCHANGED <<m_count, m_sema>>

availableApprox == IF m_count > 0 THEN m_count ELSE 0

\* What a thread does in the code of the queue once it has called.
Step(t) ==
  \/ Signal(t) \/ Post(t)
  \/ Spin(t) \/ Join(t) \/ Wake(t) \/ TimeOut(t) \/ Restore(t)
  \/ TryWait(t) \/ TryWaitMore(t) \/ Take(t)

------------------------------------------------------------------------------
In(steps) == {t \in Threads : at[t] \in steps}
CountsAt(step) == SumFunction([t \in Threads |-> IF at[t] = step THEN r[t].count ELSE 0])
Elements == SumFunction([p \in Producers |-> Len(inner[p])])
Owed == SumFunction([t \in Threads |-> r[t].owed])
Sleepers == Cardinality(In({"asleep", "restore", "trywait"}))

TypeOK ==
  /\ \A t \in Threads :
       /\ at[t] \in {"idle", "signal", "post", "spin", "asleep", "restore",
                     "trywait", "more", "take"}
       /\ r[t].owed + Len(r[t].got) <= r[t].max
  /\ m_count \in Int /\ m_sema \in Nat

\* Every element is accounted for: by a token, by a consumer that has one for it, by a
\* producer about to signal it.  So a consumer with tokens finds its elements, and when
\* nothing is under way the estimate of size_approx() is exact.
TokensCovered ==
  Elements = m_count + Sleepers + Owed + CountsAt("signal")

\* Nobody sleeps who was signalled for without a post that is there or is coming, and no
\* post is left over for nobody.
PostsCovered ==
  m_sema + CountsAt("post") = Sleepers - (IF m_count < 0 THEN -m_count ELSE 0)

ApproxExact ==
  (\A t \in Threads : at[t] \in {"idle", "asleep"}) /\ m_sema = 0
    => availableApprox = Elements

QueueSound == TypeOK /\ TokensCovered /\ PostsCovered /\ ApproxExact
==============================================================================
