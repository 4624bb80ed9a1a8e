------------------------------ MODULE RWLocks ------------------------------
(***************************************************************************)
(* database::with_read_lock() and with_write_lock() of chainbase.  The     *)
(* readers are processes of their own, the writers threads of the one      *)
(* process that has the file lock.  All share read_write_mutex_manager,    *)
(* an array of mutexes in a mapped file and the number of the current one. *)
(* A holder may die and leave its mutex locked; a writer that has waited   *)
(* too long moves on to the next mutex, which it constructs afresh over    *)
(* whatever is there.                                                      *)
(*                                                                         *)
(* The mutex is boost::interprocess::interprocess_sharable_mutex, external *)
(* code: a flag and a count, without an owner, so that unlocking changes   *)
(* the mutex now in the slot, whoever locked it.                           *)
(***************************************************************************)
EXTENDS Integers, FiniteSets

CONSTANTS
    Readers, Writers,   \* disjoint
    NumLocks,       \* CHAINBASE_NUM_RW_LOCKS, at least 1
    CounterMod,     \* values of _current_lock (2^32)
    SharedMod,      \* values of the mutex's count of sharers, more than 1
    MaxDeaths       \* bound: processes that die

(* What the theorems about this module assume of its constants.            *)
LockAssumption == /\ Readers \cap Writers = {}
                  /\ {NumLocks, CounterMod} \subseteq Nat \ {0}
                  /\ SharedMod \in Nat \ {0, 1}
                  /\ MaxDeaths \in Nat

VARIABLES
    current,    \* _current_lock
    locks,      \* _locks
    pc,
    lock,       \* the slot a thread's lock object refers to
    deaths,
    moved       \* a writer has given up waiting (history)

vars == <<current, locks, pc, lock, deaths, moved>>

Threads == Readers \cup Writers
Slots == 0 .. NumLocks - 1
Free == [exclusive |-> FALSE, shared |-> 0]

Init ==
    /\ current = 0
    /\ locks = [s \in Slots |-> Free]
    /\ pc = [t \in Threads |-> "idle"]
    /\ lock = [t \in Threads |-> 0]
    /\ deaths = 0
    /\ moved = FALSE

Goto(t, label) == pc' = [pc EXCEPT ![t] = label]
current_lock == current % NumLocks

(* wait_micro = 0 waits for ever ("block"); otherwise the wait is timed.   *)
Begin(t, wait) ==
    /\ pc[t] = "idle"
    /\ lock' = [lock EXCEPT ![t] = current_lock]
    /\ Goto(t, wait)
    /\ UNCHANGED <<current, locks, deaths, moved>>

Waiting(t) == pc[t] \in {"timed", "block"}
Mutex(t) == locks[lock[t]]
Sharable(m) == ~m.exclusive /\ m.shared # SharedMod - 1
Lockable(m) == m = Free

-----------------------------------------------------------------------------
(* with_read_lock()                                                        *)

(* Mutant: the exclusive flag is not looked at. *)
lock_sharableBlindly(r) ==
    /\ Waiting(r)
    /\ Mutex(r).shared # SharedMod - 1
    /\ locks' = [locks EXCEPT ![lock[r]].shared = @ + 1]
    /\ Goto(r, "inside")
    /\ UNCHANGED <<current, lock, deaths, moved>>

lock_sharable(r) ==
    /\ Waiting(r)
    /\ Sharable(Mutex(r))
    /\ locks' = [locks EXCEPT ![lock[r]].shared = @ + 1]
    /\ Goto(r, "inside")
    /\ UNCHANGED <<current, lock, deaths, moved>>

(* "unable to acquire lock" *)
ReadThrows(r) ==
    /\ pc[r] = "timed"
    /\ ~Sharable(Mutex(r))
    /\ Goto(r, "idle")
    /\ UNCHANGED <<current, locks, lock, deaths, moved>>

unlock_sharable(r) ==
    /\ pc[r] = "inside"
    /\ locks' = [locks EXCEPT ![lock[r]].shared = (@ + SharedMod - 1) % SharedMod]
    /\ Goto(r, "idle")
    /\ UNCHANGED <<current, lock, deaths, moved>>

-----------------------------------------------------------------------------
(* with_write_lock()                                                       *)

lock_exclusive(w) ==
    /\ Waiting(w)
    /\ Lockable(Mutex(w))
    /\ locks' = [locks EXCEPT ![lock[w]].exclusive = TRUE]
    /\ Goto(w, "inside")
    /\ UNCHANGED <<current, lock, deaths, moved>>

(* A timeout, and next_lock(): the number first, then the mutex under the  *)
(* number as it is by then, and then the lock object.                      *)
next_lock(w) ==
    /\ pc[w] = "timed"
    /\ ~Lockable(Mutex(w))
    /\ current' = (current + 1) % CounterMod
    /\ moved' = TRUE
    /\ Goto(w, "construct")
    /\ UNCHANGED <<locks, lock, deaths>>

(* Mutant: the mutex is left as it is. *)
ConstructNothing(w) ==
    /\ pc[w] = "construct"
    /\ Goto(w, "reload")
    /\ UNCHANGED <<current, locks, lock, deaths, moved>>

Construct(w) ==
    /\ pc[w] = "construct"
    /\ locks' = [locks EXCEPT ![current_lock] = Free]
    /\ Goto(w, "reload")
    /\ UNCHANGED <<current, lock, deaths, moved>>

Reload(w) ==
    /\ pc[w] = "reload"
    /\ lock' = [lock EXCEPT ![w] = current_lock]
    /\ Goto(w, "timed")
    /\ UNCHANGED <<current, locks, deaths, moved>>

unlock(w) ==
    /\ pc[w] = "inside"
    /\ locks' = [locks EXCEPT ![lock[w]].exclusive = FALSE]
    /\ Goto(w, "idle")
    /\ UNCHANGED <<current, lock, deaths, moved>>

-----------------------------------------------------------------------------
(* A process dies and starts again; the mapped file keeps its locks.       *)
Die ==
    /\ deaths < MaxDeaths
    /\ deaths' = deaths + 1
    /\ \E process \in {{r} : r \in Readers} \cup {Writers} :
          pc' = [t \in Threads |-> IF t \in process THEN "idle" ELSE pc[t]]
    /\ UNCHANGED <<current, locks, lock, moved>>

ReadStep(r)  == lock_sharable(r) \/ ReadThrows(r) \/ unlock_sharable(r)
WriteStep(w) == lock_exclusive(w) \/ next_lock(w) \/ Construct(w) \/ Reload(w) \/ unlock(w)

Next ==
    \/ \E t \in Threads, wait \in {"timed", "block"} : Begin(t, wait)
    \/ \E r \in Readers : ReadStep(r)
    \/ \E w \in Writers : WriteStep(w)
    \/ Die

Spec == Init /\ [][Next]_vars

(* A thread inside a call goes on: it takes a mutex that stays free, its   *)
(* wait runs out while the mutex stays locked, its callback returns.       *)
FairSpec == /\ Spec
            /\ \A r \in Readers : WF_vars(ReadStep(r))
            /\ \A w \in Writers : WF_vars(WriteStep(w))

-----------------------------------------------------------------------------
TypeOK ==
    /\ current \in 0 .. CounterMod - 1
    /\ locks \in [Slots -> [exclusive : BOOLEAN, shared : 0 .. SharedMod - 1]]
    /\ pc \in [Threads -> {"idle", "timed", "block", "inside"}
                            \cup {"construct", "reload"}]
    /\ \A r \in Readers : pc[r] \notin {"construct", "reload"}
    /\ lock \in [Threads -> Slots]
    /\ deaths \in 0 .. MaxDeaths /\ moved \in BOOLEAN

Inside(t) == pc[t] = "inside"

(* Until a writer has given up waiting, a write callback runs alone.       *)
(* Afterwards it may not: the old mutex and the new one exclude nobody     *)
(* from each other.                                                        *)
ExclusiveUntilTimeout ==
    ~moved => \A w \in Writers : \A t \in Threads \ {w} : ~(Inside(w) /\ Inside(t))

(* The mutexes are in the states their users left them in.                 *)
LocksSound == TypeOK /\ ExclusiveUntilTimeout

(* A mutex left locked by a dead process does not hold writers up for      *)
(* ever: while some writer with a timeout waits, callbacks keep beginning. *)
Enters == \E t \in Threads : ~Inside(t) /\ pc'[t] = "inside"
WaitingWriter == \E w \in Writers : pc[w] \in {"timed", "construct", "reload"}
DeadHoldersPassed == []<>~WaitingWriter \/ []<><<Enters>>_vars
=============================================================================
