---------------------------- MODULE ChainbaseMC ----------------------------
(***************************************************************************)
(* Instances for TLC of the two parts of chainbase::database that work on  *)
(* the mapped file: the sessions over its indices, and the locks.  Each    *)
(* has a world of its own, in which the variables of the other part keep   *)
(* their first value.                                                      *)
(***************************************************************************)
EXTENDS Database

CONSTANTS Readers, Writers, NumLocks, CounterMod, SharedMod, MaxDeaths

VARIABLES world, current, locks, pc, lock, deaths, moved

Locks == INSTANCE RWLocks
ASSUME LocksAssumption == Locks!LockAssumption

locking == <<current, locks, pc, lock, deaths, moved>>

InitMC ==
    /\ Init /\ Locks!Init
    /\ \/ world = "sessions"
       \/ world = "locks" /\ \A i \in Indices : index[i].content = CHOOSE v \in Values : TRUE

(* Bound: once nothing is promised of the sessions, they are not followed. *)
Promised == torn # "lost"

NextMC ==
    \/ world = "sessions" /\ Promised /\ Next /\ UNCHANGED <<world, locking>>
    \/ world = "locks" /\ Locks!Next /\ UNCHANGED <<world, vars>>

varsMC == <<world, vars, locking>>

(* The fairness is that of RWLocks.                                        *)
SpecMC ==
    /\ InitMC /\ [][NextMC]_varsMC
    /\ \A r \in Readers : WF_locking(world = "locks" /\ Locks!ReadStep(r))
    /\ \A w \in Writers : WF_locking(world = "locks" /\ Locks!WriteStep(w))

(* Callbacks of writers run alone until one gives up waiting.              *)
LocksSound == Locks!LocksSound

(* Writers with a time limit get past the locks of the dead.               *)
DeadHoldersPassed == Locks!DeadHoldersPassed
=============================================================================
