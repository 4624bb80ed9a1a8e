------------------------------ MODULE Database ------------------------------
(***************************************************************************)
(* chainbase::database (chainbase/chainbase.hpp, chainbase.cpp): sessions, *)
(* undo, squash and commit over several indices.  The database keeps no    *)
(* undo state of its own: an operation calls each index in turn, and what  *)
(* holds the indices together is only that all of them are always called.  *)
(* A call may throw and end the loop before it has reached every index:    *)
(* undo() when a value cannot be put back, any call that allocates when    *)
(* the shared memory is full.  The process may die between two calls; the  *)
(* indices are in a mapped file and stay.                                  *)
(*                                                                         *)
(* One index is what GenericIndex refines: its content, the snapshots and  *)
(* revisions of its undo states, and its revision.                         *)
(***************************************************************************)
EXTENDS Integers, Sequences, FiniteSets, SequencesExt

CONSTANTS
    N,              \* indices, in the order of _index_list
    Values,         \* contents of an index
    Handles,        \* session objects a client can hold
    Revisions,      \* arguments of set_revision(), as int64_t
    MaxDepth,       \* bound: undo states on a stack
    MaxRevision,    \* bound: sessions started
    MaxCrashes      \* bound: times the process dies

ASSUME DatabaseAssumption == /\ N \in Nat \ {0}
                             /\ Revisions \subseteq Int
                             /\ {MaxDepth, MaxRevision, MaxCrashes} \subseteq Nat

Indices == 1 .. N

VARIABLES
    index,      \* index[i]: what the mapped file holds of index i
    session,    \* session[h]: the index sessions of h with _apply set
    op,         \* the operation in progress
    before,     \* index when it began (history)
    faulty,     \* indices in which an exception left modify() or undo() half done
    torn,       \* "recoverable": the indices disagree until an undo_all();
                \* "lost": nothing is promised any more (history)
    base,       \* what undo_all() should restore (history)
    crashes     \* times the process died (history)

vars == <<index, session, op, before, faulty, torn, base, crashes>>

Idle == [kind |-> "idle", at |-> 0, arg |-> 0, done |-> {}]
Kinds == {"start", "unwind", "undo", "squash", "commit", "undo_all", "set_revision",
          "session_undo", "session_squash", "damaged"}

State == [content : Values, revision : Int]

Init ==
    /\ \E v \in [Indices -> Values] :
          /\ index = [i \in Indices |-> [content |-> v[i], stack |-> <<>>, revision |-> 0]]
          /\ base = [i \in Indices |-> [content |-> v[i], revision |-> 0]]
    /\ session = [h \in Handles |-> {}]
    /\ op = Idle
    /\ before = index
    /\ faulty = {}
    /\ torn = "no"
    /\ crashes = 0

Oldest(x) ==
    [content  |-> IF x.stack = <<>> THEN x.content ELSE x.stack[1].content,
     revision |-> x.revision - Len(x.stack)]

(***************************************************************************)
(* The operations of one index.                                            *)
(***************************************************************************)
Started(x) ==
    [x EXCEPT !.stack = Append(@, [content |-> x.content, revision |-> x.revision + 1]),
              !.revision = @ + 1]

Undone(x) ==
    IF x.stack = <<>> THEN x
    ELSE [content |-> Last(x.stack).content, stack |-> Front(x.stack),
          revision |-> x.revision - 1]

(* Mutant: the newest undo state is restored for the oldest.               *)
UndoneAllToNewest(x) ==
    [content |-> IF x.stack = <<>> THEN x.content ELSE Last(x.stack).content,
     stack |-> <<>>, revision |-> x.revision - Len(x.stack)]

UndoneAll(x) == [content |-> Oldest(x).content, stack |-> <<>>,
                 revision |-> x.revision - Len(x.stack)]

Squashed(x) ==
    IF x.stack = <<>> THEN x
    ELSE [x EXCEPT !.stack = Front(@), !.revision = IF Len(x.stack) = 1 THEN @ ELSE @ - 1]

Committed(x, r) ==
    LET dropped == {i \in 1 .. Len(x.stack) : \A j \in 1 .. i : x.stack[j].revision <= r}
    IN [x EXCEPT !.stack = SubSeq(@, Cardinality(dropped) + 1, Len(@))]

(* Mutant: an undo state is popped before its values are back.             *)
InterruptedPopped(x, n, c) == [content |-> c, stack |-> SubSeq(x.stack, 1, n - 1),
                               revision |-> x.revision - (Len(x.stack) - n) - 1]

(* An exception ends undoing with the oldest n undo states left.  It       *)
(* leaves any content, but spares what these restore.                      *)
Interrupted(x, n, c) == [content |-> c, stack |-> SubSeq(x.stack, 1, n),
                         revision |-> x.revision - (Len(x.stack) - n)]

(* Is there anything to put back where undo() comes to the nth state?      *)
Differs(x, n) ==
    x.stack[n].content # IF n = Len(x.stack) THEN x.content ELSE x.stack[n + 1].content

(* What operation o makes of index i, given the contents x of it.          *)
Call(o, i, x) ==
    CASE o.kind = "undo"               -> Undone(x)
      [] o.kind \in {"unwind", "session_undo"} -> IF i \in o.done THEN Undone(x) ELSE x
      [] o.kind = "squash"             -> Squashed(x)
      [] o.kind = "session_squash"     -> IF i \in o.done THEN Squashed(x) ELSE x
      [] o.kind = "commit"             -> Committed(x, o.arg)
      [] o.kind = "undo_all"           -> UndoneAll(x)

-----------------------------------------------------------------------------
(* Clients                                                                 *)

Undos == {"undo", "undo_all", "session_undo"}

(* What is left of a session whose undo() threw reaches some indices only. *)
(* Indices that disagree may be undone further; anything else is lost.     *)
TornBy(kind, done) ==
    IF kind \in {"session_undo", "session_squash"} /\ done # Indices /\ torn = "no"
    THEN IF kind = "session_undo" THEN "recoverable" ELSE "lost"
    ELSE IF torn = "recoverable" /\ kind \notin Undos THEN "lost" ELSE torn

Begin(kind, arg, done) ==
    /\ op = Idle
    /\ op' = [kind |-> kind, at |-> 1, arg |-> arg, done |-> done]
    /\ before' = index
    /\ torn' = TornBy(kind, done)
    /\ UNCHANGED <<index, faulty, base, crashes>>

Keep == UNCHANGED session
Release(h) == session' = [session EXCEPT ![h] = {}]

start_undo_session(h) ==
    /\ session[h] = {}
    /\ \A i \in Indices : /\ Len(index[i].stack) < MaxDepth
                          /\ index[i].revision < MaxRevision
    /\ Begin("start", h, {})
    /\ Keep

undo     == Begin("undo", 0, {}) /\ Keep
squash   == Begin("squash", 0, {}) /\ Keep
undo_all == Begin("undo_all", 0, {}) /\ Keep
commit(r) == Begin("commit", r, {}) /\ Keep
set_revision(r) == Begin("set_revision", r, {}) /\ Keep

(* session::undo() and ~session(); session::squash(); session::push()      *)
session_undo(h) ==
    /\ session[h] # {}
    /\ Begin("session_undo", h, session[h])
    /\ Release(h)

session_squash(h) ==
    /\ session[h] # {}
    /\ Begin("session_squash", h, session[h])
    /\ Release(h)

session_push(h) ==
    /\ op = Idle
    /\ session[h] # {}
    /\ Release(h)
    /\ UNCHANGED <<index, op, before, faulty, torn, base, crashes>>

Bases(x) == [i \in Indices |-> Oldest(x[i])]

(* create, modify or remove: the content of one index changes.  A modify   *)
(* that breaks uniqueness erases the object and throws.                    *)
Change(i, v) ==
    /\ op = Idle
    /\ v # index[i].content
    /\ index' = [index EXCEPT ![i].content = v]
    /\ faulty' \in {faulty, faulty \cup {i}}
    /\ torn' = IF torn = "recoverable" THEN "lost" ELSE torn
    /\ base' = IF torn' = "lost" THEN base ELSE Bases(index')
    /\ UNCHANGED <<session, op, before, crashes>>

-----------------------------------------------------------------------------
(* The loops over _index_list and _index_sessions                          *)

Now(kind) == op.kind = kind

(* The call was the last one: the operation is over.                       *)
Over == /\ op' = Idle
        /\ torn' = IF torn = "recoverable" /\ Now("undo_all") THEN "no" ELSE torn
        /\ base' = IF torn' = "lost" THEN base ELSE Bases(index')
        /\ UNCHANGED <<before, faulty, crashes>>

More == /\ op' = [op EXCEPT !.at = @ + 1]
        /\ UNCHANGED <<before, faulty, torn, base, crashes>>

Advance == IF op.at = N THEN Over ELSE More

CallIndex ==
    /\ op.kind \in {"unwind", "undo", "squash", "commit", "undo_all",
                    "session_undo", "session_squash"}
    /\ index' = [index EXCEPT ![op.at] = Call(op, op.at, @)]
    /\ Advance
    /\ Keep

(* The next call undoes, or merges, undo states of its index.              *)
Undoing == /\ op.kind \in Undos
           /\ Now("session_undo") => op.at \in op.done
           /\ index[op.at].stack # <<>>
Merging == /\ op.kind \in {"squash", "session_squash"}
           /\ Now("session_squash") => op.at \in op.done
           /\ Len(index[op.at].stack) > 1

(* It throws: the indices after this one are not reached.  If the first    *)
(* one throws before it has undone a state, they are still in step.        *)
UndoThrows(n, c) ==
    /\ Undoing
    /\ Now("undo_all") \/ n = Len(index[op.at].stack)
    /\ op.at \in faulty \/ Differs(index[op.at], n)
    /\ index' = [index EXCEPT ![op.at] = Interrupted(@, n, c)]
    /\ faulty' = faulty \cup {op.at}
    /\ op' = Idle
    /\ torn' = IF torn = "no" /\ (op.at # 1 \/ n # Len(index[op.at].stack))
               THEN "recoverable" ELSE torn
    /\ UNCHANGED <<before, base>>

Throws == \E n \in 1 .. Len(index[op.at].stack), c \in Values : UndoThrows(n, c)

(* The client has the exception.  A session object whose undo() threw      *)
(* still has the index sessions that were not undone.                      *)
CallThrows ==
    /\ op # Idle
    /\ Throws
    /\ session' = IF Now("session_undo")
                  THEN [session EXCEPT ![op.arg] = {j \in op.done : j >= op.at}]
                  ELSE session
    /\ UNCHANGED crashes

(* In ~session() an exception ends the process.                            *)
DestructorThrows ==
    /\ Now("session_undo")
    /\ crashes < MaxCrashes
    /\ Throws
    /\ session' = [h \in Handles |-> {}]
    /\ crashes' = crashes + 1

(* After an exception undo() may dereference end(), and a squash() that    *)
(* runs out of memory leaves its index two undo states that record the     *)
(* same changes.  Nothing is modelled after either.                        *)
CallDamages ==
    /\ op # Idle
    /\ (Undoing /\ op.at \in faulty) \/ Merging
    /\ op' = [op EXCEPT !.kind = "damaged"]
    /\ torn' = "lost"
    /\ UNCHANGED <<index, session, before, faulty, base, crashes>>

(* A session of revision -1 is taken for a disabled one: it undoes nothing *)
(* when it goes.  Only set_revision(2^64 - 2) leads there.                 *)
Sentinel == -1

StartIndex ==
    LET started == Started(index[op.at])
        done == op.done \cup (IF started.revision = Sentinel THEN {} ELSE {op.at})
    IN
    /\ Now("start")
    /\ index' = [index EXCEPT ![op.at] = started]
    /\ IF op.at = N
       THEN Over /\ session' = [session EXCEPT ![op.arg] = done]
       ELSE /\ op' = [op EXCEPT !.at = @ + 1, !.done = done]
            /\ UNCHANGED <<session, before, faulty, torn, base, crashes>>

(* Mutant: the sessions begun so far are left.                             *)
StartThrowsUndoingNothing ==
    /\ Now("start")
    /\ UNCHANGED <<index, session>>
    /\ Over

(* The shared memory is full: the sessions begun so far are destroyed.     *)
StartThrows ==
    /\ Now("start")
    /\ op' = [op EXCEPT !.kind = "unwind", !.at = 1]
    /\ UNCHANGED <<index, session, before, faulty, torn, base, crashes>>

SetRevision ==
    /\ Now("set_revision")
    /\ IF index[op.at].stack # <<>>
       THEN index' = index /\ Over
       ELSE index' = [index EXCEPT ![op.at].revision = op.arg] /\ Advance
    /\ Keep

(***************************************************************************)
(* The process dies and starts again.  Session objects are gone, without   *)
(* their destructors having run; what an operation has done to some of the *)
(* indices stays.                                                          *)
(***************************************************************************)
Half == op # Idle /\ index # before

(* Half an undo or a half start can be undone; half a commit cannot, nor   *)
(* half a squash of the only undo state, which is a commit.                *)
Undoable == \/ op.kind \in {"start", "unwind", "undo", "undo_all", "session_undo"}
            \/ /\ op.kind \in {"squash", "session_squash"}
               /\ \A i \in Indices : Len(before[i].stack) > 1

Die ==
    /\ op.kind # "damaged"
    /\ crashes < MaxCrashes
    /\ crashes' = crashes + 1
    /\ op' = Idle
    /\ session' = [h \in Handles |-> {}]
    /\ torn' = IF ~Half THEN torn
               ELSE IF Undoable /\ torn # "lost" THEN "recoverable"
               ELSE "lost"
    /\ UNCHANGED <<index, before, faulty, base>>

Next ==
    \/ \E h \in Handles : \/ start_undo_session(h) \/ session_undo(h)
                          \/ session_squash(h) \/ session_push(h)
    \/ undo \/ squash \/ undo_all
    \/ \E r \in -MaxRevision .. MaxRevision : commit(r)
    \/ \E r \in Revisions : set_revision(r)
    \/ \E i \in Indices, v \in Values : Change(i, v)
    \/ CallIndex \/ CallThrows \/ DestructorThrows \/ CallDamages
    \/ StartIndex \/ StartThrows \/ SetRevision
    \/ Die

Spec == Init /\ [][Next]_vars

-----------------------------------------------------------------------------
Stacked == [content : Values, revision : Int]

TypeOK ==
    /\ index \in [Indices -> [content : Values, stack : Seq(Stacked), revision : Int]]
    /\ session \in [Handles -> SUBSET Indices]
    /\ op.kind \in Kinds \cup {"idle"} /\ op.at \in 0 .. N /\ op.done \subseteq Indices
    /\ faulty \subseteq Indices
    /\ torn \in {"no", "recoverable", "lost"}
    /\ crashes \in 0 .. MaxCrashes

StackRevisions(x) == [d \in DOMAIN x.stack |-> x.stack[d].revision]

(* Between operations all indices have the same revision and the same undo *)
(* states, however often changes, session starts or the first call of an   *)
(* operation threw: they part only when a later undo() throws or the       *)
(* process dies half way, and the next undo_all() that returns brings them *)
(* together again.                                                         *)
Aligned == op = Idle /\ torn = "no" =>
              \A i, j \in Indices : /\ index[i].revision = index[j].revision
                                    /\ StackRevisions(index[i]) = StackRevisions(index[j])

(* The indices are a database: well-typed, and in step with each other.    *)
InStep == TypeOK /\ Aligned

(* What an undo_all() that returns makes of the indices is one moment of   *)
(* the whole database.  No exception and no death moves it, at any point   *)
(* of any operation but the ones that drop the oldest undo state; an       *)
(* undo_all() that throws can be called again.                             *)
Drops == \/ op.kind \in {"commit", "set_revision"}
         \/ op.kind \in {"squash", "session_squash"} /\ ~Undoable
UndoAllRecovers == torn # "lost" /\ ~Drops => Bases(index) = base

(***************************************************************************)
(* The database implements one undo log over the contents of all indices:  *)
(* an operation takes effect as its last call returns, and a session that  *)
(* could not be started leaves no trace.  An exception or a death half way *)
(* spoils the log until undo_all() has returned.                           *)
(***************************************************************************)
Visible == IF op = Idle THEN index ELSE before
Depth == Len(Visible[1].stack)

Log == INSTANCE UndoLog WITH
           content   <- [i \in Indices |-> Visible[i].content],
           snapshots <- [d \in 1 .. Depth |->
                            [i \in Indices |-> IF d <= Len(Visible[i].stack)
                                               THEN Visible[i].stack[d].content
                                               ELSE Visible[i].content]],
           interrupted <- faulty # {},
           spoiled   <- torn # "no"

ImplementsUndoLog == Log!Spec
=============================================================================
