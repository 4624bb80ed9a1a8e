---------------------------- MODULE GenericIndex ----------------------------
(***************************************************************************)
(* chainbase::generic_index (chainbase/chainbase.hpp): objects in a        *)
(* boost::multi_index_container under a stack of undo states.  An undo     *)
(* state records no snapshot but the difference to it: the old values of   *)
(* modified and of removed objects, and the ids of new ones.               *)
(*                                                                         *)
(* An object is its id and one value.  With Unique, the container has a    *)
(* unique index over the value besides the one over the id: an emplace     *)
(* that would break it does nothing, and a modify that would break it      *)
(* erases the object (both as boost::multi_index documents).               *)
(***************************************************************************)
EXTENDS Integers, Sequences, FiniteSets, SequencesExt

CONSTANTS
    Values,
    Unique,         \* is there a unique index over the value?
    Revisions,      \* arguments of set_revision(), as int64_t
    MaxId,          \* bound: ids an instance hands out
    MaxDepth,       \* bound: undo states on the stack
    MaxRevision     \* bound: sessions started

ASSUME IndexAssumption == /\ Unique \in BOOLEAN
                          /\ Revisions \subseteq Int
                          /\ {MaxId, MaxDepth, MaxRevision} \subseteq Nat

Ids == 0 .. MaxId - 1

VARIABLES
    objects,    \* _indices: a function from the ids in use to values
    next_id,    \* _next_id
    stack,      \* _stack, back last
    revision,   \* _revision
    fault       \* "threw": an exception left modify() or undo() half done;
                \* "undefined": end() was dereferenced or erased

vars == <<objects, next_id, stack, revision, fault>>

Partial(S, T) == UNION {[D -> T] : D \in SUBSET S}

UndoState == [old_values : Partial(Ids, Values), removed_values : Partial(Ids, Values),
              new_ids : SUBSET Ids, old_next_id : 0 .. MaxId, revision : Int]

Init ==
    /\ objects = <<>>
    /\ next_id = 0
    /\ stack = <<>>
    /\ revision = 0
    /\ fault = "none"

With(f, i, v)  == [j \in DOMAIN f \cup {i} |-> IF j = i THEN v ELSE f[j]]
Without(f, S)  == [j \in DOMAIN f \ S |-> f[j]]
Taken(f, i, v) == Unique /\ \E j \in DOMAIN f \ {i} : f[j] = v

enabled == stack # <<>>
head == Last(stack)
SetHead(s) == stack' = Front(stack) \o <<s>>

(***************************************************************************)
(* The three hooks: what a change adds to the undo state on top.           *)
(***************************************************************************)
on_create(id) == [head EXCEPT !.new_ids = @ \cup {id}]

on_modify(id) ==
    IF id \in head.new_ids \/ id \in DOMAIN head.old_values
    THEN head
    ELSE [head EXCEPT !.old_values = With(@, id, objects[id])]

(* Mutants: the old value stays recorded too; a new id stays recorded. *)
on_removeTwice(id) ==
    IF id \in head.new_ids
    THEN [head EXCEPT !.new_ids = @ \ {id}]
    ELSE IF id \in DOMAIN head.old_values
    THEN [head EXCEPT !.removed_values = With(@, id, head.old_values[id])]
    ELSE [head EXCEPT !.removed_values = With(@, id, objects[id])]

on_removeKeepsNew(id) ==
    IF id \in head.new_ids THEN head
    ELSE IF id \in DOMAIN head.old_values
    THEN [head EXCEPT !.removed_values = With(@, id, head.old_values[id]),
                      !.old_values = Without(@, {id})]
    ELSE [head EXCEPT !.removed_values = With(@, id, objects[id])]

on_remove(id) ==
    IF id \in head.new_ids
    THEN [head EXCEPT !.new_ids = @ \ {id}]
    ELSE IF id \in DOMAIN head.old_values
    THEN [head EXCEPT !.removed_values = With(@, id, head.old_values[id]),
                      !.old_values = Without(@, {id})]
    ELSE IF id \in DOMAIN head.removed_values
    THEN head
    ELSE [head EXCEPT !.removed_values = With(@, id, objects[id])]

(* After undefined behaviour nothing is modelled.                          *)
Defined == fault # "undefined"

Record(s) == IF enabled THEN SetHead(s) ELSE stack' = stack

(* A call that violates uniqueness throws and changes nothing.             *)
emplace(v) ==
    /\ Defined
    /\ next_id < MaxId
    /\ next_id \notin DOMAIN objects
    /\ ~Taken(objects, next_id, v)
    /\ objects' = With(objects, next_id, v)
    /\ next_id' = next_id + 1
    /\ Record(on_create(next_id))
    /\ UNCHANGED <<revision, fault>>

modify(id, v) ==
    /\ Defined
    /\ id \in DOMAIN objects
    /\ Record(on_modify(id))
    /\ IF Taken(objects, id, v)
       THEN /\ objects' = Without(objects, {id})
            /\ fault' = "threw"
       ELSE /\ objects' = With(objects, id, v)
            /\ fault' = fault
    /\ UNCHANGED <<next_id, revision>>

(* remove() of an object, and remove_object() of an id that exists.        *)
remove(id) ==
    /\ Defined
    /\ id \in DOMAIN objects
    /\ Record(on_remove(id))
    /\ objects' = Without(objects, {id})
    /\ UNCHANGED <<next_id, revision, fault>>

start_undo_session ==
    /\ Defined
    /\ Len(stack) < MaxDepth
    /\ revision < MaxRevision
    /\ stack' = Append(stack, [old_values |-> <<>>, removed_values |-> <<>>,
                               new_ids |-> {}, old_next_id |-> next_id,
                               revision |-> revision + 1])
    /\ revision' = revision + 1
    /\ UNCHANGED <<objects, next_id, fault>>

(***************************************************************************)
(* undo() works through old_values, new_ids and removed_values in the      *)
(* order of ids, and stops where an exception is thrown.  The index that   *)
(* is being rebuilt is idx = [objects, fault].                             *)
(***************************************************************************)
Revert(idx, id, v) ==
    IF idx.fault # "none" THEN idx
    ELSE IF id \notin DOMAIN idx.objects THEN [idx EXCEPT !.fault = "undefined"]
    ELSE IF Taken(idx.objects, id, v)
    THEN [objects |-> Without(idx.objects, {id}), fault |-> "threw"]
    ELSE [idx EXCEPT !.objects = With(@, id, v)]

EraseNew(idx, id) ==
    IF idx.fault # "none" THEN idx
    ELSE IF id \notin DOMAIN idx.objects THEN [idx EXCEPT !.fault = "undefined"]
    ELSE [idx EXCEPT !.objects = Without(@, {id})]

Reinsert(idx, id, v) ==
    IF idx.fault # "none" THEN idx
    ELSE IF id \in DOMAIN idx.objects \/ Taken(idx.objects, id, v)
    THEN [idx EXCEPT !.fault = "threw"]
    ELSE [idx EXCEPT !.objects = With(@, id, v)]

Visit(container, idx, s, id) ==
    CASE container = "old_values" /\ id \in DOMAIN s.old_values ->
            Revert(idx, id, s.old_values[id])
      [] container = "new_ids" /\ id \in s.new_ids ->
            EraseNew(idx, id)
      [] container = "removed_values" /\ id \in DOMAIN s.removed_values ->
            Reinsert(idx, id, s.removed_values[id])
      [] OTHER -> idx

(* One of the three loops of undo().                                       *)
ForEach(container, idx, s) ==
    LET done[n \in 0 .. MaxId] ==
          IF n = 0 THEN idx ELSE Visit(container, done[n - 1], s, n - 1)
    IN  done[MaxId]

(* What the first two of them make of the index, and all three.            *)
Erased(state, s) ==
    ForEach("new_ids",
            ForEach("old_values", [objects |-> state.objects, fault |-> "none"], s), s)
Rebuilt(state, s) == ForEach("removed_values", Erased(state, s), s)

(* Mutant: the state stays on the stack.                                   *)
UndoTopKept(state) ==
    LET s == Last(state.stack)
    IN [state EXCEPT !.objects = Rebuilt(state, s).objects, !.next_id = s.old_next_id]

(* _next_id is restored between the erasures and the reinsertions.         *)
UndoTop(state) ==
    LET s == Last(state.stack)
        erased == Erased(state, s)
        all == Rebuilt(state, s)
    IN [objects  |-> all.objects,
        next_id  |-> IF erased.fault = "none" THEN s.old_next_id ELSE state.next_id,
        stack    |-> IF all.fault = "none" THEN Front(state.stack) ELSE state.stack,
        revision |-> IF all.fault = "none" THEN state.revision - 1 ELSE state.revision,
        fault    |-> IF all.fault = "none" THEN state.fault ELSE all.fault,
        stopped  |-> all.fault # "none"]

Now == [objects |-> objects, next_id |-> next_id, stack |-> stack,
        revision |-> revision, fault |-> fault, stopped |-> FALSE]

Become(state) ==
    /\ objects' = state.objects
    /\ next_id' = state.next_id
    /\ stack' = state.stack
    /\ revision' = state.revision
    /\ fault' = state.fault

undo == Defined /\ enabled /\ Become(UndoTop(Now))

(* undo() again and again, until the stack is empty or an exception ends it. *)
Again(state) == IF state.stopped THEN state ELSE UndoTop(state)

Undone ==
    LET after[n \in 0 .. Len(stack)] == IF n = 0 THEN Now ELSE Again(after[n - 1])
    IN  after[Len(stack)]

undo_all == Defined /\ enabled /\ Become(Undone)

(* Mutant: an object modified, then removed keeps its second old value. *)
MergeLatest(prev, s) ==
    LET old == [i \in DOMAIN prev.old_values \cup (DOMAIN s.old_values \ prev.new_ids) |->
                  IF i \in DOMAIN prev.old_values THEN prev.old_values[i]
                  ELSE s.old_values[i]]
        new == prev.new_ids \cup s.new_ids
        gone == DOMAIN s.removed_values \ new
    IN [prev EXCEPT
          !.old_values = Without(old, gone),
          !.new_ids = new \ DOMAIN s.removed_values,
          !.removed_values = [i \in DOMAIN prev.removed_values \cup gone |->
              IF i \in DOMAIN prev.removed_values THEN prev.removed_values[i]
              ELSE s.removed_values[i]]]

(***************************************************************************)
(* squash() merges the top state into the one below it.                    *)
(***************************************************************************)
Merge(prev, s) ==
    LET merged == {i \in DOMAIN s.old_values :
                      i \notin prev.new_ids /\ i \notin DOMAIN prev.old_values}
        old == [i \in DOMAIN prev.old_values \cup merged |->
                  IF i \in merged THEN s.old_values[i] ELSE prev.old_values[i]]
        new == prev.new_ids \cup s.new_ids
        gone == DOMAIN s.removed_values \ new
    IN [prev EXCEPT
          !.old_values = Without(old, gone),
          !.new_ids = new \ DOMAIN s.removed_values,
          !.removed_values = [i \in DOMAIN prev.removed_values \cup gone |->
              IF i \in DOMAIN prev.removed_values THEN prev.removed_values[i]
              ELSE IF i \in DOMAIN old THEN old[i] ELSE s.removed_values[i]]]

squash ==
    /\ Defined
    /\ enabled
    /\ IF Len(stack) = 1
       THEN stack' = <<>> /\ revision' = revision
       ELSE /\ stack' = SubSeq(stack, 1, Len(stack) - 2)
                        \o <<Merge(stack[Len(stack) - 1], head)>>
            /\ revision' = revision - 1
    /\ UNCHANGED <<objects, next_id, fault>>

(* The states up to the first one with a later revision are dropped.       *)
commit(r) ==
    LET dropped == {i \in 1 .. Len(stack) : \A j \in 1 .. i : stack[j].revision <= r}
    IN /\ Defined
       /\ dropped # {}
       /\ stack' = SubSeq(stack, Cardinality(dropped) + 1, Len(stack))
       /\ UNCHANGED <<objects, next_id, revision, fault>>

set_revision(r) ==
    /\ Defined
    /\ ~enabled
    /\ revision' = r
    /\ UNCHANGED <<objects, next_id, stack, fault>>

Next == \/ \E v \in Values : emplace(v)
        \/ \E id \in Ids, v \in Values : modify(id, v)
        \/ \E id \in Ids : remove(id)
        \/ start_undo_session
        \/ undo
        \/ undo_all
        \/ squash
        \/ \E r \in -MaxRevision .. MaxRevision : commit(r)
        \/ \E r \in Revisions : set_revision(r)

Spec == Init /\ [][Next]_vars

-----------------------------------------------------------------------------
TypeOK ==
    /\ objects \in Partial(Ids, Values)
    /\ next_id \in 0 .. MaxId
    /\ stack \in Seq(UndoState)
    /\ revision \in Int
    /\ fault \in {"none", "threw", "undefined"}

(* The content that undoing one state leads to, by what the state records. *)
Restored(c, s) ==
    LET kept == Without(c.objects, s.new_ids \cup DOMAIN s.old_values
                                            \cup DOMAIN s.removed_values)
        All == DOMAIN kept \cup DOMAIN s.old_values \cup DOMAIN s.removed_values
    IN [objects |-> [i \in All |->
                        IF i \in DOMAIN s.old_values THEN s.old_values[i]
                        ELSE IF i \in DOMAIN s.removed_values THEN s.removed_values[i]
                        ELSE kept[i]],
        next_id |-> s.old_next_id]

Content == [objects |-> objects, next_id |-> next_id]

(* The snapshots the stack of differences stands for, oldest first.        *)
Snapshots ==
    LET below[i \in 1 .. Len(stack)] ==
            Restored(IF i = Len(stack) THEN Content ELSE below[i + 1], stack[i])
    IN [i \in 1 .. Len(stack) |-> below[i]]

Log == INSTANCE UndoLog WITH
           content     <- Content,
           snapshots   <- Snapshots,
           interrupted <- fault # "none",
           spoiled     <- fault = "undefined"

(* No change disturbs what any session would restore, undo() restores it,  *)
(* and squash() and commit() drop exactly the states they name.  Once an   *)
(* exception has left modify(), undo() or undo_all() half done, undoing    *)
(* may leave another content, but what the remaining sessions would        *)
(* restore is still there.                                                 *)
ImplementsUndoLog == Log!Spec

(* commit(r) and the database compare revisions: the states on the stack   *)
(* carry consecutive ones, and the last is the current revision.           *)
RevisionsContiguous ==
    \A i \in 1 .. Len(stack) : stack[i].revision = revision - Len(stack) + i

(* An id is recorded as new exactly if it was handed out since the session *)
(* began, and an object is recorded in one way only.                       *)
RecordsPartition ==
    \A i \in 1 .. Len(stack) :
       LET s == stack[i] IN
       /\ s.new_ids \subseteq s.old_next_id .. next_id - 1
       /\ DOMAIN s.old_values \cup DOMAIN s.removed_values \subseteq 0 .. s.old_next_id - 1
       /\ DOMAIN s.old_values \cap DOMAIN s.removed_values = {}

(* The undo states say which objects changed since when.                   *)
LogSound == TypeOK /\ RevisionsContiguous /\ RecordsPartition

(* The assertions of squash(): an object removed in one state is not       *)
(* modified or removed again in the next.                                  *)
SquashAssertions ==
    Len(stack) > 1 =>
       LET prev == stack[Len(stack) - 1] IN
       (DOMAIN head.old_values \cup DOMAIN head.removed_values)
           \cap DOMAIN prev.removed_values = {}

(* undo() and its iterators: end() is dereferenced only after an earlier   *)
(* exception left the index and its records at odds.                       *)
UndefinedOnlyAfterThrow == [][fault' = "undefined" => fault = "threw"]_vars

(* The comment on undo(): it restores the state prior to the session.      *)
UndoRestores == [][undo /\ fault = "none" => Content' = Last(Snapshots)]_vars
=============================================================================
