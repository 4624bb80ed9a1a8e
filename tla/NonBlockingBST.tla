--------------------------- MODULE NonBlockingBST ---------------------------
(***************************************************************************)
(* NonBlockingBST (BST/nbbst.hpp, BST/BST.cpp, BST/BSTclass.h): a leaf     *)
(* oriented search tree with lock-free insertion.  An insertion flags the  *)
(* update word of the leaf's parent with a record of what it is about to   *)
(* do, replaces the leaf by a three-node subtree and takes the flag away;  *)
(* whoever meets the flag completes the recorded insertion first.          *)
(*                                                                         *)
(* Every load and compare_exchange of an update word or a child pointer is *)
(* a step.  Nodes are never freed, so what an attempt allocates but does   *)
(* not publish is left out, and a node is named by the insertion that      *)
(* publishes it.  Two update words are equal when both fields are: the     *)
(* padding of updateRecord is taken to be clear.                           *)
(***************************************************************************)
EXTENDS Integers, FiniteSets

CONSTANTS
    Threads,
    Keys,           \* the arguments of insert() and search()
    Inf1, Inf2,     \* INT_MAX - 1 and INT_MAX
    MaxOps,         \* bound: operations a thread calls
    None            \* nullptr

ASSUME KeyAssumption ==
    /\ Keys \subseteq Int /\ Inf1 \in Int /\ Inf2 \in Int
    /\ Inf1 < Inf2
    /\ \A k \in Keys : k <= Inf2
    /\ MaxOps \in Nat
    /\ None \notin Threads \X Keys

(* The insertion of k by t; bound: a thread inserts a key at most once.    *)
Op == Threads \X Keys

Root     == <<"root">>
MinLeaf  == <<"inf1">>
MaxLeaf  == <<"inf2">>
NewNode(o)     == <<"leaf", o>>
NewSibling(o)  == <<"sibling", o>>
NewInternal(o) == <<"internal", o>>

Leaves    == {MinLeaf, MaxLeaf} \cup {NewNode(o) : o \in Op} \cup {NewSibling(o) : o \in Op}
Internals == {Root} \cup {NewInternal(o) : o \in Op}
Node      == Leaves \cup Internals

IsLeaf(n) == n \in Leaves
Larger(a, b) == IF a < b THEN b ELSE a

UpdateRecord == [isDirty : BOOLEAN, info : Op \cup {None}]
Clean == [isDirty |-> FALSE, info |-> None]

VARIABLES
    data,       \* data[n], Inf2 until n is published
    left,       \* left[n], right[n]: children of an internal node
    right,
    update,     \* update[n]: flag and record of an internal node
    info,       \* info[o]: parent and leaf of insertion o
    pc,
    call,       \* call[t]: the operation t executes
    p, l,       \* the parent and the leaf found by search()
    pupdate,    \* p's update word, read before the child pointer
    helping,    \* the record helpInsert() works on
    done        \* operations completed (a history that bounds the instance)

tree  == <<data, left, right, update, info>>
local == <<pc, call, p, l, pupdate, helping, done>>
vars  == <<tree, local>>

NoInfo == [parent |-> Root, leaf |-> MinLeaf]

Init ==
    /\ data   = [n \in Node |-> IF n = MinLeaf THEN Inf1 ELSE Inf2]
    /\ left   = [n \in Internals |-> MinLeaf]
    /\ right  = [n \in Internals |-> MaxLeaf]
    /\ update = [n \in Internals |-> Clean]
    /\ info   = [o \in Op |-> NoInfo]
    /\ pc      = [t \in Threads |-> "idle"]
    /\ call    = [t \in Threads |-> <<>>]
    /\ p       = [t \in Threads |-> Root]
    /\ l       = [t \in Threads |-> Root]
    /\ pupdate = [t \in Threads |-> Clean]
    /\ helping = [t \in Threads |-> None]
    /\ done    = {}

Key(t) == call[t][2]
Mine(t) == <<t, Key(t)>>
IsInsert(t) == call[t] # <<>> /\ call[t][1] = "insert"

Goto(t, label) == pc' = [pc EXCEPT ![t] = label]

(* search() starts, or insert() starts over, at the root.                  *)
FromRoot(t) == /\ Goto(t, "update")
               /\ l' = [l EXCEPT ![t] = Root]

Invoke(t, kind, k) ==
    /\ pc[t] = "idle"
    /\ <<t, kind, k>> \notin done
    /\ Cardinality({d \in done : d[1] = t}) < MaxOps
    /\ call' = [call EXCEPT ![t] = <<kind, k>>]
    /\ FromRoot(t)
    /\ UNCHANGED <<tree, p, pupdate, helping, done>>

(* p = l; pupdate = l->update                                              *)
ReadUpdate(t) ==
    /\ pc[t] = "update"
    /\ p' = [p EXCEPT ![t] = l[t]]
    /\ pupdate' = [pupdate EXCEPT ![t] = update[l[t]]]
    /\ Goto(t, "child")
    /\ UNCHANGED <<tree, call, l, helping, done>>

Child(n, k) == IF k < data[n] THEN left[n] ELSE right[n]

(* The child pointer is loaded; at a leaf, search() is over, and insert()  *)
(* decides from the leaf and the update word what to do.                   *)
ReadChild(t) ==
    LET c == Child(p[t], Key(t)) IN
    /\ pc[t] = "child"
    /\ l' = [l EXCEPT ![t] = c]
    /\ \/ /\ ~IsLeaf(c)
          /\ Goto(t, "update")
          /\ UNCHANGED helping
       \/ /\ IsLeaf(c)
          /\ ~IsInsert(t)
          /\ Goto(t, IF data[c] = Key(t) THEN "true" ELSE "false")
          /\ UNCHANGED helping
       \/ /\ IsLeaf(c)
          /\ IsInsert(t)
          /\ data[c] = Key(t)
          /\ Goto(t, "false")
          /\ UNCHANGED helping
       \/ /\ IsLeaf(c)
          /\ IsInsert(t)
          /\ data[c] # Key(t)
          /\ pupdate[t].isDirty
          /\ Goto(t, "help")
          /\ helping' = [helping EXCEPT ![t] = pupdate[t].info]
       \/ /\ IsLeaf(c)
          /\ IsInsert(t)
          /\ data[c] # Key(t)
          /\ ~pupdate[t].isDirty
          /\ Goto(t, "flag")
          /\ UNCHANGED helping
    /\ UNCHANGED <<tree, call, p, pupdate, done>>

(* The new subtree, smaller key to the left, and the record that says      *)
(* where it goes.                                                          *)
Publish(o, k, sibling, parent, leaf) ==
    /\ info' = [info EXCEPT ![o] = [parent |-> parent, leaf |-> leaf]]
    /\ data' = [data EXCEPT ![NewNode(o)] = k,
                            ![NewSibling(o)] = sibling,
                            ![NewInternal(o)] = Larger(k, sibling)]
    /\ left'  = [left EXCEPT ![NewInternal(o)] =
                   IF k < sibling THEN NewNode(o) ELSE NewSibling(o)]
    /\ right' = [right EXCEPT ![NewInternal(o)] =
                   IF k < sibling THEN NewSibling(o) ELSE NewNode(o)]

(* Mutant: the flag is stored without comparing. *)
FlagBlindly(t) ==
    /\ pc[t] = "flag"
    /\ update' = [update EXCEPT ![p[t]] = [isDirty |-> TRUE, info |-> Mine(t)]]
    /\ Publish(Mine(t), Key(t), data[l[t]], p[t], l[t])
    /\ helping' = [helping EXCEPT ![t] = Mine(t)]
    /\ Goto(t, "help")
    /\ UNCHANGED <<call, p, l, pupdate, done>>

(* p->update.compare_exchange_strong(pupdate, {true, op}) succeeds, which  *)
(* publishes the new nodes and the record.                                 *)
Flag(t) ==
    /\ pc[t] = "flag"
    /\ update[p[t]] = pupdate[t]
    /\ update' = [update EXCEPT ![p[t]] = [isDirty |-> TRUE, info |-> Mine(t)]]
    /\ Publish(Mine(t), Key(t), data[l[t]], p[t], l[t])
    /\ helping' = [helping EXCEPT ![t] = Mine(t)]
    /\ Goto(t, "help")
    /\ UNCHANGED <<call, p, l, pupdate, done>>

(* Mutant: the same word is expected again. *)
FlagFailsSpins(t) ==
    /\ pc[t] = "flag"
    /\ update[p[t]] # pupdate[t]
    /\ UNCHANGED vars

(* It fails: pupdate now holds p's update word, whose record is helped     *)
(* although it may be complete already.                                    *)
FlagFails(t) ==
    /\ pc[t] = "flag"
    /\ update[p[t]] # pupdate[t]
    /\ helping' = [helping EXCEPT ![t] = update[p[t]].info]
    /\ pupdate' = [pupdate EXCEPT ![t] = update[p[t]]]
    /\ Goto(t, "help")
    /\ UNCHANGED <<tree, call, p, l, done>>

(* CASChild(): the record's leaf is replaced unless somebody has done it.  *)
CASChild(t) ==
    LET o == helping[t]
        parent == info[o].parent
        s == NewInternal(o)
    IN
    /\ pc[t] = "help"
    /\ IF data[s] < data[parent]
       THEN /\ left' = IF left[parent] = info[o].leaf
                       THEN [left EXCEPT ![parent] = s] ELSE left
            /\ UNCHANGED right
       ELSE /\ right' = IF right[parent] = info[o].leaf
                        THEN [right EXCEPT ![parent] = s] ELSE right
            /\ UNCHANGED left
    /\ Goto(t, "clean")
    /\ UNCHANGED <<data, update, info, call, p, l, pupdate, helping, done>>

(* Mutant: the compare_exchange expects a record that is never there. *)
UnflagNever(t) ==
    /\ pc[t] = "clean"
    /\ helping' = [helping EXCEPT ![t] = None]
    /\ IF helping[t] = Mine(t)
       THEN Goto(t, "true") /\ UNCHANGED l
       ELSE FromRoot(t)
    /\ UNCHANGED <<data, left, right, update, info, call, p, pupdate, done>>

(* The flag is cleared if it is still there.  insert() returns after its   *)
(* own insertion and searches again after helping another.                 *)
Unflag(t) ==
    LET o == helping[t]
        parent == info[o].parent
    IN
    /\ pc[t] = "clean"
    /\ update' = IF update[parent] = [isDirty |-> TRUE, info |-> o]
                 THEN [update EXCEPT ![parent].isDirty = FALSE]
                 ELSE update
    /\ helping' = [helping EXCEPT ![t] = None]
    /\ IF o = Mine(t)
       THEN Goto(t, "true") /\ UNCHANGED l
       ELSE FromRoot(t)
    /\ UNCHANGED <<data, left, right, info, call, p, pupdate, done>>

Return(t) ==
    /\ pc[t] \in {"true", "false"}
    /\ done' = done \cup {<<t, call[t][1], Key(t)>>}
    /\ call' = [call EXCEPT ![t] = <<>>]
    /\ p' = [p EXCEPT ![t] = Root]
    /\ l' = [l EXCEPT ![t] = Root]
    /\ pupdate' = [pupdate EXCEPT ![t] = Clean]
    /\ Goto(t, "idle")
    /\ UNCHANGED <<tree, helping>>

Step(t) == \/ ReadUpdate(t) \/ ReadChild(t) \/ Flag(t) \/ FlagFails(t)
           \/ CASChild(t) \/ Unflag(t) \/ Return(t)

Next == \E t \in Threads : \/ Step(t)
                           \/ \E k \in Keys, kind \in {"insert", "search"} :
                                 Invoke(t, kind, k)

Spec == Init /\ [][Next]_vars

(* A thread in an operation is scheduled again and again. *)
FairSpec == Spec /\ \A t \in Threads : WF_vars(Step(t))

-----------------------------------------------------------------------------
TypeOK ==
    /\ data \in [Node -> Int]
    /\ left \in [Internals -> Node] /\ right \in [Internals -> Node]
    /\ update \in [Internals -> UpdateRecord]
    /\ info \in [Op -> [parent : Internals, leaf : Leaves]]
    /\ pc \in [Threads -> {"idle", "update", "child", "flag", "help", "clean",
                          "true", "false"}]
    /\ p \in [Threads -> Internals] /\ l \in [Threads -> Node]
    /\ pupdate \in [Threads -> UpdateRecord]
    /\ helping \in [Threads -> Op \cup {None}]
    /\ \A t \in Threads : pc[t] # "idle" => call[t] \in {"insert", "search"} \X Keys

(* What can be reached from the root: an internal node is linked into the  *)
(* tree exactly when some internal node points to it.                      *)
Children(N) == {left[n] : n \in N} \cup {right[n] : n \in N}
InternalsInTree == {Root} \cup (Children(Internals) \cap Internals)
LeavesInTree == Children(InternalsInTree) \cap Leaves
KeysInTree   == {data[n] : n \in LeavesInTree}
Applied(o)   == NewInternal(o) \in InternalsInTree

(* Where an undisturbed search() for k ends.                               *)
Find(k) == LET end[n \in Node] == IF IsLeaf(n) THEN n ELSE end[Child(n, k)]
           IN end[Root]

(* No key is inserted twice, however insertions and helpers interleave.    *)
OneLeafPerKey == \A m, n \in LeavesInTree : data[m] = data[n] => m = n

(* Every key in the tree is found on its search path, at the only leaf     *)
(* that holds it.                                                          *)
SearchTree == OneLeafPerKey /\ \A k \in KeysInTree : data[Find(k)] = k

(* helpInsert() is never given a null record, even after a failed          *)
(* compare_exchange that found no flag.                                    *)
HelpsSomebody == \A t \in Threads : pc[t] \in {"help", "clean"} => helping[t] # None

(* A flag never outlives the operations: once all have returned, none is   *)
(* left to slow down, or to be completed by, a later one.                  *)
FlagsCleared == (\A t \in Threads : pc[t] = "idle")
                   => \A n \in InternalsInTree : ~update[n].isDirty

(* What holds between any two steps, whoever helps whom.                   *)
TreeSound == TypeOK /\ SearchTree /\ HelpsSomebody /\ FlagsCleared

(* A node of the tree changes a child only while it carries the flag of    *)
(* the insertion that replaces exactly that child, and a flag is not taken *)
(* away before its insertion is in the tree.                               *)
FlagProtectsChild ==
    [][\A n \in InternalsInTree :
         LET u == update[n] IN
         /\ left'[n] # left[n] \/ right'[n] # right[n] =>
               /\ u.isDirty
               /\ NewInternal(u.info) \in {left'[n], right'[n]}
               /\ info[u.info].leaf \in {left[n], right[n]}
         /\ u.isDirty /\ update'[n] # u => Applied(u.info)]_vars

(***************************************************************************)
(* The tree implements the growing set.  An insertion takes effect when    *)
(* its subtree is linked, by whichever thread; every other outcome when    *)
(* the child pointer to the leaf is read.                                  *)
(***************************************************************************)
ResultOf(t) == IF pc[t] \in {"true", "false"} THEN pc[t]
               ELSE IF IsInsert(t) /\ Applied(Mine(t)) THEN "true" ELSE "none"

Set == INSTANCE InsertSet WITH
           Initial <- {Inf1, Inf2},
           keys    <- KeysInTree,
           result  <- [t \in Threads |-> ResultOf(t)]

(* No insertion is lost, applied twice or reported wrongly, and no search  *)
(* misses a key inserted before it began.                                  *)
ImplementsSet == Set!Spec

(* Lock-free retries end, since only finitely many insertions can win.     *)
EveryCallReturns == \A t \in Threads : pc[t] # "idle" ~> pc[t] = "idle"
=============================================================================
