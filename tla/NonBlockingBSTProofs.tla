------------------------ MODULE NonBlockingBSTProofs ------------------------
(***************************************************************************)
(* NonBlockingBST implements a linearizable growing set, for any number of *)
(* threads, keys and operations.                                           *)
(***************************************************************************)
EXTENDS NonBlockingBST, TLAPS

-----------------------------------------------------------------------------
(* Vocabulary.  A child pointer is a node and a side; an insertion o is    *)
(* published by the compare_exchange that sets its flag, and its place is  *)
(* the child pointer that it replaces.                                     *)
Sides == {"left", "right"}
At(n, d) == IF d = "left" THEN left[n] ELSE right[n]
Side(k, n) == IF k < data[n] THEN "left" ELSE "right"

Published(o) == left[NewInternal(o)] # MinLeaf
SideOf(o)    == Side(data[NewInternal(o)], info[o].parent)
Place(o)     == At(info[o].parent, SideOf(o))
Flagged(o)   == update[info[o].parent] = [isDirty |-> TRUE, info |-> o]

KnownLeaf(n) == \/ n \in {MinLeaf, MaxLeaf}
                \/ \E o \in Op : Published(o) /\ n \in {NewNode(o), NewSibling(o)}

Running(o) == call[o[1]] = <<"insert", o[2]>>
Working(o) == Running(o) /\ pc[o[1]] \in {"help", "clean"} /\ helping[o[1]] = o

(* The inductive invariant.                                                *)
Calls == {"insert", "search"} \X Keys

Typed ==
    /\ TypeOK
    /\ call \in [Threads -> {<<>>} \cup Calls]
    /\ \A t \in Threads : /\ pc[t] = "idle" <=> call[t] = <<>>
                          /\ pc[t] \in {"flag", "help", "clean"} => IsInsert(t)
                          /\ call[t] # <<>> => <<t, call[t][1], call[t][2]>> \notin done

(* Keys below a node are on its left, the others on its right.             *)
Ordered(n) ==
    \A d \in Sides : At(n, d) \in Leaves =>
                        KnownLeaf(At(n, d)) /\ Side(data[At(n, d)], n) = d

(* An insertion goes into its place while its flag is up, and the place    *)
(* never changes again.                                                    *)
Insertion(o) ==
    /\ ~Published(o) => right[NewInternal(o)] = MaxLeaf /\ ~Applied(o)
    /\ Published(o) =>
         /\ info[o].parent \in InternalsInTree
         /\ KnownLeaf(info[o].leaf)
    /\ Applied(o) => Place(o) = NewInternal(o)
    /\ Published(o) /\ ~Applied(o) =>
         /\ Flagged(o) /\ Working(o)
         /\ Place(o) = info[o].leaf
         /\ data[NewNode(o)] = o[2]
         /\ data[NewSibling(o)] = data[info[o].leaf]
         /\ data[NewInternal(o)] = Larger(o[2], data[NewSibling(o)])
         /\ o[2] # data[NewSibling(o)]
         /\ Child(NewInternal(o), o[2]) = NewNode(o)
         /\ Child(NewInternal(o), data[NewSibling(o)]) = NewSibling(o)

(* It is published by the only call that may, and its flag is gone when    *)
(* the call returns.                                                       *)
Carried(o) ==
    /\ Published(o) => \/ <<o[1], "insert", o[2]>> \in done
                       \/ Running(o) /\ pc[o[1]] = "true"
                       \/ Working(o)
    /\ Published(o) /\ Flagged(o) => Working(o)

(* An update word names the last insertion below its node.                 *)
Marked(n) ==
    LET u == update[n] IN
    /\ u.isDirty => u.info # None
    /\ u.info # None => Published(u.info) /\ info[u.info].parent = n

(* A thread reads nodes of the tree only, and an update word it has read   *)
(* does not come back once it has changed.                                 *)
Reading(t) ==
    LET u == pupdate[t] IN
    /\ pc[t] = "update" => l[t] \in InternalsInTree
    /\ pc[t] \in {"child", "flag"} =>
         /\ p[t] \in InternalsInTree
         /\ u.isDirty => u.info # None
         /\ update[p[t]].info = None => u.info = None
         /\ u.info # None =>
               /\ Published(u.info) /\ info[u.info].parent = p[t]
               /\ ~u.isDirty => ~Flagged(u.info)
    /\ pc[t] = "flag" =>
         /\ ~u.isDirty
         /\ l[t] \in Leaves /\ KnownLeaf(l[t]) /\ data[l[t]] # Key(t)
         /\ update[p[t]] = u => l[t] = Child(p[t], Key(t))

Helping(t) ==
    /\ pc[t] \in {"help", "clean"} => helping[t] \in Op /\ Published(helping[t])
    /\ pc[t] = "clean" => Applied(helping[t])

IInv ==
    /\ Typed
    /\ \A n \in InternalsInTree : Ordered(n)
    /\ \A n \in Internals : Marked(n)
    /\ \A o \in Op : Insertion(o) /\ Carried(o)
    /\ \A t \in Threads : Reading(t) /\ Helping(t)

-----------------------------------------------------------------------------
(* Names of nodes; membership in the tree; types of what a thread holds.   *)
LEMMA NodeNames ==
    /\ Root \in Internals /\ MinLeaf \in Leaves /\ MaxLeaf \in Leaves /\ MinLeaf # MaxLeaf
    /\ Leaves \cap Internals = {} /\ Node = Leaves \cup Internals
    /\ \A o \in Op :
         /\ NewNode(o) \in Leaves /\ NewSibling(o) \in Leaves /\ NewInternal(o) \in Internals
         /\ NewInternal(o) # Root
         /\ {NewNode(o), NewSibling(o)} \cap {MinLeaf, MaxLeaf} = {}
    /\ \A o, q \in Op :
         /\ NewNode(o) # NewSibling(q)
         /\ NewNode(o) = NewNode(q) => o = q
         /\ NewSibling(o) = NewSibling(q) => o = q
         /\ NewInternal(o) = NewInternal(q) => o = q
    /\ \A n \in Internals : n = Root \/ \E o \in Op : n = NewInternal(o)
<1> USE DEF Root, MinLeaf, MaxLeaf, NewNode, NewSibling, NewInternal, Leaves, Internals
<1>1. \A o : /\ NewNode(o) # MinLeaf /\ NewNode(o) # MaxLeaf /\ NewSibling(o) # MinLeaf
             /\ NewSibling(o) # MaxLeaf /\ NewInternal(o) # Root
             /\ NewInternal(o) # MinLeaf /\ NewInternal(o) # MaxLeaf
             /\ NewNode(o) # Root /\ NewSibling(o) # Root
  OBVIOUS
<1>2. \A o, q : /\ NewNode(o) # NewSibling(q) /\ NewNode(o) # NewInternal(q)
                /\ NewSibling(o) # NewInternal(q)
                /\ NewNode(o) = NewNode(q) => o = q
                /\ NewSibling(o) = NewSibling(q) => o = q
                /\ NewInternal(o) = NewInternal(q) => o = q
  OBVIOUS
<1>3. MinLeaf # MaxLeaf /\ MinLeaf # Root /\ MaxLeaf # Root
  OBVIOUS
<1>. QED
  BY <1>1, <1>2, <1>3 DEF Node

LEMMA InTree ==
    \A n : n \in InternalsInTree
              <=> n = Root \/ (n \in Internals /\ \E m \in Internals, d \in Sides : At(m, d) = n)
BY DEF InternalsInTree, Children, At, Sides

LEMMA InTreePrime ==
    \A n : n \in InternalsInTree'
              <=> n = Root \/ (n \in Internals /\ \E m \in Internals, d \in Sides : At(m, d)' = n)
BY DEF InternalsInTree, Children, At, Sides

LEMMA Types ==
    ASSUME Typed
    PROVE  /\ \A n \in Internals, d \in Sides : At(n, d) \in Node
           /\ \A n \in Node : data[n] \in Int
           /\ \A n \in Internals : update[n] \in UpdateRecord
           /\ \A o \in Op : info[o].parent \in Internals /\ info[o].leaf \in Leaves
           /\ InternalsInTree \subseteq Internals
           /\ \A t \in Threads : pc[t] # "idle" =>
                 /\ Key(t) \in Keys /\ Mine(t) \in Op /\ call[t] = <<call[t][1], Key(t)>>
                 /\ call[t][1] \in {"insert", "search"}
<1>1. \A n \in Internals, d \in Sides : At(n, d) \in Node
  BY DEF Typed, TypeOK, At, Sides
<1>2. /\ \A n \in Node : data[n] \in Int
      /\ \A n \in Internals : update[n] \in UpdateRecord
      /\ \A o \in Op : info[o].parent \in Internals /\ info[o].leaf \in Leaves
  BY DEF Typed, TypeOK
<1>3. InternalsInTree \subseteq Internals
  BY InTree, NodeNames
<1>4. ASSUME NEW t \in Threads, pc[t] # "idle"
      PROVE  /\ Key(t) \in Keys /\ Mine(t) \in Op /\ call[t] = <<call[t][1], Key(t)>>
             /\ call[t][1] \in {"insert", "search"}
  <2>1. call[t] \in {"insert", "search"} \X Keys
    BY <1>4 DEF Typed, TypeOK
  <2>. QED
    BY <2>1 DEF Key, Mine, Op
<1>. QED
  BY <1>1, <1>2, <1>3, <1>4

-----------------------------------------------------------------------------
(* What no step takes back: the tree grows, a published insertion keeps    *)
(* its record, known nodes keep their data, a node changes a child only    *)
(* while it is flagged, and an update word never returns.                  *)
Known(n) == n \in InternalsInTree \/ (n \in Leaves /\ KnownLeaf(n))

Later ==
    /\ \A n \in InternalsInTree : n \in InternalsInTree'
    /\ \A n \in Node : Known(n) => data'[n] = data[n]
    /\ \A o \in Op : Published(o) => /\ Published(o)' /\ info'[o] = info[o]
                                     /\ Flagged(o)' => Flagged(o)
    /\ \A n \in Internals :
         update'[n] # update[n] =>
            /\ update'[n].info # None
            /\ \/ update'[n].isDirty
               \/ \E o \in Op : /\ update[n] = [isDirty |-> TRUE, info |-> o]
                                /\ update'[n] = [isDirty |-> FALSE, info |-> o]
    /\ \A n \in InternalsInTree, d \in Sides :
         At(n, d)' # At(n, d) => update[n].isDirty /\ update'[n] = update[n]

LEMMA KnownStays ==
    ASSUME Later, NEW n, KnownLeaf(n)
    PROVE  KnownLeaf(n)'
BY DEF Later, KnownLeaf

LEMMA AppliedStays ==
    ASSUME Later, NEW o, Applied(o)
    PROVE  Applied(o)'
BY DEF Later, Applied

(* Another thread's step leaves what t has read valid.                     *)
LEMMA OthersKeep ==
    ASSUME IInv, Later, NEW t \in Threads,
           pc'[t] = pc[t], call'[t] = call[t], l'[t] = l[t], p'[t] = p[t],
           pupdate'[t] = pupdate[t], helping'[t] = helping[t]
    PROVE  Reading(t)' /\ Helping(t)'
<1>1. /\ Reading(t) /\ Helping(t) /\ InternalsInTree \subseteq Internals
      /\ \A n \in Internals : update[n] \in UpdateRecord /\ Marked(n)
      /\ pupdate[t] \in UpdateRecord
      /\ Key(t)' = Key(t)
  BY Types DEF IInv, Typed, TypeOK, Key
<1>2. Helping(t)'
  BY <1>1, AppliedStays DEF Helping, Later
<1>3. pc[t] = "update" => l[t] \in InternalsInTree'
  BY <1>1 DEF Reading, Later
<1>4. ASSUME pc[t] \in {"child", "flag"}
      PROVE  /\ p[t] \in InternalsInTree'
             /\ pupdate[t].isDirty => pupdate[t].info # None
             /\ update'[p[t]].info = None => pupdate[t].info = None
             /\ pupdate[t].info # None =>
                   /\ Published(pupdate[t].info)' /\ info'[pupdate[t].info].parent = p[t]
                   /\ ~pupdate[t].isDirty => ~Flagged(pupdate[t].info)'
  <2>1. /\ p[t] \in InternalsInTree
        /\ pupdate[t].isDirty => pupdate[t].info # None
        /\ update[p[t]].info = None => pupdate[t].info = None
        /\ pupdate[t].info # None =>
              /\ Published(pupdate[t].info) /\ info[pupdate[t].info].parent = p[t]
              /\ ~pupdate[t].isDirty => ~Flagged(pupdate[t].info)
    BY <1>1, <1>4 DEF Reading
  <2>2. p[t] \in InternalsInTree' /\ p[t] \in Internals
    BY <1>1, <2>1 DEF Later
  <2>3. update'[p[t]].info = None => update[p[t]].info = None
    BY <2>2 DEF Later
  <2>4. pupdate[t].info # None => pupdate[t].info \in Op
    BY <1>1 DEF UpdateRecord
  <2>. QED
    BY <2>1, <2>2, <2>3, <2>4 DEF Later
<1>5. ASSUME pc[t] = "flag"
      PROVE  /\ ~pupdate[t].isDirty
             /\ l[t] \in Leaves /\ KnownLeaf(l[t])' /\ data'[l[t]] # Key(t)
             /\ update'[p[t]] = pupdate[t] => l[t] = Child(p[t], Key(t))'
  <2>1. /\ ~pupdate[t].isDirty
        /\ l[t] \in Leaves /\ KnownLeaf(l[t]) /\ data[l[t]] # Key(t)
        /\ update[p[t]] = pupdate[t] => l[t] = Child(p[t], Key(t))
        /\ p[t] \in InternalsInTree
        /\ pupdate[t].info # None => /\ ~Flagged(pupdate[t].info)
                                     /\ info[pupdate[t].info].parent = p[t]
    BY <1>1, <1>5 DEF Reading
  <2>2. l[t] \in Node /\ p[t] \in Node /\ p[t] \in Internals
    BY <1>1, <2>1, NodeNames
  <2>3. data'[l[t]] = data[l[t]] /\ data'[p[t]] = data[p[t]]
    BY <2>1, <2>2 DEF Later, Known
  <2>4. ASSUME update'[p[t]] = pupdate[t], update[p[t]] # pupdate[t]
        PROVE  FALSE
    <3>1. /\ update'[p[t]].info # None
          /\ \E o \in Op : /\ update[p[t]] = [isDirty |-> TRUE, info |-> o]
                           /\ update'[p[t]] = [isDirty |-> FALSE, info |-> o]
      BY <2>1, <2>2, <2>4 DEF Later
    <3>. QED
      BY <2>1, <2>4, <3>1 DEF Flagged
  <2>5. update'[p[t]] = pupdate[t] => \A d \in Sides : At(p[t], d)' = At(p[t], d)
    BY <2>1, <2>4 DEF Later
  <2>6. left'[p[t]] = left[p[t]] /\ right'[p[t]] = right[p[t]] =>
           Child(p[t], Key(t))' = Child(p[t], Key(t))
    BY <1>1, <2>3 DEF Child
  <2>7. update'[p[t]] = pupdate[t] => Child(p[t], Key(t))' = Child(p[t], Key(t))
    BY <2>5, <2>6 DEF At, Sides
  <2>. QED
    BY <2>1, <2>3, <2>4, <2>7, KnownStays
<1>. QED
  BY <1>1, <1>2, <1>3, <1>4, <1>5 DEF Reading

-----------------------------------------------------------------------------
(* Steps that leave the tree alone.                                        *)
Alone(t) ==
    \A u \in Threads \ {t} : /\ pc'[u] = pc[u] /\ call'[u] = call[u] /\ l'[u] = l[u]
                             /\ p'[u] = p[u] /\ pupdate'[u] = pupdate[u]
                             /\ helping'[u] = helping[u]

LEMMA TreeUnchanged ==
    ASSUME IInv, UNCHANGED tree
    PROVE  /\ Later /\ InternalsInTree' = InternalsInTree
           /\ \A n \in InternalsInTree' : Ordered(n)'
           /\ \A n \in Internals : Marked(n)'
<1>1. /\ data' = data /\ left' = left /\ right' = right /\ update' = update /\ info' = info
      /\ InternalsInTree' = InternalsInTree
  BY DEF tree, InternalsInTree, Children
<1>2. /\ \A n \in InternalsInTree' : Ordered(n)'
      /\ \A n \in Internals : Marked(n)'
  BY <1>1 DEF IInv, Ordered, Marked, At, Side, KnownLeaf, Published
<1>. QED
  BY <1>1, <1>2 DEF Later, Published, Flagged, At

LEMMA CarriedOn ==
    ASSUME IInv, UNCHANGED tree, NEW t \in Threads, Alone(t),
           pc[t] \in {"help", "clean"} => pc'[t] = "clean" /\ UNCHANGED <<call, helping>>,
           done \subseteq done',
           pc[t] = "true" /\ IsInsert(t) => <<t, "insert", Key(t)>> \in done'
    PROVE  \A o \in Op : Insertion(o)' /\ Carried(o)'
<1> SUFFICES ASSUME NEW o \in Op PROVE Insertion(o)' /\ Carried(o)'
  OBVIOUS
<1>1. /\ data' = data /\ left' = left /\ right' = right /\ update' = update /\ info' = info
      /\ InternalsInTree' = InternalsInTree
  BY DEF tree, InternalsInTree, Children
<1>2. Working(o) => Working(o)'
  BY DEF Working, Running, Alone, Op
<1>3. Running(o) /\ pc[o[1]] = "true"
         => \/ <<o[1], "insert", o[2]>> \in done'
            \/ Running(o)' /\ pc'[o[1]] = "true"
  BY DEF Running, IsInsert, Key, Alone, Op
<1>4. Insertion(o) /\ Carried(o)
  BY DEF IInv
<1>. QED
  BY <1>1, <1>2, <1>3, <1>4
     DEF Insertion, Carried, Published, Applied, Place, At, SideOf, Side, KnownLeaf, Child, Flagged

LEMMA ThreadsKeep ==
    ASSUME IInv, Later, NEW t \in Threads, Alone(t), Reading(t)' /\ Helping(t)'
    PROVE  \A u \in Threads : Reading(u)' /\ Helping(u)'
BY OthersKeep DEF Alone

LEMMA InvokeInvariant ==
    ASSUME IInv, NEW t \in Threads, NEW kind \in {"insert", "search"}, NEW k \in Keys,
           Invoke(t, kind, k)
    PROVE  IInv'
<1>1. /\ UNCHANGED tree /\ Alone(t) /\ pc[t] = "idle" /\ pc'[t] = "update" /\ l'[t] = Root
      /\ call' = [call EXCEPT ![t] = <<kind, k>>] /\ done' = done
      /\ UNCHANGED <<p, pupdate, helping>>
      /\ <<t, kind, k>> \notin done
  BY DEF Invoke, FromRoot, Goto, Alone, IInv, Typed, TypeOK
<1>2. Typed'
  <2>1. TypeOK'
    BY <1>1, NodeNames DEF Invoke, FromRoot, Goto, IInv, Typed, TypeOK, tree
  <2>2. call' \in [Threads -> {<<>>} \cup Calls] /\ call'[t] = <<kind, k>>
    BY <1>1 DEF IInv, Typed, Calls
  <2>3. \A u \in Threads \ {t} : IsInsert(u)' <=> IsInsert(u)
    BY <1>1 DEF IsInsert, Alone
  <2>4. \A u \in Threads : /\ pc'[u] = "idle" <=> call'[u] = <<>>
                           /\ pc'[u] \in {"flag", "help", "clean"} => IsInsert(u)'
    BY <1>1, <2>2, <2>3 DEF IInv, Typed, Alone
  <2>5. \A u \in Threads : call'[u] # <<>> => <<u, call'[u][1], call'[u][2]>> \notin done'
    BY <1>1, <2>2 DEF IInv, Typed, Alone
  <2>. QED
    BY <2>1, <2>2, <2>4, <2>5 DEF Typed
<1>3. Reading(t)' /\ Helping(t)'
  BY <1>1, InTreePrime DEF Reading, Helping
<1>. QED
  BY <1>1, <1>2, <1>3, TreeUnchanged, CarriedOn, ThreadsKeep DEF IInv

LEMMA ReadUpdateInvariant ==
    ASSUME IInv, NEW t \in Threads, ReadUpdate(t)
    PROVE  IInv'
<1>1. /\ UNCHANGED tree /\ Alone(t) /\ pc[t] = "update" /\ pc'[t] = "child"
      /\ p'[t] = l[t] /\ pupdate'[t] = update[l[t]] /\ done' = done
      /\ UNCHANGED <<l, call, helping>>
      /\ l[t] \in InternalsInTree /\ l[t] \in Internals
  BY Types DEF ReadUpdate, Goto, Alone, IInv, Typed, TypeOK, Reading
<1>2. Typed'
  <2>1. TypeOK'
    BY <1>1, Types DEF ReadUpdate, Goto, IInv, Typed, TypeOK, tree
  <2>2. \A u \in Threads : IsInsert(u)' <=> IsInsert(u)
    BY <1>1 DEF IsInsert
  <2>3. /\ call' \in [Threads -> {<<>>} \cup Calls]
        /\ \A u \in Threads : call'[u] # <<>> => <<u, call'[u][1], call'[u][2]>> \notin done'
    BY <1>1 DEF IInv, Typed
  <2>4. \A u \in Threads : /\ pc'[u] = "idle" <=> call'[u] = <<>>
                           /\ pc'[u] \in {"flag", "help", "clean"} => IsInsert(u)'
    BY <1>1, <2>2 DEF IInv, Typed, Alone
  <2>. QED
    BY <2>1, <2>3, <2>4 DEF Typed
<1>3. Reading(t)' /\ Helping(t)'
  <2>1. Marked(l[t]) /\ update' = update /\ info' = info
    BY <1>1 DEF IInv, tree
  <2>2. \A o : Flagged(o)' <=> Flagged(o)
    BY <2>1 DEF Flagged
  <2>3. \A o : Published(o)' <=> Published(o)
    BY <1>1 DEF Published, tree
  <2>4. update[l[t]].info # None =>
           /\ Published(update[l[t]].info) /\ info[update[l[t]].info].parent = l[t]
           /\ ~update[l[t]].isDirty => ~Flagged(update[l[t]].info)
    BY <2>1 DEF Marked, Flagged
  <2>5. l[t] \in InternalsInTree'
    BY <1>1, TreeUnchanged
  <2>6. update[l[t]].isDirty => update[l[t]].info # None
    BY <2>1 DEF Marked
  <2>. QED
    BY <1>1, <2>1, <2>2, <2>3, <2>4, <2>5, <2>6 DEF Reading, Helping
<1>. QED
  BY <1>1, <1>2, <1>3, TreeUnchanged, CarriedOn, ThreadsKeep DEF IInv

LEMMA ReadChildInvariant ==
    ASSUME IInv, NEW t \in Threads, ReadChild(t)
    PROVE  IInv'
<1> DEFINE c == Child(p[t], Key(t))
<1>1. /\ UNCHANGED tree /\ Alone(t) /\ pc[t] = "child" /\ l'[t] = c
      /\ UNCHANGED <<call, p, pupdate, done>>
      /\ p[t] \in InternalsInTree /\ p[t] \in Internals /\ c \in Node
  BY Types DEF ReadChild, Goto, Alone, IInv, Typed, TypeOK, Reading, Child
<1>2. \/ ~IsLeaf(c) /\ pc'[t] = "update" /\ helping' = helping
      \/ IsLeaf(c) /\ pc'[t] \in {"true", "false"} /\ helping' = helping
      \/ /\ IsLeaf(c) /\ IsInsert(t) /\ data[c] # Key(t) /\ pupdate[t].isDirty
         /\ pc'[t] = "help" /\ helping'[t] = pupdate[t].info
      \/ /\ IsLeaf(c) /\ IsInsert(t) /\ data[c] # Key(t) /\ ~pupdate[t].isDirty
         /\ pc'[t] = "flag" /\ helping' = helping
  BY DEF ReadChild, Goto, IInv, Typed, TypeOK
<1>3. /\ c = At(p[t], Side(Key(t), p[t])) /\ Side(Key(t), p[t]) \in Sides
      /\ IsLeaf(c) => KnownLeaf(c)
      /\ ~IsLeaf(c) => c \in InternalsInTree
  <2>1. c = At(p[t], Side(Key(t), p[t])) /\ Side(Key(t), p[t]) \in Sides
    BY DEF Child, At, Side, Sides
  <2>. QED
    BY <1>1, <2>1, InTree, NodeNames DEF IInv, Ordered, IsLeaf
<1>4. pupdate[t] \in UpdateRecord /\ Reading(t)
  BY DEF IInv, Typed, TypeOK
<1>5. Typed'
  <2>1. TypeOK'
    <3>1. /\ pc' \in [Threads -> {"idle", "update", "child", "flag", "help", "clean",
                                  "true", "false"}]
          /\ l' \in [Threads -> Node]
      BY <1>1 DEF ReadChild, Goto, IInv, Typed, TypeOK
    <3>2. helping' \in [Threads -> Op \cup {None}]
      BY <1>4 DEF ReadChild, IInv, Typed, TypeOK, UpdateRecord
    <3>3. \A u \in Threads : pc'[u] # "idle" => call'[u] \in {"insert", "search"} \X Keys
      BY <1>1 DEF IInv, Typed, TypeOK, Alone
    <3>. QED
      BY <1>1, <3>1, <3>2, <3>3 DEF IInv, Typed, TypeOK, tree
  <2>2. \A u \in Threads : IsInsert(u)' <=> IsInsert(u)
    BY <1>1 DEF IsInsert
  <2>3. pc'[t] # "idle" /\ (pc'[t] \in {"flag", "help", "clean"} => IsInsert(t))
    BY <1>2
  <2>. QED
    BY <1>1, <2>1, <2>2, <2>3 DEF IInv, Typed, Alone
<1>6. /\ Later /\ InternalsInTree' = InternalsInTree
      /\ data' = data /\ left' = left /\ right' = right /\ update' = update /\ info' = info
  BY <1>1, TreeUnchanged DEF tree
<1>7. /\ Key(t)' = Key(t)
      /\ \A o : Published(o)' <=> Published(o)
      /\ \A o : Flagged(o)' <=> Flagged(o)
  BY <1>1, <1>6 DEF Key, Published, Flagged
<1>8. Helping(t)'
  BY <1>1, <1>2, <1>4, <1>7 DEF Helping, Reading, UpdateRecord
<1>9. Reading(t)'
  <2>1. CASE pc'[t] = "flag"
    <3>1. /\ c \in Leaves /\ KnownLeaf(c) /\ data[c] # Key(t) /\ l'[t] = c
          /\ ~pupdate[t].isDirty
      BY <1>1, <1>2, <1>3, <2>1 DEF IsLeaf
    <3> HIDE DEF c
    <3>2. KnownLeaf(l[t])'
      BY <1>6, <3>1, KnownStays
    <3>3. Child(p[t], Key(t))' = Child(p[t], Key(t))
      BY <1>1, <1>6, <1>7 DEF Child
    <3>. QED
      BY <1>1, <1>4, <1>6, <1>7, <2>1, <3>1, <3>2, <3>3 DEF Reading, c
  <2>2. CASE pc'[t] # "flag"
    BY <1>1, <1>2, <1>3, <1>6, <2>2 DEF Reading
  <2>. QED
    BY <2>1, <2>2
<1>. QED
  BY <1>1, <1>5, <1>8, <1>9, TreeUnchanged, CarriedOn, ThreadsKeep DEF IInv

LEMMA FlagFailsInvariant ==
    ASSUME IInv, NEW t \in Threads, FlagFails(t)
    PROVE  IInv'
<1>1. /\ UNCHANGED tree /\ Alone(t) /\ pc[t] = "flag" /\ pc'[t] = "help"
      /\ update[p[t]] # pupdate[t]
      /\ helping'[t] = update[p[t]].info
      /\ UNCHANGED <<call, p, l, done>>
  BY DEF FlagFails, Goto, Alone, IInv, Typed, TypeOK
<1>2. /\ p[t] \in Internals /\ update[p[t]] \in UpdateRecord /\ pupdate[t] \in UpdateRecord
      /\ Reading(t) /\ Marked(p[t])
  BY <1>1 DEF IInv, Typed, TypeOK
<1>3. update[p[t]].info # None
  <2>1. CASE update[p[t]].info = None
    <3>1. pupdate[t].info = None /\ ~pupdate[t].isDirty /\ ~update[p[t]].isDirty
      BY <1>1, <1>2, <2>1 DEF Reading, Marked
    <3>2. pupdate[t] = update[p[t]]
      BY <1>2, <2>1, <3>1 DEF UpdateRecord
    <3>. QED
      BY <1>1, <3>2
  <2>. QED
    BY <2>1
<1>4. update[p[t]].info \in Op /\ Published(update[p[t]].info)
  BY <1>2, <1>3 DEF Marked, UpdateRecord
<1>5. Typed'
  <2>1. TypeOK'
    BY <1>1, <1>2 DEF FlagFails, Goto, IInv, Typed, TypeOK, tree, UpdateRecord
  <2>2. \A u \in Threads : IsInsert(u)' <=> IsInsert(u)
    BY <1>1 DEF IsInsert
  <2>. QED
    BY <1>1, <2>1, <2>2 DEF IInv, Typed, Alone
<1>6. Reading(t)' /\ Helping(t)'
  BY <1>1, <1>4 DEF Reading, Helping, Published, tree
<1>. QED
  BY <1>1, <1>5, <1>6, TreeUnchanged, CarriedOn, ThreadsKeep DEF IInv

LEMMA ReturnInvariant ==
    ASSUME IInv, NEW t \in Threads, Return(t)
    PROVE  IInv'
<1>1. /\ UNCHANGED tree /\ Alone(t) /\ pc[t] \in {"true", "false"} /\ pc'[t] = "idle"
      /\ call' = [call EXCEPT ![t] = <<>>] /\ call'[t] = <<>>
      /\ done' = done \cup {<<t, call[t][1], Key(t)>>}
  BY DEF Return, Goto, Alone, IInv, Typed, TypeOK
<1>2. Typed'
  <2>1. TypeOK'
    <3>1. Clean \in UpdateRecord /\ Root \in Internals /\ Root \in Node
      BY NodeNames DEF Clean, UpdateRecord
    <3>. QED
      BY <1>1, <3>1 DEF Return, Goto, IInv, Typed, TypeOK, tree
  <2>2. \A u \in Threads \ {t} : IsInsert(u)' <=> IsInsert(u)
    BY <1>1 DEF IsInsert, Alone
  <2>3. call' \in [Threads -> {<<>>} \cup Calls]
    BY <1>1 DEF IInv, Typed
  <2>4. \A u \in Threads : /\ pc'[u] = "idle" <=> call'[u] = <<>>
                           /\ pc'[u] \in {"flag", "help", "clean"} => IsInsert(u)'
    BY <1>1, <2>2 DEF IInv, Typed, Alone
  <2>5. \A u \in Threads : call'[u] # <<>> => <<u, call'[u][1], call'[u][2]>> \notin done'
    BY <1>1 DEF IInv, Typed, Alone
  <2>. QED
    BY <2>1, <2>3, <2>4, <2>5 DEF Typed
<1>3. IsInsert(t) => <<t, "insert", Key(t)>> \in done'
  BY <1>1 DEF IsInsert
<1>4. Reading(t)' /\ Helping(t)'
  BY <1>1 DEF Reading, Helping
<1>. QED
  BY <1>1, <1>2, <1>3, <1>4, TreeUnchanged, CarriedOn, ThreadsKeep DEF IInv

-----------------------------------------------------------------------------
(* Flag: an insertion is published next to the tree.                       *)
LEMMA FlagBegins ==
    ASSUME IInv, NEW t \in Threads, Flag(t), NEW o \in Op, o = Mine(t)
    PROVE  /\ pc[t] = "flag" /\ update[p[t]] = pupdate[t] /\ ~update[p[t]].isDirty
           /\ o \in Op /\ o[1] = t /\ o[2] = Key(t) /\ Key(t) \in Int
           /\ Running(o) /\ ~Published(o) /\ ~Applied(o)
           /\ p[t] \in InternalsInTree /\ p[t] \in Internals /\ p[t] # NewInternal(o)
           /\ l[t] \in Leaves /\ KnownLeaf(l[t]) /\ data[l[t]] \in Int /\ data[l[t]] # Key(t)
           /\ l[t] = At(p[t], Side(Key(t), p[t]))
<1>1. /\ pc[t] = "flag" /\ update[p[t]] = pupdate[t] /\ Reading(t)
      /\ IsInsert(t) /\ o \in Op /\ Key(t) \in Keys
      /\ call[t] = <<call[t][1], Key(t)>>
      /\ <<t, call[t][1], call[t][2]>> \notin done
  BY Types DEF Flag, IInv, Typed
<1>2. /\ o[1] = t /\ o[2] = Key(t) /\ Key(t) \in Int
      /\ call[t] = <<"insert", Key(t)>>
      /\ <<t, "insert", Key(t)>> \notin done
  BY <1>1, KeyAssumption DEF Mine, IsInsert, Key
<1>3. Running(o) /\ Insertion(o) /\ Carried(o)
  BY <1>1, <1>2 DEF Running, IInv
<1>4. ~Published(o)
  BY <1>1, <1>2, <1>3 DEF Carried, Working
<1>5. ~Applied(o)
  BY <1>3, <1>4 DEF Insertion
<1>6. /\ p[t] \in InternalsInTree /\ ~pupdate[t].isDirty
      /\ l[t] \in Leaves /\ KnownLeaf(l[t]) /\ data[l[t]] # Key(t)
      /\ l[t] = Child(p[t], Key(t))
  BY <1>1 DEF Reading
<1>7. p[t] \in Internals /\ data[l[t]] \in Int /\ p[t] # NewInternal(o)
  BY <1>5, <1>6, Types, NodeNames DEF IInv, Applied
<1>. QED
  BY <1>1, <1>2, <1>3, <1>4, <1>5, <1>6, <1>7 DEF Child, At, Side

(* What Flag does, node by node.                                           *)
FlagDone(t, o) ==
    /\ InternalsInTree' = InternalsInTree
    /\ \A n \in Internals, d \in Sides : n # NewInternal(o) => At(n, d)' = At(n, d)
    /\ \A d \in Sides : At(NewInternal(o), d)' \in {NewNode(o), NewSibling(o)}
    /\ \A n \in Node : n \notin {NewNode(o), NewSibling(o), NewInternal(o)}
                        => data'[n] = data[n]
    /\ data'[NewNode(o)] = Key(t) /\ data'[NewSibling(o)] = data[l[t]]
    /\ data'[NewInternal(o)] = Larger(Key(t), data[l[t]])
    /\ left'[NewInternal(o)] = IF Key(t) < data[l[t]] THEN NewNode(o) ELSE NewSibling(o)
    /\ right'[NewInternal(o)] = IF Key(t) < data[l[t]] THEN NewSibling(o) ELSE NewNode(o)
    /\ \A n \in Internals : n # p[t] => update'[n] = update[n]
    /\ update'[p[t]] = [isDirty |-> TRUE, info |-> o]
    /\ \A q \in Op : q # o => info'[q] = info[q]
    /\ info'[o] = [parent |-> p[t], leaf |-> l[t]]
    /\ \A q \in Op : Published(q)' <=> Published(q) \/ q = o
    /\ Alone(t) /\ pc'[t] = "help" /\ helping'[t] = o
    /\ UNCHANGED <<call, p, l, pupdate, done>>

LEMMA FlagEffect ==
    ASSUME IInv, NEW t \in Threads, Flag(t), NEW o \in Op, o = Mine(t)
    PROVE  FlagDone(t, o)
<1>1. /\ NewInternal(o) \in Internals /\ NewInternal(o) \in Node
      /\ NewNode(o) \in Node /\ NewSibling(o) \in Node
      /\ NewNode(o) # NewSibling(o) /\ NewNode(o) # NewInternal(o)
      /\ NewSibling(o) # NewInternal(o)
      /\ NewNode(o) # MinLeaf /\ NewSibling(o) # MinLeaf
  <2>1. /\ NewNode(o) \in Leaves /\ NewSibling(o) \in Leaves /\ NewInternal(o) \in Internals
        /\ {NewNode(o), NewSibling(o)} \cap {MinLeaf, MaxLeaf} = {}
        /\ NewNode(o) # NewSibling(o)
    BY NodeNames
  <2>2. Leaves \cap Internals = {} /\ Node = Leaves \cup Internals
    BY NodeNames
  <2>. QED
    BY <2>1, <2>2
<1>2. /\ data \in [Node -> Int] /\ left \in [Internals -> Node] /\ right \in [Internals -> Node]
      /\ update \in [Internals -> UpdateRecord]
      /\ info \in [Op -> [parent : Internals, leaf : Leaves]]
      /\ pc = [u \in Threads |-> pc[u]] /\ helping \in [Threads -> Op \cup {None}]
  BY DEF IInv, Typed, TypeOK
<1>3. /\ \A n \in Node : n \notin {NewNode(o), NewSibling(o), NewInternal(o)}
                                => data'[n] = data[n]
      /\ data'[NewNode(o)] = Key(t) /\ data'[NewSibling(o)] = data[l[t]]
      /\ data'[NewInternal(o)] = Larger(Key(t), data[l[t]])
  BY <1>1, <1>2 DEF Flag, Publish
<1>4. /\ left'[NewInternal(o)] = IF Key(t) < data[l[t]] THEN NewNode(o) ELSE NewSibling(o)
      /\ right'[NewInternal(o)] = IF Key(t) < data[l[t]] THEN NewSibling(o) ELSE NewNode(o)
      /\ \A n \in Internals : n # NewInternal(o) => left'[n] = left[n] /\ right'[n] = right[n]
  BY <1>1, <1>2 DEF Flag, Publish
<1>5. /\ \A n \in Internals, d \in Sides : n # NewInternal(o) => At(n, d)' = At(n, d)
      /\ \A d \in Sides : At(NewInternal(o), d)' \in {NewNode(o), NewSibling(o)}
  BY <1>4 DEF At
<1>6. /\ \A n \in Internals : n # p[t] => update'[n] = update[n]
      /\ update'[p[t]] = [isDirty |-> TRUE, info |-> o]
  BY <1>2, FlagBegins DEF Flag
<1>7. /\ \A q \in Op : q # o => info'[q] = info[q]
      /\ info'[o] = [parent |-> p[t], leaf |-> l[t]]
  BY <1>2 DEF Flag, Publish
<1>8. \A q \in Op : Published(q)' <=> Published(q) \/ q = o
  BY <1>1, <1>4, NodeNames DEF Published
<1>9. /\ Alone(t) /\ pc'[t] = "help" /\ helping'[t] = o
      /\ UNCHANGED <<call, p, l, pupdate, done>>
  BY <1>2 DEF Flag, Goto, Alone
<1>10. \A d \in Sides : At(NewInternal(o), d) \in Leaves
  BY FlagBegins, NodeNames DEF IInv, Insertion, Published, At
<1>11. \A n : n \in InternalsInTree' <=> n \in InternalsInTree
  <2> SUFFICES ASSUME NEW n \in Internals
               PROVE  (\E m \in Internals, d \in Sides : At(m, d)' = n)
                         <=> (\E m \in Internals, d \in Sides : At(m, d) = n)
    BY InTree, InTreePrime
  <2>. QED
    BY <1>5, <1>10, NodeNames
<1>. QED
  BY <1>3, <1>4, <1>5, <1>6, <1>7, <1>8, <1>9, <1>11 DEF FlagDone

LEMMA FlagLater ==
    ASSUME IInv, NEW t \in Threads, Flag(t), NEW o \in Op, o = Mine(t)
    PROVE  /\ Later
           /\ \A n \in Node : Known(n) => n \notin {NewNode(o), NewSibling(o), NewInternal(o)}
<1>1. ~Published(o) /\ ~Applied(o) /\ ~update[p[t]].isDirty /\ FlagDone(t, o)
  BY FlagBegins, FlagEffect
<1>2. \A n \in Node : Known(n) => n \notin {NewNode(o), NewSibling(o), NewInternal(o)}
  <2>1. NewInternal(o) \notin InternalsInTree /\ NewInternal(o) \notin Leaves
    BY <1>1, NodeNames DEF Applied
  <2>2. NewNode(o) \notin InternalsInTree /\ NewSibling(o) \notin InternalsInTree
    BY InTree, NodeNames
  <2>3. ~KnownLeaf(NewNode(o)) /\ ~KnownLeaf(NewSibling(o))
    BY <1>1, NodeNames DEF KnownLeaf
  <2>. QED
    BY <2>1, <2>2, <2>3 DEF Known
<1>3. ASSUME NEW q \in Op, Published(q)
      PROVE  Published(q)' /\ info'[q] = info[q] /\ (Flagged(q)' => Flagged(q))
  <2>1. q # o /\ info[q].parent \in Internals
    BY <1>1, <1>3, Types DEF IInv
  <2>2. info'[q] = info[q] /\ Published(q)'
    BY <1>3, <2>1, <1>1 DEF FlagDone
  <2>3. CASE info[q].parent = p[t]
    <3>1. update'[info[q].parent] = [isDirty |-> TRUE, info |-> o]
      BY <2>3, <1>1 DEF FlagDone
    <3>. QED
      BY <2>1, <2>2, <3>1 DEF Flagged
  <2>4. CASE info[q].parent # p[t]
    <3>1. update'[info[q].parent] = update[info[q].parent]
      BY <2>1, <2>4, <1>1 DEF FlagDone
    <3>. QED
      BY <2>2, <3>1 DEF Flagged
  <2>. QED
    BY <2>3, <2>4
<1>4. ASSUME NEW n \in Internals, update'[n] # update[n]
      PROVE  update'[n].info # None /\ update'[n].isDirty
  <2>1. update'[n] = [isDirty |-> TRUE, info |-> o]
    BY <1>4, <1>1 DEF FlagDone
  <2>2. o # None
    BY KeyAssumption DEF Op
  <2>. QED
    BY <2>1, <2>2
<1>5. \A n \in InternalsInTree, d \in Sides : At(n, d)' = At(n, d)
  BY <1>1, Types DEF FlagDone, Applied, IInv
<1>6. \A n \in Node : Known(n) => data'[n] = data[n]
  BY <1>2, <1>1 DEF FlagDone
<1>7. InternalsInTree' = InternalsInTree
  BY <1>1 DEF FlagDone
<1>. QED
  BY <1>2, <1>3, <1>4, <1>5, <1>6, <1>7 DEF Later

LEMMA FlagInvariant ==
    ASSUME IInv, NEW t \in Threads, Flag(t)
    PROVE  IInv'
<1>1. Mine(t) \in Op
  BY Types DEF Flag, IInv
<1> SUFFICES ASSUME NEW o \in Op, o = Mine(t)
             PROVE  IInv'
  BY <1>1
<1>2. FlagDone(t, o) /\ Later
  BY FlagEffect, FlagLater
<1>3. /\ pc[t] = "flag" /\ ~update[p[t]].isDirty
      /\ o[1] = t /\ o[2] = Key(t) /\ Key(t) \in Int
      /\ Running(o) /\ ~Published(o) /\ ~Applied(o)
      /\ p[t] \in InternalsInTree /\ p[t] \in Internals /\ p[t] # NewInternal(o)
      /\ l[t] \in Leaves /\ KnownLeaf(l[t]) /\ data[l[t]] \in Int /\ data[l[t]] # Key(t)
      /\ l[t] = At(p[t], Side(Key(t), p[t]))
  BY FlagBegins
<1>4. /\ \A n \in Internals, d \in Sides : At(n, d) \in Node
      /\ \A n \in Internals : update[n] \in UpdateRecord
      /\ \A q \in Op : info[q].parent \in Internals /\ info[q].leaf \in Leaves
      /\ InternalsInTree \subseteq Internals
  BY Types DEF IInv
<1>5. Typed'
  <2>1. TypeOK'
    <3>1. /\ NewNode(o) \in Node /\ NewSibling(o) \in Node /\ NewInternal(o) \in Internals
      BY NodeNames
    <3>2. Larger(Key(t), data[l[t]]) \in Int
      BY <1>3 DEF Larger
    <3>3. data' \in [Node -> Int]
      BY <1>3, <3>2 DEF Flag, Publish, IInv, Typed, TypeOK
    <3>4. left' \in [Internals -> Node] /\ right' \in [Internals -> Node]
      BY <3>1 DEF Flag, Publish, IInv, Typed, TypeOK
    <3>5. update' \in [Internals -> UpdateRecord]
      BY DEF Flag, IInv, Typed, TypeOK, UpdateRecord
    <3>6. info' \in [Op -> [parent : Internals, leaf : Leaves]]
      BY <1>3 DEF Flag, Publish, IInv, Typed, TypeOK
    <3>7. /\ pc' \in [Threads -> {"idle", "update", "child", "flag", "help", "clean",
                                  "true", "false"}]
          /\ helping' \in [Threads -> Op \cup {None}]
      BY DEF Flag, Goto, IInv, Typed, TypeOK
    <3>8. \A u \in Threads : pc'[u] # "idle" => call'[u] \in {"insert", "search"} \X Keys
      BY <1>2, <1>3 DEF IInv, Typed, TypeOK, FlagDone, Alone
    <3>9. UNCHANGED <<p, l, pupdate>>
      BY <1>2 DEF FlagDone
    <3>. QED
      BY <3>3, <3>4, <3>5, <3>6, <3>7, <3>8, <3>9 DEF IInv, Typed, TypeOK
  <2>2. \A u \in Threads : IsInsert(u)' <=> IsInsert(u)
    BY <1>2 DEF IsInsert, FlagDone
  <2>3. IsInsert(t)
    BY <1>3 DEF IInv, Typed
  <2>. QED
    BY <1>2, <1>3, <2>1, <2>2, <2>3 DEF IInv, Typed, FlagDone, Alone
<1>6. \A n \in InternalsInTree' : Ordered(n)'
  <2> SUFFICES ASSUME NEW n \in InternalsInTree, NEW d \in Sides, At(n, d)' \in Leaves
               PROVE  KnownLeaf(At(n, d))' /\ (Side(data[At(n, d)], n) = d)'
    BY <1>2 DEF Ordered, FlagDone
  <2>2. At(n, d)' = At(n, d)
    BY <1>2, <1>3, <1>4 DEF FlagDone, Applied
  <2>1. KnownLeaf(At(n, d)) /\ Side(data[At(n, d)], n) = d
    BY <2>2 DEF IInv, Ordered
  <2>3. data'[n] = data[n] /\ data'[At(n, d)] = data[At(n, d)]
    BY <1>2, <1>4, <2>1, <2>2, NodeNames DEF Later, Known
  <2>4. \A m : KnownLeaf(m) => KnownLeaf(m)'
    BY <1>2, KnownStays
  <2>. QED
    BY <2>1, <2>2, <2>3, <2>4 DEF Side, KnownLeaf
<1>7. \A n \in Internals : Marked(n)'
  <2> SUFFICES ASSUME NEW n \in Internals PROVE Marked(n)'
    OBVIOUS
  <2>1. CASE n = p[t]
    <3>1. update'[n] = [isDirty |-> TRUE, info |-> o] /\ info'[o].parent = n /\ Published(o)'
      BY <1>2, <2>1 DEF FlagDone
    <3>2. o # None
      BY KeyAssumption DEF Op
    <3>. QED
      BY <3>1, <3>2 DEF Marked
  <2>2. CASE n # p[t]
    BY <1>2, <1>4, <2>2 DEF Marked, FlagDone, Later, IInv, UpdateRecord
  <2>. QED
    BY <2>1, <2>2
<1>8. \A q \in Op : q # o => Insertion(q)' /\ Carried(q)'
  <2> SUFFICES ASSUME NEW q \in Op, q # o
               PROVE  Insertion(q)' /\ Carried(q)'
    OBVIOUS
  <2>1. Insertion(q) /\ Carried(q)
    BY DEF IInv
  <2>2. (Published(q)' <=> Published(q)) /\ (Applied(q)' <=> Applied(q)) /\ info'[q] = info[q]
    BY <1>2 DEF FlagDone, Applied
  <2>3. /\ left'[NewInternal(q)] = left[NewInternal(q)]
        /\ right'[NewInternal(q)] = right[NewInternal(q)]
        /\ \A n \in {NewNode(q), NewSibling(q), NewInternal(q)} : data'[n] = data[n]
    <3>1. /\ NewInternal(q) \in Internals /\ NewInternal(q) # NewInternal(o)
          /\ {NewNode(q), NewSibling(q), NewInternal(q)} \subseteq Node
          /\ {NewNode(q), NewSibling(q), NewInternal(q)}
                \cap {NewNode(o), NewSibling(o), NewInternal(o)} = {}
      BY NodeNames
    <3>2. \A d \in Sides : At(NewInternal(q), d)' = At(NewInternal(q), d)
      BY <1>2, <3>1 DEF FlagDone
    <3>. QED
      BY <1>2, <3>1, <3>2 DEF FlagDone, At, Sides
  <2>4. \A k : Child(NewInternal(q), k)' = Child(NewInternal(q), k)
    BY <2>3 DEF Child
  <2>5. Working(q) => Working(q)'
    BY <1>2, <1>3 DEF Working, Running, FlagDone, Alone, Op
  <2>6. ~Published(q)' => right'[NewInternal(q)] = MaxLeaf /\ ~Applied(q)'
    BY <2>1, <2>2, <2>3 DEF Insertion
  <2>7. CASE Published(q)
    <3>1. info[q].parent \in InternalsInTree' /\ KnownLeaf(info[q].leaf) /\ KnownLeaf(info[q].leaf)'
      BY <1>2, <2>1, <2>7, KnownStays DEF Insertion, Later
    <3>2. /\ data'[info[q].parent] = data[info[q].parent]
          /\ data'[info[q].leaf] = data[info[q].leaf]
      BY <1>2, <1>4, <3>1, <2>1, <2>7, NodeNames DEF Later, Known, Insertion
    <3>3. SideOf(q)' = SideOf(q) /\ SideOf(q) \in Sides
      BY <2>2, <2>3, <3>2 DEF SideOf, Side, Sides
    <3>4. Place(q)' = Place(q)
      <4>1. \A d \in Sides : At(info[q].parent, d)' = At(info[q].parent, d)
        BY <1>2, <1>3, <1>4, <2>1, <2>7 DEF FlagDone, Insertion, Applied
      <4>. QED
        BY <2>2, <3>3, <4>1 DEF Place, At
    <3>5. ~Applied(q) => Flagged(q)'
      <4>1. ~Applied(q) => Flagged(q) /\ info[q].parent # p[t]
        BY <1>3, <2>1, <2>7 DEF Insertion, Flagged
      <4>. QED
        BY <1>2, <1>4, <2>2, <4>1 DEF FlagDone, Flagged
    <3>6. Insertion(q)'
      BY <2>1, <2>2, <2>3, <2>4, <2>5, <2>7, <3>1, <3>2, <3>4, <3>5 DEF Insertion
    <3>7. Carried(q)'
      <4>1. Running(q) /\ pc[q[1]] = "true" => Running(q)' /\ pc'[q[1]] = "true"
        BY <1>2, <1>3 DEF Running, FlagDone, Alone, Op
      <4>2. Flagged(q)' => Flagged(q)
        BY <1>2, <2>7 DEF Later
      <4>. QED
        BY <1>2, <2>1, <2>2, <2>5, <2>7, <4>1, <4>2 DEF Carried, FlagDone
    <3>. QED
      BY <3>6, <3>7
  <2>8. CASE ~Published(q)
    BY <2>1, <2>2, <2>6, <2>8 DEF Insertion, Carried
  <2>. QED
    BY <2>7, <2>8
<1>9. Insertion(o)' /\ Carried(o)'
  <2>1. PICK k, b, n, c : k = Key(t) /\ b = data[l[t]] /\ n = p[t] /\ c = l[t]
    OBVIOUS
  <2>2. /\ k \in Int /\ b \in Int /\ k # b /\ k = o[2]
        /\ n \in InternalsInTree /\ n \in Internals /\ n # NewInternal(o)
        /\ c \in Leaves /\ KnownLeaf(c) /\ c = At(n, Side(k, n))
    BY <1>3, <2>1
  <2>3. /\ data'[NewNode(o)] = k /\ data'[NewSibling(o)] = b
        /\ data'[NewInternal(o)] = Larger(k, b)
        /\ left'[NewInternal(o)] = IF k < b THEN NewNode(o) ELSE NewSibling(o)
        /\ right'[NewInternal(o)] = IF k < b THEN NewSibling(o) ELSE NewNode(o)
        /\ info'[o].parent = n /\ info'[o].leaf = c
        /\ update'[n] = [isDirty |-> TRUE, info |-> o]
    BY <1>2, <2>1 DEF FlagDone
  <2>4. data'[n] = data[n] /\ data'[c] = b
    BY <1>2, <2>1, <2>2, NodeNames DEF Later, Known
  <2>5. Published(o)' /\ ~Applied(o)' /\ n \in InternalsInTree' /\ KnownLeaf(c)'
    BY <1>2, <1>3, <2>2, KnownStays DEF FlagDone, Applied
  <2>6. Flagged(o)' /\ Working(o)'
    <3>1. Flagged(o)'
      BY <2>3 DEF Flagged
    <3>2. call'[t] = call[t] /\ pc'[t] = "help" /\ helping'[t] = o
      BY <1>2 DEF FlagDone
    <3>. QED
      BY <1>3, <3>1, <3>2 DEF Working, Running
  <2>7. Place(o)' = c
    <3>1. data'[NewInternal(o)] \in {k, b}
      BY <2>2, <2>3 DEF Larger
    <3>2. Side(b, n) = Side(k, n) /\ Side(k, n) \in Sides
      BY <2>1, <2>2 DEF IInv, Ordered, Side, Sides
    <3>3. SideOf(o)' = Side(k, n)
      BY <2>2, <2>3, <2>4, <3>1, <3>2 DEF SideOf, Side
    <3>4. \A d \in Sides : At(n, d)' = At(n, d)
      BY <1>2, <2>2 DEF FlagDone
    <3>. QED
      BY <2>2, <2>3, <3>2, <3>3, <3>4 DEF Place, At
  <2>8. /\ Child(NewInternal(o), k)' = NewNode(o)
        /\ Child(NewInternal(o), b)' = NewSibling(o)
    BY <2>2, <2>3 DEF Child, Larger
  <2>. QED
    BY <2>2, <2>3, <2>4, <2>5, <2>6, <2>7, <2>8 DEF Insertion, Carried
<1>10. Reading(t)' /\ Helping(t)'
  BY <1>2 DEF Reading, Helping, FlagDone
<1>. QED
  BY <1>2, <1>5, <1>6, <1>7, <1>8, <1>9, <1>10, ThreadsKeep DEF IInv, FlagDone

-----------------------------------------------------------------------------
(* CASChild: the place is taken unless it has been.                        *)
ChildDone(t, o) ==
    /\ \A n \in Internals, d \in Sides :
          At(n, d)' = IF n = info[o].parent /\ d = SideOf(o) /\ At(n, d) = info[o].leaf
                      THEN NewInternal(o) ELSE At(n, d)
    /\ data' = data /\ update' = update /\ info' = info
    /\ Alone(t) /\ pc[t] = "help" /\ pc'[t] = "clean"
    /\ UNCHANGED <<call, p, l, pupdate, helping, done>>

LEMMA ChildEffect ==
    ASSUME IInv, NEW t \in Threads, CASChild(t), NEW o \in Op, o = helping[t]
    PROVE  ChildDone(t, o)
<1>1. PICK n : n = info[o].parent
  OBVIOUS
<1>2. n \in Internals
  BY <1>1, Types DEF IInv
<1>3. /\ left = [m \in Internals |-> left[m]] /\ right = [m \in Internals |-> right[m]]
      /\ pc = [u \in Threads |-> pc[u]]
  BY DEF IInv, Typed, TypeOK
<1>4. /\ pc[t] = "help" /\ pc' = [pc EXCEPT ![t] = "clean"]
      /\ data' = data /\ update' = update /\ info' = info
      /\ UNCHANGED <<call, p, l, pupdate, helping, done>>
  BY DEF CASChild, Goto
<1>5. Alone(t) /\ pc'[t] = "clean"
  BY <1>3, <1>4 DEF Alone
<1>6. CASE data[NewInternal(o)] < data[n]
  <2>1. SideOf(o) = "left"
    BY <1>1, <1>6 DEF SideOf, Side
  <2>2. /\ left' = IF left[n] = info[o].leaf THEN [left EXCEPT ![n] = NewInternal(o)] ELSE left
        /\ right' = right
    BY <1>1, <1>6 DEF CASChild
  <2>3. \A m \in Internals, d \in Sides :
          At(m, d)' = IF m = n /\ d = "left" /\ At(m, d) = info[o].leaf
                      THEN NewInternal(o) ELSE At(m, d)
    BY <1>2, <1>3, <2>2 DEF At, Sides
  <2>. QED
    BY <1>1, <1>4, <1>5, <2>1, <2>3 DEF ChildDone
<1>7. CASE ~(data[NewInternal(o)] < data[n])
  <2>1. SideOf(o) = "right"
    BY <1>1, <1>7 DEF SideOf, Side
  <2>2. /\ right' = IF right[n] = info[o].leaf THEN [right EXCEPT ![n] = NewInternal(o)] ELSE right
        /\ left' = left
    BY <1>1, <1>7 DEF CASChild
  <2>3. \A m \in Internals, d \in Sides :
          At(m, d)' = IF m = n /\ d = "right" /\ At(m, d) = info[o].leaf
                      THEN NewInternal(o) ELSE At(m, d)
    BY <1>2, <1>3, <2>2 DEF At, Sides
  <2>. QED
    BY <1>1, <1>4, <1>5, <2>1, <2>3 DEF ChildDone
<1>. QED
  BY <1>6, <1>7

LEMMA ChildTyped ==
    ASSUME IInv, NEW t \in Threads, CASChild(t), NEW o \in Op, o = helping[t]
    PROVE  Typed'
<1>1. ChildDone(t, o) /\ info[o].parent \in Internals /\ NewInternal(o) \in Node
  BY ChildEffect, Types, NodeNames DEF IInv
<1>2. left' \in [Internals -> Node] /\ right' \in [Internals -> Node]
  <2>1. PICK n, s : n = info[o].parent /\ s = NewInternal(o)
    OBVIOUS
  <2>2. /\ left' = left \/ left' = [left EXCEPT ![n] = s]
        /\ right' = right \/ right' = [right EXCEPT ![n] = s]
    BY <2>1 DEF CASChild
  <2>3. /\ left \in [Internals -> Node] /\ right \in [Internals -> Node]
        /\ n \in Internals /\ s \in Node
    BY <1>1, <2>1 DEF IInv, Typed, TypeOK
  <2>. QED
    BY <2>2, <2>3
<1>3. pc' \in [Threads -> {"idle", "update", "child", "flag", "help", "clean",
                           "true", "false"}]
  BY DEF CASChild, Goto, IInv, Typed, TypeOK
<1>4. TypeOK'
  <2>1. \A u \in Threads : pc'[u] # "idle" => call'[u] \in {"insert", "search"} \X Keys
    BY <1>1 DEF IInv, Typed, TypeOK, ChildDone, Alone
  <2>2. UNCHANGED <<data, update, info, p, l, pupdate, helping>>
    BY <1>1 DEF ChildDone
  <2>. QED
    BY <1>2, <1>3, <2>1, <2>2 DEF IInv, Typed, TypeOK
<1>5. \A u \in Threads : IsInsert(u)' <=> IsInsert(u)
  BY <1>1 DEF IsInsert, ChildDone
<1>. QED
  BY <1>1, <1>4, <1>5 DEF IInv, Typed, ChildDone, Alone

(* Two insertions never wait for the same node.                            *)
LEMMA OneFlag ==
    ASSUME IInv, NEW o \in Op, NEW q \in Op, Flagged(o), Flagged(q),
           info[o].parent = info[q].parent
    PROVE  o = q
BY DEF Flagged

LEMMA WaitsAtPlace ==
    ASSUME IInv, NEW o \in Op, Published(o), ~Applied(o)
    PROVE  /\ Flagged(o) /\ info[o].parent \in InternalsInTree /\ info[o].parent \in Internals
           /\ NewInternal(o) \in Internals /\ info[o].parent # NewInternal(o)
           /\ SideOf(o) \in Sides /\ At(info[o].parent, SideOf(o)) = info[o].leaf
           /\ info[o].leaf \in Leaves
BY Types, NodeNames DEF IInv, Insertion, Applied, Place, SideOf, Side, Sides

(* The insertion takes effect.                                             *)
Linked(t, o) ==
    /\ \A n \in InternalsInTree : n \in InternalsInTree'
    /\ \A n \in InternalsInTree' : n \in InternalsInTree \/ n = NewInternal(o)
    /\ Applied(o)' /\ Place(o)' = NewInternal(o)
    /\ \A q \in Op : Published(q)' <=> Published(q)
    /\ \A n \in Internals, d \in Sides :
          n # info[o].parent \/ d # SideOf(o) => At(n, d)' = At(n, d)

LEMMA ChildLinks ==
    ASSUME IInv, NEW t \in Threads, NEW o \in Op, ChildDone(t, o), Published(o), ~Applied(o)
    PROVE  Linked(t, o) /\ Later
<1>1. PICK n, d, c, s : /\ n = info[o].parent /\ d = SideOf(o)
                        /\ c = info[o].leaf /\ s = NewInternal(o)
  OBVIOUS
<1>2. /\ Flagged(o) /\ n \in InternalsInTree /\ n \in Internals /\ s \in Internals
      /\ s # n /\ d \in Sides /\ At(n, d) = c /\ c \in Leaves /\ s # c /\ s # MinLeaf
      /\ c \notin Internals
  BY <1>1, WaitsAtPlace, NodeNames
<1>3. /\ At(n, d)' = s
      /\ \A m \in Internals, e \in Sides : m # n \/ e # d => At(m, e)' = At(m, e)
  BY <1>1, <1>2 DEF ChildDone
<1>4. \A m \in InternalsInTree : m \in InternalsInTree'
  BY <1>2, <1>3, InTree, InTreePrime, NodeNames
<1>5. \A m \in InternalsInTree' : m \in InternalsInTree \/ m = s
  BY <1>2, <1>3, InTree, InTreePrime, NodeNames
<1>6. s \in InternalsInTree'
  BY <1>2, <1>3, InTreePrime
<1>7. data' = data /\ update' = update /\ info' = info
  BY DEF ChildDone
<1>8. Place(o)' = s
  BY <1>1, <1>3, <1>7 DEF Place, At, SideOf, Side
<1>9. ASSUME NEW q \in Op
      PROVE  Published(q)' <=> Published(q)
  <2>1. NewInternal(q) \in Internals
    BY NodeNames
  <2>2. CASE NewInternal(q) = n
    <3>1. Published(q)
      BY <1>2, <2>2 DEF IInv, Insertion, Applied
    <3>2. left'[n] = s \/ left'[n] = left[n]
      BY <1>2, <1>3 DEF At, Sides
    <3>. QED
      BY <1>2, <2>2, <3>1, <3>2 DEF Published
  <2>3. CASE NewInternal(q) # n
    BY <1>3, <2>1, <2>3 DEF Published, At, Sides
  <2>. QED
    BY <2>2, <2>3
<1>10. Linked(t, o)
  BY <1>1, <1>3, <1>4, <1>5, <1>6, <1>8, <1>9 DEF Linked, Applied
<1>11. \A m \in InternalsInTree, e \in Sides :
          At(m, e)' # At(m, e) => update[m].isDirty /\ update'[m] = update[m]
  BY <1>1, <1>2, <1>3, <1>7, Types DEF Flagged, IInv
<1>12. \A q \in Op : Flagged(q)' <=> Flagged(q)
  BY <1>7 DEF Flagged
<1>. QED
  BY <1>4, <1>7, <1>9, <1>10, <1>11, <1>12 DEF Later

LEMMA ChildCarried ==
    ASSUME IInv, NEW t \in Threads, NEW o \in Op, o = helping[t], ChildDone(t, o), Linked(t, o)
    PROVE  \A q \in Op : Carried(q)' /\ (Working(q) => Working(q)')
<1> SUFFICES ASSUME NEW q \in Op
             PROVE  Carried(q)' /\ (Working(q) => Working(q)')
  OBVIOUS
<1>1. Working(q) => Working(q)'
  BY DEF Working, Running, ChildDone, Alone, Op
<1>2. Running(q) /\ pc[q[1]] = "true" => Running(q)' /\ pc'[q[1]] = "true"
  BY DEF Running, ChildDone, Alone, Op
<1>3. (Published(q)' <=> Published(q)) /\ (Flagged(q)' <=> Flagged(q)) /\ done' = done
  BY DEF Linked, ChildDone, Flagged
<1>. QED
  BY <1>1, <1>2, <1>3 DEF Carried, IInv

LEMMA ChildOrdered ==
    ASSUME IInv, NEW t \in Threads, NEW o \in Op, ChildDone(t, o), Published(o), ~Applied(o),
           Linked(t, o), Later
    PROVE  \A n \in InternalsInTree' : Ordered(n)'
<1>1. data' = data /\ \A m : KnownLeaf(m) => KnownLeaf(m)'
  BY KnownStays DEF ChildDone
<1>2. ASSUME NEW n \in InternalsInTree
      PROVE  Ordered(n)'
  <2> SUFFICES ASSUME NEW d \in Sides, At(n, d)' \in Leaves
               PROVE  KnownLeaf(At(n, d))' /\ (Side(data[At(n, d)], n) = d)'
    BY DEF Ordered
  <2>1. At(n, d)' = At(n, d)
    BY Types, NodeNames DEF ChildDone, IInv
  <2>2. KnownLeaf(At(n, d)) /\ Side(data[At(n, d)], n) = d
    BY <2>1 DEF IInv, Ordered
  <2>. QED
    BY <1>1, <2>1, <2>2 DEF Side, KnownLeaf
<1>3. Ordered(NewInternal(o))'
  <2>1. PICK s, b : s = NewInternal(o) /\ b = data[NewSibling(o)]
    OBVIOUS
  <2>2. /\ data[NewNode(o)] = o[2] /\ s \in Internals
        /\ Child(s, o[2]) = NewNode(o) /\ Child(s, b) = NewSibling(o)
        /\ NewNode(o) # NewSibling(o)
        /\ info[o].parent # s
    BY <2>1, WaitsAtPlace, NodeNames DEF IInv, Insertion
  <2>3. \A k : Child(s, k) = At(s, Side(k, s)) /\ Side(k, s) \in Sides
    BY DEF Child, At, Side, Sides
  <2>4. \A d \in Sides : \/ d = Side(o[2], s) /\ At(s, d) = NewNode(o)
                         \/ d = Side(b, s) /\ At(s, d) = NewSibling(o)
    BY <2>2, <2>3 DEF Sides
  <2>5. \A d \in Sides : At(s, d)' = At(s, d)
    BY <2>2 DEF Linked
  <2>6. KnownLeaf(NewNode(o)) /\ KnownLeaf(NewSibling(o))
    BY DEF KnownLeaf
  <2> SUFFICES ASSUME NEW d \in Sides
               PROVE  KnownLeaf(At(s, d))' /\ (Side(data[At(s, d)], s) = d)'
    BY <2>1 DEF Ordered
  <2>7. KnownLeaf(At(s, d)) /\ Side(data[At(s, d)], s) = d
    BY <2>1, <2>2, <2>4, <2>6
  <2>. QED
    BY <1>1, <2>5, <2>7 DEF Side, KnownLeaf
<1>. QED
  BY <1>2, <1>3 DEF Linked

LEMMA ChildInsertions ==
    ASSUME IInv, NEW t \in Threads, NEW o \in Op, o = helping[t],
           ChildDone(t, o), Published(o), ~Applied(o), Linked(t, o), Later
    PROVE  \A q \in Op : Insertion(q)'
<1> SUFFICES ASSUME NEW q \in Op PROVE Insertion(q)'
  OBVIOUS
<1>1. /\ data' = data /\ update' = update /\ info' = info
      /\ \A m : KnownLeaf(m) => KnownLeaf(m)'
  BY KnownStays DEF ChildDone
<1>2. Insertion(q) /\ (Published(q)' <=> Published(q)) /\ NewInternal(q) \in Internals
  BY NodeNames DEF IInv, Linked
<1>3. CASE q = o
  BY <1>1, <1>2, <1>3 DEF Insertion, Linked
<1>4. CASE q # o
  <2>1. Applied(q)' <=> Applied(q)
    BY <1>4, NodeNames DEF Applied, Linked
  <2>2. ~Applied(q) => NewInternal(q) # info[o].parent
    BY WaitsAtPlace DEF Applied
  <2>3. ~Applied(q) => \A d \in Sides : At(NewInternal(q), d)' = At(NewInternal(q), d)
    BY <1>2, <2>2 DEF Linked
  <2>4. CASE ~Published(q)
    BY <1>2, <2>1, <2>3, <2>4 DEF Insertion, At, Sides
  <2>5. CASE Published(q)
    <3>1. info[q].parent \in InternalsInTree' /\ KnownLeaf(info[q].leaf)'
      BY <1>1, <1>2, <2>5 DEF Insertion, Linked
    <3>2. info[q].parent # info[o].parent \/ SideOf(q) # SideOf(o)
      <4>1. CASE Applied(q)
        <5>1. Place(q) = NewInternal(q) /\ NewInternal(q) \notin Leaves
          BY <1>2, <4>1, NodeNames DEF Insertion
        <5>. QED
          BY <5>1, WaitsAtPlace DEF Place
      <4>2. CASE ~Applied(q)
        BY <1>2, <1>4, <2>5, <4>2, WaitsAtPlace, OneFlag DEF Insertion
      <4>. QED
        BY <4>1, <4>2
    <3>3. info[q].parent \in Internals /\ SideOf(q) \in Sides
      BY Types DEF IInv, SideOf, Side, Sides
    <3>4. PICK n, d : n = info[q].parent /\ d = SideOf(q)
      OBVIOUS
    <3>5. Place(q)' = Place(q)
      <4>1. At(n, d)' = At(n, d)
        BY <3>2, <3>3, <3>4 DEF Linked
      <4>2. SideOf(q)' = d
        BY <1>1, <3>4 DEF SideOf, Side
      <4>. QED
        BY <1>1, <3>4, <4>1, <4>2 DEF Place, At
    <3>6. Flagged(q)' <=> Flagged(q)
      BY <1>1 DEF Flagged
    <3>7. Working(q) => Working(q)'
      BY ChildCarried
    <3>8. \A k : ~Applied(q) => Child(NewInternal(q), k)' = Child(NewInternal(q), k)
      BY <1>1, <2>3 DEF Child, At, Sides
    <3>. QED
      BY <1>1, <1>2, <2>1, <2>5, <3>1, <3>5, <3>6, <3>7, <3>8 DEF Insertion
  <2>. QED
    BY <2>4, <2>5
<1>. QED
  BY <1>3, <1>4

(* A late helper changes nothing.                                          *)
LEMMA LateHelper ==
    ASSUME IInv, NEW t \in Threads, CASChild(t), NEW o \in Op, o = helping[t], Applied(o)
    PROVE  UNCHANGED tree
<1>1. Published(o) /\ Place(o) = NewInternal(o) /\ NewInternal(o) # info[o].leaf
  BY Types, NodeNames DEF IInv, Insertion
<1>. QED
  BY <1>1 DEF CASChild, tree, Place, At, SideOf, Side

LEMMA ChildInvariant ==
    ASSUME IInv, NEW t \in Threads, CASChild(t)
    PROVE  IInv'
<1>1. PICK o : o = helping[t]
  OBVIOUS
<1>2. pc[t] = "help" /\ o \in Op /\ Published(o)
  BY <1>1 DEF CASChild, IInv, Helping
<1>3. ChildDone(t, o) /\ Typed'
  BY <1>1, <1>2, ChildEffect, ChildTyped
<1>4. CASE Applied(o)
  <2>1. UNCHANGED tree
    BY <1>1, <1>2, <1>4, LateHelper
  <2>2. /\ Later /\ InternalsInTree' = InternalsInTree
        /\ \A n \in InternalsInTree' : Ordered(n)'
        /\ \A n \in Internals : Marked(n)'
    BY <2>1, TreeUnchanged
  <2>3. \A q \in Op : Insertion(q)' /\ Carried(q)'
    BY <1>2, <1>3, <2>1, CarriedOn DEF ChildDone
  <2>4. Reading(t)' /\ Helping(t)'
    BY <1>1, <1>2, <1>3, <1>4, <2>2 DEF Reading, Helping, ChildDone, Later, Applied
  <2>. QED
    BY <1>3, <2>2, <2>3, <2>4, ThreadsKeep DEF IInv, ChildDone
<1>5. CASE ~Applied(o)
  <2>1. Linked(t, o) /\ Later
    BY <1>2, <1>3, <1>5, ChildLinks
  <2>2. /\ \A n \in InternalsInTree' : Ordered(n)'
        /\ \A q \in Op : Insertion(q)' /\ Carried(q)'
    BY <1>1, <1>2, <1>3, <1>5, <2>1, ChildOrdered, ChildInsertions, ChildCarried
  <2>3. \A n \in Internals : Marked(n)'
    <3>1. data' = data /\ update' = update /\ info' = info
      BY <1>3 DEF ChildDone
    <3>2. \A q \in Op : Published(q)' <=> Published(q)
      BY <2>1 DEF Linked
    <3>. QED
      BY <3>1, <3>2, Types DEF IInv, Marked, UpdateRecord
  <2>4. Reading(t)' /\ Helping(t)'
    BY <1>1, <1>2, <1>3, <2>1 DEF Reading, Helping, ChildDone, Linked
  <2>. QED
    BY <1>3, <2>1, <2>2, <2>3, <2>4, ThreadsKeep DEF IInv, ChildDone
<1>. QED
  BY <1>4, <1>5

-----------------------------------------------------------------------------
(* Unflag: a flag goes, its insertion is in the tree.                      *)
UnflagDone(t, o) ==
    /\ \A n \in Internals : update'[n] = IF n = info[o].parent /\ Flagged(o)
                                         THEN [isDirty |-> FALSE, info |-> o] ELSE update[n]
    /\ data' = data /\ left' = left /\ right' = right /\ info' = info
    /\ InternalsInTree' = InternalsInTree
    /\ Alone(t) /\ pc[t] = "clean"
    /\ pc'[t] = IF o = Mine(t) THEN "true" ELSE "update"
    /\ o # Mine(t) => l'[t] = Root
    /\ UNCHANGED <<call, p, pupdate, done>>

LEMMA UnflagEffect ==
    ASSUME IInv, NEW t \in Threads, Unflag(t), NEW o \in Op, o = helping[t]
    PROVE  UnflagDone(t, o) /\ Typed'
<1>1. PICK n : n = info[o].parent
  OBVIOUS
<1>2. n \in Internals /\ update \in [Internals -> UpdateRecord]
  BY <1>1, Types DEF IInv, Typed, TypeOK
<1>3. update' = IF update[n] = [isDirty |-> TRUE, info |-> o]
                THEN [update EXCEPT ![n].isDirty = FALSE] ELSE update
  BY <1>1 DEF Unflag
<1>4. Flagged(o) => update' = [update EXCEPT ![n] = [isDirty |-> FALSE, info |-> o]]
  <2> SUFFICES ASSUME Flagged(o)
               PROVE  update' = [update EXCEPT ![n] = [isDirty |-> FALSE, info |-> o]]
    OBVIOUS
  <2>1. update' = [update EXCEPT ![n].isDirty = FALSE] /\ update[n] = [isDirty |-> TRUE, info |-> o]
    BY <1>1, <1>3 DEF Flagged
  <2>2. [update[n] EXCEPT !.isDirty = FALSE] = [isDirty |-> FALSE, info |-> o]
    <3>1. PICK w : w = [update[n] EXCEPT !.isDirty = FALSE]
      OBVIOUS
    <3>2. update[n] \in UpdateRecord
      BY <1>2
    <3>3. update[n].info = o
      BY <2>1
    <3>4. w \in UpdateRecord /\ w.isDirty = FALSE /\ w.info = o
      BY <3>1, <3>2, <3>3 DEF UpdateRecord
    <3>5. w = [isDirty |-> w.isDirty, info |-> w.info]
      BY <3>4 DEF UpdateRecord
    <3>. QED
      BY <3>1, <3>4, <3>5
  <2>3. [update EXCEPT ![n].isDirty = FALSE]
            = [update EXCEPT ![n] = [update[n] EXCEPT !.isDirty = FALSE]]
    BY <1>2
  <2>. QED
    BY <2>1, <2>2, <2>3
<1>8. ~Flagged(o) => update' = update
  BY <1>1, <1>3 DEF Flagged
<1>9. \A m \in Internals : update'[m] = IF m = n /\ Flagged(o)
                                        THEN [isDirty |-> FALSE, info |-> o] ELSE update[m]
  BY <1>2, <1>4, <1>8
<1>5. /\ data' = data /\ left' = left /\ right' = right /\ info' = info
      /\ InternalsInTree' = InternalsInTree
      /\ UNCHANGED <<call, p, pupdate, done>>
  BY DEF Unflag, InternalsInTree, Children
<1>6. /\ Alone(t) /\ pc[t] = "clean"
      /\ pc'[t] = IF o = Mine(t) THEN "true" ELSE "update"
      /\ o # Mine(t) => l'[t] = Root
  BY DEF Unflag, Alone, IInv, Typed, TypeOK, Goto, FromRoot
<1>7. Typed'
  <2>1. update' \in [Internals -> UpdateRecord]
    <3>1. [isDirty |-> FALSE, info |-> o] \in UpdateRecord
      BY DEF UpdateRecord
    <3>. QED
      BY <1>2, <1>4, <1>8, <3>1
  <2>2. /\ pc' \in [Threads -> {"idle", "update", "child", "flag", "help", "clean",
                                "true", "false"}]
        /\ helping' \in [Threads -> Op \cup {None}]
        /\ l' \in [Threads -> Node]
    <3>1. /\ pc' = [pc EXCEPT ![t] = "true"] \/ pc' = [pc EXCEPT ![t] = "update"]
          /\ l' = l \/ l' = [l EXCEPT ![t] = Root]
          /\ helping' = [helping EXCEPT ![t] = None]
      BY DEF Unflag, Goto, FromRoot
    <3>2. Root \in Node
      BY NodeNames
    <3>3. /\ pc \in [Threads -> {"idle", "update", "child", "flag", "help", "clean",
                                 "true", "false"}]
          /\ helping \in [Threads -> Op \cup {None}]
          /\ l \in [Threads -> Node]
      BY DEF IInv, Typed, TypeOK
    <3>. QED
      BY <3>1, <3>2, <3>3
  <2>3. \A u \in Threads : pc'[u] # "idle" => call'[u] \in {"insert", "search"} \X Keys
    BY <1>5, <1>6 DEF IInv, Typed, TypeOK, Alone
  <2>4. TypeOK'
    BY <1>5, <2>1, <2>2, <2>3 DEF IInv, Typed, TypeOK
  <2>5. \A u \in Threads : IsInsert(u)' <=> IsInsert(u)
    BY <1>5 DEF IsInsert
  <2>. QED
    BY <1>5, <1>6, <2>4, <2>5 DEF IInv, Typed, Alone
<1>. QED
  BY <1>1, <1>5, <1>6, <1>7, <1>9 DEF UnflagDone

LEMMA UnflagLater ==
    ASSUME IInv, NEW t \in Threads, NEW o \in Op, UnflagDone(t, o), Published(o)
    PROVE  Later /\ (\A q \in Op : Published(q)' <=> Published(q)) /\ ~Flagged(o)'
<1>1. info[o].parent \in Internals
  BY Types DEF IInv
<1>2. data' = data /\ info' = info /\ \A n, d : At(n, d)' = At(n, d)
  BY DEF UnflagDone, At
<1>3. \A q : Published(q)' <=> Published(q)
  BY DEF UnflagDone, Published
<1>4. ~Flagged(o)'
  <2>1. [isDirty |-> FALSE, info |-> o].isDirty # [isDirty |-> TRUE, info |-> o].isDirty
    OBVIOUS
  <2>2. update'[info[o].parent] # [isDirty |-> TRUE, info |-> o]
    BY <1>1, <2>1 DEF UnflagDone, Flagged
  <2>. QED
    BY <1>2, <2>2 DEF Flagged
<1>5. ASSUME NEW q \in Op, Flagged(q)'
      PROVE  Flagged(q)
  <2>1. info[q].parent \in Internals
    BY Types DEF IInv
  <2>. QED
    BY <1>2, <1>5, <2>1 DEF UnflagDone, Flagged
<1>6. ASSUME NEW n \in Internals, update'[n] # update[n]
      PROVE  /\ update'[n].info # None
             /\ update[n] = [isDirty |-> TRUE, info |-> o]
             /\ update'[n] = [isDirty |-> FALSE, info |-> o]
  <2>1. n = info[o].parent /\ Flagged(o)
    BY <1>6 DEF UnflagDone
  <2>2. o # None
    BY KeyAssumption DEF Op
  <2>3. /\ update'[n] = [isDirty |-> FALSE, info |-> o]
        /\ update[n] = [isDirty |-> TRUE, info |-> o]
    BY <1>1, <2>1 DEF UnflagDone, Flagged
  <2>. QED
    BY <2>2, <2>3
<1>7. InternalsInTree' = InternalsInTree
  BY DEF UnflagDone
<1>. QED
  BY <1>2, <1>3, <1>4, <1>5, <1>6, <1>7 DEF Later

LEMMA UnflagInvariant ==
    ASSUME IInv, NEW t \in Threads, Unflag(t)
    PROVE  IInv'
<1>1. PICK o : o = helping[t]
  OBVIOUS
<1>2. pc[t] = "clean" /\ o \in Op /\ Published(o) /\ Applied(o)
  BY <1>1 DEF Unflag, IInv, Helping
<1>3. UnflagDone(t, o) /\ Typed'
  BY <1>1, <1>2, UnflagEffect
<1>4. Later /\ (\A q \in Op : Published(q)' <=> Published(q)) /\ ~Flagged(o)'
  BY <1>2, <1>3, UnflagLater
<1>5. /\ data' = data /\ left' = left /\ right' = right /\ info' = info
      /\ InternalsInTree' = InternalsInTree /\ UNCHANGED <<call, p, pupdate, done>>
  BY <1>3 DEF UnflagDone
<1>6. \A n \in InternalsInTree' : Ordered(n)'
  BY <1>5 DEF IInv, Ordered, At, Side, KnownLeaf, Published
<1>7. \A n \in Internals : Marked(n)'
  <2> SUFFICES ASSUME NEW n \in Internals PROVE Marked(n)'
    OBVIOUS
  <2>1. CASE update'[n] = update[n]
    BY <1>4, <1>5, <2>1, Types DEF IInv, Marked, UpdateRecord
  <2>2. CASE update'[n] # update[n]
    <3>1. n = info[o].parent /\ update'[n] = [isDirty |-> FALSE, info |-> o]
      BY <1>3, <2>2 DEF UnflagDone
    <3>. QED
      BY <1>2, <1>4, <1>5, <3>1 DEF Marked
  <2>. QED
    BY <2>1, <2>2
<1>8. ASSUME NEW q \in Op
      PROVE  Insertion(q)' /\ Carried(q)'
  <2>1. /\ Insertion(q) /\ Carried(q)
        /\ Applied(q)' <=> Applied(q)
        /\ Published(q)' <=> Published(q)
    BY <1>4, <1>5 DEF IInv, Applied
  <2>2. q # o \/ q[1] # t => (Working(q) => Working(q)')
    BY <1>1, <1>3 DEF Working, Running, UnflagDone, Alone, Op
  <2>3. Working(q) /\ q = o /\ q[1] = t => Running(q)' /\ pc'[q[1]] = "true"
    <3>1. Running(q) /\ q[1] = t => q = Mine(t)
      BY DEF Running, Mine, Key, Op
    <3>. QED
      BY <1>3, <1>5, <3>1 DEF Working, Running, UnflagDone
  <2>4. Running(q) /\ pc[q[1]] = "true" => Running(q)' /\ pc'[q[1]] = "true"
    BY <1>2, <1>3 DEF Running, UnflagDone, Alone, Op
  <2>5. Published(q) => (Flagged(q)' => Flagged(q))
    BY <1>4 DEF Later
  <2>6. Carried(q)'
    BY <1>4, <1>5, <2>1, <2>2, <2>3, <2>4, <2>5 DEF Carried
  <2>7. Published(q) /\ ~Applied(q) => Flagged(q)'
    <3>1. Published(q) /\ ~Applied(q) =>
             Flagged(q) /\ ~(Flagged(o) /\ info[q].parent = info[o].parent)
      BY <1>2, <2>1, OneFlag DEF Insertion
    <3>2. info[q].parent \in Internals
      BY Types DEF IInv
    <3>. QED
      BY <1>3, <1>5, <3>1, <3>2 DEF UnflagDone, Flagged
  <2>8. /\ KnownLeaf(info[q].leaf) => KnownLeaf(info[q].leaf)'
        /\ Place(q)' = Place(q)
        /\ \A k : Child(NewInternal(q), k)' = Child(NewInternal(q), k)
    BY <1>5 DEF KnownLeaf, Published, Place, At, SideOf, Side, Child
  <2>9. ~Applied(q) => (Working(q) => Working(q)')
    BY <1>2, <2>2
  <2>10. Insertion(q)'
    BY <1>5, <2>1, <2>7, <2>8, <2>9 DEF Insertion
  <2>. QED
    BY <2>6, <2>10
<1>9. Reading(t)' /\ Helping(t)'
  <2>1. pc'[t] = "true" \/ (pc'[t] = "update" /\ l'[t] = Root)
    BY <1>3 DEF UnflagDone
  <2>2. Root \in InternalsInTree'
    BY InTreePrime
  <2>. QED
    BY <2>1, <2>2 DEF Reading, Helping
<1>. QED
  BY <1>3, <1>4, <1>6, <1>7, <1>8, <1>9, ThreadsKeep DEF IInv, UnflagDone

-----------------------------------------------------------------------------
LEMMA InitInvariant == Init => IInv
<1> SUFFICES ASSUME Init PROVE IInv
  OBVIOUS
<1>1. /\ \A n \in Internals : left[n] = MinLeaf /\ right[n] = MaxLeaf /\ update[n] = Clean
      /\ \A n \in Node : data[n] = IF n = MinLeaf THEN Inf1 ELSE Inf2
      /\ \A t \in Threads : pc[t] = "idle" /\ call[t] = <<>>
  BY NodeNames DEF Init
<1>2. Typed
  <2>1. TypeOK
    <3>1. /\ Clean \in UpdateRecord /\ MinLeaf \in Node /\ MaxLeaf \in Node /\ Root \in Node
          /\ NoInfo \in [parent : Internals, leaf : Leaves]
          /\ Root \in Internals
      BY NodeNames DEF Clean, UpdateRecord, NoInfo
    <3>. QED
      BY <3>1, KeyAssumption DEF Init, TypeOK
  <2>. QED
    BY <1>1, <2>1 DEF Init, Typed
<1>3. InternalsInTree = {Root} /\ \A o \in Op : ~Published(o) /\ ~Applied(o)
  <2>1. \A n : n \in InternalsInTree <=> n = Root
    BY <1>1, InTree, NodeNames DEF At
  <2>. QED
    BY <1>1, <2>1, NodeNames DEF Published, Applied
<1>4. Ordered(Root)
  BY <1>1, NodeNames, KeyAssumption DEF Ordered, At, Sides, Side, KnownLeaf, Node
<1>5. \A n \in Internals : Marked(n)
  BY <1>1 DEF Marked, Clean
<1>6. \A o \in Op : Insertion(o) /\ Carried(o)
  BY <1>1, <1>3, NodeNames DEF Insertion, Carried
<1>7. \A t \in Threads : Reading(t) /\ Helping(t)
  BY <1>1 DEF Reading, Helping
<1>. QED
  BY <1>2, <1>3, <1>4, <1>5, <1>6, <1>7 DEF IInv

LEMMA StutterInvariant ==
    ASSUME IInv, UNCHANGED vars
    PROVE  IInv'
<1>1. UNCHANGED tree /\ UNCHANGED local
  BY DEF vars
<1>2. /\ Later /\ InternalsInTree' = InternalsInTree
      /\ \A n \in InternalsInTree' : Ordered(n)'
      /\ \A n \in Internals : Marked(n)'
  BY <1>1, TreeUnchanged
<1>3. \A t \in Threads : Reading(t)' /\ Helping(t)'
  BY <1>1, <1>2, OthersKeep DEF local
<1>4. Typed'
  BY <1>1 DEF IInv, Typed, TypeOK, tree, local, IsInsert
<1>5. \A o \in Op : Working(o)' = Working(o) /\ Flagged(o)' = Flagged(o)
                   /\ Published(o)' = Published(o) /\ Running(o)' = Running(o)
  BY <1>1 DEF Published, Flagged, Working, Running, tree, local
<1>6. \A o \in Op : Insertion(o)'
  BY <1>1, <1>2, <1>5 DEF IInv, Insertion, Applied, Place, At, SideOf, Side, KnownLeaf, Child,
                          tree
<1>7. \A o \in Op : Carried(o)'
  BY <1>1, <1>5 DEF IInv, Carried, local
<1>. QED
  BY <1>2, <1>3, <1>4, <1>6, <1>7 DEF IInv

LEMMA NextInvariant == IInv /\ [Next]_vars => IInv'
<1> SUFFICES ASSUME IInv, [Next]_vars
             PROVE  IInv'
  OBVIOUS
<1>1. ASSUME NEW t \in Threads, Step(t)
      PROVE  IInv'
  BY <1>1, ReadUpdateInvariant, ReadChildInvariant, FlagInvariant, FlagFailsInvariant,
     ChildInvariant, UnflagInvariant, ReturnInvariant DEF Step
<1>2. ASSUME NEW t \in Threads, NEW k \in Keys, NEW kind \in {"insert", "search"},
             Invoke(t, kind, k)
      PROVE  IInv'
  BY <1>2, InvokeInvariant
<1>3. CASE UNCHANGED vars
  BY <1>3, StutterInvariant
<1>. QED
  BY <1>1, <1>2, <1>3 DEF Next

THEOREM Invariant == Spec => []IInv
<1>. QED
  BY InitInvariant, NextInvariant, PTL DEF Spec

(* Every variable keeps its type.                                          *)
THEOREM TypeCorrect == Spec => []TypeOK
<1>1. IInv => TypeOK
  BY DEF IInv, Typed
<1>. QED
  BY <1>1, Invariant, PTL

(* helpInsert() is never given a null record.                              *)
THEOREM HelpedIsReal == Spec => []HelpsSomebody
<1>1. IInv => HelpsSomebody
  <2> SUFFICES ASSUME IInv, NEW t \in Threads, pc[t] \in {"help", "clean"}
               PROVE  helping[t] # None
    BY DEF HelpsSomebody
  <2>1. helping[t] \in Op
    BY DEF IInv, Helping
  <2>. QED
    BY <2>1, KeyAssumption DEF Op
<1>. QED
  BY <1>1, Invariant, PTL

(* When no call is under way no flag is left in the tree.                  *)
THEOREM NoFlagLeft == Spec => []FlagsCleared
<1>1. IInv => FlagsCleared
  <2> SUFFICES ASSUME IInv, \A t \in Threads : pc[t] = "idle",
                      NEW n \in InternalsInTree, update[n].isDirty
               PROVE  FALSE
    BY DEF FlagsCleared
  <2>1. n \in Internals /\ update[n] \in UpdateRecord /\ Marked(n)
    BY Types DEF IInv
  <2>2. PICK o : o = update[n].info
    OBVIOUS
  <2>3. o \in Op /\ Published(o) /\ info[o].parent = n
    BY <2>1, <2>2 DEF Marked, UpdateRecord
  <2>4. update[n] = [isDirty |-> TRUE, info |-> o]
    BY <2>1, <2>2 DEF UpdateRecord
  <2>5. Working(o)
    BY <2>3, <2>4 DEF IInv, Carried, Flagged
  <2>. QED
    BY <2>3, <2>5 DEF Working, Op
<1>. QED
  BY <1>1, Invariant, PTL

(* A node's child changes only under the flag of the insertion that        *)
(* replaces it, and a flag goes only when its insertion is in the tree.    *)
Protected(n) ==
    LET u == update[n] IN
    /\ left'[n] # left[n] \/ right'[n] # right[n] =>
          /\ u.isDirty
          /\ NewInternal(u.info) \in {left'[n], right'[n]}
          /\ info[u.info].leaf \in {left[n], right[n]}
    /\ u.isDirty /\ update'[n] # u => Applied(u.info)

LEMMA StepProtects ==
    ASSUME IInv, NEW t \in Threads, Step(t), NEW n \in InternalsInTree
    PROVE  Protected(n)
<1>1. n \in Internals
  BY Types DEF IInv
<1>2. CASE ReadUpdate(t) \/ ReadChild(t) \/ FlagFails(t) \/ Return(t)
  BY <1>2 DEF ReadUpdate, ReadChild, FlagFails, Return, tree, Protected
<1>3. CASE Flag(t)
  <2>1. PICK o : o = Mine(t)
    OBVIOUS
  <2>2. o \in Op
    BY <1>3, <2>1, Types DEF Flag, IInv
  <2>3. FlagDone(t, o) /\ ~update[p[t]].isDirty /\ ~Applied(o)
    BY <1>3, <2>1, <2>2, FlagEffect, FlagBegins
  <2>4. \A d \in Sides : At(n, d)' = At(n, d)
    BY <1>1, <2>3 DEF FlagDone, Applied
  <2>5. left'[n] = left[n] /\ right'[n] = right[n]
    BY <2>4 DEF At, Sides
  <2>6. update[n].isDirty => update'[n] = update[n]
    BY <1>1, <2>3 DEF FlagDone
  <2>. QED
    BY <2>5, <2>6 DEF Protected
<1>4. CASE CASChild(t)
  <2>1. PICK o : o = helping[t]
    OBVIOUS
  <2>2. o \in Op /\ Published(o)
    BY <1>4, <2>1 DEF CASChild, IInv, Helping
  <2>3. ChildDone(t, o)
    BY <1>4, <2>1, <2>2, ChildEffect
  <2>4. CASE \A d \in Sides : At(n, d)' = At(n, d)
    BY <2>3, <2>4 DEF Protected, ChildDone, At, Sides
  <2>5. CASE \E d \in Sides : At(n, d)' # At(n, d)
    <3>1. /\ n = info[o].parent /\ At(n, SideOf(o)) = info[o].leaf /\ SideOf(o) \in Sides
      BY <1>1, <2>3, <2>5 DEF ChildDone
    <3>2. ~Applied(o)
      BY <2>2, <3>1, Types, NodeNames DEF IInv, Insertion, Place
    <3>3. Flagged(o) /\ NewInternal(o) = Place(o)'
      BY <2>2, <2>3, <3>2, WaitsAtPlace, ChildLinks DEF Linked
    <3>4. update[n].isDirty /\ update[n].info = o /\ update'[n] = update[n]
      BY <2>3, <3>1, <3>3 DEF Flagged, ChildDone
    <3>5. info[o].leaf \in {left[n], right[n]}
      BY <3>1 DEF At, Sides
    <3>6. NewInternal(o) \in {left'[n], right'[n]}
      BY <2>3, <3>1, <3>3 DEF Place, At, ChildDone
    <3>. QED
      BY <3>4, <3>5, <3>6 DEF Protected
  <2>. QED
    BY <2>4, <2>5
<1>5. CASE Unflag(t)
  <2>1. PICK o : o = helping[t]
    OBVIOUS
  <2>2. o \in Op /\ Published(o) /\ Applied(o)
    BY <1>5, <2>1 DEF Unflag, IInv, Helping
  <2>3. UnflagDone(t, o)
    BY <1>5, <2>1, <2>2, UnflagEffect
  <2>4. update'[n] # update[n] => update[n].info = o
    BY <1>1, <2>3 DEF UnflagDone, Flagged
  <2>. QED
    BY <2>2, <2>3, <2>4 DEF Protected, UnflagDone
<1>. QED
  BY <1>2, <1>3, <1>4, <1>5 DEF Step

THEOREM FlagsProtect == Spec => FlagProtectsChild
<1>1. ASSUME IInv, [Next]_vars
      PROVE  [\A n \in InternalsInTree : Protected(n)]_vars
  <2>1. ASSUME NEW t \in Threads, NEW k \in Keys, NEW kind \in {"insert", "search"},
               Invoke(t, kind, k), NEW n \in InternalsInTree
        PROVE  Protected(n)
    BY <2>1 DEF Invoke, tree, Protected
  <2>. QED
    BY <1>1, <2>1, StepProtects DEF Next
<1>2. ASSUME IInv, [Next]_vars
      PROVE  [\A n \in InternalsInTree :
                LET u == update[n] IN
                /\ left'[n] # left[n] \/ right'[n] # right[n] =>
                      /\ u.isDirty
                      /\ NewInternal(u.info) \in {left'[n], right'[n]}
                      /\ info[u.info].leaf \in {left[n], right[n]}
                /\ u.isDirty /\ update'[n] # u => Applied(u.info)]_vars
  BY <1>1, <1>2 DEF Protected
<1>. QED
  BY <1>2, Invariant, PTL DEF Spec, FlagProtectsChild

-----------------------------------------------------------------------------
(* R[n] is the set of keys whose search path goes through n: everything at *)
(* the root, and below a node the part on one side of its key.             *)
Part(R, n, d) == {x \in R[n] : Side(x, n) = d}

TreeRanges(R) ==
    /\ R[Root] = Int
    /\ \A n \in InternalsInTree, d \in Sides :
          /\ At(n, d) \in Internals => R[At(n, d)] = Part(R, n, d)
          /\ At(n, d) \in Leaves => data[At(n, d)] \in R[n]
    /\ \A m, n \in InternalsInTree, d, e \in Sides :
          At(m, d) \in Leaves /\ At(n, e) \in Leaves /\ (m # n \/ d # e)
             => Part(R, m, d) \cap Part(R, n, e) = {}

(* A thread reads nodes on the path of its key only.                       *)
Sought(R, t) ==
    /\ pc[t] = "update" => Key(t) \in R[l[t]]
    /\ pc[t] \in {"child", "flag"} => Key(t) \in R[p[t]]

(* An insertion waits at the leaf on the path of its key.                  *)
Due(R, o) ==
    Published(o) /\ ~Applied(o) =>
        o[2] \in R[info[o].parent] /\ Child(info[o].parent, o[2]) = info[o].leaf

Ranges(R) ==
    /\ R \in [Internals -> SUBSET Int]
    /\ TreeRanges(R)
    /\ \A t \in Threads : Sought(R, t)
    /\ \A o \in Op : Due(R, o)

RangeInv == IInv /\ \E R : Ranges(R)

-----------------------------------------------------------------------------
(* The tree keeps its shape in all steps but one.                          *)
SameShape == /\ InternalsInTree' = InternalsInTree
             /\ \A n \in InternalsInTree, d \in Sides : At(n, d)' = At(n, d)

LEMMA ShapeOfTree ==
    ASSUME UNCHANGED tree
    PROVE  SameShape
BY DEF SameShape, tree, InternalsInTree, Children, At

LEMMA RangesKept ==
    ASSUME IInv, Later, SameShape, NEW R, TreeRanges(R)
    PROVE  TreeRanges(R)'
<1>1. \A n \in InternalsInTree : data'[n] = data[n]
  BY Types, NodeNames DEF Later, Known, IInv
<1>2. \A n \in InternalsInTree, d \in Sides :
         At(n, d) \in Leaves => data'[At(n, d)] = data[At(n, d)]
  BY NodeNames DEF Later, Known, IInv, Ordered
<1>3. \A n \in InternalsInTree, d \in Sides : Part(R, n, d)' = Part(R, n, d)
  BY <1>1 DEF Part, Side
<1>. QED
  BY <1>2, <1>3 DEF TreeRanges, SameShape

LEMMA DueKept ==
    ASSUME IInv, Later, SameShape, NEW R, NEW o \in Op, Due(R, o), Published(o)
    PROVE  Due(R, o)'
<1>1. /\ info'[o] = info[o] /\ (Applied(o)' <=> Applied(o))
      /\ info[o].parent \in InternalsInTree
  BY DEF Later, SameShape, Applied, IInv, Insertion
<1>2. PICK n : n = info[o].parent
  OBVIOUS
<1>3. data'[n] = data[n] /\ \A d \in Sides : At(n, d)' = At(n, d)
  BY <1>1, <1>2, Types, NodeNames DEF Later, Known, SameShape, IInv
<1>4. left'[n] = left[n] /\ right'[n] = right[n]
  BY <1>3 DEF At, Sides
<1>. QED
  BY <1>1, <1>2, <1>3, <1>4 DEF Due, Child

LEMMA SoughtKept ==
    ASSUME NEW t \in Threads, Alone(t), NEW R, \A u \in Threads : Sought(R, u), Sought(R, t)'
    PROVE  \A u \in Threads : Sought(R, u)'
BY DEF Sought, Alone, Key

(* Steps that leave the tree alone.                                        *)
LEMMA QuietStep ==
    ASSUME IInv, UNCHANGED tree, NEW t \in Threads, Alone(t), NEW R, Ranges(R), Sought(R, t)'
    PROVE  Ranges(R)'
<1>1. Later /\ SameShape
  BY TreeUnchanged, ShapeOfTree
<1>2. \A o \in Op : Due(R, o)'
  <2> SUFFICES ASSUME NEW o \in Op PROVE Due(R, o)'
    OBVIOUS
  <2>1. Published(o)' <=> Published(o)
    BY DEF Published, tree
  <2>2. ~Published(o) => Due(R, o)'
    BY <2>1 DEF Due
  <2>. QED
    BY <1>1, <2>2, DueKept DEF Ranges
<1>. QED
  BY <1>1, <1>2, RangesKept, SoughtKept DEF Ranges

LEMMA InvokeRanges ==
    ASSUME IInv, NEW t \in Threads, NEW R, Ranges(R), NEW k \in Keys,
           NEW kind \in {"insert", "search"}, Invoke(t, kind, k)
    PROVE  Ranges(R)'
<1>1. UNCHANGED tree /\ Alone(t)
  BY DEF Invoke, FromRoot, Goto, Alone, IInv, Typed, TypeOK
<1>2. pc'[t] = "update" /\ l'[t] = Root /\ call'[t] = <<kind, k>> /\ k \in Int
  BY KeyAssumption DEF Invoke, FromRoot, Goto, IInv, Typed, TypeOK
<1>3. Key(t)' = k
  BY <1>2 DEF Key
<1>4. Sought(R, t)'
  BY <1>2, <1>3 DEF Sought, Ranges, TreeRanges
<1>. QED
  BY <1>1, <1>4, QuietStep

LEMMA ReadUpdateRanges ==
    ASSUME IInv, NEW t \in Threads, NEW R, Ranges(R), ReadUpdate(t)
    PROVE  Ranges(R)'
<1>1. UNCHANGED tree /\ Alone(t)
  BY DEF ReadUpdate, Goto, Alone, IInv, Typed, TypeOK
<1>2. pc[t] = "update" /\ pc'[t] = "child" /\ p'[t] = l[t] /\ Key(t)' = Key(t)
  BY DEF ReadUpdate, Goto, IInv, Typed, TypeOK, Key
<1>3. Key(t) \in R[l[t]]
  BY <1>2 DEF Ranges, Sought
<1>4. Sought(R, t)'
  BY <1>2, <1>3 DEF Sought
<1>. QED
  BY <1>1, <1>4, QuietStep

LEMMA ReadChildRanges ==
    ASSUME IInv, NEW t \in Threads, NEW R, Ranges(R), ReadChild(t)
    PROVE  Ranges(R)'
<1>1. UNCHANGED tree /\ Alone(t)
  BY DEF ReadChild, Goto, Alone, IInv, Typed, TypeOK
<1>2. PICK c, n, d, k : c = Child(p[t], Key(t)) /\ n = p[t] /\ d = Side(k, n) /\ k = Key(t)
  OBVIOUS
<1>3. /\ pc[t] = "child" /\ l'[t] = c /\ p'[t] = n /\ Key(t)' = k
      /\ pc'[t] = "update" => ~IsLeaf(c)
      /\ n \in InternalsInTree
  BY <1>2 DEF ReadChild, Goto, IInv, Typed, TypeOK, Key, Reading
<1>4. c = At(n, d) /\ d \in Sides
  BY <1>2 DEF Child, At, Side, Sides
<1>5. k \in R[n]
  BY <1>2, <1>3 DEF Ranges, Sought
<1>6. ~IsLeaf(c) => c \in Internals
  BY <1>3, <1>4, Types, NodeNames DEF IInv, IsLeaf
<1>7. ~IsLeaf(c) => k \in R[c]
  <2>1. k \in Part(R, n, d)
    BY <1>2, <1>5 DEF Part
  <2>. QED
    BY <1>3, <1>4, <1>6, <2>1 DEF Ranges, TreeRanges
<1>8. Sought(R, t)'
  BY <1>3, <1>5, <1>7 DEF Sought
<1>. QED
  BY <1>1, <1>8, QuietStep

LEMMA OtherRanges ==
    ASSUME IInv, NEW t \in Threads, NEW R, Ranges(R), FlagFails(t) \/ Return(t)
    PROVE  Ranges(R)'
<1>1. UNCHANGED tree /\ Alone(t) /\ pc'[t] \in {"help", "idle"}
  BY DEF FlagFails, Return, Goto, Alone, IInv, Typed, TypeOK
<1>2. Sought(R, t)'
  BY <1>1 DEF Sought
<1>. QED
  BY <1>1, <1>2, QuietStep

LEMMA FlagRanges ==
    ASSUME IInv, NEW t \in Threads, NEW R, Ranges(R), Flag(t)
    PROVE  Ranges(R)'
<1>1. PICK o : o = Mine(t)
  OBVIOUS
<1>2. o \in Op
  BY <1>1, Types DEF Flag, IInv
<1>3. FlagDone(t, o) /\ Later
  BY <1>1, <1>2, FlagEffect, FlagLater
<1>4. /\ pc[t] = "flag" /\ o[2] = Key(t) /\ ~Applied(o)
      /\ p[t] \in InternalsInTree /\ p[t] \in Internals
      /\ l[t] = At(p[t], Side(Key(t), p[t]))
  BY <1>1, <1>2, FlagBegins
<1>5. SameShape
  BY <1>3, <1>4, Types DEF SameShape, FlagDone, Applied, IInv
<1>6. \A q \in Op : q # o => Due(R, q)'
  <2> SUFFICES ASSUME NEW q \in Op, q # o PROVE Due(R, q)'
    OBVIOUS
  <2>1. Published(q)' <=> Published(q)
    BY <1>3 DEF FlagDone
  <2>2. ~Published(q) => Due(R, q)'
    BY <2>1 DEF Due
  <2>. QED
    BY <1>3, <1>5, <2>2, DueKept DEF Ranges
<1>7. Due(R, o)'
  <2>1. PICK n, k, c : n = p[t] /\ k = Key(t) /\ c = l[t]
    OBVIOUS
  <2>2. info'[o].parent = n /\ info'[o].leaf = c /\ k \in R[n] /\ o[2] = k
    BY <1>3, <1>4, <2>1 DEF FlagDone, Ranges, Sought
  <2>3. data'[n] = data[n] /\ \A d \in Sides : At(n, d)' = At(n, d)
    BY <1>3, <1>4, <1>5, <2>1, NodeNames DEF Later, Known, SameShape
  <2>4. c = At(n, Side(k, n)) /\ Side(k, n) \in Sides
    BY <1>4, <2>1 DEF Side, Sides
  <2>5. Child(n, k)' = At(n, Side(k, n))
    BY <2>3 DEF Child, At, Side, Sides
  <2>. QED
    BY <2>2, <2>4, <2>5 DEF Due
<1>8. Sought(R, t)' /\ Alone(t)
  BY <1>3 DEF FlagDone, Sought
<1>. QED
  BY <1>3, <1>5, <1>6, <1>7, <1>8, RangesKept, SoughtKept DEF Ranges

-----------------------------------------------------------------------------
(* The step that changes the tree.                                         *)
LEMMA Subtree ==
    ASSUME IInv, NEW o \in Op, Published(o), ~Applied(o),
           NEW s, s = NewInternal(o), NEW b, b = data[NewSibling(o)]
    PROVE  /\ s \in Internals /\ b = data[info[o].leaf] /\ o[2] # b /\ data[NewNode(o)] = o[2]
           /\ NewNode(o) \in Leaves /\ NewSibling(o) \in Leaves
           /\ \A d \in Sides : \/ d = Side(o[2], s) /\ At(s, d) = NewNode(o)
                               \/ d = Side(b, s) /\ At(s, d) = NewSibling(o)
<1>1. /\ data[NewNode(o)] = o[2] /\ s \in Internals /\ b = data[info[o].leaf] /\ o[2] # b
      /\ Child(s, o[2]) = NewNode(o) /\ Child(s, b) = NewSibling(o)
      /\ NewNode(o) # NewSibling(o) /\ NewNode(o) \in Leaves /\ NewSibling(o) \in Leaves
  BY NodeNames DEF IInv, Insertion
<1>2. \A k : Child(s, k) = At(s, Side(k, s)) /\ Side(k, s) \in Sides
  BY DEF Child, At, Side, Sides
<1>3. \A d \in Sides : \/ d = Side(o[2], s) /\ At(s, d) = NewNode(o)
                       \/ d = Side(b, s) /\ At(s, d) = NewSibling(o)
  BY <1>1, <1>2 DEF Sides
<1>. QED
  BY <1>1, <1>3

LEMMA DueAtPlace ==
    ASSUME IInv, NEW R, Ranges(R), NEW o \in Op, Published(o), ~Applied(o),
           NEW n, n = info[o].parent, NEW d, d = SideOf(o), NEW b, b = data[info[o].leaf]
    PROVE  o[2] \in Part(R, n, d) /\ b \in Part(R, n, d)
<1>1. /\ n \in InternalsInTree /\ d \in Sides /\ At(n, d) = info[o].leaf /\ info[o].leaf \in Leaves
      /\ o[2] \in R[n] /\ Child(n, o[2]) = info[o].leaf
  BY WaitsAtPlace DEF Ranges, Due
<1>2. Side(b, n) = d /\ b \in R[n]
  BY <1>1 DEF IInv, Ordered, Ranges, TreeRanges
<1>3. At(n, Side(o[2], n)) = info[o].leaf /\ Side(o[2], n) \in Sides
  BY <1>1 DEF Child, At, Side, Sides
<1>4. Side(b, n) = Side(o[2], n)
  BY <1>1, <1>3 DEF IInv, Ordered
<1>. QED
  BY <1>1, <1>2, <1>4 DEF Part

(* The place of o becomes a node.                                          *)
Split(R, o) == [R EXCEPT ![NewInternal(o)] = Part(R, info[o].parent, SideOf(o))]

LEMMA SplitRanges ==
    ASSUME IInv, NEW R, Ranges(R), NEW t \in Threads, NEW o \in Op, ChildDone(t, o),
           Published(o), ~Applied(o), Linked(t, o),
           NEW Q, Q = Split(R, o)
    PROVE  TreeRanges(Q)' /\ \A m \in InternalsInTree : Q[m] = R[m]
<1>1. PICK n, d, s, b : /\ n = info[o].parent /\ d = SideOf(o) /\ s = NewInternal(o)
                        /\ b = data[NewSibling(o)]
  OBVIOUS
<1>2. /\ s \in Internals /\ s \notin InternalsInTree /\ s \notin Leaves
      /\ n \in InternalsInTree /\ d \in Sides /\ At(n, d) \in Leaves
      /\ InternalsInTree \subseteq Internals
  BY <1>1, WaitsAtPlace, NodeNames, Types DEF Applied, IInv
<1>3. /\ Q[s] = Part(R, n, d)
      /\ \A m \in InternalsInTree : Q[m] = R[m]
  BY <1>1, <1>2 DEF Ranges, Split
<1>4. /\ data' = data /\ At(n, d)' = s
      /\ \A m \in Internals, e \in Sides : m # n \/ e # d => At(m, e)' = At(m, e)
      /\ \A m \in InternalsInTree' : m \in InternalsInTree \/ m = s
  BY <1>1, <1>2, WaitsAtPlace DEF Linked, ChildDone
<1>5. \A m, e : Part(Q, m, e)' = Part(Q, m, e)
  BY <1>4 DEF Part, Side
<1>6. \A m \in InternalsInTree : \A e : Part(Q, m, e) = Part(R, m, e)
  BY <1>3 DEF Part
<1>7. \A e \in Sides : /\ At(s, e)' \in Leaves /\ data[At(s, e)'] \in Q[s]
                       /\ Part(Q, s, e) \subseteq Part(R, n, d)
  <2>1. \A e \in Sides : At(s, e)' \in {NewNode(o), NewSibling(o)}
    BY <1>1, <1>2, <1>4, Subtree
  <2>2. NewNode(o) \in Leaves /\ NewSibling(o) \in Leaves
    BY <1>1, Subtree
  <2>3. data[NewNode(o)] \in Part(R, n, d) /\ data[NewSibling(o)] \in Part(R, n, d)
    BY <1>1, Subtree, DueAtPlace
  <2>4. \A e \in Sides : Part(Q, s, e) \subseteq Part(R, n, d)
    BY <1>3 DEF Part
  <2>. QED
    BY <1>3, <2>1, <2>2, <2>3, <2>4
<1>8. Q[Root] = Int
  BY <1>3, InTree DEF Ranges, TreeRanges
<1>9. \A m \in InternalsInTree', e \in Sides :
         /\ At(m, e)' \in Internals => Q[At(m, e)'] = Part(Q, m, e)
         /\ At(m, e)' \in Leaves => data[At(m, e)'] \in Q[m]
  <2> SUFFICES ASSUME NEW m \in InternalsInTree', NEW e \in Sides
               PROVE  /\ At(m, e)' \in Internals => Q[At(m, e)'] = Part(Q, m, e)
                      /\ At(m, e)' \in Leaves => data[At(m, e)'] \in Q[m]
    OBVIOUS
  <2>1. CASE m = s
    BY <1>7, <2>1, NodeNames
  <2>2. CASE m = n /\ e = d
    BY <1>2, <1>3, <1>4, <1>6, <2>2
  <2>3. CASE m # s /\ (m # n \/ e # d)
    <3>1. m \in InternalsInTree /\ m \in Internals /\ At(m, e)' = At(m, e)
      BY <1>2, <1>4, <2>3
    <3>2. PICK c : c = At(m, e)
      OBVIOUS
    <3>3. c \in Internals => c \in InternalsInTree
      BY <3>1, <3>2, InTree
    <3>4. Q[m] = R[m] /\ Part(Q, m, e) = Part(R, m, e)
      BY <1>3, <1>6, <3>1
    <3>5. /\ c \in Internals => R[c] = Part(R, m, e)
          /\ c \in Leaves => data[c] \in R[m]
      BY <3>1, <3>2 DEF Ranges, TreeRanges
    <3>6. c \in Internals => Q[c] = R[c]
      BY <1>3, <3>3
    <3>. QED
      BY <3>1, <3>2, <3>4, <3>5, <3>6
  <2>. QED
    BY <2>1, <2>2, <2>3
<1>10. \A i, m \in InternalsInTree', e, f \in Sides :
          At(i, e)' \in Leaves /\ At(m, f)' \in Leaves /\ (i # m \/ e # f)
             => Part(Q, i, e) \cap Part(Q, m, f) = {}
  <2>1. ASSUME NEW i \in InternalsInTree', NEW e \in Sides, At(i, e)' \in Leaves, i # s
        PROVE  i \in InternalsInTree /\ At(i, e) \in Leaves /\ (i # n \/ e # d)
    BY <1>2, <1>4, <2>1
  <2>2. ASSUME NEW i \in InternalsInTree', NEW e \in Sides, At(i, e)' \in Leaves, i # s,
               NEW f \in Sides
        PROVE  Part(Q, i, e) \cap Part(Q, s, f) = {}
    <3>1. Part(R, i, e) \cap Part(R, n, d) = {}
      BY <1>2, <2>1, <2>2 DEF Ranges, TreeRanges
    <3>. QED
      BY <1>6, <1>7, <2>1, <2>2, <3>1
  <2>3. \A e, f \in Sides : e # f => Part(Q, s, e) \cap Part(Q, s, f) = {}
    BY DEF Part
  <2>4. ASSUME NEW i \in InternalsInTree', NEW m \in InternalsInTree',
               NEW e \in Sides, NEW f \in Sides,
               At(i, e)' \in Leaves, At(m, f)' \in Leaves, i # m \/ e # f, i # s, m # s
        PROVE  Part(Q, i, e) \cap Part(Q, m, f) = {}
    <3>1. Part(R, i, e) \cap Part(R, m, f) = {}
      BY <2>1, <2>4 DEF Ranges, TreeRanges
    <3>. QED
      BY <1>6, <2>1, <2>4, <3>1
  <2>5. ASSUME NEW m \in InternalsInTree', NEW f \in Sides, At(m, f)' \in Leaves, m # s,
               NEW e \in Sides
        PROVE  Part(Q, s, e) \cap Part(Q, m, f) = {}
    <3>1. Part(Q, m, f) \cap Part(Q, s, e) = {}
      BY <2>2, <2>5
    <3>. QED
      BY <3>1
  <2> SUFFICES ASSUME NEW i \in InternalsInTree', NEW m \in InternalsInTree',
                      NEW e \in Sides, NEW f \in Sides,
                      At(i, e)' \in Leaves, At(m, f)' \in Leaves, i # m \/ e # f
               PROVE  Part(Q, i, e) \cap Part(Q, m, f) = {}
    OBVIOUS
  <2>6. CASE i = s /\ m = s
    BY <2>3, <2>6
  <2>7. CASE i # s /\ m = s
    BY <2>2, <2>7
  <2>8. CASE i = s /\ m # s
    BY <2>5, <2>8
  <2>9. CASE i # s /\ m # s
    BY <2>4, <2>9
  <2>. QED
    BY <2>6, <2>7, <2>8, <2>9
<1>11. TreeRanges(Q)'
  <2>1. \A m \in InternalsInTree', e \in Sides :
           /\ At(m, e)' \in Internals => Q[At(m, e)'] = Part(Q, m, e)'
           /\ At(m, e)' \in Leaves => data'[At(m, e)'] \in Q[m]
    BY <1>4, <1>5, <1>9
  <2>2. \A i, m \in InternalsInTree', e, f \in Sides :
           At(i, e)' \in Leaves /\ At(m, f)' \in Leaves /\ (i # m \/ e # f)
              => Part(Q, i, e)' \cap Part(Q, m, f)' = {}
    <3> SUFFICES ASSUME NEW i \in InternalsInTree', NEW m \in InternalsInTree',
                        NEW e \in Sides, NEW f \in Sides,
                        At(i, e)' \in Leaves, At(m, f)' \in Leaves, i # m \/ e # f
                 PROVE  Part(Q, i, e)' \cap Part(Q, m, f)' = {}
      OBVIOUS
    <3>1. Part(Q, i, e)' = Part(Q, i, e) /\ Part(Q, m, f)' = Part(Q, m, f)
      BY <1>5
    <3>2. Part(Q, i, e) \cap Part(Q, m, f) = {}
      BY <1>10
    <3>. QED
      BY <3>1, <3>2
  <2>. QED
    BY <1>8, <2>1, <2>2 DEF TreeRanges
<1>. QED
  BY <1>3, <1>11

LEMMA ChildRanges ==
    ASSUME IInv, NEW t \in Threads, NEW R, Ranges(R), CASChild(t)
    PROVE  \E Q : Ranges(Q)'
<1>1. PICK o : o = helping[t]
  OBVIOUS
<1>2. o \in Op /\ Published(o)
  BY <1>1 DEF CASChild, IInv, Helping
<1>3. ChildDone(t, o)
  BY <1>1, <1>2, ChildEffect
<1>4. Alone(t) /\ pc'[t] = "clean"
  BY <1>3 DEF ChildDone
<1>5. \A Q : Sought(Q, t)'
  BY <1>4 DEF Sought
<1>6. CASE Applied(o)
  <2>1. Ranges(R)'
    BY <1>1, <1>2, <1>4, <1>5, <1>6, LateHelper, QuietStep
  <2>. QED
    BY <2>1
<1>7. CASE ~Applied(o)
  <2>1. Linked(t, o) /\ Later
    BY <1>2, <1>3, <1>7, ChildLinks
  <2>2. PICK Q : Q = Split(R, o)
    OBVIOUS
  <2>3. TreeRanges(Q)' /\ \A m \in InternalsInTree : Q[m] = R[m]
    BY <1>2, <1>3, <1>7, <2>1, <2>2, SplitRanges
  <2>4. Q \in [Internals -> SUBSET Int]
    <3>1. Part(R, info[o].parent, SideOf(o)) \subseteq Int
      BY <1>2, Types DEF Ranges, Part, IInv
    <3>. QED
      BY <2>2, <3>1 DEF Ranges, Split
  <2>5. \A u \in Threads : Sought(Q, u)
    <3> SUFFICES ASSUME NEW u \in Threads PROVE Sought(Q, u)
      OBVIOUS
    <3>1. /\ pc[u] = "update" => l[u] \in InternalsInTree /\ Key(u) \in R[l[u]]
          /\ pc[u] \in {"child", "flag"} => p[u] \in InternalsInTree /\ Key(u) \in R[p[u]]
      BY DEF IInv, Reading, Ranges, Sought
    <3>. QED
      BY <2>3, <3>1 DEF Sought
  <2>6. \A u \in Threads : Sought(Q, u)'
    BY <1>4, <1>5, <2>5, SoughtKept
  <2>7. ASSUME NEW q \in Op
        PROVE  Due(Q, q)'
    <3>1. CASE ~Published(q) \/ Applied(q) \/ q = o
      BY <2>1, <3>1 DEF Linked, Due, Applied
    <3>2. CASE Published(q) /\ ~Applied(q) /\ q # o
      <4>1. PICK n : n = info[q].parent
        OBVIOUS
      <4>2. n \in InternalsInTree /\ n \in Internals /\ n # info[o].parent
        BY <1>2, <1>7, <3>2, <4>1, WaitsAtPlace, OneFlag
      <4>3. q[2] \in Q[n] /\ Child(n, q[2]) = info[q].leaf
        BY <2>3, <3>2, <4>1, <4>2 DEF Ranges, Due
      <4>4. data' = data /\ info' = info /\ \A d \in Sides : At(n, d)' = At(n, d)
        BY <2>1, <1>3, <4>2 DEF Linked, ChildDone
      <4>5. Child(n, q[2])' = Child(n, q[2])
        BY <4>4 DEF Child, At, Sides
      <4>. QED
        BY <4>1, <4>3, <4>4, <4>5 DEF Due
    <3>. QED
      BY <3>1, <3>2
  <2>. QED
    BY <2>3, <2>4, <2>6, <2>7 DEF Ranges
<1>. QED
  BY <1>6, <1>7

LEMMA UnflagRanges ==
    ASSUME IInv, NEW t \in Threads, NEW R, Ranges(R), Unflag(t)
    PROVE  Ranges(R)'
<1>1. PICK o : o = helping[t]
  OBVIOUS
<1>2. o \in Op /\ Published(o)
  BY <1>1 DEF Unflag, IInv, Helping
<1>3. UnflagDone(t, o)
  BY <1>1, <1>2, UnflagEffect
<1>4. Later /\ \A q \in Op : Published(q)' <=> Published(q)
  BY <1>2, <1>3, UnflagLater
<1>5. SameShape
  BY <1>3 DEF SameShape, UnflagDone, At
<1>6. \A q \in Op : Due(R, q)'
  <2> SUFFICES ASSUME NEW q \in Op PROVE Due(R, q)'
    OBVIOUS
  <2>1. ~Published(q) => Due(R, q)'
    BY <1>4 DEF Due
  <2>. QED
    BY <1>4, <1>5, <2>1, DueKept DEF Ranges
<1>7. Sought(R, t)' /\ Alone(t)
  <2>1. \/ pc'[t] = "true"
        \/ pc'[t] = "update" /\ l'[t] = Root
    BY <1>3 DEF UnflagDone
  <2>2. Key(t)' \in Int
    <3>1. pc[t] = "clean" /\ call' = call
      BY <1>3 DEF UnflagDone
    <3>. QED
      BY <3>1, Types, KeyAssumption DEF IInv, Key
  <2>3. Alone(t)
    BY <1>3 DEF UnflagDone
  <2>4. R[Root] = Int
    BY DEF Ranges, TreeRanges
  <2>. QED
    BY <2>1, <2>2, <2>3, <2>4 DEF Sought
<1>. QED
  BY <1>4, <1>5, <1>6, <1>7, RangesKept, SoughtKept DEF Ranges

-----------------------------------------------------------------------------
LEMMA InitRanges == Init => RangeInv
<1> SUFFICES ASSUME Init PROVE \E R : Ranges(R)
  BY InitInvariant DEF RangeInv
<1>1. PICK R : R = [n \in Internals |-> Int]
  OBVIOUS
<1>2. IInv /\ \A n \in Internals : left[n] = MinLeaf /\ right[n] = MaxLeaf
  BY InitInvariant DEF Init
<1>3. \A n : n \in InternalsInTree <=> n = Root
  BY <1>2, InTree, NodeNames DEF At
<1>4. TreeRanges(R)
  <2>1. R[Root] = Int
    BY <1>1, NodeNames
  <2>2. \A d \in Sides : At(Root, d) \in Leaves /\ data[At(Root, d)] \in Int
    BY <1>2, NodeNames, Types DEF At, IInv
  <2>3. \A d, e \in Sides : d # e => Part(R, Root, d) \cap Part(R, Root, e) = {}
    BY DEF Part
  <2>. QED
    BY <1>3, <2>1, <2>2, <2>3, NodeNames DEF TreeRanges
<1>5. \A t \in Threads : Sought(R, t)
  BY DEF Sought, Init
<1>6. \A o \in Op : Due(R, o)
  BY <1>2, NodeNames DEF Due, Published
<1>. QED
  BY <1>1, <1>4, <1>5, <1>6 DEF Ranges

LEMMA StutterRanges ==
    ASSUME IInv, NEW R, Ranges(R), UNCHANGED vars
    PROVE  Ranges(R)'
<1>1. UNCHANGED tree /\ UNCHANGED local
  BY DEF vars
<1>2. \A t \in Threads : Alone(t) /\ Sought(R, t)'
  BY <1>1 DEF local, Alone, Ranges, Sought, Key
<1>3. Later /\ SameShape
  BY <1>1, TreeUnchanged, ShapeOfTree
<1>4. \A o \in Op : Due(R, o)'
  <2> SUFFICES ASSUME NEW o \in Op PROVE Due(R, o)'
    OBVIOUS
  <2>1. Published(o)' <=> Published(o)
    BY <1>1 DEF Published, tree
  <2>2. ~Published(o) => Due(R, o)'
    BY <2>1 DEF Due
  <2>. QED
    BY <1>3, <2>2, DueKept DEF Ranges
<1>. QED
  BY <1>2, <1>3, <1>4, RangesKept DEF Ranges

LEMMA NextRanges == RangeInv /\ [Next]_vars => RangeInv'
<1> SUFFICES ASSUME IInv, NEW R, Ranges(R), [Next]_vars
             PROVE  \E Q : Ranges(Q)'
  BY NextInvariant DEF RangeInv
<1>1. ASSUME NEW t \in Threads, Step(t)
      PROVE  \E Q : Ranges(Q)'
  <2>1. CASE CASChild(t)
    BY <2>1, ChildRanges
  <2>2. CASE ReadUpdate(t) \/ ReadChild(t) \/ Flag(t) \/ FlagFails(t) \/ Unflag(t) \/ Return(t)
    <3>1. Ranges(R)'
      BY <2>2, ReadUpdateRanges, ReadChildRanges, FlagRanges, OtherRanges, UnflagRanges
    <3>. QED
      BY <3>1
  <2>. QED
    BY <1>1, <2>1, <2>2 DEF Step
<1>2. ASSUME NEW t \in Threads, NEW k \in Keys, NEW kind \in {"insert", "search"},
             Invoke(t, kind, k)
      PROVE  \E Q : Ranges(Q)'
  <2>1. Ranges(R)'
    BY <1>2, InvokeRanges
  <2>. QED
    BY <2>1
<1>3. CASE UNCHANGED vars
  <2>1. Ranges(R)'
    BY <1>3, StutterRanges
  <2>. QED
    BY <2>1
<1>. QED
  BY <1>1, <1>2, <1>3 DEF Next

THEOREM RangesInvariant == Spec => []RangeInv
<1>. QED
  BY InitRanges, NextRanges, PTL DEF Spec

-----------------------------------------------------------------------------
(* The keys, leaf by leaf.                                                 *)
LEMMA KeysByPlace ==
    \A k : k \in KeysInTree
              <=> \E n \in InternalsInTree, d \in Sides :
                     At(n, d) \in Leaves /\ data[At(n, d)] = k
BY DEF KeysInTree, LeavesInTree, Children, At, Sides

LEMMA KeysByPlacePrime ==
    \A k : k \in KeysInTree'
              <=> \E n \in InternalsInTree', d \in Sides :
                     At(n, d)' \in Leaves /\ data'[At(n, d)'] = k
BY DEF KeysInTree, LeavesInTree, Children, At, Sides

(* A key in the range of a place is in the set iff it is there.            *)
LEMMA OnePlace ==
    ASSUME IInv, NEW R, Ranges(R), NEW n \in InternalsInTree, NEW d \in Sides,
           At(n, d) \in Leaves, NEW k \in Part(R, n, d)
    PROVE  k \in KeysInTree <=> data[At(n, d)] = k
<1>1. ASSUME NEW m \in InternalsInTree, NEW e \in Sides, At(m, e) \in Leaves, data[At(m, e)] = k
      PROVE  m = n /\ e = d
  <2>1. k \in Part(R, m, e)
    BY <1>1 DEF Part, Ranges, TreeRanges, IInv, Ordered
  <2>. QED
    BY <1>1, <2>1 DEF Ranges, TreeRanges
<1>. QED
  BY <1>1, KeysByPlace

(* No key is inserted twice.                                               *)
THEOREM NoKeyTwice == Spec => []OneLeafPerKey
<1>1. RangeInv => OneLeafPerKey
  <2> SUFFICES ASSUME IInv, NEW R, Ranges(R), NEW a \in LeavesInTree, NEW b \in LeavesInTree,
                      data[a] = data[b]
               PROVE  a = b
    BY DEF RangeInv, OneLeafPerKey
  <2>1. PICK m \in InternalsInTree, d \in Sides : a = At(m, d)
    BY DEF LeavesInTree, Children, At, Sides
  <2>2. PICK n \in InternalsInTree, e \in Sides : b = At(n, e)
    BY DEF LeavesInTree, Children, At, Sides
  <2>3. PICK k : k = data[a]
    OBVIOUS
  <2>4. a \in Leaves /\ b \in Leaves
    BY DEF LeavesInTree
  <2>5. k \in Part(R, m, d) /\ k \in Part(R, n, e)
    BY <2>1, <2>2, <2>3, <2>4 DEF Part, Ranges, TreeRanges, IInv, Ordered
  <2>6. m = n /\ d = e
    BY <2>1, <2>2, <2>4, <2>5 DEF Ranges, TreeRanges
  <2>. QED
    BY <2>1, <2>2, <2>6
<1>. QED
  BY <1>1, RangesInvariant, PTL

-----------------------------------------------------------------------------
(* What a call will return.                                                *)
results == [u \in Threads |-> ResultOf(u)]

LEMMA OthersResults ==
    ASSUME IInv, NEW u \in Threads, pc'[u] = pc[u], call'[u] = call[u],
           IsInsert(u) => (Applied(Mine(u))' <=> Applied(Mine(u)))
    PROVE  ResultOf(u)' = ResultOf(u)
<1>1. Mine(u)' = Mine(u) /\ (IsInsert(u)' <=> IsInsert(u))
  BY DEF Mine, Key, IsInsert
<1>2. Applied(Mine(u))' <=> NewInternal(Mine(u)') \in InternalsInTree'
  BY DEF Applied
<1>. QED
  BY <1>1, <1>2 DEF ResultOf, Applied

LEMMA ResultsKept ==
    ASSUME NEW t \in Threads, Alone(t), \A o \in Op : Applied(o)' <=> Applied(o), IInv
    PROVE  results' = [results EXCEPT ![t] = ResultOf(t)']
<1>1. ASSUME NEW u \in Threads, u # t
      PROVE  ResultOf(u)' = ResultOf(u)
  <2>1. pc'[u] = pc[u] /\ call'[u] = call[u]
    BY <1>1 DEF Alone
  <2>2. Mine(u)' = Mine(u)
    BY <2>1 DEF Mine, Key
  <2>3. IsInsert(u) => Mine(u) \in Op
    BY Types DEF IsInsert, IInv, Typed
  <2>4. IsInsert(u) => (Applied(Mine(u))' <=> Applied(Mine(u)))
    BY <2>2, <2>3
  <2>. QED
    BY <2>1, <2>4, OthersResults
<1>. QED
  BY <1>1 DEF results

LEMMA ResultsSame ==
    ASSUME NEW t \in Threads, Alone(t), \A o \in Op : Applied(o)' <=> Applied(o), IInv,
           ResultOf(t)' = ResultOf(t)
    PROVE  results' = results
<1>1. results' = [results EXCEPT ![t] = ResultOf(t)]
  BY ResultsKept
<1>. QED
  BY <1>1 DEF results

(* An insertion that may still begin has not been applied.                 *)
LEMMA NotYet ==
    ASSUME IInv, NEW t \in Threads, NEW k \in Keys, <<t, "insert", k>> \notin done,
           call[t] = <<"insert", k>> => pc[t] \notin {"help", "clean", "true"}
    PROVE  ~Applied(<<t, k>>)
<1>1. PICK o : o = <<t, k>>
  OBVIOUS
<1>2. o \in Op /\ o[1] = t /\ o[2] = k
  BY <1>1 DEF Op
<1>3. ~Published(o)
  BY <1>2 DEF IInv, Carried, Working, Running
<1>. QED
  BY <1>1, <1>2, <1>3 DEF IInv, Insertion

LEMMA KeysUnchanged ==
    ASSUME UNCHANGED <<data, left, right>>
    PROVE  KeysInTree' = KeysInTree /\ \A o \in Op : Applied(o)' <=> Applied(o)
BY DEF KeysInTree, LeavesInTree, InternalsInTree, Children, Applied

LEMMA InvokeRefines ==
    ASSUME IInv, NEW t \in Threads, NEW k \in Keys, NEW kind \in {"insert", "search"},
           Invoke(t, kind, k)
    PROVE  Set!Invoke(t)
<1>1. /\ UNCHANGED <<data, left, right>> /\ Alone(t) /\ pc[t] = "idle" /\ pc'[t] = "update"
      /\ call' = [call EXCEPT ![t] = <<kind, k>>] /\ call[t] = <<>> /\ call'[t] = <<kind, k>>
      /\ <<t, kind, k>> \notin done
  BY DEF Invoke, FromRoot, Goto, Alone, IInv, Typed, TypeOK, tree
<1>2. KeysInTree' = KeysInTree /\ \A o \in Op : Applied(o)' <=> Applied(o)
  BY <1>1, KeysUnchanged
<1>3. ResultOf(t) = "none"
  BY <1>1 DEF ResultOf, IsInsert
<1>4. ResultOf(t)' = "none"
  <2>1. CASE kind = "insert"
    <3>1. ~Applied(<<t, k>>)
      BY <1>1, <2>1, NotYet
    <3>2. Mine(t)' = <<t, k>> /\ <<t, k>> \in Op
      BY <1>1 DEF Mine, Key, Op
    <3>. QED
      BY <1>1, <1>2, <3>1, <3>2 DEF ResultOf
  <2>2. CASE kind = "search"
    BY <1>1, <2>2 DEF ResultOf, IsInsert
  <2>. QED
    BY <2>1, <2>2
<1>5. results' = results
  BY <1>1, <1>2, <1>3, <1>4, ResultsSame
<1>6. <<kind, k>> \in Set!Calls
  BY DEF Set!Calls
<1>. QED
  BY <1>1, <1>2, <1>5, <1>6 DEF Set!Invoke, Set!NoCall, results

LEMMA ReturnRefines ==
    ASSUME IInv, NEW t \in Threads, Return(t)
    PROVE  Set!Return(t)
<1>1. /\ UNCHANGED <<data, left, right>> /\ Alone(t)
      /\ pc[t] \in {"true", "false"} /\ pc'[t] = "idle"
      /\ call' = [call EXCEPT ![t] = <<>>] /\ call'[t] = <<>>
  BY DEF Return, Goto, Alone, IInv, Typed, TypeOK, tree
<1>2. KeysInTree' = KeysInTree /\ \A o \in Op : Applied(o)' <=> Applied(o)
  BY <1>1, KeysUnchanged
<1>3. results[t] # "none" /\ ResultOf(t)' = "none"
  BY <1>1 DEF ResultOf, IsInsert, results
<1>4. results' = [results EXCEPT ![t] = "none"]
  BY <1>1, <1>2, <1>3, ResultsKept
<1>. QED
  BY <1>1, <1>2, <1>3, <1>4 DEF Set!Return, Set!NoCall, results

LEMMA ReadChildRefines ==
    ASSUME IInv, NEW R, Ranges(R), NEW t \in Threads, ReadChild(t)
    PROVE  Set!Next \/ UNCHANGED Set!vars
<1>1. PICK c, n, d, k : c = Child(p[t], Key(t)) /\ n = p[t] /\ d = Side(k, n) /\ k = Key(t)
  OBVIOUS
<1>2. /\ UNCHANGED <<data, left, right>> /\ Alone(t) /\ pc[t] = "child"
      /\ n \in InternalsInTree /\ UNCHANGED <<call, done>>
      /\ k \in Keys /\ call[t] = <<call[t][1], k>> /\ call[t][1] \in {"insert", "search"}
      /\ <<t, call[t][1], k>> \notin done
  <2>1. UNCHANGED <<data, left, right>> /\ Alone(t) /\ pc[t] = "child" /\ UNCHANGED <<call, done>>
    BY DEF ReadChild, Goto, Alone, IInv, Typed, TypeOK, tree
  <2>2. n \in InternalsInTree
    BY <1>1, <2>1 DEF IInv, Reading
  <2>3. /\ k \in Keys /\ call[t] = <<call[t][1], k>> /\ call[t][1] \in {"insert", "search"}
    BY <1>1, <2>1, Types DEF IInv
  <2>4. <<t, call[t][1], k>> \notin done
    BY <2>3 DEF IInv, Typed
  <2>. QED
    BY <2>1, <2>2, <2>3, <2>4
<1>3. KeysInTree' = KeysInTree /\ \A o \in Op : Applied(o)' <=> Applied(o)
  BY <1>2, KeysUnchanged
<1>4. IsInsert(t) => ~Applied(Mine(t)) /\ Mine(t) \in Op
  <2>1. IsInsert(t) => ~Applied(<<t, k>>)
    BY <1>2, NotYet DEF IsInsert
  <2>. QED
    BY <1>1, <1>2, <2>1 DEF Mine, Op
<1>5. ResultOf(t) = "none"
  BY <1>2, <1>4 DEF ResultOf
<1>6. IsLeaf(c) => (k \in KeysInTree <=> data[c] = k)
  <2>1. c = At(n, d) /\ d \in Sides
    BY <1>1 DEF Child, At, Side, Sides
  <2>2. k \in Part(R, n, d)
    BY <1>1, <1>2 DEF Ranges, Sought, Part
  <2>. QED
    BY <1>2, <2>1, <2>2, OnePlace DEF IsLeaf
<1>7. (IsInsert(t)' <=> IsInsert(t)) /\ Mine(t)' = Mine(t)
  BY <1>2 DEF IsInsert, Mine, Key
<1>8. CASE pc'[t] \notin {"true", "false"}
  <2>1. ResultOf(t)' = "none"
    BY <1>3, <1>4, <1>7, <1>8 DEF ResultOf
  <2>2. results' = results
    BY <1>2, <1>3, <1>5, <2>1, ResultsSame
  <2>. QED
    BY <1>2, <1>3, <2>2 DEF Set!vars, results
<1>9. CASE pc'[t] \in {"true", "false"}
  <2>1. /\ IsLeaf(c)
        /\ IsInsert(t) => k \in KeysInTree /\ pc'[t] = "false"
        /\ ~IsInsert(t) => pc'[t] = IF k \in KeysInTree THEN "true" ELSE "false"
    <3>1. \/ IsLeaf(c) /\ ~IsInsert(t) /\ pc'[t] = IF data[c] = k THEN "true" ELSE "false"
          \/ IsLeaf(c) /\ IsInsert(t) /\ data[c] = k /\ pc'[t] = "false"
      BY <1>1, <1>9 DEF ReadChild, Goto, IInv, Typed, TypeOK
    <3>. QED
      BY <1>6, <3>1
  <2>2. results' = [results EXCEPT ![t] = pc'[t]]
    <3>1. ResultOf(t)' = pc'[t]
      BY <1>9 DEF ResultOf
    <3>. QED
      BY <1>2, <1>3, <3>1, ResultsKept
  <2>3. results[t] = "none"
    BY <1>5 DEF results
  <2>4. CASE IsInsert(t)
    <3>1. Set!Reject(t, k)
      BY <1>2, <1>3, <2>1, <2>2, <2>3, <2>4 DEF Set!Reject, Set!Pending, results, IsInsert
    <3>. QED
      BY <1>2, <3>1 DEF Set!Next
  <2>5. CASE ~IsInsert(t)
    <3>1. Set!Look(t, k)
      <4>1. Set!Pending(t, "search", k)
        BY <1>2, <2>3, <2>5 DEF Set!Pending, results, IsInsert
      <4>2. results' = [results EXCEPT ![t] = IF k \in KeysInTree THEN "true" ELSE "false"]
        BY <2>1, <2>2, <2>5
      <4>. QED
        BY <1>2, <1>3, <4>1, <4>2 DEF Set!Look, results
    <3>. QED
      BY <1>2, <3>1 DEF Set!Next
  <2>. QED
    BY <2>4, <2>5
<1>. QED
  BY <1>8, <1>9

LEMMA KeysKept ==
    ASSUME IInv, Later, SameShape
    PROVE  KeysInTree' = KeysInTree
<1>1. \A n \in InternalsInTree, d \in Sides :
         At(n, d) \in Leaves => data'[At(n, d)] = data[At(n, d)]
  BY NodeNames DEF Later, Known, IInv, Ordered
<1>. QED
  BY <1>1, KeysByPlace, KeysByPlacePrime DEF SameShape

LEMMA Stutter ==
    ASSUME IInv, NEW t \in Threads, Alone(t), call' = call, KeysInTree' = KeysInTree,
           \A o \in Op : Applied(o)' <=> Applied(o), ResultOf(t)' = ResultOf(t)
    PROVE  UNCHANGED Set!vars
<1>1. results' = results
  BY ResultsSame
<1>. QED
  BY <1>1 DEF Set!vars, results

LEMMA ReadsRefine ==
    ASSUME IInv, NEW t \in Threads, ReadUpdate(t) \/ FlagFails(t)
    PROVE  UNCHANGED Set!vars
<1>1. /\ UNCHANGED <<data, left, right>> /\ Alone(t) /\ call' = call
      /\ pc[t] \notin {"true", "false"} /\ pc'[t] \notin {"true", "false"}
  BY DEF ReadUpdate, FlagFails, Goto, Alone, IInv, Typed, TypeOK, tree
<1>2. KeysInTree' = KeysInTree /\ \A o \in Op : Applied(o)' <=> Applied(o)
  BY <1>1, KeysUnchanged
<1>3. ResultOf(t)' = ResultOf(t)
  <2>1. IsInsert(t) => Mine(t) \in Op
    BY Types DEF IsInsert, IInv, Typed
  <2>2. Mine(t)' = Mine(t) /\ (IsInsert(t)' <=> IsInsert(t))
    BY <1>1 DEF Mine, Key, IsInsert
  <2>3. IsInsert(t) => (Applied(Mine(t))' <=> Applied(Mine(t)))
    BY <1>2, <2>1, <2>2
  <2>. QED
    BY <1>1, <2>2, <2>3 DEF ResultOf
<1>. QED
  BY <1>1, <1>2, <1>3, Stutter

LEMMA FlagRefines ==
    ASSUME IInv, NEW t \in Threads, Flag(t)
    PROVE  UNCHANGED Set!vars
<1>1. PICK o : o = Mine(t)
  OBVIOUS
<1>2. o \in Op
  BY <1>1, Types DEF Flag, IInv
<1>3. FlagDone(t, o) /\ Later
  BY <1>1, <1>2, FlagEffect, FlagLater
<1>4. ~Applied(o) /\ pc[t] = "flag"
  BY <1>1, <1>2, FlagBegins
<1>5. SameShape
  BY <1>3, <1>4, Types DEF SameShape, FlagDone, Applied, IInv
<1>6. Alone(t) /\ call' = call /\ \A q \in Op : Applied(q)' <=> Applied(q)
  BY <1>3 DEF FlagDone, Applied
<1>7. ResultOf(t)' = ResultOf(t)
  <2>1. pc'[t] = "help" /\ Mine(t)' = o
    BY <1>1, <1>3 DEF FlagDone, Mine, Key
  <2>2. ~Applied(Mine(t)) /\ ~Applied(Mine(t))'
    BY <1>1, <1>2, <1>4, <1>6, <2>1
  <2>. QED
    BY <1>4, <2>1, <2>2 DEF ResultOf
<1>. QED
  BY <1>3, <1>5, <1>6, <1>7, KeysKept, Stutter

LEMMA UnflagRefines ==
    ASSUME IInv, NEW t \in Threads, Unflag(t)
    PROVE  UNCHANGED Set!vars
<1>1. PICK o : o = helping[t]
  OBVIOUS
<1>2. o \in Op /\ Published(o) /\ Applied(o) /\ IsInsert(t)
  BY <1>1 DEF Unflag, IInv, Helping, Typed
<1>3. UnflagDone(t, o)
  BY <1>1, <1>2, UnflagEffect
<1>4. /\ UNCHANGED <<data, left, right>> /\ Alone(t) /\ call' = call /\ pc[t] = "clean"
      /\ pc'[t] = IF o = Mine(t) THEN "true" ELSE "update"
  BY <1>3 DEF UnflagDone
<1>5. KeysInTree' = KeysInTree /\ \A q \in Op : Applied(q)' <=> Applied(q)
  BY <1>4, KeysUnchanged
<1>6. ResultOf(t)' = ResultOf(t)
  <2>1. Mine(t)' = Mine(t) /\ (IsInsert(t)' <=> IsInsert(t)) /\ Mine(t) \in Op
    BY <1>2, <1>4, Types DEF Mine, Key, IsInsert, IInv
  <2>2. CASE o = Mine(t)
    BY <1>2, <1>4, <2>2 DEF ResultOf
  <2>3. CASE o # Mine(t)
    <3>1. Applied(Mine(t))' <=> Applied(Mine(t))
      BY <1>5, <2>1
    <3>. QED
      BY <1>2, <1>4, <2>1, <2>3, <3>1 DEF ResultOf
  <2>. QED
    BY <2>2, <2>3
<1>. QED
  BY <1>4, <1>5, <1>6, Stutter

LEMMA KeyAdded ==
    ASSUME IInv, NEW R, Ranges(R), NEW t \in Threads, NEW o \in Op, ChildDone(t, o),
           Published(o), ~Applied(o), Linked(t, o)
    PROVE  o[2] \notin KeysInTree /\ KeysInTree' = KeysInTree \cup {o[2]}
<1>1. PICK n, d, s, b, k : /\ n = info[o].parent /\ d = SideOf(o) /\ s = NewInternal(o)
                           /\ b = data[NewSibling(o)] /\ k = o[2]
  OBVIOUS
<1>2. /\ s \in Internals /\ s \notin InternalsInTree /\ s \notin Leaves
      /\ n \in InternalsInTree /\ d \in Sides /\ At(n, d) \in Leaves
      /\ At(n, d) = info[o].leaf
      /\ InternalsInTree \subseteq Internals
  BY <1>1, WaitsAtPlace, NodeNames, Types DEF Applied, IInv
<1>3. /\ data' = data /\ At(n, d)' = s
      /\ \A m \in Internals, e \in Sides : m # n \/ e # d => At(m, e)' = At(m, e)
      /\ \A m : m \in InternalsInTree' <=> m \in InternalsInTree \/ m = s
  BY <1>1, <1>2, WaitsAtPlace DEF Linked, ChildDone, Applied
<1>4. b = data[At(n, d)] /\ k # b /\ data[NewNode(o)] = k
  BY <1>1, <1>2, Subtree
<1>5. \E e \in Sides : At(s, e)' = NewNode(o)
  <2>1. Child(s, k) = NewNode(o)
    BY <1>1 DEF IInv, Insertion
  <2>2. At(s, Side(k, s)) = NewNode(o) /\ Side(k, s) \in Sides
    BY <2>1 DEF Child, At, Side, Sides
  <2>. QED
    BY <1>2, <1>3, <2>2
<1>6. \E e \in Sides : At(s, e)' = NewSibling(o)
  <2>1. Child(s, b) = NewSibling(o)
    BY <1>1 DEF IInv, Insertion
  <2>2. At(s, Side(b, s)) = NewSibling(o) /\ Side(b, s) \in Sides
    BY <2>1 DEF Child, At, Side, Sides
  <2>. QED
    BY <1>2, <1>3, <2>2
<1>7. \A e \in Sides : At(s, e)' \in {NewNode(o), NewSibling(o)}
  BY <1>1, <1>2, <1>3, Subtree
<1>8. NewNode(o) \in Leaves /\ NewSibling(o) \in Leaves
  BY NodeNames
<1>9. k \notin KeysInTree
  <2>1. k \in Part(R, n, d)
    BY <1>1, DueAtPlace
  <2>. QED
    BY <1>2, <1>4, <2>1, OnePlace
<1>10. ASSUME NEW x \in KeysInTree PROVE x \in KeysInTree'
  <2>1. PICK m \in InternalsInTree, e \in Sides : At(m, e) \in Leaves /\ data[At(m, e)] = x
    BY <1>10, KeysByPlace
  <2>2. CASE m = n /\ e = d
    <3>1. x = b
      BY <1>4, <2>1, <2>2
    <3>2. PICK f \in Sides : At(s, f)' = NewSibling(o)
      BY <1>6
    <3>3. data'[At(s, f)'] = x /\ At(s, f)' \in Leaves /\ s \in InternalsInTree'
      BY <1>1, <1>3, <1>8, <3>1, <3>2
    <3>. QED
      BY <3>3, KeysByPlacePrime
  <2>3. CASE m # n \/ e # d
    BY <1>2, <1>3, <2>1, <2>3, KeysByPlacePrime
  <2>. QED
    BY <2>2, <2>3
<1>11. k \in KeysInTree'
  BY <1>3, <1>4, <1>5, <1>8, KeysByPlacePrime
<1>12. ASSUME NEW x \in KeysInTree', x # k PROVE x \in KeysInTree
  <2>1. PICK m \in InternalsInTree', e \in Sides : At(m, e)' \in Leaves /\ data[At(m, e)'] = x
    BY <1>3, <1>12, KeysByPlacePrime
  <2>2. CASE m = s
    BY <1>1, <1>2, <1>4, <1>7, <1>12, <2>1, <2>2, KeysByPlace
  <2>3. CASE m # s
    <3>1. m \in InternalsInTree /\ m \in Internals /\ (m # n \/ e # d)
      BY <1>2, <1>3, <2>1, <2>3
    <3>. QED
      BY <1>3, <2>1, <3>1, KeysByPlace
  <2>. QED
    BY <2>2, <2>3
<1>. QED
  BY <1>1, <1>9, <1>10, <1>11, <1>12

LEMMA ChildRefines ==
    ASSUME IInv, NEW R, Ranges(R), NEW t \in Threads, CASChild(t)
    PROVE  Set!Next \/ UNCHANGED Set!vars
<1>1. PICK o : o = helping[t]
  OBVIOUS
<1>2. o \in Op /\ Published(o)
  BY <1>1 DEF CASChild, IInv, Helping
<1>3. ChildDone(t, o)
  BY <1>1, <1>2, ChildEffect
<1>4. Alone(t) /\ pc[t] = "help" /\ pc'[t] = "clean" /\ call' = call
  BY <1>3 DEF ChildDone
<1>5. \A u \in Threads : /\ Mine(u)' = Mine(u) /\ (IsInsert(u)' <=> IsInsert(u))
                         /\ IsInsert(u) => Mine(u) \in Op
  BY <1>4, Types DEF Mine, Key, IsInsert, IInv, Typed
<1>6. CASE Applied(o)
  <2>1. UNCHANGED <<data, left, right>>
    BY <1>1, <1>2, <1>6, LateHelper DEF tree
  <2>2. KeysInTree' = KeysInTree /\ \A q \in Op : Applied(q)' <=> Applied(q)
    BY <2>1, KeysUnchanged
  <2>3. IsInsert(t) => (Applied(Mine(t))' <=> Applied(Mine(t)))
    BY <1>5, <2>2
  <2>4. ResultOf(t)' = ResultOf(t)
    BY <1>4, <1>5, <2>3 DEF ResultOf
  <2>. QED
    BY <1>4, <2>2, <2>4, Stutter
<1>7. CASE ~Applied(o)
  <2>1. Linked(t, o) /\ Working(o)
    BY <1>2, <1>3, <1>7, ChildLinks DEF IInv, Insertion
  <2>2. o[2] \notin KeysInTree /\ KeysInTree' = KeysInTree \cup {o[2]}
    BY <1>2, <1>3, <1>7, <2>1, KeyAdded
  <2>3. PICK u, k : u = o[1] /\ k = o[2]
    OBVIOUS
  <2>4. u \in Threads /\ k \in Keys /\ o = <<u, k>> /\ call[u] = <<"insert", k>>
        /\ pc[u] \in {"help", "clean"}
    BY <1>2, <2>1, <2>3 DEF Op, Working, Running
  <2>5. Mine(u) = o /\ IsInsert(u)
    BY <2>4 DEF Mine, Key, IsInsert
  <2>6. ResultOf(u) = "none"
    BY <1>7, <2>4, <2>5 DEF ResultOf
  <2>7. ResultOf(u)' = "true"
    <3>1. pc'[u] \in {"help", "clean"}
      BY <1>4, <2>4 DEF Alone
    <3>2. Applied(o)'
      BY <2>1 DEF Linked
    <3>3. Mine(u)' = o /\ IsInsert(u)'
      BY <1>5, <2>4, <2>5
    <3>. QED
      BY <3>1, <3>2, <3>3 DEF ResultOf
  <2>8. \A q \in Op : q # o => (Applied(q)' <=> Applied(q))
    BY <1>2, <2>1, NodeNames DEF Applied, Linked
  <2>9. ASSUME NEW v \in Threads, v # u
        PROVE  ResultOf(v)' = ResultOf(v)
    <3>1. IsInsert(v) => Mine(v) # o
      BY <2>4, <2>9 DEF Mine
    <3>2. IsInsert(v) => (Applied(Mine(v))' <=> Applied(Mine(v)))
      BY <1>5, <2>8, <3>1
    <3>3. pc'[v] = pc[v] \/ (pc[v] = "help" /\ pc'[v] = "clean")
      BY <1>4 DEF Alone
    <3>. QED
      BY <1>5, <3>2, <3>3 DEF ResultOf
  <2>10. results' = [results EXCEPT ![u] = "true"]
    BY <2>4, <2>7, <2>9 DEF results
  <2>11. results[u] = "none"
    BY <2>4, <2>6 DEF results
  <2>12. Set!Add(u, k)
    BY <1>4, <2>2, <2>3, <2>4, <2>10, <2>11 DEF Set!Add, Set!Pending, results
  <2>. QED
    BY <2>4, <2>12 DEF Set!Next
<1>. QED
  BY <1>6, <1>7

-----------------------------------------------------------------------------
LEMMA InitRefines == Init => Set!Init
<1> SUFFICES ASSUME Init PROVE Set!Init
  OBVIOUS
<1>1. IInv /\ \A n \in Internals : left[n] = MinLeaf /\ right[n] = MaxLeaf
  BY InitInvariant DEF Init
<1>2. \A n : n \in InternalsInTree <=> n = Root
  BY <1>1, InTree, NodeNames DEF At
<1>3. data[MinLeaf] = Inf1 /\ data[MaxLeaf] = Inf2
  BY NodeNames DEF Init
<1>4. \A k : k \in KeysInTree <=> k \in {Inf1, Inf2}
  <2>1. At(Root, "left") = MinLeaf /\ At(Root, "right") = MaxLeaf
    BY <1>1, NodeNames DEF At
  <2>. QED
    BY <1>2, <1>3, <2>1, KeysByPlace, NodeNames DEF Sides
<1>5. results = [t \in Threads |-> "none"]
  BY DEF Init, results, ResultOf, IsInsert
<1>. QED
  BY <1>4, <1>5 DEF Set!Init, Set!NoCall, Init, results

(* The tree is a linearizable set: no insertion is lost, applied twice or  *)
(* reported wrongly, and no search misses a key inserted before it began.  *)
THEOREM Refinement == Spec => ImplementsSet
<1>1. RangeInv /\ [Next]_vars => [Set!Next]_(Set!vars)
  <2> SUFFICES ASSUME IInv, NEW R, Ranges(R), [Next]_vars
               PROVE  Set!Next \/ UNCHANGED Set!vars
    BY DEF RangeInv
  <2>1. ASSUME NEW t \in Threads, Step(t)
        PROVE  Set!Next \/ UNCHANGED Set!vars
    <3>1. CASE Return(t)
      BY <3>1, ReturnRefines DEF Set!Next
    <3>. QED
      BY <2>1, <3>1, ReadsRefine, ReadChildRefines, FlagRefines, ChildRefines, UnflagRefines
         DEF Step
  <2>2. ASSUME NEW t \in Threads, NEW k \in Keys, NEW kind \in {"insert", "search"},
               Invoke(t, kind, k)
        PROVE  Set!Next
    BY <2>2, InvokeRefines DEF Set!Next
  <2>3. CASE UNCHANGED vars
    <3>1. UNCHANGED <<data, left, right, pc, call>>
      BY <2>3 DEF vars, tree, local
    <3>2. KeysInTree' = KeysInTree /\ InternalsInTree' = InternalsInTree
      BY <3>1 DEF KeysInTree, LeavesInTree, InternalsInTree, Children
    <3>3. results' = results
      BY <3>1, <3>2 DEF results, ResultOf, IsInsert, Applied, Mine, Key
    <3>. QED
      BY <3>1, <3>2, <3>3 DEF Set!vars, results
  <2>. QED
    BY <2>1, <2>2, <2>3 DEF Next
<1>. QED
  BY <1>1, InitRefines, RangesInvariant, PTL DEF Spec, ImplementsSet, Set!Spec
=============================================================================
