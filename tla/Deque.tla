------------------------------- MODULE Deque -------------------------------
(***************************************************************************)
(* The lock-free deque of detail-dev/deque.hpp.  One word, the anchor,     *)
(* holds both ends, a status and a tag.  A push is two steps: the anchor   *)
(* names the new node and its status says that the old end does not point  *)
(* to it yet; whoever meets that status stabilizes the deque first.        *)
(*                                                                         *)
(* Every access to the anchor or to a node's link is a step.  left and     *)
(* right are mirror images in the code, so one action stands for both.     *)
(* The node pool is NodePool: allocation takes any free node in one step.  *)
(***************************************************************************)
EXTENDS Integers, FiniteSets, Sequences, SequencesExt

CONSTANTS
    Threads,
    Nodes,          \* nodes of the pool
    TagMod,         \* values of tag_t (2^16)
    MaxUses,        \* bound: times a node is allocated
    None,           \* a null pointer
    Wild            \* the bits the pool's own link leaves in a node

ASSUME DequeAssumption == /\ TagMod \in Nat \ {0}
                          /\ MaxUses \in Nat
                          /\ IsFiniteSet(Nodes)
                          /\ None \notin Nodes /\ Wild \notin Nodes /\ None # Wild

Sides == {"left", "right"}
Opposite(s) == IF s = "left" THEN "right" ELSE "left"
Pushed(s) == IF s = "left" THEN "lpush" ELSE "rpush"

(* A value names the push that brought it: the node and which use of it.  *)
Values == Nodes \X (1 .. MaxUses)

Pointer == Nodes \cup {None, Wild}
Link == [ptr : Pointer, tag : 0 .. TagMod - 1]
Anchor == [left : Pointer, right : Pointer, status : {"stable", "lpush", "rpush"},
           tag : 0 .. TagMod - 1]
NoLink == [ptr |-> None, tag |-> 0]

VARIABLES
    anchor,     \* anchor_
    link,       \* link[s][n]: n->left and n->right
    free,       \* nodes in the pool
    uses,       \* uses[n]: times n was allocated (so n->data is Value(n))
    pc,
    call,       \* <<"push", side, value>> or <<"pop", side>>
    node,       \* n, the node a push allocated
    lrs,        \* the anchor as loaded
    prev,       \* prev, read from the node at the end
    prevnext,   \* prevnext, read from prev
    after       \* where stabilize() returns to

shared == <<anchor, link, free, uses>>
local  == <<pc, call, node, lrs, prev, prevnext, after>>
vars   == <<shared, local>>

NoAnchor == [left |-> None, right |-> None, status |-> "stable", tag |-> 0]

Init ==
    /\ anchor = NoAnchor
    /\ link = [s \in Sides |-> [n \in Nodes |-> NoLink]]
    /\ free = Nodes
    /\ uses = [n \in Nodes |-> 0]
    /\ pc = [t \in Threads |-> "idle"]
    /\ call = [t \in Threads |-> <<>>]
    /\ node = [t \in Threads |-> None]
    /\ lrs = [t \in Threads |-> NoAnchor]
    /\ prev = [t \in Threads |-> None]
    /\ prevnext = [t \in Threads |-> NoLink]
    /\ after = [t \in Threads |-> "load"]

NextTag(g) == (g + 1) % TagMod

Goto(t, label) == pc' = [pc EXCEPT ![t] = label]
Side(t) == call[t][2]
IsPush(t) == call[t] # <<>> /\ call[t][1] = "push"

(* An iteration of the loop is over: its variables go out of scope.        *)
Leave(t, label) ==
    /\ Goto(t, label)
    /\ lrs' = [lrs EXCEPT ![t] = NoAnchor]
    /\ prev' = [prev EXCEPT ![t] = None]
    /\ prevnext' = [prevnext EXCEPT ![t] = NoLink]
    /\ after' = [after EXCEPT ![t] = "load"]

Stay(t, label) == Goto(t, label) /\ UNCHANGED <<lrs, prev, prevnext, after>>

Finish(t) ==
    /\ Leave(t, "idle")
    /\ call' = [call EXCEPT ![t] = <<>>]
    /\ node' = [node EXCEPT ![t] = None]

Begin(t, c, label) ==
    /\ pc[t] = "idle"
    /\ call' = [call EXCEPT ![t] = c]
    /\ Stay(t, label)

Value(n) == <<n, uses[n]>>

(***************************************************************************)
(* A push begins with alloc_node(): the node's links start at zero, tags   *)
(* included.  If the pool has no node, the constructor runs on a null      *)
(* pointer, before push_left() can look at it.                             *)
(***************************************************************************)
BeginPush(t, s) ==
    /\ \E n \in free :
          /\ Begin(t, <<"push", s, <<n, uses[n] + 1>>>>, "load")
          /\ uses[n] < MaxUses
          /\ free' = free \ {n}
          /\ uses' = [uses EXCEPT ![n] = @ + 1]
          /\ link' = [d \in Sides |-> [link[d] EXCEPT ![n] = NoLink]]
          /\ node' = [node EXCEPT ![t] = n]
    /\ UNCHANGED anchor

BeginPushWithoutNode(t, s) ==
    /\ Begin(t, <<"push", s>>, "null")
    /\ free = {}
    /\ UNCHANGED <<shared, node>>

BeginPop(t, s) == Begin(t, <<"pop", s>>, "load") /\ UNCHANGED <<shared, node>>

(* Mutant: the deque is never taken for unstable.                          *)
UnstableNever(a) == FALSE

Empty(a, s) == a[s] = None
Unstable(a) == a.status # "stable"

(* The anchor is loaded and looked at.                                     *)
Load(t) ==
    /\ pc[t] = "load"
    /\ lrs' = [lrs EXCEPT ![t] = anchor]
    /\ \/ /\ Empty(anchor, Side(t))
          /\ Goto(t, IF IsPush(t) THEN "push_first" ELSE "false")
       \/ /\ ~Empty(anchor, Side(t))
          /\ ~IsPush(t)
          /\ anchor.left = anchor.right
          /\ Goto(t, "pop_last")
       \/ /\ ~Empty(anchor, Side(t))
          /\ IsPush(t) \/ anchor.left # anchor.right
          /\ Goto(t, IF Unstable(anchor) THEN "prev"
                     ELSE IF IsPush(t) THEN "push_link" ELSE "pop_check")
    /\ UNCHANGED <<shared, call, node, prev, prevnext, after>>

PushFirst(t) ==
    LET n == node[t] IN
    /\ pc[t] = "push_first"
    /\ IF anchor = lrs[t]
       THEN /\ anchor' = [anchor EXCEPT !.left = n, !.right = n, !.tag = NextTag(@)]
            /\ Leave(t, "true")
       ELSE anchor' = anchor /\ Leave(t, "load")
    /\ UNCHANGED <<link, free, uses, call, node>>

PushLink(t) ==
    /\ pc[t] = "push_link"
    /\ link' = [link EXCEPT ![Opposite(Side(t))][node[t]] =
                   [ptr |-> lrs[t][Side(t)], tag |-> 0]]
    /\ Stay(t, "push_anchor")
    /\ UNCHANGED <<anchor, free, uses, call, node>>

(* Mutant: the status is left stable. *)
PushAnchorStable(t) ==
    /\ pc[t] = "push_anchor"
    /\ IF anchor = lrs[t]
       THEN /\ anchor' = [anchor EXCEPT ![Side(t)] = node[t], !.tag = NextTag(@)]
            /\ Leave(t, "true")
       ELSE anchor' = anchor /\ Leave(t, "load")
    /\ UNCHANGED <<link, free, uses, call, node>>

(* After success, stabilize() works on the anchor just stored.             *)
PushAnchor(t) ==
    /\ pc[t] = "push_anchor"
    /\ IF anchor = lrs[t]
       THEN /\ anchor' = [anchor EXCEPT ![Side(t)] = node[t], !.tag = NextTag(@),
                                        !.status = Pushed(Side(t))]
            /\ lrs' = [lrs EXCEPT ![t] = anchor']
            /\ after' = [after EXCEPT ![t] = "true"]
            /\ Goto(t, "prev")
            /\ UNCHANGED <<prev, prevnext>>
       ELSE anchor' = anchor /\ Leave(t, "load")
    /\ UNCHANGED <<link, free, uses, call, node>>

(***************************************************************************)
(* stabilize(): make the node next to the pushed end point back to it, and *)
(* then the status stable; give up as soon as the anchor has changed.      *)
(***************************************************************************)
Unfinished(t) == IF lrs[t].status = "rpush" THEN "right" ELSE "left"
End(t) == lrs[t][Unfinished(t)]

ReadPrev(t) ==
    /\ pc[t] = "prev"
    /\ prev' = [prev EXCEPT ![t] = link[Opposite(Unfinished(t))][End(t)].ptr]
    /\ Goto(t, "check_prev")
    /\ UNCHANGED <<shared, call, node, lrs, prevnext, after>>

(* Mutant: the anchor is not compared.                                     *)
CheckPrevSkipped(t) ==
    /\ pc[t] = "check_prev"
    /\ Stay(t, "prevnext")
    /\ UNCHANGED <<shared, call, node>>

CheckPrev(t) ==
    /\ pc[t] = "check_prev"
    /\ IF anchor = lrs[t] THEN Stay(t, "prevnext") ELSE Leave(t, after[t])
    /\ UNCHANGED <<shared, call, node>>

ReadPrevnext(t) ==
    /\ pc[t] = "prevnext"
    /\ IF prev[t] \in Nodes
       THEN LET read == link[Unfinished(t)][prev[t]] IN
            /\ prevnext' = [prevnext EXCEPT ![t] = read]
            /\ Goto(t, IF read.ptr = End(t) THEN "stable" ELSE "check_prevnext")
       ELSE Goto(t, "wild") /\ UNCHANGED prevnext
    /\ UNCHANGED <<shared, call, node, lrs, prev, after>>

(* Mutant: the anchor is not compared.                                     *)
CheckPrevnextSkipped(t) ==
    /\ pc[t] = "check_prevnext"
    /\ Stay(t, "link_back")
    /\ UNCHANGED <<shared, call, node>>

CheckPrevnext(t) ==
    /\ pc[t] = "check_prevnext"
    /\ IF anchor = lrs[t] THEN Stay(t, "link_back") ELSE Leave(t, after[t])
    /\ UNCHANGED <<shared, call, node>>

LinkBack(t) ==
    /\ pc[t] = "link_back"
    /\ IF link[Unfinished(t)][prev[t]] = prevnext[t]
       THEN /\ link' = [link EXCEPT ![Unfinished(t)][prev[t]] =
                           [ptr |-> End(t), tag |-> NextTag(prevnext[t].tag)]]
            /\ Stay(t, "stable")
       ELSE link' = link /\ Leave(t, after[t])
    /\ UNCHANGED <<anchor, free, uses, call, node>>

(* Mutant: the anchor is never made stable again. *)
MakeStableNever(t) ==
    /\ pc[t] = "stable"
    /\ Leave(t, after[t])
    /\ UNCHANGED <<shared, call, node>>

MakeStable(t) ==
    /\ pc[t] = "stable"
    /\ anchor' = IF anchor = lrs[t]
                 THEN [anchor EXCEPT !.status = "stable", !.tag = NextTag(@)]
                 ELSE anchor
    /\ Leave(t, after[t])
    /\ UNCHANGED <<link, free, uses, call, node>>

(***************************************************************************)
(* pop                                                                     *)
(***************************************************************************)
PopLast(t) ==
    /\ pc[t] = "pop_last"
    /\ IF anchor = lrs[t]
       THEN /\ anchor' = [anchor EXCEPT !.left = None, !.right = None, !.tag = NextTag(@)]
            /\ Stay(t, "take")
       ELSE anchor' = anchor /\ Leave(t, "load")
    /\ UNCHANGED <<link, free, uses, call, node>>

PopCheck(t) ==
    /\ pc[t] = "pop_check"
    /\ IF anchor = lrs[t] THEN Stay(t, "pop_prev") ELSE Leave(t, "load")
    /\ UNCHANGED <<shared, call, node>>

PopPrev(t) ==
    /\ pc[t] = "pop_prev"
    /\ prev' = [prev EXCEPT ![t] = link[Opposite(Side(t))][lrs[t][Side(t)]].ptr]
    /\ Goto(t, "pop_anchor")
    /\ UNCHANGED <<shared, call, node, lrs, prevnext, after>>

PopAnchor(t) ==
    /\ pc[t] = "pop_anchor"
    /\ IF anchor = lrs[t]
       THEN /\ anchor' = [anchor EXCEPT ![Side(t)] = prev[t], !.tag = NextTag(@)]
            /\ Stay(t, "take")
       ELSE anchor' = anchor /\ Leave(t, "load")
    /\ UNCHANGED <<link, free, uses, call, node>>

(* The popped node's data is copied and dealloc_node() gives it back; the  *)
(* pool stores its link over the first member, left.                       *)
Take(t) ==
    LET n == lrs[t][Side(t)] IN
    /\ pc[t] = "take"
    /\ free' = free \cup {n}
    /\ link' = [link EXCEPT !["left"][n] = [ptr |-> Wild, tag |-> 0]]
    /\ Finish(t)
    /\ UNCHANGED <<anchor, uses>>

Return(t) ==
    /\ pc[t] \in {"true", "false"}
    /\ Finish(t)
    /\ UNCHANGED shared

Step(t) == \/ Load(t)
           \/ PushFirst(t) \/ PushLink(t) \/ PushAnchor(t)
           \/ ReadPrev(t) \/ CheckPrev(t) \/ ReadPrevnext(t) \/ CheckPrevnext(t)
           \/ LinkBack(t) \/ MakeStable(t)
           \/ PopLast(t) \/ PopCheck(t) \/ PopPrev(t) \/ PopAnchor(t)
           \/ Take(t) \/ Return(t)

Next == \E t \in Threads :
           \/ Step(t)
           \/ \E s \in Sides : BeginPush(t, s) \/ BeginPushWithoutNode(t, s) \/ BeginPop(t, s)

Spec == Init /\ [][Next]_vars

-----------------------------------------------------------------------------
Labels == {"idle", "load", "push_first", "push_link", "push_anchor", "prev",
           "check_prev", "prevnext", "check_prevnext", "link_back", "stable",
           "pop_last", "pop_check", "pop_prev", "pop_anchor", "take",
           "true", "false", "null", "wild"}

TypeOK ==
    /\ anchor \in Anchor
    /\ link \in [Sides -> [Nodes -> Link]]
    /\ free \subseteq Nodes
    /\ uses \in [Nodes -> 0 .. MaxUses]
    /\ pc \in [Threads -> Labels]
    /\ call \in [Threads -> {<<>>} \cup {"push", "pop"} \X Sides
                                \cup {"push"} \X Sides \X Values]
    /\ node \in [Threads -> Nodes \cup {None}]
    /\ lrs \in [Threads -> Anchor]
    /\ prev \in [Threads -> Pointer] /\ prevnext \in [Threads -> Link]
    /\ after \in [Threads -> {"load", "true"}]

(* The nodes in the deque, found from the end whose inner links are        *)
(* complete: the left one, unless a push on the right is unfinished.       *)
Along == IF anchor.status = "rpush" THEN "left" ELSE "right"

Visited ==
    LET walk[path \in Seq(Pointer) \ {<<>>}] ==
            IF path[Len(path)] \in Nodes \ {anchor[Along]} /\ Len(path) < Cardinality(Nodes)
            THEN walk[Append(path, link[Along][path[Len(path)]].ptr)] ELSE path
    IN  walk[<<anchor[Opposite(Along)]>>]

(* Nothing, if the walk never meets the other end.                         *)
Inside(path) == IF anchor.left = None \/ path[Len(path)] # anchor[Along] THEN <<>>
                ELSE IF Along = "right" THEN path ELSE Reverse(path)
Contents == Inside(Visited)

(* What t owns: the node it is about to push, or the one it has popped.    *)
Took(t) == pc[t] = "take"
Done(t) == pc[t] = "true" \/ after[t] = "true"
Pushing(t) == IsPush(t) /\ pc[t] # "null" /\ ~Done(t)
Owned(t) == IF Took(t) THEN {lrs[t][Side(t)]}
            ELSE IF Pushing(t) THEN {node[t]} ELSE {}

(* A node is in exactly one place: the pool, the deque, or one thread's    *)
(* hands.  Popping the wrong node, or losing one, breaks this.             *)
Placed(items) ==
    /\ anchor.left # None => items # <<>>
    /\ IsInjective(items)
    /\ Range(items) \cap free = {}
    /\ \A t \in Threads : Owned(t) \cap (Range(items) \cup free) = {}
    /\ \A t, u \in Threads : t # u => Owned(t) \cap Owned(u) = {}
    /\ Nodes = Range(items) \cup free \cup UNION {Owned(t) : t \in Threads}

OnePlace == Placed(Contents)

(* Neighbours point to each other, except that the link back to a node     *)
(* just pushed may be missing, and then the status says so.                *)
Linked(items) ==
    \A i \in 1 .. Len(items) - 1 :
       /\ \/ link["right"][items[i]].ptr = items[i + 1]
          \/ anchor.status = "rpush" /\ i = Len(items) - 1
       /\ \/ link["left"][items[i + 1]].ptr = items[i]
          \/ anchor.status = "lpush" /\ i = 1

Neighbours == Linked(Contents)

(* A pointer that a freed node's memory yields is never followed: the      *)
(* anchor is compared between reading a pointer and using it.              *)
NoWildPointer == \A t \in Threads : pc[t] # "wild"

(* The deque is whole between any two steps, and so is every pointer that  *)
(* a thread is about to follow.                                            *)
DequeSound == TypeOK /\ OnePlace /\ Neighbours /\ NoWildPointer

(* The nodes that t remembers from the deque, and may yet act on.          *)
Held(t) == {lrs[t].left, lrs[t].right, prev[t], prevnext[t].ptr}

(* What a client or a pool would have to see to: while a thread has a node *)
(* that it has not pushed yet, no other thread remembers that node.        *)
FreshNodes == \A t, u \in Threads : t # u /\ Pushing(u) => node[u] \notin Held(t)

(* The tags on links: a link is changed only while the anchor still says   *)
(* that it is missing.                                                     *)
NoABA == [][\A t \in Threads : LinkBack(t) /\ link' # link => anchor = lrs[t]]_vars

(***************************************************************************)
(* The deque implements the double-ended queue.  A call takes effect when  *)
(* its compare_exchange on the anchor succeeds, a failing pop when it      *)
(* loads an empty anchor.                                                  *)
(***************************************************************************)
ResultOf(t) == IF Took(t) THEN <<"true", Value(lrs[t][Side(t)])>>
               ELSE IF IsPush(t) /\ Done(t) THEN <<"true">>
               ELSE IF pc[t] = "false" THEN <<"false">>
               ELSE <<>>

ValuesOf(items) == [i \in DOMAIN items |-> Value(items[i])]

Abstract == INSTANCE DoubleEnded WITH
                items  <- ValuesOf(Contents),
                call   <- [t \in Threads |-> IF pc[t] = "null" THEN <<>> ELSE call[t]],
                result <- [t \in Threads |-> ResultOf(t)]

(* Every value pushed comes out once, in the order of the ends, and a pop  *)
(* fails only on an empty deque.                                           *)
ImplementsDeque == Abstract!Spec

(* Lock-freedom: unless there is nothing to do again and again, calls      *)
(* complete for ever, though a single one may starve.                      *)
Quiet == \A t \in Threads : pc[t] \in {"idle", "null"}
Completes == \E t \in Threads : pc[t] # "idle" /\ pc'[t] = "idle"
LockFree == []<>Quiet \/ []<><<Completes>>_vars
=============================================================================
