---------------------------- MODULE DequeProofs ----------------------------
(***************************************************************************)
(* Nodes may be allocated again and again.  As long as none is on its way  *)
(* back into the deque while another thread, in the middle of a call,      *)
(* still remembers it (FreshNodes), the deque is sound and linearizable,   *)
(* whatever the number of threads and nodes and whatever the width of the  *)
(* tags.  The pool does not see to it, and a single thread never breaks it.*)
(***************************************************************************)
EXTENDS Deque, WellFoundedInduction, FiniteSetTheorems, TLAPS

(* A set with 0 in it that holds k + 1 whenever it holds k holds 0 .. n.   *)
LEMMA SetInduction ==
    ASSUME NEW n \in Nat, NEW T, 0 \in T, \A k \in 0 .. n - 1 : k \in T => k + 1 \in T
    PROVE  0 .. n \subseteq T
<1> DEFINE U == (0 .. n) \ T
<1>1. U \in SUBSET Nat /\ 0 \notin U /\ \A k \in U : k \in 1 .. n
  OBVIOUS
<1>2. \A k \in 0 .. n : k \in T \/ k \in U
  OBVIOUS
<1>. HIDE DEF U
<1>3. SUFFICES ASSUME U # {} PROVE FALSE
  BY <1>2
<1>4. PICK m \in U : \A k \in U : ~ (<<k, m>> \in OpToRel(<, Nat))
  BY <1>1, <1>3, NatLessThanWellFounded, WFMin
<1>5. m \in 1 .. n /\ m - 1 \in 0 .. n - 1 /\ m - 1 < m /\ m - 1 + 1 = m
  BY <1>1
<1>6. \A k \in U : ~ (k < m)
  BY <1>1, <1>4 DEF OpToRel
<1>7. m - 1 \in T
  BY <1>2, <1>5, <1>6
<1>8. m \in T
  BY <1>5, <1>7
<1>. QED
  BY <1>8 DEF U

(***************************************************************************)
(* The inductive invariant.                                                *)
(***************************************************************************)

(* The nodes in the deque are those that are nowhere else.                 *)
In == {n \in Nodes : n \notin free /\ \A t \in Threads : n \notin Owned(t)}

(* The side a half done push is on.                                        *)
Half(a) == IF a.status = "rpush" THEN "right" ELSE "left"

(* m is next to n on side s.                                               *)
Towards(pos, s, n, m) == IF s = "right" THEN pos[m] = pos[n] + 1 ELSE pos[n] = pos[m] + 1

Stabilizing == {"prev", "check_prev", "prevnext", "check_prevnext", "link_back", "stable"}
Popping == {"pop_check", "pop_prev", "pop_anchor"}

(* What the step a thread is at says of its registers.                     *)
Local(t) ==
    /\ pc[t] # "wild"
    /\ (pc[t] = "idle") <=> (call[t] = <<>>)
    /\ pc[t] \in {"push_first", "push_link", "push_anchor", "true", "null"} => IsPush(t)
    /\ pc[t] \in Popping \cup {"pop_last", "take", "false"} => ~IsPush(t)
    /\ after[t] = "true" => IsPush(t) /\ pc[t] \in Stabilizing
    /\ Pushing(t) => node[t] \in Nodes /\ call[t] = <<"push", Side(t), Value(node[t])>>
    /\ pc[t] = "push_first" => lrs[t][Side(t)] = None
    /\ pc[t] \in {"push_link", "push_anchor", "pop_last", "take"} \cup Popping \cup Stabilizing =>
          lrs[t].left \in Nodes /\ lrs[t].right \in Nodes
    /\ pc[t] \in {"push_link", "push_anchor"} \cup Popping => lrs[t].status = "stable"
    /\ pc[t] = "pop_last" => lrs[t].left = lrs[t].right
    /\ pc[t] \in Popping => lrs[t].left # lrs[t].right
    /\ pc[t] \in Stabilizing => lrs[t].status # "stable"

(* Every node has one owner, and was used if it is not in the pool.        *)
Apart ==
    /\ \A n \in Nodes : uses[n] = 0 => n \in free
    /\ \A t \in Threads : Owned(t) \cap free = {}
    /\ \A t, u \in Threads : t # u => Owned(t) \cap Owned(u) = {}

(* Only nodes that were given up hold the pool's bits.                     *)
Clean ==
    \A n \in Nodes : n \in free \/ (\E t \in Threads : Took(t) /\ n \in Owned(t))
                     \/ \A s \in Sides : link[s][n].ptr # Wild

Ordered(pos) ==
    /\ anchor.left = None <=> In = {}
    /\ anchor.right = None <=> In = {}
    /\ anchor.left # None => anchor.left \in In /\ anchor.right \in In
    /\ \A n \in In : pos[anchor.left] <= pos[n] /\ pos[n] <= pos[anchor.right]
    /\ \A n, m \in In : pos[n] = pos[m] => n = m
    /\ \A s \in Sides : \A n \in In : n # anchor[s] => \E m \in In : Towards(pos, s, n, m)
    /\ Unstable(anchor) => anchor.left # anchor.right
    /\ \A s \in Sides : \A n, m \in In :
          Towards(pos, s, n, m) =>
             link[s][n].ptr = m \/ (anchor.status = Pushed(s) /\ m = anchor[s])

(* What a thread has read, as long as it may still act on it.              *)
Read(pos, t) ==
    /\ pc[t] = "push_anchor" => link[Opposite(Side(t))][node[t]].ptr = lrs[t][Side(t)]
    /\ pc[t] \in Popping =>
          /\ Unstable(anchor) => anchor[Half(anchor)] \notin {lrs[t].left, lrs[t].right}
          /\ lrs[t].left \in In /\ lrs[t].right \in In => pos[lrs[t].left] < pos[lrs[t].right]
    /\ pc[t] = "pop_anchor" /\ lrs[t].left \in In /\ lrs[t].right \in In =>
          prev[t] \in In /\ Towards(pos, Opposite(Side(t)), lrs[t][Side(t)], prev[t])
    /\ pc[t] \in Stabilizing \ {"prev"} /\ anchor = lrs[t] =>
          prev[t] \in In /\ Towards(pos, Opposite(Unfinished(t)), End(t), prev[t])
    /\ pc[t] \in Stabilizing \ {"prev", "check_prev"} => prev[t] \in Nodes
    /\ pc[t] \in {"check_prevnext", "link_back"} => prevnext[t].ptr # End(t)
    /\ pc[t] = "check_prevnext" /\ anchor = lrs[t] => prevnext[t].ptr # Wild
    /\ pc[t] = "link_back" =>
          /\ prevnext[t].ptr # Wild
          /\ Unstable(anchor) => prevnext[t].ptr # anchor[Half(anchor)]
          /\ anchor = lrs[t] \/ link[Unfinished(t)][prev[t]].ptr # prevnext[t].ptr
    /\ pc[t] = "stable" /\ anchor = lrs[t] => link[Unfinished(t)][prev[t]].ptr = End(t)

Whole == TypeOK /\ (\A t \in Threads : Local(t)) /\ Apart /\ Clean

(* pos puts the nodes of the deque in their order.                         *)
Placing(pos) == Ordered(pos) /\ \A t \in Threads : Read(pos, t)

IInv == Whole /\ \E pos \in [Nodes -> Int] : Placing(pos)

-----------------------------------------------------------------------------
(* Sides, calls, registers: what the types give.                           *)
LEMMA SidesOf ==
    /\ "left" \in Sides /\ "right" \in Sides
    /\ \A s \in Sides : Opposite(s) \in Sides /\ Opposite(s) # s /\ Opposite(Opposite(s)) = s
                        /\ Pushed(s) \in {"lpush", "rpush"}
    /\ \A s, d \in Sides : d = s \/ d = Opposite(s)
    /\ \A a : Half(a) \in Sides
    /\ \A t : Unfinished(t) = Half(lrs[t])
BY DEF Sides, Opposite, Pushed, Half, Unfinished

LEMMA TagNext == \A g \in 0 .. TagMod - 1 : NextTag(g) \in 0 .. TagMod - 1
BY DequeAssumption DEF NextTag

LEMMA CallType ==
    ASSUME TypeOK, NEW t \in Threads, call[t] # <<>>
    PROVE  Side(t) \in Sides /\ (IsPush(t) <=> call[t][1] = "push")
<1>1. call[t] \in {"push", "pop"} \X Sides \cup {"push"} \X Sides \X Values
  BY DEF TypeOK
<1>2. CASE call[t] \in {"push", "pop"} \X Sides
  BY <1>2 DEF Side, IsPush
<1>3. CASE call[t] \in {"push"} \X Sides \X Values
  BY <1>3 DEF Side, IsPush
<1>. QED
  BY <1>1, <1>2, <1>3

LEMMA AnchorType ==
    ASSUME NEW a \in Anchor
    PROVE  /\ a.left \in Pointer /\ a.right \in Pointer /\ a.tag \in 0 .. TagMod - 1
           /\ a.status \in {"stable", "lpush", "rpush"}
           /\ \A s \in Sides : a[s] \in Pointer
           /\ a["left"] = a.left /\ a["right"] = a.right
BY DEF Anchor, Sides

LEMMA SetLink ==
    ASSUME TypeOK, NEW s \in Sides, NEW n \in Nodes, NEW v \in Link
    PROVE  LET k == [link EXCEPT ![s][n] = v]
           IN  /\ k \in [Sides -> [Nodes -> Link]]
               /\ k[s][n] = v
               /\ \A d \in Sides, m \in Nodes : d # s \/ m # n => k[d][m] = link[d][m]
BY DEF TypeOK

-----------------------------------------------------------------------------
(* What each step changes, entry by entry.                                 *)
Registers(t) == <<pc[t], call[t], node[t], lrs[t], prev[t], prevnext[t], after[t]>>

OthersKeep(t) == \A u \in Threads \ {t} : UNCHANGED Registers(u)
Keeps(t) == UNCHANGED <<lrs[t], prev[t], prevnext[t], after[t]>>
Leaves(t) == /\ lrs'[t] = NoAnchor /\ prev'[t] = None /\ prevnext'[t] = NoLink
             /\ after'[t] = "load"
SameCall(t) == UNCHANGED <<call[t], node[t]>>

RegistersOK ==
    /\ pc \in [Threads -> Labels]
    /\ lrs \in [Threads -> Anchor]
    /\ prev \in [Threads -> Pointer] /\ prevnext \in [Threads -> Link]
    /\ after \in [Threads -> {"load", "true"}]
CallsOK ==
    /\ call \in [Threads -> {<<>>} \cup {"push", "pop"} \X Sides
                                \cup {"push"} \X Sides \X Values]
    /\ node \in [Threads -> Nodes \cup {None}]
SharedOK ==
    /\ anchor \in Anchor
    /\ link \in [Sides -> [Nodes -> Link]]
    /\ free \subseteq Nodes
    /\ uses \in [Nodes -> 0 .. MaxUses]

LEMMA Typing == TypeOK <=> SharedOK /\ CallsOK /\ RegistersOK
BY DEF TypeOK, SharedOK, CallsOK, RegistersOK

LEMMA Empties == NoAnchor \in Anchor /\ NoLink \in Link /\ None \in Pointer
BY DequeAssumption DEF NoAnchor, NoLink, Anchor, Link, Pointer

LEMMA LeaveEffect ==
    ASSUME RegistersOK, NEW t \in Threads, NEW l \in Labels, Leave(t, l)
    PROVE  /\ RegistersOK' /\ pc'[t] = l /\ Leaves(t)
           /\ \A u \in Threads \ {t} : pc'[u] = pc[u] /\ Keeps(u)
BY Empties DEF RegistersOK, Leave, Goto, Leaves, Keeps

LEMMA StayEffect ==
    ASSUME RegistersOK, NEW t \in Threads, NEW l \in Labels, Stay(t, l)
    PROVE  /\ RegistersOK' /\ pc'[t] = l /\ Keeps(t)
           /\ \A u \in Threads \ {t} : pc'[u] = pc[u] /\ Keeps(u)
BY DEF RegistersOK, Stay, Goto, Keeps

LEMMA NoCallChange ==
    ASSUME NEW t \in Threads, UNCHANGED <<call, node>>,
           \A u \in Threads \ {t} : pc'[u] = pc[u] /\ Keeps(u)
    PROVE  OthersKeep(t) /\ SameCall(t) /\ (CallsOK => CallsOK')
BY DEF OthersKeep, SameCall, Keeps, Registers, CallsOK

LEMMA LoadEffect ==
    ASSUME TypeOK, NEW t \in Threads, Local(t), Load(t)
    PROVE  /\ TypeOK' /\ OthersKeep(t) /\ SameCall(t) /\ UNCHANGED shared
           /\ pc[t] = "load" /\ lrs'[t] = anchor /\ UNCHANGED <<prev[t], prevnext[t], after[t]>>
           /\ Side(t) \in Sides
           /\ \/ /\ anchor[Side(t)] = None
                 /\ pc'[t] = IF IsPush(t) THEN "push_first" ELSE "false"
              \/ /\ anchor[Side(t)] # None /\ ~IsPush(t) /\ anchor.left = anchor.right
                 /\ pc'[t] = "pop_last"
              \/ /\ anchor[Side(t)] # None /\ (IsPush(t) \/ anchor.left # anchor.right)
                 /\ pc'[t] = IF Unstable(anchor) THEN "prev"
                             ELSE IF IsPush(t) THEN "push_link" ELSE "pop_check"
<1>1. SharedOK /\ CallsOK /\ RegistersOK
  BY Typing
<1>2. Side(t) \in Sides
  BY CallType DEF Local, Load
<1>3. pc' = [pc EXCEPT ![t] = pc'[t]] /\ pc'[t] \in Labels
  BY <1>1 DEF Load, Goto, RegistersOK, Labels
<1>4. RegistersOK'
  BY <1>1, <1>3 DEF Load, RegistersOK, SharedOK
<1>5. SharedOK' /\ UNCHANGED shared
  BY <1>1 DEF Load, shared, SharedOK
<1>6. \A u \in Threads \ {t} : pc'[u] = pc[u] /\ Keeps(u)
  BY <1>1, <1>3 DEF Load, Keeps, RegistersOK
<1>7. UNCHANGED <<call, node>>
  BY DEF Load
<1>8. CallsOK' /\ OthersKeep(t) /\ SameCall(t)
  BY <1>1, <1>6, <1>7, NoCallChange
<1>9. TypeOK'
  BY <1>4, <1>5, <1>8 DEF TypeOK, SharedOK, CallsOK, RegistersOK
<1>10. /\ lrs'[t] = anchor /\ UNCHANGED <<prev[t], prevnext[t], after[t]>> /\ pc[t] = "load"
  BY <1>1 DEF Load, RegistersOK
<1>. QED
  BY <1>1, <1>2, <1>5, <1>8, <1>9, <1>10 DEF Load, Goto, Empty, RegistersOK

LEMMA Registered ==
    ASSUME TypeOK, NEW t \in Threads, Local(t), pc[t] # "idle"
    PROVE  /\ Side(t) \in Sides /\ Opposite(Side(t)) \in Sides
           /\ Unfinished(t) \in Sides /\ Opposite(Unfinished(t)) \in Sides
           /\ after[t] \in {"load", "true"} /\ after[t] \in Labels
           /\ prev[t] \in Pointer /\ prevnext[t] \in Link /\ lrs[t] \in Anchor
           /\ node[t] \in Nodes \cup {None} /\ node[t] \in Pointer
           /\ \A s \in Sides : lrs[t][s] \in Pointer
           /\ pc[t] \in {"push_link", "push_anchor", "pop_last", "take"} \cup Popping \cup Stabilizing =>
                 End(t) \in Nodes /\ \A s \in Sides : lrs[t][s] \in Nodes
           /\ pc[t] \in {"push_first", "push_link", "push_anchor"} => Pushing(t) /\ node[t] \in Nodes
<1>1. Side(t) \in Sides
  BY CallType DEF Local
<1>2. lrs[t] \in Anchor /\ prev[t] \in Pointer /\ prevnext[t] \in Link /\ after[t] \in {"load", "true"}
      /\ node[t] \in Nodes \cup {None}
  BY DEF TypeOK
<1>3. lrs[t].left = lrs[t]["left"] /\ lrs[t].right = lrs[t]["right"] /\ \A s \in Sides : lrs[t][s] \in Pointer
  BY <1>2, AnchorType
<1>4. pc[t] \in {"push_link", "push_anchor", "pop_last", "take"} \cup Popping \cup Stabilizing =>
                 \A s \in Sides : lrs[t][s] \in Nodes
  BY <1>3 DEF Local, Sides
<1>5. ASSUME pc[t] \in {"push_first", "push_link", "push_anchor"}
      PROVE  Pushing(t) /\ node[t] \in Nodes
  BY <1>5 DEF Local, Pushing, Done, Stabilizing
<1>. QED
  BY <1>1, <1>2, <1>3, <1>4, <1>5, SidesOf DEF End, Labels, Pointer

LEMMA PushFirstEffect ==
    ASSUME TypeOK, NEW t \in Threads, Local(t), PushFirst(t)
    PROVE  /\ TypeOK' /\ OthersKeep(t) /\ SameCall(t) /\ UNCHANGED <<link, free, uses>>
           /\ pc[t] = "push_first" /\ Leaves(t)
           /\ \/ /\ anchor = lrs[t] /\ pc'[t] = "true"
                 /\ anchor'.left = node[t] /\ anchor'.right = node[t] /\ anchor'.status = anchor.status
              \/ anchor' = anchor /\ pc'[t] = "load"
<1>1. SharedOK /\ CallsOK /\ RegistersOK
  BY Typing
<1>2. pc[t] = "push_first" /\ node[t] \in Pointer /\ UNCHANGED <<link, free, uses>> /\ UNCHANGED <<call, node>>
  BY Registered DEF PushFirst
<1>3. CASE anchor = lrs[t]
  <2>1. anchor' = [anchor EXCEPT !.left = node[t], !.right = node[t], !.tag = NextTag(@)]
        /\ Leave(t, "true")
    BY <1>3 DEF PushFirst
  <2>2. anchor' = [anchor EXCEPT !.left = node[t], !.right = node[t], !.tag = NextTag(anchor.tag)]
    BY <2>1
  <2>3. anchor \in Anchor /\ NextTag(anchor.tag) \in 0 .. TagMod - 1
    BY <1>1, AnchorType, TagNext DEF SharedOK
  <2>4. anchor' \in Anchor /\ anchor'.left = node[t] /\ anchor'.right = node[t]
        /\ anchor'.status = anchor.status
    BY <1>2, <2>2, <2>3 DEF Anchor
  <2>5. /\ RegistersOK' /\ pc'[t] = "true" /\ Leaves(t)
        /\ \A u \in Threads \ {t} : pc'[u] = pc[u] /\ Keeps(u)
    BY <1>1, <2>1, LeaveEffect DEF Labels
  <2>6. OthersKeep(t) /\ SameCall(t) /\ CallsOK'
    BY <1>1, <1>2, <2>5, NoCallChange
  <2>7. SharedOK'
    BY <1>1, <1>2, <2>4 DEF SharedOK
  <2>. QED
    BY <1>2, <1>3, <2>4, <2>5, <2>6, <2>7 DEF TypeOK, SharedOK, CallsOK, RegistersOK
<1>4. CASE anchor # lrs[t]
  <2>1. anchor' = anchor /\ Leave(t, "load")
    BY <1>4 DEF PushFirst
  <2>2. /\ RegistersOK' /\ pc'[t] = "load" /\ Leaves(t)
        /\ \A u \in Threads \ {t} : pc'[u] = pc[u] /\ Keeps(u)
    BY <1>1, <2>1, LeaveEffect DEF Labels
  <2>3. OthersKeep(t) /\ SameCall(t) /\ CallsOK'
    BY <1>1, <1>2, <2>2, NoCallChange
  <2>4. SharedOK'
    BY <1>1, <1>2, <2>1 DEF SharedOK
  <2>. QED
    BY <1>2, <2>1, <2>2, <2>3, <2>4 DEF TypeOK, SharedOK, CallsOK, RegistersOK
<1>. QED
  BY <1>3, <1>4

LEMMA PushLinkEffect ==
    ASSUME TypeOK, NEW t \in Threads, Local(t), PushLink(t)
    PROVE  /\ TypeOK' /\ OthersKeep(t) /\ SameCall(t) /\ UNCHANGED <<anchor, free, uses>>
           /\ pc[t] = "push_link" /\ pc'[t] = "push_anchor" /\ Keeps(t)
           /\ link'[Opposite(Side(t))][node[t]].ptr = lrs[t][Side(t)]
           /\ \A d \in Sides, m \in Nodes :
                 d # Opposite(Side(t)) \/ m # node[t] => link'[d][m] = link[d][m]
<1>1. SharedOK /\ CallsOK /\ RegistersOK
  BY Typing
<1>2. /\ pc[t] = "push_link" /\ node[t] \in Nodes /\ UNCHANGED <<anchor, free, uses>>
      /\ UNCHANGED <<call, node>> /\ Opposite(Side(t)) \in Sides /\ lrs[t][Side(t)] \in Pointer
  BY Registered DEF PushLink
<1>. DEFINE v == [ptr |-> lrs[t][Side(t)], tag |-> 0]
<1>3. v \in Link /\ v.ptr = lrs[t][Side(t)]
  BY <1>2, DequeAssumption DEF Link
<1>4. link' = [link EXCEPT ![Opposite(Side(t))][node[t]] = v] /\ Stay(t, "push_anchor")
  BY DEF PushLink
<1>. HIDE DEF v
<1>5. /\ link' \in [Sides -> [Nodes -> Link]] /\ link'[Opposite(Side(t))][node[t]] = v
      /\ \A d \in Sides, m \in Nodes :
            d # Opposite(Side(t)) \/ m # node[t] => link'[d][m] = link[d][m]
  BY <1>2, <1>3, <1>4, SetLink
<1>6. /\ RegistersOK' /\ pc'[t] = "push_anchor" /\ Keeps(t)
      /\ \A u \in Threads \ {t} : pc'[u] = pc[u] /\ Keeps(u)
  BY <1>1, <1>4, StayEffect DEF Labels
<1>7. OthersKeep(t) /\ SameCall(t) /\ CallsOK'
  BY <1>1, <1>2, <1>6, NoCallChange
<1>8. SharedOK'
  BY <1>1, <1>2, <1>5 DEF SharedOK
<1>. QED
  BY <1>2, <1>3, <1>5, <1>6, <1>7, <1>8 DEF TypeOK, SharedOK, CallsOK, RegistersOK

LEMMA PushAnchorEffect ==
    ASSUME TypeOK, NEW t \in Threads, Local(t), PushAnchor(t)
    PROVE  /\ TypeOK' /\ OthersKeep(t) /\ SameCall(t) /\ UNCHANGED <<link, free, uses>>
           /\ pc[t] = "push_anchor"
           /\ \/ /\ anchor = lrs[t] /\ pc'[t] = "prev" /\ after'[t] = "true"
                 /\ lrs'[t] = anchor' /\ UNCHANGED <<prev[t], prevnext[t]>>
                 /\ anchor'[Side(t)] = node[t]
                 /\ anchor'[Opposite(Side(t))] = anchor[Opposite(Side(t))]
                 /\ anchor'.status = Pushed(Side(t)) /\ Half(anchor') = Side(t)
              \/ anchor' = anchor /\ pc'[t] = "load" /\ Leaves(t)
<1>1. SharedOK /\ CallsOK /\ RegistersOK
  BY Typing
<1>2. /\ pc[t] = "push_anchor" /\ node[t] \in Pointer /\ UNCHANGED <<link, free, uses>>
      /\ UNCHANGED <<call, node>> /\ Side(t) \in Sides
  BY Registered DEF PushAnchor
<1>3. CASE anchor = lrs[t]
  <2>1. /\ anchor' = [anchor EXCEPT ![Side(t)] = node[t], !.tag = NextTag(@),
                                    !.status = Pushed(Side(t))]
        /\ lrs' = [lrs EXCEPT ![t] = anchor']
        /\ after' = [after EXCEPT ![t] = "true"]
        /\ pc' = [pc EXCEPT ![t] = "prev"]
        /\ UNCHANGED <<prev, prevnext>>
    BY <1>3 DEF PushAnchor, Goto
  <2>2. anchor \in Anchor /\ NextTag(anchor.tag) \in 0 .. TagMod - 1
    BY <1>1, AnchorType, TagNext DEF SharedOK
  <2>3. anchor' = [anchor EXCEPT ![Side(t)] = node[t], !.tag = NextTag(anchor.tag),
                                    !.status = Pushed(Side(t))]
    <3>1. CASE Side(t) = "left"
      BY <2>1, <2>2, <3>1
    <3>2. CASE Side(t) = "right"
      BY <2>1, <2>2, <3>2
    <3>. QED
      BY <1>2, <3>1, <3>2 DEF Sides
  <2>4. /\ anchor' \in Anchor /\ anchor'[Side(t)] = node[t]
        /\ anchor'[Opposite(Side(t))] = anchor[Opposite(Side(t))]
        /\ anchor'.status = Pushed(Side(t)) /\ Half(anchor') = Side(t)
    <3>1. CASE Side(t) = "left"
      BY <1>2, <2>2, <2>3, <3>1 DEF Anchor, Opposite, Pushed, Half
    <3>2. CASE Side(t) = "right"
      BY <1>2, <2>2, <2>3, <3>2 DEF Anchor, Opposite, Pushed, Half
    <3>. QED
      BY <1>2, <3>1, <3>2 DEF Sides
  <2>5. RegistersOK'
    BY <1>1, <2>1, <2>4 DEF RegistersOK, Labels
  <2>6. \A u \in Threads \ {t} : pc'[u] = pc[u] /\ Keeps(u)
    BY <1>1, <2>1 DEF Keeps, RegistersOK
  <2>7. OthersKeep(t) /\ SameCall(t) /\ CallsOK'
    BY <1>1, <1>2, <2>6, NoCallChange
  <2>8. SharedOK'
    BY <1>1, <1>2, <2>4 DEF SharedOK
  <2>9. pc'[t] = "prev" /\ after'[t] = "true" /\ lrs'[t] = anchor' /\ UNCHANGED <<prev[t], prevnext[t]>>
    BY <1>1, <2>1 DEF RegistersOK
  <2>10. TypeOK'
    BY <2>5, <2>7, <2>8 DEF TypeOK, SharedOK, CallsOK, RegistersOK
  <2>. QED
    BY <1>2, <1>3, <2>4, <2>7, <2>9, <2>10
<1>4. CASE anchor # lrs[t]
  <2>1. anchor' = anchor /\ Leave(t, "load")
    BY <1>4 DEF PushAnchor
  <2>2. /\ RegistersOK' /\ pc'[t] = "load" /\ Leaves(t)
        /\ \A u \in Threads \ {t} : pc'[u] = pc[u] /\ Keeps(u)
    BY <1>1, <2>1, LeaveEffect DEF Labels
  <2>3. OthersKeep(t) /\ SameCall(t) /\ CallsOK'
    BY <1>1, <1>2, <2>2, NoCallChange
  <2>4. SharedOK'
    BY <1>1, <1>2, <2>1 DEF SharedOK
  <2>. QED
    BY <1>2, <2>1, <2>2, <2>3, <2>4 DEF TypeOK, SharedOK, CallsOK, RegistersOK
<1>. QED
  BY <1>3, <1>4

LEMMA ReadPrevEffect ==
    ASSUME TypeOK, NEW t \in Threads, Local(t), ReadPrev(t)
    PROVE  /\ TypeOK' /\ OthersKeep(t) /\ SameCall(t) /\ UNCHANGED shared
           /\ pc[t] = "prev" /\ pc'[t] = "check_prev"
           /\ prev'[t] = link[Opposite(Unfinished(t))][End(t)].ptr
           /\ UNCHANGED <<lrs[t], prevnext[t], after[t]>>
<1>1. SharedOK /\ CallsOK /\ RegistersOK
  BY Typing
<1>2. pc[t] = "prev" /\ End(t) \in Nodes /\ Opposite(Unfinished(t)) \in Sides
  BY Registered DEF ReadPrev, Stabilizing
<1>. DEFINE p == link[Opposite(Unfinished(t))][End(t)].ptr
<1>3. p \in Pointer
  BY <1>1, <1>2 DEF SharedOK, Link
<1>4. /\ prev' = [prev EXCEPT ![t] = p] /\ pc' = [pc EXCEPT ![t] = "check_prev"]
      /\ UNCHANGED <<shared, call, node, lrs, prevnext, after>>
  BY DEF ReadPrev, Goto
<1>. HIDE DEF p
<1>5. /\ RegistersOK' /\ pc'[t] = "check_prev" /\ prev'[t] = p
      /\ UNCHANGED <<lrs[t], prevnext[t], after[t]>>
      /\ \A u \in Threads \ {t} : pc'[u] = pc[u] /\ Keeps(u)
  BY <1>1, <1>3, <1>4 DEF RegistersOK, Keeps, Labels
<1>6. OthersKeep(t) /\ SameCall(t) /\ CallsOK'
  BY <1>1, <1>4, <1>5, NoCallChange
<1>7. SharedOK'
  BY <1>1, <1>4 DEF SharedOK, shared
<1>. QED
  BY <1>2, <1>4, <1>5, <1>6, <1>7 DEF p, TypeOK, SharedOK, CallsOK, RegistersOK

LEMMA CompareEffect ==
    ASSUME TypeOK, NEW t \in Threads, Local(t), pc[t] # "idle",
           UNCHANGED <<shared, call, node>>, NEW l \in Labels, NEW m \in Labels,
           \/ anchor = lrs[t] /\ Stay(t, l)
           \/ anchor # lrs[t] /\ Leave(t, m)
    PROVE  /\ TypeOK' /\ OthersKeep(t) /\ SameCall(t)
           /\ \/ anchor = lrs[t] /\ pc'[t] = l /\ Keeps(t)
              \/ anchor # lrs[t] /\ pc'[t] = m /\ Leaves(t)
<1>1. SharedOK /\ CallsOK /\ RegistersOK
  BY Typing
<1>2. /\ RegistersOK'
      /\ \A u \in Threads \ {t} : pc'[u] = pc[u] /\ Keeps(u)
      /\ \/ anchor = lrs[t] /\ pc'[t] = l /\ Keeps(t)
         \/ anchor # lrs[t] /\ pc'[t] = m /\ Leaves(t)
  BY <1>1, StayEffect, LeaveEffect
<1>3. OthersKeep(t) /\ SameCall(t) /\ CallsOK'
  BY <1>1, <1>2, NoCallChange
<1>4. SharedOK'
  BY <1>1 DEF SharedOK, shared
<1>. QED
  BY <1>2, <1>3, <1>4 DEF TypeOK, SharedOK, CallsOK, RegistersOK

LEMMA CheckPrevEffect ==
    ASSUME TypeOK, NEW t \in Threads, Local(t), CheckPrev(t)
    PROVE  /\ TypeOK' /\ OthersKeep(t) /\ SameCall(t) /\ UNCHANGED shared
           /\ pc[t] = "check_prev"
           /\ \/ anchor = lrs[t] /\ pc'[t] = "prevnext" /\ Keeps(t)
              \/ anchor # lrs[t] /\ pc'[t] = after[t] /\ Leaves(t)
<1>1. /\ pc[t] = "check_prev" /\ UNCHANGED <<shared, call, node>> /\ pc[t] # "idle"
      /\ "prevnext" \in Labels
      /\ (anchor = lrs[t] /\ Stay(t, "prevnext")) \/ (anchor # lrs[t] /\ Leave(t, after[t]))
  BY DEF CheckPrev, Labels
<1>2. after[t] \in Labels
  BY <1>1, Registered
<1>. QED
  BY <1>1, <1>2, CompareEffect

LEMMA CheckPrevnextEffect ==
    ASSUME TypeOK, NEW t \in Threads, Local(t), CheckPrevnext(t)
    PROVE  /\ TypeOK' /\ OthersKeep(t) /\ SameCall(t) /\ UNCHANGED shared
           /\ pc[t] = "check_prevnext"
           /\ \/ anchor = lrs[t] /\ pc'[t] = "link_back" /\ Keeps(t)
              \/ anchor # lrs[t] /\ pc'[t] = after[t] /\ Leaves(t)
<1>1. /\ pc[t] = "check_prevnext" /\ UNCHANGED <<shared, call, node>> /\ pc[t] # "idle"
      /\ "link_back" \in Labels
      /\ (anchor = lrs[t] /\ Stay(t, "link_back")) \/ (anchor # lrs[t] /\ Leave(t, after[t]))
  BY DEF CheckPrevnext, Labels
<1>2. after[t] \in Labels
  BY <1>1, Registered
<1>. QED
  BY <1>1, <1>2, CompareEffect

LEMMA PopCheckEffect ==
    ASSUME TypeOK, NEW t \in Threads, Local(t), PopCheck(t)
    PROVE  /\ TypeOK' /\ OthersKeep(t) /\ SameCall(t) /\ UNCHANGED shared
           /\ pc[t] = "pop_check"
           /\ \/ anchor = lrs[t] /\ pc'[t] = "pop_prev" /\ Keeps(t)
              \/ anchor # lrs[t] /\ pc'[t] = "load" /\ Leaves(t)
<1>1. /\ pc[t] = "pop_check" /\ UNCHANGED <<shared, call, node>> /\ pc[t] # "idle"
      /\ "pop_prev" \in Labels /\ "load" \in Labels
      /\ (anchor = lrs[t] /\ Stay(t, "pop_prev")) \/ (anchor # lrs[t] /\ Leave(t, "load"))
  BY DEF PopCheck, Labels
<1>. QED
  BY <1>1, CompareEffect

LEMMA ReadPrevnextEffect ==
    ASSUME TypeOK, NEW t \in Threads, Local(t), ReadPrevnext(t), prev[t] \in Nodes
    PROVE  /\ TypeOK' /\ OthersKeep(t) /\ SameCall(t) /\ UNCHANGED shared
           /\ pc[t] = "prevnext" /\ prevnext'[t] = link[Unfinished(t)][prev[t]]
           /\ pc'[t] = IF prevnext'[t].ptr = End(t) THEN "stable" ELSE "check_prevnext"
           /\ UNCHANGED <<lrs[t], prev[t], after[t]>>
<1>1. SharedOK /\ CallsOK /\ RegistersOK
  BY Typing
<1>2. pc[t] = "prevnext" /\ Unfinished(t) \in Sides
  BY Registered DEF ReadPrevnext
<1>. DEFINE p == link[Unfinished(t)][prev[t]]
            l == IF p.ptr = End(t) THEN "stable" ELSE "check_prevnext"
<1>3. p \in Link
  BY <1>1, <1>2 DEF SharedOK
<1>4. /\ prevnext' = [prevnext EXCEPT ![t] = p] /\ pc' = [pc EXCEPT ![t] = l]
      /\ UNCHANGED <<shared, call, node, lrs, prev, after>>
  BY DEF ReadPrevnext, Goto
<1>5. l \in Labels
  BY DEF Labels
<1>. HIDE DEF p, l
<1>6. /\ RegistersOK' /\ pc'[t] = l /\ prevnext'[t] = p
      /\ UNCHANGED <<lrs[t], prev[t], after[t]>>
      /\ \A u \in Threads \ {t} : pc'[u] = pc[u] /\ Keeps(u)
  BY <1>1, <1>3, <1>4, <1>5 DEF RegistersOK, Keeps
<1>7. OthersKeep(t) /\ SameCall(t) /\ CallsOK'
  BY <1>1, <1>4, <1>6, NoCallChange
<1>8. SharedOK'
  BY <1>1, <1>4 DEF SharedOK, shared
<1>. QED
  BY <1>2, <1>4, <1>6, <1>7, <1>8 DEF p, l, TypeOK, SharedOK, CallsOK, RegistersOK

LEMMA PopPrevEffect ==
    ASSUME TypeOK, NEW t \in Threads, Local(t), PopPrev(t)
    PROVE  /\ TypeOK' /\ OthersKeep(t) /\ SameCall(t) /\ UNCHANGED shared
           /\ pc[t] = "pop_prev" /\ pc'[t] = "pop_anchor"
           /\ prev'[t] = link[Opposite(Side(t))][lrs[t][Side(t)]].ptr
           /\ UNCHANGED <<lrs[t], prevnext[t], after[t]>>
<1>1. SharedOK /\ CallsOK /\ RegistersOK
  BY Typing
<1>2. pc[t] = "pop_prev" /\ lrs[t][Side(t)] \in Nodes /\ Opposite(Side(t)) \in Sides
  BY Registered DEF PopPrev, Popping
<1>. DEFINE p == link[Opposite(Side(t))][lrs[t][Side(t)]].ptr
<1>3. p \in Pointer
  BY <1>1, <1>2 DEF SharedOK, Link
<1>4. /\ prev' = [prev EXCEPT ![t] = p] /\ pc' = [pc EXCEPT ![t] = "pop_anchor"]
      /\ UNCHANGED <<shared, call, node, lrs, prevnext, after>>
  BY DEF PopPrev, Goto
<1>. HIDE DEF p
<1>5. /\ RegistersOK' /\ pc'[t] = "pop_anchor" /\ prev'[t] = p
      /\ UNCHANGED <<lrs[t], prevnext[t], after[t]>>
      /\ \A u \in Threads \ {t} : pc'[u] = pc[u] /\ Keeps(u)
  BY <1>1, <1>3, <1>4 DEF RegistersOK, Keeps, Labels
<1>6. OthersKeep(t) /\ SameCall(t) /\ CallsOK'
  BY <1>1, <1>4, <1>5, NoCallChange
<1>7. SharedOK'
  BY <1>1, <1>4 DEF SharedOK, shared
<1>. QED
  BY <1>2, <1>4, <1>5, <1>6, <1>7 DEF p, TypeOK, SharedOK, CallsOK, RegistersOK

LEMMA LinkBackEffect ==
    ASSUME TypeOK, NEW t \in Threads, Local(t), LinkBack(t), prev[t] \in Nodes
    PROVE  /\ TypeOK' /\ OthersKeep(t) /\ SameCall(t) /\ UNCHANGED <<anchor, free, uses>>
           /\ pc[t] = "link_back"
           /\ \/ /\ link[Unfinished(t)][prev[t]] = prevnext[t] /\ pc'[t] = "stable" /\ Keeps(t)
                 /\ link'[Unfinished(t)][prev[t]].ptr = End(t)
                 /\ \A d \in Sides, m \in Nodes :
                       d # Unfinished(t) \/ m # prev[t] => link'[d][m] = link[d][m]
              \/ link' = link /\ pc'[t] = after[t] /\ Leaves(t)
<1>1. SharedOK /\ CallsOK /\ RegistersOK
  BY Typing
<1>2. /\ pc[t] = "link_back" /\ End(t) \in Nodes /\ UNCHANGED <<anchor, free, uses>>
      /\ UNCHANGED <<call, node>> /\ Unfinished(t) \in Sides /\ prevnext[t] \in Link
      /\ after[t] \in Labels
  BY Registered DEF LinkBack, Stabilizing
<1>3. CASE link[Unfinished(t)][prev[t]] = prevnext[t]
  <2>. DEFINE v == [ptr |-> End(t), tag |-> NextTag(prevnext[t].tag)]
  <2>1. prevnext[t].tag \in 0 .. TagMod - 1
    BY <1>2 DEF Link
  <2>2. v \in Link /\ v.ptr = End(t)
    BY <1>2, <2>1, TagNext DEF Link, Pointer
  <2>3. link' = [link EXCEPT ![Unfinished(t)][prev[t]] = v] /\ Stay(t, "stable")
    BY <1>3 DEF LinkBack
  <2>. HIDE DEF v
  <2>4. /\ link' \in [Sides -> [Nodes -> Link]] /\ link'[Unfinished(t)][prev[t]] = v
        /\ \A d \in Sides, m \in Nodes :
              d # Unfinished(t) \/ m # prev[t] => link'[d][m] = link[d][m]
    BY <1>2, <2>2, <2>3, SetLink
  <2>5. /\ RegistersOK' /\ pc'[t] = "stable" /\ Keeps(t)
        /\ \A u \in Threads \ {t} : pc'[u] = pc[u] /\ Keeps(u)
    BY <1>1, <2>3, StayEffect DEF Labels
  <2>6. OthersKeep(t) /\ SameCall(t) /\ CallsOK'
    BY <1>1, <1>2, <2>5, NoCallChange
  <2>7. SharedOK'
    BY <1>1, <1>2, <2>4 DEF SharedOK
  <2>8. TypeOK'
    BY <2>5, <2>6, <2>7 DEF TypeOK, SharedOK, CallsOK, RegistersOK
  <2>. QED
    BY <1>2, <1>3, <2>2, <2>4, <2>5, <2>6, <2>8
<1>4. CASE link[Unfinished(t)][prev[t]] # prevnext[t]
  <2>1. link' = link /\ Leave(t, after[t])
    BY <1>4 DEF LinkBack
  <2>2. /\ RegistersOK' /\ pc'[t] = after[t] /\ Leaves(t)
        /\ \A u \in Threads \ {t} : pc'[u] = pc[u] /\ Keeps(u)
    BY <1>1, <1>2, <2>1, LeaveEffect
  <2>3. OthersKeep(t) /\ SameCall(t) /\ CallsOK'
    BY <1>1, <1>2, <2>2, NoCallChange
  <2>4. SharedOK'
    BY <1>1, <1>2, <2>1 DEF SharedOK
  <2>. QED
    BY <1>2, <2>1, <2>2, <2>3, <2>4 DEF TypeOK, SharedOK, CallsOK, RegistersOK
<1>. QED
  BY <1>3, <1>4

LEMMA MakeStableEffect ==
    ASSUME TypeOK, NEW t \in Threads, Local(t), MakeStable(t)
    PROVE  /\ TypeOK' /\ OthersKeep(t) /\ SameCall(t) /\ UNCHANGED <<link, free, uses>>
           /\ pc[t] = "stable" /\ pc'[t] = after[t] /\ Leaves(t)
           /\ \/ /\ anchor = lrs[t] /\ anchor'.left = anchor.left /\ anchor'.right = anchor.right
                 /\ anchor'.status = "stable"
              \/ anchor' = anchor
<1>1. SharedOK /\ CallsOK /\ RegistersOK
  BY Typing
<1>2. /\ pc[t] = "stable" /\ UNCHANGED <<link, free, uses>>
      /\ UNCHANGED <<call, node>> /\ after[t] \in Labels
  BY Registered DEF MakeStable
<1>3. /\ RegistersOK' /\ pc'[t] = after[t] /\ Leaves(t)
      /\ \A u \in Threads \ {t} : pc'[u] = pc[u] /\ Keeps(u)
  BY <1>1, <1>2, LeaveEffect DEF MakeStable
<1>4. OthersKeep(t) /\ SameCall(t) /\ CallsOK'
  BY <1>1, <1>2, <1>3, NoCallChange
<1>5. anchor \in Anchor /\ NextTag(anchor.tag) \in 0 .. TagMod - 1
  BY <1>1, AnchorType, TagNext DEF SharedOK
<1>6. CASE anchor = lrs[t]
  <2>1. anchor' = [anchor EXCEPT !.status = "stable", !.tag = NextTag(anchor.tag)]
    BY <1>6 DEF MakeStable
  <2>2. /\ anchor' \in Anchor /\ anchor'.left = anchor.left /\ anchor'.right = anchor.right
        /\ anchor'.status = "stable"
    BY <1>5, <2>1 DEF Anchor
  <2>3. SharedOK'
    BY <1>1, <1>2, <2>2 DEF SharedOK
  <2>. QED
    BY <1>2, <1>3, <1>4, <1>6, <2>2, <2>3 DEF TypeOK, SharedOK, CallsOK, RegistersOK
<1>7. CASE anchor # lrs[t]
  <2>1. anchor' = anchor
    BY <1>7 DEF MakeStable
  <2>2. SharedOK'
    BY <1>1, <1>2, <2>1 DEF SharedOK
  <2>. QED
    BY <1>2, <1>3, <1>4, <2>1, <2>2 DEF TypeOK, SharedOK, CallsOK, RegistersOK
<1>. QED
  BY <1>6, <1>7

LEMMA PopLastEffect ==
    ASSUME TypeOK, NEW t \in Threads, Local(t), PopLast(t)
    PROVE  /\ TypeOK' /\ OthersKeep(t) /\ SameCall(t) /\ UNCHANGED <<link, free, uses>>
           /\ pc[t] = "pop_last"
           /\ \/ /\ anchor = lrs[t] /\ pc'[t] = "take" /\ Keeps(t)
                 /\ anchor'.left = None /\ anchor'.right = None /\ anchor'.status = anchor.status
              \/ anchor' = anchor /\ pc'[t] = "load" /\ Leaves(t)
<1>1. SharedOK /\ CallsOK /\ RegistersOK
  BY Typing
<1>2. pc[t] = "pop_last" /\ UNCHANGED <<link, free, uses>> /\ UNCHANGED <<call, node>>
  BY DEF PopLast
<1>3. CASE anchor = lrs[t]
  <2>1. anchor' = [anchor EXCEPT !.left = None, !.right = None, !.tag = NextTag(anchor.tag)]
        /\ Stay(t, "take")
    BY <1>3 DEF PopLast
  <2>2. anchor \in Anchor /\ NextTag(anchor.tag) \in 0 .. TagMod - 1 /\ None \in Pointer
    BY <1>1, AnchorType, TagNext, Empties DEF SharedOK
  <2>3. anchor' \in Anchor /\ anchor'.left = None /\ anchor'.right = None
        /\ anchor'.status = anchor.status
    BY <2>1, <2>2 DEF Anchor
  <2>4. /\ RegistersOK' /\ pc'[t] = "take" /\ Keeps(t)
        /\ \A u \in Threads \ {t} : pc'[u] = pc[u] /\ Keeps(u)
    BY <1>1, <2>1, StayEffect DEF Labels
  <2>5. OthersKeep(t) /\ SameCall(t) /\ CallsOK'
    BY <1>1, <1>2, <2>4, NoCallChange
  <2>6. SharedOK'
    BY <1>1, <1>2, <2>3 DEF SharedOK
  <2>. QED
    BY <1>2, <1>3, <2>3, <2>4, <2>5, <2>6 DEF TypeOK, SharedOK, CallsOK, RegistersOK
<1>4. CASE anchor # lrs[t]
  <2>1. anchor' = anchor /\ Leave(t, "load")
    BY <1>4 DEF PopLast
  <2>2. /\ RegistersOK' /\ pc'[t] = "load" /\ Leaves(t)
        /\ \A u \in Threads \ {t} : pc'[u] = pc[u] /\ Keeps(u)
    BY <1>1, <2>1, LeaveEffect DEF Labels
  <2>3. OthersKeep(t) /\ SameCall(t) /\ CallsOK'
    BY <1>1, <1>2, <2>2, NoCallChange
  <2>4. SharedOK'
    BY <1>1, <1>2, <2>1 DEF SharedOK
  <2>. QED
    BY <1>2, <2>1, <2>2, <2>3, <2>4 DEF TypeOK, SharedOK, CallsOK, RegistersOK
<1>. QED
  BY <1>3, <1>4

LEMMA PopAnchorEffect ==
    ASSUME TypeOK, NEW t \in Threads, Local(t), PopAnchor(t)
    PROVE  /\ TypeOK' /\ OthersKeep(t) /\ SameCall(t) /\ UNCHANGED <<link, free, uses>>
           /\ pc[t] = "pop_anchor"
           /\ \/ /\ anchor = lrs[t] /\ pc'[t] = "take" /\ Keeps(t)
                 /\ anchor'[Side(t)] = prev[t]
                 /\ anchor'[Opposite(Side(t))] = anchor[Opposite(Side(t))]
                 /\ anchor'.status = anchor.status
              \/ anchor' = anchor /\ pc'[t] = "load" /\ Leaves(t)
<1>1. SharedOK /\ CallsOK /\ RegistersOK
  BY Typing
<1>2. /\ pc[t] = "pop_anchor" /\ prev[t] \in Pointer /\ UNCHANGED <<link, free, uses>>
      /\ UNCHANGED <<call, node>> /\ Side(t) \in Sides
  BY Registered DEF PopAnchor
<1>3. CASE anchor = lrs[t]
  <2>1. anchor' = [anchor EXCEPT ![Side(t)] = prev[t], !.tag = NextTag(@)] /\ Stay(t, "take")
    BY <1>3 DEF PopAnchor
  <2>2. anchor \in Anchor /\ NextTag(anchor.tag) \in 0 .. TagMod - 1
    BY <1>1, AnchorType, TagNext DEF SharedOK
  <2>3. anchor' = [anchor EXCEPT ![Side(t)] = prev[t], !.tag = NextTag(anchor.tag)]
    <3>1. CASE Side(t) = "left"
      BY <2>1, <2>2, <3>1
    <3>2. CASE Side(t) = "right"
      BY <2>1, <2>2, <3>2
    <3>. QED
      BY <1>2, <3>1, <3>2 DEF Sides
  <2>4. /\ anchor' \in Anchor /\ anchor'[Side(t)] = prev[t]
        /\ anchor'[Opposite(Side(t))] = anchor[Opposite(Side(t))]
        /\ anchor'.status = anchor.status
    <3>1. CASE Side(t) = "left"
      BY <1>2, <2>2, <2>3, <3>1 DEF Anchor, Opposite
    <3>2. CASE Side(t) = "right"
      BY <1>2, <2>2, <2>3, <3>2 DEF Anchor, Opposite
    <3>. QED
      BY <1>2, <3>1, <3>2 DEF Sides
  <2>5. /\ RegistersOK' /\ pc'[t] = "take" /\ Keeps(t)
        /\ \A u \in Threads \ {t} : pc'[u] = pc[u] /\ Keeps(u)
    BY <1>1, <2>1, StayEffect DEF Labels
  <2>6. OthersKeep(t) /\ SameCall(t) /\ CallsOK'
    BY <1>1, <1>2, <2>5, NoCallChange
  <2>7. SharedOK'
    BY <1>1, <1>2, <2>4 DEF SharedOK
  <2>8. TypeOK'
    BY <2>5, <2>6, <2>7 DEF TypeOK, SharedOK, CallsOK, RegistersOK
  <2>. QED
    BY <1>2, <1>3, <2>4, <2>5, <2>6, <2>8
<1>4. CASE anchor # lrs[t]
  <2>1. anchor' = anchor /\ Leave(t, "load")
    BY <1>4 DEF PopAnchor
  <2>2. /\ RegistersOK' /\ pc'[t] = "load" /\ Leaves(t)
        /\ \A u \in Threads \ {t} : pc'[u] = pc[u] /\ Keeps(u)
    BY <1>1, <2>1, LeaveEffect DEF Labels
  <2>3. OthersKeep(t) /\ SameCall(t) /\ CallsOK'
    BY <1>1, <1>2, <2>2, NoCallChange
  <2>4. SharedOK'
    BY <1>1, <1>2, <2>1 DEF SharedOK
  <2>. QED
    BY <1>2, <2>1, <2>2, <2>3, <2>4 DEF TypeOK, SharedOK, CallsOK, RegistersOK
<1>. QED
  BY <1>3, <1>4

LEMMA TakeEffect ==
    ASSUME TypeOK, NEW t \in Threads, Local(t), Take(t)
    PROVE  /\ TypeOK' /\ OthersKeep(t) /\ UNCHANGED <<anchor, uses>>
           /\ pc[t] = "take" /\ pc'[t] = "idle" /\ call'[t] = <<>> /\ node'[t] = None /\ Leaves(t)
           /\ lrs[t][Side(t)] \in Nodes /\ free' = free \cup {lrs[t][Side(t)]}
           /\ link'["left"][lrs[t][Side(t)]].ptr = Wild
           /\ \A d \in Sides, m \in Nodes :
                 d # "left" \/ m # lrs[t][Side(t)] => link'[d][m] = link[d][m]
<1>1. SharedOK /\ CallsOK /\ RegistersOK
  BY Typing
<1>2. pc[t] = "take" /\ lrs[t][Side(t)] \in Nodes /\ UNCHANGED <<anchor, uses>>
  BY Registered DEF Take
<1>. DEFINE v == [ptr |-> Wild, tag |-> 0]
            n == lrs[t][Side(t)]
<1>3. v \in Link /\ v.ptr = Wild
  BY DequeAssumption DEF Link, Pointer
<1>4. /\ link' = [link EXCEPT !["left"][n] = v] /\ free' = free \cup {n}
      /\ Leave(t, "idle") /\ call' = [call EXCEPT ![t] = <<>>] /\ node' = [node EXCEPT ![t] = None]
  BY DEF Take, Finish
<1>5. n \in Nodes /\ "left" \in Sides
  BY <1>2 DEF Sides
<1>. HIDE DEF v, n
<1>6. /\ link' \in [Sides -> [Nodes -> Link]] /\ link'["left"][n] = v
      /\ \A d \in Sides, m \in Nodes : d # "left" \/ m # n => link'[d][m] = link[d][m]
  BY <1>3, <1>4, <1>5, SetLink
<1>7. /\ RegistersOK' /\ pc'[t] = "idle" /\ Leaves(t)
      /\ \A u \in Threads \ {t} : pc'[u] = pc[u] /\ Keeps(u)
  BY <1>1, <1>4, LeaveEffect DEF Labels
<1>8. CallsOK' /\ call'[t] = <<>> /\ node'[t] = None
      /\ \A u \in Threads \ {t} : call'[u] = call[u] /\ node'[u] = node[u]
  BY <1>1, <1>4 DEF CallsOK
<1>9. OthersKeep(t)
  BY <1>7, <1>8 DEF OthersKeep, Keeps, Registers
<1>10. SharedOK'
  BY <1>1, <1>2, <1>4, <1>5, <1>6 DEF SharedOK
<1>11. TypeOK'
  BY <1>7, <1>8, <1>10 DEF TypeOK, SharedOK, CallsOK, RegistersOK
<1>. QED
  BY <1>2, <1>3, <1>4, <1>6, <1>7, <1>8, <1>9, <1>11 DEF n

LEMMA ReturnEffect ==
    ASSUME TypeOK, NEW t \in Threads, Local(t), Return(t)
    PROVE  /\ TypeOK' /\ OthersKeep(t) /\ UNCHANGED shared
           /\ pc[t] \in {"true", "false"}
           /\ pc'[t] = "idle" /\ call'[t] = <<>> /\ node'[t] = None /\ Leaves(t)
<1>1. SharedOK /\ CallsOK /\ RegistersOK
  BY Typing
<1>2. /\ pc[t] \in {"true", "false"} /\ UNCHANGED shared
      /\ Leave(t, "idle") /\ call' = [call EXCEPT ![t] = <<>>] /\ node' = [node EXCEPT ![t] = None]
  BY DEF Return, Finish
<1>3. /\ RegistersOK' /\ pc'[t] = "idle" /\ Leaves(t)
      /\ \A u \in Threads \ {t} : pc'[u] = pc[u] /\ Keeps(u)
  BY <1>1, <1>2, LeaveEffect DEF Labels
<1>4. CallsOK' /\ call'[t] = <<>> /\ node'[t] = None
      /\ \A u \in Threads \ {t} : call'[u] = call[u] /\ node'[u] = node[u]
  BY <1>1, <1>2 DEF CallsOK
<1>5. OthersKeep(t)
  BY <1>3, <1>4 DEF OthersKeep, Keeps, Registers
<1>6. SharedOK'
  BY <1>1, <1>2 DEF SharedOK, shared
<1>. QED
  BY <1>2, <1>3, <1>4, <1>5, <1>6 DEF TypeOK, SharedOK, CallsOK, RegistersOK

LEMMA BeginEffect ==
    ASSUME RegistersOK, CallsOK, NEW t \in Threads, NEW c, NEW l \in Labels, Begin(t, c, l),
           c \in {"push", "pop"} \X Sides \cup {"push"} \X Sides \X Values
    PROVE  /\ RegistersOK' /\ call' \in [Threads -> {<<>>} \cup {"push", "pop"} \X Sides
                                \cup {"push"} \X Sides \X Values]
           /\ pc[t] = "idle" /\ pc'[t] = l /\ call'[t] = c /\ Keeps(t)
           /\ \A u \in Threads \ {t} : pc'[u] = pc[u] /\ Keeps(u) /\ call'[u] = call[u]
<1>1. /\ RegistersOK' /\ pc'[t] = l /\ Keeps(t)
      /\ \A u \in Threads \ {t} : pc'[u] = pc[u] /\ Keeps(u)
  BY StayEffect DEF Begin
<1>2. call' = [call EXCEPT ![t] = c] /\ pc[t] = "idle"
  BY DEF Begin
<1>. DEFINE C == {<<>>} \cup {"push", "pop"} \X Sides \cup {"push"} \X Sides \X Values
<1>3. c \in C /\ call \in [Threads -> C]
  BY DEF CallsOK
<1>. HIDE DEF C
<1>4. call' \in [Threads -> C] /\ call'[t] = c /\ \A u \in Threads \ {t} : call'[u] = call[u]
  BY <1>2, <1>3
<1>. QED
  BY <1>1, <1>2, <1>4 DEF C

LEMMA BeginPushEffect ==
    ASSUME TypeOK, NEW t \in Threads, Local(t), NEW s \in Sides, BeginPush(t, s)
    PROVE  \E n \in free :
              /\ TypeOK' /\ OthersKeep(t) /\ UNCHANGED anchor
              /\ pc[t] = "idle" /\ pc'[t] = "load" /\ Keeps(t)
              /\ uses[n] < MaxUses /\ uses'[n] = uses[n] + 1
              /\ call'[t] = <<"push", s, <<n, uses'[n]>>>> /\ node'[t] = n
              /\ free' = free \ {n}
              /\ \A m \in Nodes : m # n => uses'[m] = uses[m]
              /\ \A d \in Sides : link'[d][n].ptr = None
              /\ \A d \in Sides, m \in Nodes : m # n => link'[d][m] = link[d][m]
<1>1. SharedOK /\ CallsOK /\ RegistersOK
  BY Typing
<1>2. PICK n \in free :
         /\ Begin(t, <<"push", s, <<n, uses[n] + 1>>>>, "load")
         /\ uses[n] < MaxUses
         /\ free' = free \ {n}
         /\ uses' = [uses EXCEPT ![n] = @ + 1]
         /\ link' = [d \in Sides |-> [link[d] EXCEPT ![n] = NoLink]]
         /\ node' = [node EXCEPT ![t] = n]
  BY DEF BeginPush
<1>3. n \in Nodes /\ uses[n] \in 0 .. MaxUses /\ uses[n] + 1 \in 1 .. MaxUses /\ anchor' = anchor
  BY <1>1, <1>2, DequeAssumption DEF SharedOK, BeginPush
<1>. DEFINE c == <<"push", s, <<n, uses[n] + 1>>>>
<1>4. c \in {"push"} \X Sides \X Values
  BY <1>3 DEF Values
<1>5. Begin(t, c, "load") /\ "load" \in Labels
  BY <1>2 DEF Labels
<1>. HIDE DEF c
<1>6. /\ RegistersOK' /\ call' \in [Threads -> {<<>>} \cup {"push", "pop"} \X Sides
                                \cup {"push"} \X Sides \X Values]
      /\ pc[t] = "idle" /\ pc'[t] = "load" /\ call'[t] = c /\ Keeps(t)
      /\ \A u \in Threads \ {t} : pc'[u] = pc[u] /\ Keeps(u) /\ call'[u] = call[u]
  BY <1>1, <1>4, <1>5, BeginEffect
<1>7. node' \in [Threads -> Nodes \cup {None}] /\ node'[t] = n
      /\ \A u \in Threads \ {t} : node'[u] = node[u]
  BY <1>1, <1>2, <1>3 DEF CallsOK
<1>8. OthersKeep(t)
  BY <1>6, <1>7 DEF OthersKeep, Keeps, Registers
<1>9. /\ uses' \in [Nodes -> 0 .. MaxUses] /\ uses'[n] = uses[n] + 1
      /\ \A m \in Nodes : m # n => uses'[m] = uses[m]
  BY <1>1, <1>2, <1>3, DequeAssumption DEF SharedOK
<1>10. NoLink \in Link /\ NoLink.ptr = None
  BY Empties DEF NoLink
<1>11. /\ link' \in [Sides -> [Nodes -> Link]]
       /\ \A d \in Sides : link'[d][n] = NoLink
       /\ \A d \in Sides, m \in Nodes : m # n => link'[d][m] = link[d][m]
  BY <1>1, <1>2, <1>3, <1>10 DEF SharedOK
<1>12. SharedOK'
  BY <1>1, <1>2, <1>3, <1>9, <1>11 DEF SharedOK
<1>13. TypeOK'
  BY <1>6, <1>7, <1>12 DEF TypeOK, SharedOK, RegistersOK
<1>14. call'[t] = <<"push", s, <<n, uses'[n]>>>>
  BY <1>6, <1>9 DEF c
<1>. QED
  BY <1>2, <1>3, <1>6, <1>7, <1>8, <1>9, <1>10, <1>11, <1>13, <1>14

LEMMA BeginPushWithoutNodeEffect ==
    ASSUME TypeOK, NEW t \in Threads, Local(t), NEW s \in Sides,
           BeginPushWithoutNode(t, s)
    PROVE  /\ TypeOK' /\ OthersKeep(t) /\ UNCHANGED shared /\ node'[t] = node[t]
           /\ pc[t] = "idle" /\ pc'[t] = "null" /\ call'[t] = <<"push", s>> /\ Keeps(t)
<1>1. SharedOK /\ CallsOK /\ RegistersOK
  BY Typing
<1>. DEFINE c == <<"push", s>>
<1>2. c \in {"push", "pop"} \X Sides
  OBVIOUS
<1>3. Begin(t, c, "null") /\ "null" \in Labels /\ UNCHANGED <<shared, node>>
  BY DEF Labels, BeginPushWithoutNode
<1>. HIDE DEF c
<1>4. /\ RegistersOK' /\ call' \in [Threads -> {<<>>} \cup {"push", "pop"} \X Sides
                                \cup {"push"} \X Sides \X Values]
      /\ pc[t] = "idle" /\ pc'[t] = "null" /\ call'[t] = c /\ Keeps(t)
      /\ \A u \in Threads \ {t} : pc'[u] = pc[u] /\ Keeps(u) /\ call'[u] = call[u]
  BY <1>1, <1>2, <1>3, BeginEffect
<1>5. OthersKeep(t) /\ node'[t] = node[t]
  BY <1>3, <1>4 DEF OthersKeep, Keeps, Registers
<1>6. SharedOK' /\ node' \in [Threads -> Nodes \cup {None}]
  BY <1>1, <1>3 DEF SharedOK, shared, CallsOK
<1>. QED
  BY <1>3, <1>4, <1>5, <1>6 DEF c, TypeOK, SharedOK, RegistersOK

LEMMA BeginPopEffect ==
    ASSUME TypeOK, NEW t \in Threads, Local(t), NEW s \in Sides, BeginPop(t, s)
    PROVE  /\ TypeOK' /\ OthersKeep(t) /\ UNCHANGED shared /\ node'[t] = node[t]
           /\ pc[t] = "idle" /\ pc'[t] = "load" /\ call'[t] = <<"pop", s>> /\ Keeps(t)
<1>1. SharedOK /\ CallsOK /\ RegistersOK
  BY Typing
<1>. DEFINE c == <<"pop", s>>
<1>2. c \in {"push", "pop"} \X Sides
  OBVIOUS
<1>3. Begin(t, c, "load") /\ "load" \in Labels /\ UNCHANGED <<shared, node>>
  BY DEF Labels, BeginPop
<1>. HIDE DEF c
<1>4. /\ RegistersOK' /\ call' \in [Threads -> {<<>>} \cup {"push", "pop"} \X Sides
                                \cup {"push"} \X Sides \X Values]
      /\ pc[t] = "idle" /\ pc'[t] = "load" /\ call'[t] = c /\ Keeps(t)
      /\ \A u \in Threads \ {t} : pc'[u] = pc[u] /\ Keeps(u) /\ call'[u] = call[u]
  BY <1>1, <1>2, <1>3, BeginEffect
<1>5. OthersKeep(t) /\ node'[t] = node[t]
  BY <1>3, <1>4 DEF OthersKeep, Keeps, Registers
<1>6. SharedOK' /\ node' \in [Threads -> Nodes \cup {None}]
  BY <1>1, <1>3 DEF SharedOK, shared, CallsOK
<1>. QED
  BY <1>3, <1>4, <1>5, <1>6 DEF c, TypeOK, SharedOK, RegistersOK

-----------------------------------------------------------------------------
(* What a step means for who holds which node.                             *)
LEMMA Others ==
    ASSUME NEW t \in Threads, OthersKeep(t), NEW u \in Threads \ {t}
    PROVE  /\ pc'[u] = pc[u] /\ call'[u] = call[u] /\ node'[u] = node[u] /\ lrs'[u] = lrs[u]
           /\ prev'[u] = prev[u] /\ prevnext'[u] = prevnext[u] /\ after'[u] = after[u]
           /\ Side(u)' = Side(u) /\ (IsPush(u)' <=> IsPush(u)) /\ (Done(u)' <=> Done(u))
           /\ (Took(u)' <=> Took(u)) /\ (Pushing(u)' <=> Pushing(u)) /\ Owned(u)' = Owned(u)
           /\ Unfinished(u)' = Unfinished(u) /\ End(u)' = End(u)
<1>1. /\ pc'[u] = pc[u] /\ call'[u] = call[u] /\ node'[u] = node[u] /\ lrs'[u] = lrs[u]
      /\ prev'[u] = prev[u] /\ prevnext'[u] = prevnext[u] /\ after'[u] = after[u]
  BY DEF OthersKeep, Registers
<1>. QED
  BY <1>1 DEF Side, IsPush, Done, Took, Pushing, Owned, Unfinished, End

LEMMA SameCallView ==
    ASSUME NEW t \in Threads, SameCall(t)
    PROVE  /\ call'[t] = call[t] /\ node'[t] = node[t]
           /\ Side(t)' = Side(t) /\ (IsPush(t)' <=> IsPush(t))
BY DEF SameCall, Side, IsPush

LEMMA OwnedView ==
    ASSUME NEW t \in Threads
    PROVE  Owned(t) = IF pc[t] = "take" THEN {lrs[t][Side(t)]}
                      ELSE IF Pushing(t) THEN {node[t]} ELSE {}
BY DEF Owned, Took, Pushing

LEMMA LocalOthers ==
    ASSUME NEW t \in Threads, OthersKeep(t), NEW u \in Threads \ {t}, Local(u),
           Pushing(u) => uses'[node[u]] = uses[node[u]]
    PROVE  Local(u)'
BY Others DEF Local, Value

LEMMA KeepsView ==
    ASSUME NEW t \in Threads, Keeps(t)
    PROVE  /\ lrs'[t] = lrs[t] /\ prev'[t] = prev[t] /\ prevnext'[t] = prevnext[t]
           /\ after'[t] = after[t] /\ Unfinished(t)' = Unfinished(t) /\ End(t)' = End(t)
BY DEF Keeps, Unfinished, End

(* A loop iteration ends without success.                                  *)
LEMMA LeaveLocal ==
    ASSUME TypeOK, NEW t \in Threads, Local(t), pc[t] # "idle", pc[t] # "null",
           SameCall(t), UNCHANGED uses, Leaves(t),
           \/ pc'[t] = "load" /\ after[t] = "load" /\ pc[t] # "true"
           \/ pc'[t] = "load" /\ pc[t] \notin Stabilizing \cup {"true"}
           \/ pc'[t] = after[t] /\ pc[t] \in Stabilizing
    PROVE  Local(t)' /\ (Pushing(t)' <=> Pushing(t))
<1>1. after[t] \in {"load", "true"}
  BY DEF TypeOK
<1>2. \/ pc'[t] = "load" /\ after[t] = "load" /\ pc[t] # "true"
      \/ pc'[t] = "true" /\ after[t] = "true"
  BY <1>1 DEF Local, Stabilizing
<1>3. after'[t] = "load"
  BY DEF Leaves
<1>4. Pushing(t)' <=> Pushing(t)
  BY <1>2, <1>3, SameCallView DEF Pushing, Done
<1>. QED
  BY <1>2, <1>3, <1>4, SameCallView DEF Local, Value, Popping, Stabilizing

LEMMA LoadLocal ==
    ASSUME TypeOK, NEW t \in Threads, Local(t), Load(t),
           \/ anchor.left = None /\ anchor.right = None
           \/ anchor.left \in Nodes /\ anchor.right \in Nodes
    PROVE  Local(t)' /\ (Pushing(t)' <=> Pushing(t)) /\ pc[t] # "take" /\ pc'[t] # "take"
<1>1. /\ SameCall(t) /\ UNCHANGED shared /\ pc[t] = "load" /\ lrs'[t] = anchor
      /\ UNCHANGED <<prev[t], prevnext[t], after[t]>> /\ Side(t) \in Sides
      /\ \/ /\ anchor[Side(t)] = None
            /\ pc'[t] = IF IsPush(t) THEN "push_first" ELSE "false"
         \/ /\ anchor[Side(t)] # None /\ ~IsPush(t) /\ anchor.left = anchor.right
            /\ pc'[t] = "pop_last"
         \/ /\ anchor[Side(t)] # None /\ (IsPush(t) \/ anchor.left # anchor.right)
            /\ pc'[t] = IF Unstable(anchor) THEN "prev"
                        ELSE IF IsPush(t) THEN "push_link" ELSE "pop_check"
  BY LoadEffect
<1>2. anchor \in Anchor
  BY DEF TypeOK
<1>3. /\ anchor.left = anchor["left"] /\ anchor.right = anchor["right"]
      /\ anchor.status \in {"stable", "lpush", "rpush"} /\ None \notin Nodes
  BY <1>2, AnchorType, DequeAssumption
<1>4. after[t] = "load" /\ after'[t] = "load"
  BY <1>1 DEF Local, TypeOK, Stabilizing
<1>5. Pushing(t)' <=> Pushing(t)
  BY <1>1, <1>4, SameCallView DEF Pushing, Done
<1>6. /\ anchor[Side(t)] = None => pc'[t] \in {"push_first", "false"}
      /\ anchor[Side(t)] # None => anchor.left \in Nodes /\ anchor.right \in Nodes
  BY <1>1, <1>3 DEF Sides
<1>. QED
  BY <1>1, <1>3, <1>4, <1>5, <1>6, SameCallView
     DEF Local, Value, Popping, Stabilizing, shared, Unstable

-----------------------------------------------------------------------------
(* Steps that change registers of one thread only.                         *)
OnlyRegisters(t) == /\ OthersKeep(t) /\ UNCHANGED shared
             /\ pc[t] # "take" /\ pc'[t] # "take"
             /\ (Pushing(t)' <=> Pushing(t)) /\ (Pushing(t) => node'[t] = node[t])

LEMMA QuietView ==
    ASSUME NEW t \in Threads, OnlyRegisters(t)
    PROVE  /\ \A u \in Threads : Owned(u)' = Owned(u) /\ (Took(u)' <=> Took(u))
           /\ In' = In
           /\ anchor' = anchor /\ link' = link /\ free' = free /\ uses' = uses
<1>1. anchor' = anchor /\ link' = link /\ free' = free /\ uses' = uses
  BY DEF OnlyRegisters, shared
<1>2. Owned(t)' = Owned(t) /\ (Took(t)' <=> Took(t))
  BY OwnedView DEF OnlyRegisters, Owned, Took, Pushing
<1>3. \A u \in Threads : Owned(u)' = Owned(u) /\ (Took(u)' <=> Took(u))
  BY <1>2, Others DEF OnlyRegisters
<1>4. In' = In
  BY <1>1, <1>3 DEF In
<1>5. \A u \in Threads : (Pushing(u)' <=> Pushing(u)) /\ (Pushing(u) => node'[u] = node[u])
  BY Others DEF OnlyRegisters
<1>. QED
  BY <1>1, <1>3, <1>4

LEMMA QuietStep ==
    ASSUME Whole, NEW pos \in [Nodes -> Int], Placing(pos),
           NEW t \in Threads, OnlyRegisters(t), TypeOK', Local(t)', Read(pos, t)'
    PROVE  Whole' /\ Placing(pos)' /\ In' = In
<1>1. /\ \A u \in Threads : Owned(u)' = Owned(u) /\ (Took(u)' <=> Took(u))
      /\ In' = In
      /\ anchor' = anchor /\ link' = link /\ free' = free /\ uses' = uses
  BY QuietView
<1>2. \A u \in Threads : Local(u)'
  BY <1>1, LocalOthers DEF OnlyRegisters, Whole
<1>3. Apart'
  BY <1>1 DEF Apart, Whole
<1>6. Clean'
  BY <1>1 DEF Clean, Whole
<1>7. Ordered(pos)'
  BY <1>1 DEF Ordered, Placing, Unstable, Towards
<1>8. \A u \in Threads : Read(pos, u)'
  <2>. SUFFICES ASSUME NEW u \in Threads \ {t} PROVE Read(pos, u)'
    OBVIOUS
  <2>1. Read(pos, u)
    BY DEF Placing
  <2>2. /\ pc'[u] = pc[u] /\ node'[u] = node[u] /\ lrs'[u] = lrs[u]
        /\ prev'[u] = prev[u] /\ prevnext'[u] = prevnext[u]
        /\ Side(u)' = Side(u) /\ Unfinished(u)' = Unfinished(u) /\ End(u)' = End(u)
    BY Others DEF OnlyRegisters
  <2>. QED
    BY <1>1, <2>1, <2>2 DEF Read, Towards, Unstable, Half
<1>. QED
  BY <1>1, <1>2, <1>3, <1>6, <1>7, <1>8 DEF Whole, Placing

LEMMA InClean ==
    ASSUME Whole, NEW n \in In
    PROVE  n \in Nodes /\ \A s \in Sides : link[s][n].ptr # Wild
BY DEF In, Whole, Clean

LEMMA Ends ==
    ASSUME Whole, NEW pos, Ordered(pos)
    PROVE  /\ \/ anchor.left = None /\ anchor.right = None /\ In = {}
              \/ anchor.left \in In /\ anchor.right \in In /\ anchor.left \in Nodes /\ anchor.right \in Nodes
           /\ anchor["left"] = anchor.left /\ anchor["right"] = anchor.right
           /\ \A s \in Sides : anchor[s] \in Nodes => anchor[s] \in In
           /\ anchor.status \in {"stable", "lpush", "rpush"}
<1>1. \/ anchor.left = None /\ anchor.right = None /\ In = {}
      \/ anchor.left \in In /\ anchor.right \in In /\ anchor.left \in Nodes /\ anchor.right \in Nodes
  BY DEF Ordered, In
<1>2. anchor["left"] = anchor.left /\ anchor["right"] = anchor.right
      /\ anchor.status \in {"stable", "lpush", "rpush"}
  BY AnchorType DEF Whole, TypeOK
<1>3. \A s \in Sides : anchor[s] \in Nodes => anchor[s] \in In
  <2>1. CASE anchor.left = None /\ anchor.right = None /\ In = {}
    BY <1>2, <2>1, DequeAssumption DEF Sides
  <2>2. CASE anchor.left \in In /\ anchor.right \in In
    BY <1>2, <2>2 DEF Sides
  <2>. QED
    BY <1>1, <2>1, <2>2
<1>. QED
  BY <1>1, <1>2, <1>3

LEMMA LeaveStep ==
    ASSUME Whole, NEW pos \in [Nodes -> Int], Placing(pos),
           NEW t \in Threads, TypeOK', OthersKeep(t), UNCHANGED shared, SameCall(t), Leaves(t),
           pc[t] \notin {"idle", "null", "take"},
           \/ pc'[t] = "load" /\ after[t] = "load" /\ pc[t] # "true"
           \/ pc'[t] = "load" /\ pc[t] \notin Stabilizing \cup {"true"}
           \/ pc'[t] = after[t] /\ pc[t] \in Stabilizing
    PROVE  Whole' /\ Placing(pos)' /\ In' = In
<1>1. Local(t)' /\ (Pushing(t)' <=> Pushing(t))
  BY LeaveLocal DEF Whole, shared
<1>2. pc'[t] \in {"load", "true"}
  BY DEF Whole, TypeOK
<1>3. OnlyRegisters(t)
  BY <1>1, <1>2, SameCallView DEF OnlyRegisters
<1>4. Read(pos, t)'
  BY <1>2 DEF Read, Stabilizing, Popping
<1>. QED
  BY <1>1, <1>3, <1>4, QuietStep

LEMMA LoadStep ==
    ASSUME Whole, NEW pos \in [Nodes -> Int], Placing(pos),
           NEW t \in Threads, Load(t)
    PROVE  Whole' /\ Placing(pos)' /\ In' = In
<1>1. Ordered(pos) /\ TypeOK /\ Local(t)
  BY DEF Placing, Whole
<1>2. /\ TypeOK' /\ OthersKeep(t) /\ SameCall(t) /\ UNCHANGED shared
      /\ lrs'[t] = anchor /\ UNCHANGED <<prev[t], prevnext[t], after[t]>>
      /\ \/ pc'[t] \in {"push_first", "false", "pop_last", "prev", "push_link"}
         \/ pc'[t] = "pop_check" /\ ~Unstable(anchor) /\ anchor.left # anchor.right
  BY <1>1, LoadEffect
<1>3. Local(t)' /\ (Pushing(t)' <=> Pushing(t)) /\ pc[t] # "take" /\ pc'[t] # "take"
  BY <1>1, Ends, LoadLocal
<1>4. OnlyRegisters(t)
  BY <1>2, <1>3, SameCallView DEF OnlyRegisters
<1>5. anchor' = anchor /\ In' = In
  BY <1>4, QuietView
<1>6. Read(pos, t)'
  <2>1. CASE pc'[t] \in {"push_first", "false", "pop_last", "prev", "push_link"}
    BY <2>1 DEF Read, Stabilizing, Popping
  <2>2. CASE pc'[t] = "pop_check" /\ ~Unstable(anchor) /\ anchor.left # anchor.right
    <3>1. ~Unstable(anchor)'
      BY <1>5, <2>2 DEF Unstable
    <3>2. ASSUME anchor.left \in In, anchor.right \in In
          PROVE  pos[anchor.left] < pos[anchor.right]
      <4>1. /\ pos[anchor.left] \in Int /\ pos[anchor.right] \in Int
            /\ pos[anchor.left] <= pos[anchor.right] /\ pos[anchor.left] # pos[anchor.right]
        BY <1>1, <2>2, <3>2 DEF Ordered, In
      <4>. QED
        BY <4>1
    <3>. QED
      BY <1>2, <1>5, <2>2, <3>1, <3>2 DEF Read, Stabilizing, Popping
  <2>. QED
    BY <1>2, <2>1, <2>2
<1>. QED
  BY <1>2, <1>3, <1>4, <1>6, QuietStep

LEMMA ReadPrevStep ==
    ASSUME Whole, NEW pos \in [Nodes -> Int], Placing(pos),
           NEW t \in Threads, ReadPrev(t)
    PROVE  Whole' /\ Placing(pos)' /\ In' = In
<1>1. Ordered(pos) /\ TypeOK /\ Local(t)
  BY DEF Placing, Whole
<1>2. /\ TypeOK' /\ OthersKeep(t) /\ SameCall(t) /\ UNCHANGED shared
      /\ pc[t] = "prev" /\ pc'[t] = "check_prev"
      /\ prev'[t] = link[Opposite(Unfinished(t))][End(t)].ptr
      /\ UNCHANGED <<lrs[t], prevnext[t], after[t]>>
  BY <1>1, ReadPrevEffect
<1>3. Local(t)' /\ (Pushing(t)' <=> Pushing(t))
  <2>1. Pushing(t)' <=> Pushing(t)
    BY <1>2, SameCallView DEF Pushing, Done
  <2>. QED
    BY <1>1, <1>2, <2>1, SameCallView DEF Local, Value, Popping, Stabilizing, shared
<1>4. OnlyRegisters(t)
  BY <1>2, <1>3, SameCallView DEF OnlyRegisters
<1>5. anchor' = anchor /\ In' = In
  BY <1>4, QuietView
<1>6. /\ End(t) \in Nodes /\ Unfinished(t) \in Sides /\ Opposite(Unfinished(t)) \in Sides
  BY <1>1, <1>2, Registered DEF Stabilizing
<1>7. ASSUME anchor = lrs[t]
      PROVE  prev'[t] \in In /\ Towards(pos, Opposite(Unfinished(t)), End(t), prev'[t])
  <2>. DEFINE d == Opposite(Unfinished(t))
  <2>1. /\ anchor.status # "stable" /\ End(t) = anchor[Unfinished(t)]
        /\ anchor.status \in {"stable", "lpush", "rpush"} /\ End(t) \in In
    BY <1>1, <1>2, <1>6, <1>7, Ends DEF Local, Stabilizing, End
  <2>2. anchor.status # Pushed(d) /\ End(t) # anchor[d]
    BY <1>1, <1>7, <2>1, Ends DEF Unfinished, Opposite, Pushed, Ordered, Unstable
  <2>3. PICK m \in In : Towards(pos, d, End(t), m)
    BY <1>1, <1>6, <2>1, <2>2 DEF Ordered
  <2>4. link[d][End(t)].ptr = m
    BY <1>1, <1>6, <2>1, <2>2, <2>3 DEF Ordered
  <2>. QED
    BY <1>2, <2>3, <2>4
<1>8. Read(pos, t)'
  <2>1. Unfinished(t)' = Unfinished(t) /\ End(t)' = End(t)
    BY <1>2 DEF Unfinished, End
  <2>. QED
    BY <1>2, <1>5, <1>7, <2>1 DEF Read, Stabilizing, Popping, Towards
<1>. QED
  BY <1>2, <1>3, <1>4, <1>8, QuietStep

LEMMA CheckPrevStep ==
    ASSUME Whole, NEW pos \in [Nodes -> Int], Placing(pos),
           NEW t \in Threads, CheckPrev(t)
    PROVE  Whole' /\ Placing(pos)' /\ In' = In
<1>1. TypeOK /\ Local(t) /\ Read(pos, t)
  BY DEF Placing, Whole
<1>2. /\ TypeOK' /\ OthersKeep(t) /\ SameCall(t) /\ UNCHANGED shared
      /\ pc[t] = "check_prev"
      /\ \/ anchor = lrs[t] /\ pc'[t] = "prevnext" /\ Keeps(t)
         \/ anchor # lrs[t] /\ pc'[t] = after[t] /\ Leaves(t)
  BY <1>1, CheckPrevEffect
<1>3. CASE anchor = lrs[t] /\ pc'[t] = "prevnext" /\ Keeps(t)
  <2>1. Pushing(t)' <=> Pushing(t)
    BY <1>2, <1>3, SameCallView, KeepsView DEF Pushing, Done
  <2>2. Local(t)'
    BY <1>1, <1>2, <1>3, <2>1, SameCallView, KeepsView
       DEF Local, Value, Popping, Stabilizing, shared
  <2>3. OnlyRegisters(t)
    BY <1>2, <1>3, <2>1, SameCallView DEF OnlyRegisters
  <2>4. anchor' = anchor /\ In' = In
    BY <2>3, QuietView
  <2>5. Read(pos, t)'
    BY <1>1, <1>2, <1>3, <2>4, KeepsView DEF Read, Stabilizing, Popping, Towards, In
  <2>. QED
    BY <1>2, <2>2, <2>3, <2>5, QuietStep
<1>4. CASE anchor # lrs[t] /\ pc'[t] = after[t] /\ Leaves(t)
  BY <1>2, <1>4, LeaveStep DEF Stabilizing
<1>. QED
  BY <1>2, <1>3, <1>4

LEMMA ReadPrevnextStep ==
    ASSUME Whole, NEW pos \in [Nodes -> Int], Placing(pos),
           NEW t \in Threads, ReadPrevnext(t)
    PROVE  Whole' /\ Placing(pos)' /\ In' = In
<1>1. TypeOK /\ Local(t) /\ Read(pos, t)
  BY DEF Placing, Whole
<1>2. prev[t] \in Nodes
  BY <1>1 DEF ReadPrevnext, Read, Stabilizing
<1>3. /\ TypeOK' /\ OthersKeep(t) /\ SameCall(t) /\ UNCHANGED shared
      /\ pc[t] = "prevnext" /\ prevnext'[t] = link[Unfinished(t)][prev[t]]
      /\ pc'[t] = IF prevnext'[t].ptr = End(t) THEN "stable" ELSE "check_prevnext"
      /\ lrs'[t] = lrs[t] /\ prev'[t] = prev[t] /\ after'[t] = after[t]
  BY <1>1, <1>2, ReadPrevnextEffect
<1>4. Pushing(t)' <=> Pushing(t)
  BY <1>3, SameCallView DEF Pushing, Done
<1>5. Local(t)'
  BY <1>1, <1>3, <1>4, SameCallView DEF Local, Value, Popping, Stabilizing, shared
<1>6. OnlyRegisters(t)
  BY <1>3, <1>4, SameCallView DEF OnlyRegisters
<1>7. anchor' = anchor /\ link' = link /\ In' = In
  BY <1>6, QuietView
<1>8. Unfinished(t) \in Sides
  BY SidesOf
<1>9. anchor = lrs[t] => prevnext'[t].ptr # Wild
  BY <1>1, <1>3, <1>8, InClean DEF Read, Stabilizing
<1>10. Read(pos, t)'
  <2>1. Unfinished(t)' = Unfinished(t) /\ End(t)' = End(t)
    BY <1>3 DEF Unfinished, End
  <2>. QED
    BY <1>1, <1>2, <1>3, <1>7, <1>9, <2>1 DEF Read, Stabilizing, Popping, Towards
<1>. QED
  BY <1>3, <1>5, <1>6, <1>10, QuietStep

LEMMA CheckPrevnextStep ==
    ASSUME Whole, NEW pos \in [Nodes -> Int], Placing(pos),
           NEW t \in Threads, CheckPrevnext(t)
    PROVE  Whole' /\ Placing(pos)' /\ In' = In
<1>1. TypeOK /\ Local(t) /\ Read(pos, t)
  BY DEF Placing, Whole
<1>2. /\ TypeOK' /\ OthersKeep(t) /\ SameCall(t) /\ UNCHANGED shared
      /\ pc[t] = "check_prevnext"
      /\ \/ anchor = lrs[t] /\ pc'[t] = "link_back" /\ Keeps(t)
         \/ anchor # lrs[t] /\ pc'[t] = after[t] /\ Leaves(t)
  BY <1>1, CheckPrevnextEffect
<1>3. CASE anchor = lrs[t] /\ pc'[t] = "link_back" /\ Keeps(t)
  <2>1. Pushing(t)' <=> Pushing(t)
    BY <1>2, <1>3, SameCallView, KeepsView DEF Pushing, Done
  <2>2. Local(t)'
    BY <1>1, <1>2, <1>3, <2>1, SameCallView, KeepsView
       DEF Local, Value, Popping, Stabilizing, shared
  <2>3. OnlyRegisters(t)
    BY <1>2, <1>3, <2>1, SameCallView DEF OnlyRegisters
  <2>4. anchor' = anchor /\ link' = link /\ In' = In
    BY <2>3, QuietView
  <2>5. End(t) = anchor[Half(anchor)]
    BY <1>3 DEF End, Unfinished, Half
  <2>6. Read(pos, t)'
    BY <1>1, <1>2, <1>3, <2>4, <2>5, KeepsView DEF Read, Stabilizing, Popping, Towards
  <2>. QED
    BY <1>2, <2>2, <2>3, <2>6, QuietStep
<1>4. CASE anchor # lrs[t] /\ pc'[t] = after[t] /\ Leaves(t)
  BY <1>2, <1>4, LeaveStep DEF Stabilizing
<1>. QED
  BY <1>2, <1>3, <1>4

LEMMA PopCheckStep ==
    ASSUME Whole, NEW pos \in [Nodes -> Int], Placing(pos),
           NEW t \in Threads, PopCheck(t)
    PROVE  Whole' /\ Placing(pos)' /\ In' = In
<1>1. TypeOK /\ Local(t) /\ Read(pos, t)
  BY DEF Placing, Whole
<1>2. /\ TypeOK' /\ OthersKeep(t) /\ SameCall(t) /\ UNCHANGED shared
      /\ pc[t] = "pop_check"
      /\ \/ anchor = lrs[t] /\ pc'[t] = "pop_prev" /\ Keeps(t)
         \/ anchor # lrs[t] /\ pc'[t] = "load" /\ Leaves(t)
  BY <1>1, PopCheckEffect
<1>3. CASE anchor = lrs[t] /\ pc'[t] = "pop_prev" /\ Keeps(t)
  <2>1. Pushing(t)' <=> Pushing(t)
    BY <1>2, <1>3, SameCallView, KeepsView DEF Pushing, Done
  <2>2. Local(t)'
    BY <1>1, <1>2, <1>3, <2>1, SameCallView, KeepsView
       DEF Local, Value, Popping, Stabilizing, shared
  <2>3. OnlyRegisters(t)
    BY <1>2, <1>3, <2>1, SameCallView DEF OnlyRegisters
  <2>4. anchor' = anchor /\ In' = In
    BY <2>3, QuietView
  <2>5. Read(pos, t)'
    BY <1>1, <1>2, <1>3, <2>4, KeepsView DEF Read, Stabilizing, Popping, Unstable, Half
  <2>. QED
    BY <1>2, <2>2, <2>3, <2>5, QuietStep
<1>4. CASE anchor # lrs[t] /\ pc'[t] = "load" /\ Leaves(t)
  BY <1>2, <1>4, LeaveStep DEF Stabilizing
<1>. QED
  BY <1>2, <1>3, <1>4

(* Even if the anchor has changed and changed back, the node next to an    *)
(* end that a pop has seen is found where its link says.                   *)
LEMMA PopPrevStep ==
    ASSUME Whole, NEW pos \in [Nodes -> Int], Placing(pos),
           NEW t \in Threads, PopPrev(t)
    PROVE  Whole' /\ Placing(pos)' /\ In' = In
<1>1. Ordered(pos) /\ TypeOK /\ Local(t) /\ Read(pos, t)
  BY DEF Placing, Whole
<1>2. /\ TypeOK' /\ OthersKeep(t) /\ SameCall(t) /\ UNCHANGED shared
      /\ pc[t] = "pop_prev" /\ pc'[t] = "pop_anchor"
      /\ prev'[t] = link[Opposite(Side(t))][lrs[t][Side(t)]].ptr
      /\ lrs'[t] = lrs[t] /\ prevnext'[t] = prevnext[t] /\ after'[t] = after[t]
  BY <1>1, PopPrevEffect
<1>3. Pushing(t)' <=> Pushing(t)
  BY <1>2, SameCallView DEF Pushing, Done
<1>4. Local(t)'
  BY <1>1, <1>2, <1>3, SameCallView DEF Local, Value, Popping, Stabilizing, shared
<1>5. OnlyRegisters(t)
  BY <1>2, <1>3, SameCallView DEF OnlyRegisters
<1>6. anchor' = anchor /\ In' = In
  BY <1>5, QuietView
<1>7. /\ Side(t) \in Sides /\ Opposite(Side(t)) \in Sides
      /\ lrs[t][Side(t)] \in Nodes /\ lrs[t] \in Anchor
  BY <1>1, <1>2, Registered DEF Popping
<1>8. ASSUME lrs[t].left \in In, lrs[t].right \in In
      PROVE  prev'[t] \in In /\ Towards(pos, Opposite(Side(t)), lrs[t][Side(t)], prev'[t])
  <2>. DEFINE l == lrs[t].left
              r == lrs[t].right
              d == Opposite(Side(t))
              e == lrs[t][Side(t)]
  <2>1. pos[l] < pos[r] /\ (Unstable(anchor) => anchor[Half(anchor)] \notin {l, r})
    BY <1>1, <1>2, <1>8 DEF Read, Popping
  <2>2. /\ pos[l] \in Int /\ pos[r] \in Int /\ pos[anchor.left] \in Int /\ pos[anchor.right] \in Int
        /\ pos[anchor.left] <= pos[l] /\ pos[r] <= pos[anchor.right]
        /\ anchor["left"] = anchor.left /\ anchor["right"] = anchor.right
        /\ l = lrs[t]["left"] /\ r = lrs[t]["right"]
    BY <1>1, <1>7, <1>8, Ends, AnchorType DEF Ordered, In
  <2>3. e \in In /\ e # anchor[d]
    BY <1>7, <1>8, <2>1, <2>2 DEF Sides, Opposite
  <2>4. PICK m \in In : Towards(pos, d, e, m)
    BY <1>1, <1>7, <2>3 DEF Ordered
  <2>5. pos[m] \in Int /\ m \in Nodes
    BY <2>4 DEF In
  <2>6. ASSUME anchor.status = Pushed(d), m = anchor[d]
        PROVE  FALSE
    <3>1. Unstable(anchor) /\ Half(anchor) = d
      BY <1>7, <2>6 DEF Unstable, Half, Pushed, Sides, Opposite
    <3>2. m # l /\ m # r
      BY <2>1, <2>6, <3>1
    <3>3. CASE Side(t) = "right"
      <4>1. d = "left" /\ e = r
        BY <2>2, <3>3 DEF Opposite
      <4>2. pos[r] = pos[m] + 1 /\ m = anchor.left
        BY <2>2, <2>4, <2>6, <4>1 DEF Towards
      <4>3. pos[m] = pos[l]
        BY <2>1, <2>2, <2>5, <4>2
      <4>. QED
        BY <1>1, <1>8, <2>4, <3>2, <4>3 DEF Ordered
    <3>4. CASE Side(t) = "left"
      <4>1. d = "right" /\ e = l
        BY <2>2, <3>4 DEF Opposite
      <4>2. pos[m] = pos[l] + 1 /\ m = anchor.right
        BY <2>2, <2>4, <2>6, <4>1 DEF Towards
      <4>3. pos[m] = pos[r]
        BY <2>1, <2>2, <2>5, <4>2
      <4>. QED
        BY <1>1, <1>8, <2>4, <3>2, <4>3 DEF Ordered
    <3>. QED
      BY <1>7, <3>3, <3>4 DEF Sides
  <2>7. link[d][e].ptr = m
    BY <1>1, <1>7, <2>3, <2>4, <2>6 DEF Ordered
  <2>. QED
    BY <1>2, <2>4, <2>7
<1>9. Read(pos, t)'
  BY <1>1, <1>2, <1>6, <1>8, SameCallView DEF Read, Stabilizing, Popping, Unstable, Half, Towards
<1>. QED
  BY <1>2, <1>4, <1>5, <1>9, QuietStep

LEMMA ReturnStep ==
    ASSUME Whole, NEW pos \in [Nodes -> Int], Placing(pos),
           NEW t \in Threads, Return(t)
    PROVE  Whole' /\ Placing(pos)' /\ In' = In
<1>1. TypeOK /\ Local(t)
  BY DEF Whole
<1>2. /\ TypeOK' /\ OthersKeep(t) /\ UNCHANGED shared
      /\ pc[t] \in {"true", "false"}
      /\ pc'[t] = "idle" /\ call'[t] = <<>> /\ node'[t] = None /\ Leaves(t)
  BY <1>1, ReturnEffect
<1>3. ~Pushing(t) /\ ~Pushing(t)'
  BY <1>1, <1>2 DEF Pushing, Done, IsPush, Local
<1>4. Local(t)'
  BY <1>2, <1>3 DEF Local, Leaves, Popping, Stabilizing
<1>5. OnlyRegisters(t)
  BY <1>2, <1>3 DEF OnlyRegisters
<1>6. Read(pos, t)'
  BY <1>2 DEF Read, Stabilizing, Popping
<1>. QED
  BY <1>2, <1>4, <1>5, <1>6, QuietStep

LEMMA BeginWithoutNodeStep ==
    ASSUME Whole, NEW pos \in [Nodes -> Int], Placing(pos),
           NEW t \in Threads, NEW s \in Sides, BeginPushWithoutNode(t, s) \/ BeginPop(t, s)
    PROVE  Whole' /\ Placing(pos)' /\ In' = In
<1>1. TypeOK /\ Local(t)
  BY DEF Whole
<1>2. /\ TypeOK' /\ OthersKeep(t) /\ UNCHANGED shared /\ node'[t] = node[t]
      /\ pc[t] = "idle" /\ Keeps(t)
      /\ \/ pc'[t] = "null" /\ call'[t] = <<"push", s>>
         \/ pc'[t] = "load" /\ call'[t] = <<"pop", s>>
  BY <1>1, BeginPushWithoutNodeEffect, BeginPopEffect
<1>3. ~Pushing(t) /\ ~Pushing(t)'
  BY <1>1, <1>2 DEF Pushing, IsPush, Local
<1>4. Local(t)'
  <2>1. after'[t] = after[t] /\ after[t] # "true"
    BY <1>1, <1>2, KeepsView DEF Local, Stabilizing
  <2>2. call'[t] # <<>> /\ (pc'[t] = "null" => IsPush(t)')
    <3>1. <<"push", s>> # <<>> /\ <<"pop", s>> # <<>> /\ <<"push", s>>[1] = "push"
      OBVIOUS
    <3>2. CASE pc'[t] = "null" /\ call'[t] = <<"push", s>>
      BY <3>1, <3>2 DEF IsPush
    <3>3. CASE pc'[t] = "load" /\ call'[t] = <<"pop", s>>
      BY <3>1, <3>3
    <3>. QED
      BY <1>2, <3>2, <3>3
  <2>. QED
    BY <1>2, <1>3, <2>1, <2>2 DEF Local, Popping, Stabilizing
<1>5. OnlyRegisters(t)
  BY <1>2, <1>3 DEF OnlyRegisters
<1>6. Read(pos, t)'
  BY <1>2 DEF Read, Stabilizing, Popping
<1>. QED
  BY <1>2, <1>4, <1>5, <1>6, QuietStep

-----------------------------------------------------------------------------
(* Steps that allocate and link nodes.  The deque itself stays as it is.   *)
LEMMA NodeOfPush ==
    ASSUME Whole, NEW u \in Threads, Pushing(u)
    PROVE  node[u] \in Nodes /\ Owned(u) = {node[u]} /\ node[u] \notin free
           /\ node[u] \notin In
<1>1. node[u] \in Nodes /\ pc[u] # "take"
  BY DEF Whole, Local, Pushing
<1>2. Owned(u) = {node[u]}
  BY <1>1, OwnedView
<1>. QED
  BY <1>1, <1>2 DEF Whole, Apart, In

LEMMA BeginPushStep ==
    ASSUME Whole, FreshNodes', NEW pos \in [Nodes -> Int], Placing(pos),
           NEW t \in Threads, NEW s \in Sides, BeginPush(t, s)
    PROVE  Whole' /\ Placing(pos)' /\ In' = In
<1>1. Ordered(pos) /\ TypeOK /\ Local(t)
  BY DEF Whole, Placing
<1>2. PICK n \in free :
              /\ TypeOK' /\ OthersKeep(t) /\ UNCHANGED anchor
              /\ pc[t] = "idle" /\ pc'[t] = "load" /\ Keeps(t)
              /\ uses[n] < MaxUses /\ uses'[n] = uses[n] + 1
              /\ call'[t] = <<"push", s, <<n, uses'[n]>>>> /\ node'[t] = n
              /\ free' = free \ {n}
              /\ \A m \in Nodes : m # n => uses'[m] = uses[m]
              /\ \A d \in Sides : link'[d][n].ptr = None
              /\ \A d \in Sides, m \in Nodes : m # n => link'[d][m] = link[d][m]
  BY <1>1, BeginPushEffect
<1>3. n \in Nodes /\ uses'[n] # 0 /\ n \notin In
  BY <1>1, <1>2 DEF TypeOK, In
<1>4. ~Pushing(t) /\ Owned(t) = {}
  BY <1>1, <1>2 DEF Pushing, IsPush, Local, Owned, Took
<1>5. Pushing(t)' /\ Owned(t)' = {n} /\ Local(t)'
  <2>1. after'[t] # "true"
    BY <1>1, <1>2, KeepsView DEF Local, Stabilizing
  <2>. DEFINE c == <<"push", s, <<n, uses'[n]>>>>
  <2>2. c # <<>> /\ c[1] = "push" /\ c[2] = s
    OBVIOUS
  <2>3. call'[t] = c
    BY <1>2
  <2>. HIDE DEF c
  <2>4. call'[t] # <<>> /\ IsPush(t)' /\ Side(t)' = s
    BY <2>2, <2>3 DEF IsPush, Side
  <2>5. Pushing(t)' /\ Owned(t)' = {n}
    BY <1>2, <2>1, <2>4 DEF Pushing, Done, Owned, Took
  <2>6. call'[t] = <<"push", Side(t)', <<node'[t], uses'[node'[t]]>>>> /\ node'[t] \in Nodes
    BY <1>2, <1>3, <2>4
  <2>7. Local(t)'
    BY <1>2, <2>1, <2>4, <2>6 DEF Local, Value, Popping, Stabilizing
  <2>. QED
    BY <2>5, <2>7
<1>6. \A u \in Threads \ {t} :
         /\ Owned(u)' = Owned(u) /\ (Took(u)' <=> Took(u)) /\ (Pushing(u)' <=> Pushing(u))
         /\ node'[u] = node[u] /\ (Pushing(u) => node[u] # n /\ node[u] \in Nodes)
  BY <1>2, Others, NodeOfPush
<1>7. In' = In
  BY <1>2, <1>4, <1>5, <1>6 DEF In
<1>9. \A u \in Threads : Local(u)'
  BY <1>2, <1>5, <1>6, LocalOthers DEF Whole
<1>10. Apart'
  <2>1. \A m \in Nodes : uses'[m] = 0 => m \in free'
    BY <1>2, <1>3 DEF Whole, Apart
  <2>2. \A u \in Threads : Owned(u)' \cap free' = {}
    BY <1>2, <1>5, <1>6 DEF Whole, Apart
  <2>3. \A u, w \in Threads : u # w => Owned(u)' \cap Owned(w)' = {}
    BY <1>2, <1>5, <1>6 DEF Whole, Apart
  <2>. QED
    BY <2>1, <2>2, <2>3 DEF Apart
<1>13. Clean'
  <2>1. \A d \in Sides : link'[d][n].ptr # Wild
    BY <1>2, DequeAssumption
  <2>2. \A m \in Nodes : m # n => (m \in free' <=> m \in free)
    BY <1>2
  <2>3. \A m \in Nodes : (\E u \in Threads : Took(u) /\ m \in Owned(u))
                            => \E u \in Threads : Took(u)' /\ m \in Owned(u)'
    BY <1>4, <1>6
  <2>. QED
    BY <1>2, <2>1, <2>2, <2>3 DEF Whole, Clean
<1>14. Ordered(pos)'
  <2>1. \A d \in Sides, m \in In : link'[d][m] = link[d][m]
    BY <1>2, <1>3 DEF In
  <2>. QED
    BY <1>1, <1>2, <1>7, <2>1 DEF Ordered, Unstable, Towards
<1>15. \A u \in Threads : Read(pos, u)'
  <2>1. Read(pos, t)'
    BY <1>2 DEF Read, Stabilizing, Popping
  <2>2. ASSUME NEW u \in Threads \ {t} PROVE Read(pos, u)'
    <3>1. Read(pos, u) /\ Local(u)
      BY DEF Placing, Whole
    <3>2. /\ pc'[u] = pc[u] /\ node'[u] = node[u] /\ lrs'[u] = lrs[u]
          /\ prev'[u] = prev[u] /\ prevnext'[u] = prevnext[u]
          /\ Side(u)' = Side(u) /\ Unfinished(u)' = Unfinished(u) /\ End(u)' = End(u)
      BY <1>2, Others
    <3>3. pc[u] = "push_anchor" =>
             link'[Opposite(Side(u))][node[u]] = link[Opposite(Side(u))][node[u]]
      <4>. SUFFICES ASSUME pc[u] = "push_anchor" PROVE node[u] # n /\ node[u] \in Nodes
                                                       /\ Opposite(Side(u)) \in Sides
        BY <1>2
      <4>. QED
        BY <1>1, <1>6, <3>1, Registered
    <3>4. prev[u] \in Nodes => link'[Unfinished(u)][prev[u]] = link[Unfinished(u)][prev[u]]
      BY <1>2, <1>3, <1>5, <3>2, SidesOf DEF FreshNodes, Held
    <3>. QED
      BY <1>2, <1>7, <3>1, <3>2, <3>3, <3>4
         DEF Read, Towards, Unstable, Half, Stabilizing, Popping
  <2>. QED
    BY <2>1, <2>2
<1>. QED
  BY <1>2, <1>7, <1>9, <1>10, <1>13, <1>14, <1>15 DEF Whole, Placing

LEMMA PushLinkStep ==
    ASSUME Whole, FreshNodes, NEW pos \in [Nodes -> Int], Placing(pos), NEW t \in Threads, PushLink(t)
    PROVE  Whole' /\ Placing(pos)' /\ In' = In
<1>1. Ordered(pos) /\ TypeOK /\ Local(t)
  BY DEF Whole, Placing
<1>. DEFINE n == node[t]
            d == Opposite(Side(t))
<1>2. /\ TypeOK' /\ OthersKeep(t) /\ SameCall(t) /\ UNCHANGED <<anchor, free, uses>>
      /\ pc[t] = "push_link" /\ pc'[t] = "push_anchor" /\ Keeps(t)
      /\ link'[d][n].ptr = lrs[t][Side(t)]
      /\ \A s \in Sides, m \in Nodes : s # d \/ m # n => link'[s][m] = link[s][m]
  BY <1>1, PushLinkEffect
<1>3. /\ Pushing(t) /\ n \in Nodes /\ n \notin In /\ n \notin free /\ Owned(t) = {n}
      /\ d \in Sides /\ Side(t) \in Sides /\ lrs[t][Side(t)] \in Nodes
  BY <1>1, <1>2, Registered, NodeOfPush
<1>4. Pushing(t)' /\ ~Took(t) /\ ~Took(t)' /\ Owned(t)' = Owned(t)
  <2>1. Pushing(t)'
    BY <1>2, <1>3, SameCallView, KeepsView DEF Pushing, Done
  <2>. QED
    BY <1>2, <1>3, <2>1, SameCallView, OwnedView DEF Took, Owned, Pushing
<1>5. Local(t)'
  BY <1>1, <1>2, <1>3, <1>4, SameCallView, KeepsView DEF Local, Value, Popping, Stabilizing
<1>6. \A u \in Threads : /\ Owned(u)' = Owned(u) /\ (Took(u)' <=> Took(u))
                         /\ (Pushing(u)' <=> Pushing(u)) /\ node'[u] = node[u]
  BY <1>2, <1>3, <1>4, Others, SameCallView
<1>7. In' = In
  BY <1>2, <1>6 DEF In
<1>9. \A u \in Threads : Local(u)'
  BY <1>2, <1>5, LocalOthers DEF Whole
<1>10. Apart'
  BY <1>2, <1>6 DEF Apart, Whole
<1>13. Clean'
  <2>1. link'[d][n].ptr # Wild
    BY <1>2, <1>3, DequeAssumption
  <2>2. \A s \in Sides, m \in Nodes : link[s][m].ptr # Wild => link'[s][m].ptr # Wild
    BY <1>2, <2>1
  <2>. QED
    BY <1>2, <1>6, <2>2 DEF Whole, Clean
<1>14. Ordered(pos)'
  <2>1. \A s \in Sides, m \in In : link'[s][m] = link[s][m]
    BY <1>2, <1>3 DEF In
  <2>. QED
    BY <1>1, <1>2, <1>7, <2>1 DEF Ordered, Unstable, Towards
<1>15. \A u \in Threads : Read(pos, u)'
  <2>1. Read(pos, t)'
    BY <1>2, SameCallView, KeepsView DEF Read, Stabilizing, Popping
  <2>2. ASSUME NEW u \in Threads \ {t} PROVE Read(pos, u)'
    <3>1. Read(pos, u) /\ Local(u)
      BY DEF Placing, Whole
    <3>2. /\ pc'[u] = pc[u] /\ node'[u] = node[u] /\ lrs'[u] = lrs[u]
          /\ prev'[u] = prev[u] /\ prevnext'[u] = prevnext[u]
          /\ Side(u)' = Side(u) /\ Unfinished(u)' = Unfinished(u) /\ End(u)' = End(u)
      BY <1>2, Others
    <3>3. pc[u] = "push_anchor" =>
             link'[Opposite(Side(u))][node[u]] = link[Opposite(Side(u))][node[u]]
      <4>. SUFFICES ASSUME pc[u] = "push_anchor" PROVE node[u] # n /\ node[u] \in Nodes
                                                       /\ Opposite(Side(u)) \in Sides
        BY <1>2
      <4>1. Pushing(u) /\ node[u] \in Nodes /\ Opposite(Side(u)) \in Sides
        BY <1>1, <3>1, Registered
      <4>2. Owned(u) = {node[u]}
        BY <4>1, NodeOfPush
      <4>. QED
        BY <1>3, <4>1, <4>2 DEF Whole, Apart
    <3>4. prev[u] \in Nodes => link'[Unfinished(u)][prev[u]] = link[Unfinished(u)][prev[u]]
      BY <1>2, <1>3, SidesOf DEF FreshNodes, Held
    <3>. QED
      BY <1>2, <1>7, <3>1, <3>2, <3>3, <3>4
         DEF Read, Towards, Unstable, Half, Stabilizing, Popping
  <2>. QED
    BY <2>1, <2>2
<1>. QED
  BY <1>2, <1>7, <1>9, <1>10, <1>13, <1>14, <1>15 DEF Whole, Placing


-----------------------------------------------------------------------------
(* Stabilizing.                                                            *)
LEMMA LinkBackStep ==
    ASSUME Whole, NEW pos \in [Nodes -> Int], Placing(pos), NEW t \in Threads, LinkBack(t)
    PROVE  Whole' /\ Placing(pos)' /\ In' = In
<1>1. Ordered(pos) /\ TypeOK /\ Local(t) /\ Read(pos, t)
  BY DEF Whole, Placing
<1>. DEFINE f == Unfinished(t)
            p == prev[t]
<1>2. pc[t] = "link_back" /\ p \in Nodes
  BY <1>1 DEF LinkBack, Read, Stabilizing
<1>3. /\ TypeOK' /\ OthersKeep(t) /\ SameCall(t) /\ UNCHANGED <<anchor, free, uses>>
      /\ \/ /\ link[f][p] = prevnext[t] /\ pc'[t] = "stable" /\ Keeps(t)
            /\ link'[f][p].ptr = End(t)
            /\ \A d \in Sides, m \in Nodes : d # f \/ m # p => link'[d][m] = link[d][m]
         \/ link' = link /\ pc'[t] = after[t] /\ Leaves(t)
  BY <1>1, <1>2, LinkBackEffect
<1>4. CASE link' = link /\ pc'[t] = after[t] /\ Leaves(t)
  BY <1>2, <1>3, <1>4, LeaveStep DEF Stabilizing, shared
<1>5. CASE /\ link[f][p] = prevnext[t] /\ pc'[t] = "stable" /\ Keeps(t)
           /\ link'[f][p].ptr = End(t)
           /\ \A d \in Sides, m \in Nodes : d # f \/ m # p => link'[d][m] = link[d][m]
  <2>1. /\ anchor = lrs[t] /\ p \in In /\ Towards(pos, Opposite(f), End(t), p)
        /\ f \in Sides /\ Opposite(f) \in Sides /\ End(t) \in Nodes
    BY <1>1, <1>2, <1>5, Registered DEF Read, Stabilizing
  <2>2. /\ Unstable(anchor) /\ f = Half(anchor) /\ End(t) = anchor[Half(anchor)] /\ End(t) \in In
    BY <1>1, <1>2, <2>1, Ends DEF Local, Stabilizing, Unstable, Half, Unfinished, End
  <2>3. Pushing(t)' <=> Pushing(t)
    BY <1>2, <1>3, <1>5, SameCallView, KeepsView DEF Pushing, Done
  <2>4. Local(t)'
    BY <1>1, <1>2, <1>3, <1>5, <2>3, SameCallView, KeepsView
       DEF Local, Value, Popping, Stabilizing
  <2>5. Owned(t)' = Owned(t) /\ ~Took(t) /\ ~Took(t)'
    BY <1>2, <1>3, <1>5, <2>3, SameCallView DEF Owned, Took, Pushing
  <2>6. \A u \in Threads : /\ Owned(u)' = Owned(u) /\ (Took(u)' <=> Took(u))
                           /\ (Pushing(u)' <=> Pushing(u)) /\ node'[u] = node[u]
    BY <1>3, <2>3, <2>5, Others, SameCallView
  <2>7. In' = In
    BY <1>3, <2>6 DEF In
  <2>9. \A u \in Threads : Local(u)'
    BY <1>3, <2>4, LocalOthers DEF Whole
  <2>10. Apart'
    BY <1>3, <2>6 DEF Apart, Whole
  <2>13. Clean'
    <3>1. link'[f][p].ptr # Wild
      BY <1>5, <2>1, DequeAssumption
    <3>2. \A s \in Sides, m \in Nodes : link[s][m].ptr # Wild => link'[s][m].ptr # Wild
      BY <1>5, <3>1
    <3>. QED
      BY <1>3, <2>6, <3>2 DEF Whole, Clean
  <2>14. Ordered(pos)'
    <3>1. \A s \in Sides : \A n, m \in In :
             Towards(pos, s, n, m) =>
                link'[s][n].ptr = m \/ (anchor.status = Pushed(s) /\ m = anchor[s])
      <4>. SUFFICES ASSUME NEW s \in Sides, NEW n \in In, NEW m \in In, Towards(pos, s, n, m)
                    PROVE  link'[s][n].ptr = m \/ (anchor.status = Pushed(s) /\ m = anchor[s])
        OBVIOUS
      <4>1. CASE s # f \/ n # p
        BY <1>1, <1>5, <4>1 DEF Ordered, In
      <4>2. CASE s = f /\ n = p
        <5>1. pos[m] \in Int /\ pos[End(t)] \in Int /\ pos[p] \in Int
          BY <2>1 DEF In
        <5>2. pos[m] = pos[End(t)]
          BY <2>1, <4>2, <5>1 DEF Towards, Opposite, Sides
        <5>. QED
          BY <1>1, <1>5, <2>2, <4>2, <5>2 DEF Ordered
      <4>. QED
        BY <4>1, <4>2
    <3>. QED
      BY <1>1, <1>3, <2>7, <3>1 DEF Ordered, Unstable, Towards
  <2>15. \A u \in Threads : Read(pos, u)'
    <3>1. Read(pos, t)'
      BY <1>1, <1>2, <1>3, <1>5, <2>1, <2>7, SameCallView, KeepsView
         DEF Read, Stabilizing, Popping, Towards
    <3>2. ASSUME NEW u \in Threads \ {t} PROVE Read(pos, u)'
      <4>1. Read(pos, u) /\ Local(u)
        BY DEF Placing, Whole
      <4>2. /\ pc'[u] = pc[u] /\ node'[u] = node[u] /\ lrs'[u] = lrs[u]
            /\ prev'[u] = prev[u] /\ prevnext'[u] = prevnext[u]
            /\ Side(u)' = Side(u) /\ Unfinished(u)' = Unfinished(u) /\ End(u)' = End(u)
        BY <1>3, Others
      <4>3. pc[u] = "push_anchor" =>
               link'[Opposite(Side(u))][node[u]] = link[Opposite(Side(u))][node[u]]
        <5>. SUFFICES ASSUME pc[u] = "push_anchor" PROVE node[u] # p /\ node[u] \in Nodes
                                                         /\ Opposite(Side(u)) \in Sides
          BY <1>5
        <5>1. Pushing(u) /\ node[u] \in Nodes /\ Opposite(Side(u)) \in Sides
          BY <1>1, <4>1, Registered
        <5>. QED
          BY <2>1, <5>1, NodeOfPush
      <4>4. prev[u] \in Nodes =>
               \/ link'[Unfinished(u)][prev[u]] = link[Unfinished(u)][prev[u]]
               \/ link'[Unfinished(u)][prev[u]].ptr = anchor[Half(anchor)]
        BY <1>5, <2>2, SidesOf
      <4>5. pc[u] = "link_back" =>
               anchor = lrs[u] \/ link'[Unfinished(u)][prev[u]].ptr # prevnext[u].ptr
        BY <2>2, <4>1, <4>4 DEF Read, Stabilizing
      <4>6. pc[u] = "stable" /\ anchor = lrs[u] => link'[Unfinished(u)][prev[u]].ptr = End(u)
        BY <2>2, <4>1, <4>4 DEF Read, Stabilizing, End, Unfinished, Half
      <4>. QED
        BY <1>3, <2>7, <4>1, <4>2, <4>3, <4>5, <4>6
           DEF Read, Towards, Unstable, Half, Stabilizing, Popping
    <3>. QED
      BY <3>1, <3>2
  <2>. QED
    BY <1>3, <2>7, <2>9, <2>10, <2>13, <2>14, <2>15 DEF Whole, Placing
<1>. QED
  BY <1>3, <1>4, <1>5

LEMMA MakeStableStep ==
    ASSUME Whole, NEW pos \in [Nodes -> Int], Placing(pos), NEW t \in Threads, MakeStable(t)
    PROVE  Whole' /\ Placing(pos)' /\ In' = In
<1>1. Ordered(pos) /\ TypeOK /\ Local(t) /\ Read(pos, t)
  BY DEF Whole, Placing
<1>2. /\ TypeOK' /\ OthersKeep(t) /\ SameCall(t) /\ UNCHANGED <<link, free, uses>>
      /\ pc[t] = "stable" /\ pc'[t] = after[t] /\ Leaves(t)
      /\ \/ /\ anchor = lrs[t] /\ anchor'.left = anchor.left /\ anchor'.right = anchor.right
            /\ anchor'.status = "stable"
         \/ anchor' = anchor
  BY <1>1, MakeStableEffect
<1>3. CASE anchor' = anchor
  BY <1>2, <1>3, LeaveStep DEF Stabilizing, shared
<1>4. CASE /\ anchor = lrs[t] /\ anchor'.left = anchor.left /\ anchor'.right = anchor.right
           /\ anchor'.status = "stable"
  <2>. DEFINE f == Unfinished(t)
              p == prev[t]
  <2>1. /\ p \in In /\ Towards(pos, Opposite(f), End(t), p) /\ link[f][p].ptr = End(t)
        /\ f \in Sides /\ Opposite(f) \in Sides /\ End(t) \in Nodes
    BY <1>1, <1>2, <1>4, Registered DEF Read, Stabilizing
  <2>2. /\ Unstable(anchor) /\ f = Half(anchor) /\ End(t) = anchor[f] /\ End(t) \in In
    BY <1>1, <1>2, <1>4, <2>1, Ends DEF Local, Stabilizing, Unstable, Half, Unfinished, End
  <2>3. Local(t)' /\ (Pushing(t)' <=> Pushing(t))
    BY <1>1, <1>2, LeaveLocal DEF Stabilizing
  <2>4. ~Took(t) /\ ~Took(t)' /\ Owned(t)' = Owned(t)
    BY <1>1, <1>2, <2>3, SameCallView, OwnedView DEF Took, Owned, Pushing, TypeOK
  <2>5. \A u \in Threads : /\ Owned(u)' = Owned(u) /\ (Took(u)' <=> Took(u))
                           /\ (Pushing(u)' <=> Pushing(u)) /\ node'[u] = node[u]
    BY <1>2, <2>3, <2>4, Others, SameCallView
  <2>6. In' = In
    BY <1>2, <2>5 DEF In
  <2>8. \A u \in Threads : Local(u)'
    BY <1>2, <2>3, LocalOthers DEF Whole
  <2>9. Apart'
    BY <1>2, <2>5 DEF Apart, Whole
  <2>11. Clean'
    BY <1>2, <2>5 DEF Whole, Clean
  <2>12. \A s \in Sides : anchor'[s] = anchor[s]
    BY <1>1, <1>2, <1>4, AnchorType DEF TypeOK, Sides
  <2>13. \A n \in In : n = p \/ ~Towards(pos, f, n, End(t))
    <3>. SUFFICES ASSUME NEW n \in In, Towards(pos, f, n, End(t)) PROVE n = p
      OBVIOUS
    <3>1. pos[n] \in Int /\ pos[End(t)] \in Int /\ pos[p] \in Int
      BY <2>1 DEF In
    <3>2. pos[n] = pos[p]
      BY <2>1, <3>1 DEF Towards, Opposite, Sides
    <3>. QED
      BY <1>1, <2>1, <3>2 DEF Ordered
  <2>14. Ordered(pos)'
    <3>1. \A s \in Sides : \A n, m \in In : Towards(pos, s, n, m) => link[s][n].ptr = m
      <4>. SUFFICES ASSUME NEW s \in Sides, NEW n \in In, NEW m \in In, Towards(pos, s, n, m),
                           anchor.status = Pushed(s), m = anchor[s]
                    PROVE  link[s][n].ptr = m
        BY <1>1 DEF Ordered
      <4>1. s = f
        BY <2>2 DEF Half, Pushed, Sides
      <4>. QED
        BY <2>1, <2>2, <2>13, <4>1
    <3>. QED
      BY <1>1, <1>2, <1>4, <2>6, <2>12, <3>1 DEF Ordered, Unstable, Towards
  <2>15. \A u \in Threads : Read(pos, u)'
    <3>1. Read(pos, t)'
      BY <1>1, <1>2 DEF Read, Stabilizing, Popping, TypeOK
    <3>2. ASSUME NEW u \in Threads \ {t} PROVE Read(pos, u)'
      <4>1. Read(pos, u) /\ Local(u)
        BY DEF Placing, Whole
      <4>2. /\ pc'[u] = pc[u] /\ node'[u] = node[u] /\ lrs'[u] = lrs[u]
            /\ prev'[u] = prev[u] /\ prevnext'[u] = prevnext[u]
            /\ Side(u)' = Side(u) /\ Unfinished(u)' = Unfinished(u) /\ End(u)' = End(u)
        BY <1>2, Others
      <4>3. ~Unstable(anchor)' /\ (pc[u] \in Stabilizing => anchor' # lrs[u])
        BY <1>4, <4>1 DEF Unstable, Local
      <4>4. ASSUME pc[u] = "link_back"
            PROVE  link[Unfinished(u)][prev[u]].ptr # prevnext[u].ptr
        <5>. SUFFICES ASSUME anchor = lrs[u] PROVE link[Unfinished(u)][prev[u]].ptr # prevnext[u].ptr
          BY <4>1, <4>4 DEF Read, Stabilizing
        <5>1. Unfinished(u) = f /\ End(u) = End(t)
          BY <1>4 DEF Unfinished, End
        <5>2. prev[u] \in In /\ Towards(pos, Opposite(f), End(t), prev[u]) /\ prevnext[u].ptr # End(t)
          BY <4>1, <4>4, <5>1 DEF Read, Stabilizing
        <5>3. Towards(pos, f, prev[u], End(t))
          BY <2>1, <5>2 DEF Towards, Opposite, Sides
        <5>. QED
          BY <2>1, <2>13, <5>1, <5>2, <5>3
      <4>. QED
        BY <1>2, <2>6, <4>1, <4>2, <4>3, <4>4
           DEF Read, Towards, Stabilizing, Popping
    <3>. QED
      BY <3>1, <3>2
  <2>. QED
    BY <1>2, <2>6, <2>8, <2>9, <2>11, <2>14, <2>15 DEF Whole, Placing
<1>. QED
  BY <1>2, <1>3, <1>4

-----------------------------------------------------------------------------
(* A node joins the deque.                                                 *)
LEMMA PushFirstStep ==
    ASSUME Whole, FreshNodes, NEW pos \in [Nodes -> Int], Placing(pos), NEW t \in Threads, PushFirst(t)
    PROVE  /\ Whole' /\ Placing(pos)'
           /\ pc'[t] = "load" => In' = In
           /\ pc'[t] # "load" => In = {} /\ In' = {node[t]}
<1>1. Ordered(pos) /\ TypeOK /\ Local(t)
  BY DEF Whole, Placing
<1>. DEFINE n == node[t]
<1>2. /\ TypeOK' /\ OthersKeep(t) /\ SameCall(t) /\ UNCHANGED <<link, free, uses>>
      /\ pc[t] = "push_first" /\ Leaves(t)
      /\ \/ /\ anchor = lrs[t] /\ pc'[t] = "true"
            /\ anchor'.left = n /\ anchor'.right = n /\ anchor'.status = anchor.status
         \/ anchor' = anchor /\ pc'[t] = "load"
  BY <1>1, PushFirstEffect
<1>3. CASE anchor' = anchor /\ pc'[t] = "load"
  BY <1>2, <1>3, LeaveStep DEF Stabilizing, shared
<1>4. CASE /\ anchor = lrs[t] /\ pc'[t] = "true"
           /\ anchor'.left = n /\ anchor'.right = n /\ anchor'.status = anchor.status
  <2>1. /\ Pushing(t) /\ n \in Nodes /\ n \notin In /\ n \notin free /\ Owned(t) = {n}
        /\ Side(t) \in Sides
    BY <1>1, <1>2, Registered, NodeOfPush
  <2>2. In = {} /\ anchor.left = None /\ anchor.right = None /\ ~Unstable(anchor)
    BY <1>1, <1>2, <1>4, <2>1, Ends, DequeAssumption DEF Local, Ordered, Sides
  <2>3. anchor.status = "stable" /\ anchor'.status = "stable"
    BY <1>4, <2>2 DEF Unstable
  <2>4. /\ ~Pushing(t)' /\ ~Took(t) /\ ~Took(t)' /\ Owned(t)' = {}
    BY <1>2, <1>4 DEF Pushing, Done, Took, Owned
  <2>5. Local(t)'
    BY <1>1, <1>2, <1>4, <2>4, SameCallView
       DEF Local, Popping, Stabilizing, Leaves
  <2>6. \A u \in Threads \ {t} :
           /\ Owned(u)' = Owned(u) /\ (Took(u)' <=> Took(u))
           /\ (Pushing(u)' <=> Pushing(u)) /\ node'[u] = node[u]
    BY <1>2, Others
  <2>7. \A u \in Threads \ {t} : n \notin Owned(u)
    BY <2>1 DEF Whole, Apart
  <2>8. In' = {n}
    BY <1>2, <2>1, <2>2, <2>4, <2>6, <2>7 DEF In
  <2>11. \A u \in Threads : Local(u)'
    BY <1>2, <2>5, LocalOthers DEF Whole
  <2>12. Apart'
    BY <1>2, <2>4, <2>6 DEF Apart, Whole
  <2>14. Clean'
    BY <1>2, <2>4, <2>6 DEF Whole, Clean
  <2>15. anchor'["left"] = n /\ anchor'["right"] = n
    BY <1>2, <1>4, AnchorType DEF TypeOK
  <2>16. Ordered(pos)'
    <3>1. pos[n] \in Int /\ n # None
      BY <2>1, DequeAssumption
    <3>2. \A s \in Sides : anchor'[s] = n
      BY <2>15 DEF Sides
    <3>3. \A s \in Sides : ~Towards(pos, s, n, n)
      BY <3>1 DEF Towards
    <3>4. /\ anchor'.left \in In' /\ anchor'.right \in In' /\ In' # {}
          /\ anchor'.left # None /\ anchor'.right # None
      BY <1>4, <2>8, <3>1
    <3>5. \A m \in In' : /\ pos[anchor'.left] <= pos[m] /\ pos[m] <= pos[anchor'.right]
                         /\ \A s \in Sides : m = anchor'[s]
      BY <1>4, <2>8, <3>1, <3>2
    <3>6. \A a, b \in In' : a = b /\ \A s \in Sides : ~Towards(pos, s, a, b)
      BY <2>8, <3>3
    <3>. QED
      BY <2>3, <3>4, <3>5, <3>6 DEF Ordered, Unstable, Towards
  <2>17. \A u \in Threads : Read(pos, u)'
    <3>1. Read(pos, t)'
      BY <1>4 DEF Read, Stabilizing, Popping
    <3>2. ASSUME NEW u \in Threads \ {t} PROVE Read(pos, u)'
      <4>1. Read(pos, u) /\ Local(u)
        BY DEF Placing, Whole
      <4>2. /\ pc'[u] = pc[u] /\ node'[u] = node[u] /\ lrs'[u] = lrs[u]
            /\ prev'[u] = prev[u] /\ prevnext'[u] = prevnext[u]
            /\ Side(u)' = Side(u) /\ Unfinished(u)' = Unfinished(u) /\ End(u)' = End(u)
        BY <1>2, Others
      <4>3. ~Unstable(anchor)' /\ (pc[u] \in Stabilizing => anchor' # lrs[u] /\ anchor # lrs[u])
        BY <2>3, <4>1 DEF Unstable, Local
      <4>4. lrs[u].left = lrs[u]["left"] /\ lrs[u].left # n
        BY <2>1, <4>1, AnchorType DEF FreshNodes, Held, Whole, TypeOK, Sides
      <4>5. lrs[u].left \notin In'
        BY <2>8, <4>4
      <4>. QED
        BY <1>2, <4>1, <4>2, <4>3, <4>5
           DEF Read, Towards, Stabilizing, Popping
    <3>. QED
      BY <3>1, <3>2
  <2>. QED
    BY <1>2, <1>4, <2>2, <2>8, <2>11, <2>12, <2>14, <2>16, <2>17 DEF Whole, Placing
<1>. QED
  BY <1>2, <1>3, <1>4

(* A place beyond the end of side s.                                       *)
Beyond(pos, s, e) == IF s = "right" THEN pos[e] + 1 ELSE pos[e] - 1

LEMMA PushAnchorStep ==
    ASSUME Whole, FreshNodes, NEW pos \in [Nodes -> Int], Placing(pos), NEW t \in Threads, PushAnchor(t)
    PROVE  /\ Whole'
           /\ pc'[t] = "load" => Placing(pos)' /\ In' = In
           /\ pc'[t] # "load" =>
                 \E new \in [Nodes -> Int] :
                    /\ Placing(new)' /\ In' = In \cup {node[t]}
                    /\ new[node[t]] = Beyond(pos, Side(t), anchor[Side(t)])
                    /\ \A m \in In : new[m] = pos[m]
<1>1. Ordered(pos) /\ TypeOK /\ Local(t) /\ Read(pos, t)
  BY DEF Whole, Placing
<1>. DEFINE n == node[t]
            s == Side(t)
            o == Opposite(Side(t))
            e == anchor[Side(t)]
<1>2. /\ TypeOK' /\ OthersKeep(t) /\ SameCall(t) /\ UNCHANGED <<link, free, uses>>
      /\ pc[t] = "push_anchor"
      /\ \/ /\ anchor = lrs[t] /\ pc'[t] = "prev" /\ after'[t] = "true"
            /\ lrs'[t] = anchor' /\ UNCHANGED <<prev[t], prevnext[t]>>
            /\ anchor'[s] = n /\ anchor'[o] = anchor[o]
            /\ anchor'.status = Pushed(s) /\ Half(anchor') = s
         \/ anchor' = anchor /\ pc'[t] = "load" /\ Leaves(t)
  BY <1>1, PushAnchorEffect
<1>3. CASE anchor' = anchor /\ pc'[t] = "load" /\ Leaves(t)
  BY <1>2, <1>3, LeaveStep DEF Stabilizing, shared
<1>4. CASE /\ anchor = lrs[t] /\ pc'[t] = "prev" /\ after'[t] = "true"
           /\ lrs'[t] = anchor' /\ UNCHANGED <<prev[t], prevnext[t]>>
           /\ anchor'[s] = n /\ anchor'[o] = anchor[o]
           /\ anchor'.status = Pushed(s) /\ Half(anchor') = s
  <2>1. /\ Pushing(t) /\ n \in Nodes /\ n \notin In /\ n \notin free /\ Owned(t) = {n}
        /\ s \in Sides /\ o \in Sides /\ o = Opposite(s) /\ \A d \in Sides : d = s \/ d = o
    BY <1>1, <1>2, Registered, NodeOfPush, SidesOf
  <2>2. anchor.status = "stable" /\ e \in Nodes /\ anchor[o] \in Nodes
    BY <1>1, <1>2, <1>4, <2>1, Registered DEF Local
  <2>3. /\ e \in In /\ anchor[o] \in In /\ anchor.left \in In /\ anchor.right \in In
        /\ anchor["left"] = anchor.left /\ anchor["right"] = anchor.right
    BY <1>1, <2>1, <2>2, Ends
  <2>4. IsPush(t)' /\ ~Pushing(t)' /\ ~Took(t) /\ ~Took(t)' /\ Owned(t)' = {}
    BY <1>2, <1>4, <2>1, SameCallView DEF Pushing, Done, Took, Owned
  <2>5. anchor'.left \in Nodes /\ anchor'.right \in Nodes
        /\ anchor'["left"] = anchor'.left /\ anchor'["right"] = anchor'.right
        /\ anchor'.status # "stable"
    BY <1>2, <1>4, <2>1, <2>2, AnchorType DEF TypeOK, Sides, Opposite, Pushed
  <2>6. Local(t)'
    BY <1>1, <1>2, <1>4, <2>4, <2>5, SameCallView
       DEF Local, Popping, Stabilizing
  <2>7. \A u \in Threads \ {t} :
           /\ Owned(u)' = Owned(u) /\ (Took(u)' <=> Took(u))
           /\ (Pushing(u)' <=> Pushing(u)) /\ node'[u] = node[u] /\ n \notin Owned(u)
    BY <1>2, <2>1, Others DEF Whole, Apart
  <2>8. In' = In \cup {n}
    BY <1>2, <2>1, <2>4, <2>7 DEF In
  <2>11. \A u \in Threads : Local(u)'
    BY <1>2, <2>6, LocalOthers DEF Whole
  <2>12. Apart'
    BY <1>2, <2>4, <2>7 DEF Apart, Whole
  <2>14. Clean'
    BY <1>2, <2>4, <2>7 DEF Whole, Clean
  <2>15. PICK new \in [Nodes -> Int] :
            /\ new[n] = Beyond(pos, s, e)
            /\ \A m \in In : new[m] = pos[m] /\ pos[m] \in Int /\ m # n /\ m \in Nodes
    <3>. DEFINE after_push == [pos EXCEPT ![n] = Beyond(pos, s, e)]
    <3>1. Beyond(pos, s, e) \in Int
      BY <2>2 DEF Beyond
    <3>2. /\ after_push \in [Nodes -> Int] /\ after_push[n] = Beyond(pos, s, e)
          /\ \A m \in In : after_push[m] = pos[m] /\ pos[m] \in Int /\ m # n /\ m \in Nodes
      BY <2>1, <3>1 DEF In
    <3>. QED
      BY <3>2
  <2>16. \A m \in In : IF s = "right" THEN pos[m] < new[n] ELSE new[n] < pos[m]
    BY <1>1, <2>1, <2>3, <2>15 DEF Ordered, Beyond, Sides
  <2>17. \A m \in In : /\ ~Towards(new, s, n, m) /\ ~Towards(new, o, m, n)
                       /\ Towards(new, s, m, n) <=> m = e
                       /\ Towards(new, o, n, m) <=> m = e
    <3>. SUFFICES ASSUME NEW m \in In
                  PROVE  /\ ~Towards(new, s, n, m) /\ ~Towards(new, o, m, n)
                         /\ Towards(new, s, m, n) <=> m = e
                         /\ Towards(new, o, n, m) <=> m = e
      OBVIOUS
    <3>1. pos[m] = pos[e] <=> m = e
      BY <1>1, <2>3 DEF Ordered
    <3>2. /\ new[m] = pos[m] /\ pos[m] \in Int /\ pos[e] \in Int /\ new[n] \in Int
          /\ new[n] = Beyond(pos, s, e)
      BY <2>1, <2>3, <2>15
    <3>3. CASE s = "right"
      BY <2>16, <3>1, <3>2, <3>3 DEF Towards, Beyond, Opposite
    <3>4. CASE s = "left"
      BY <2>16, <3>1, <3>2, <3>4 DEF Towards, Beyond, Opposite
    <3>. QED
      BY <2>1, <3>3, <3>4 DEF Sides
  <2>18. \A d \in Sides, a, b \in In : Towards(new, d, a, b) <=> Towards(pos, d, a, b)
    BY <2>15 DEF Towards
  <2>19. \A d \in Sides : ~Towards(new, d, n, n)
    BY <2>1, <2>15 DEF Towards
  <2>20. Ordered(new)'
    <3>1. anchor'.left \in In' /\ anchor'.right \in In' /\ anchor'.left # None /\ anchor'.right # None
          /\ anchor'.left # anchor'.right
      BY <1>4, <2>1, <2>3, <2>5, <2>8, DequeAssumption DEF Sides, Opposite
    <3>2. \A m \in In' : new[anchor'.left] <= new[m] /\ new[m] <= new[anchor'.right]
      <4>1. \A m \in In : pos[anchor.left] <= pos[m] /\ pos[m] <= pos[anchor.right]
        BY <1>1 DEF Ordered
      <4>2. CASE s = "right"
        <5>1. anchor'.left = anchor.left /\ anchor'.right = n
          BY <1>4, <2>3, <2>5, <4>2 DEF Opposite
        <5>. QED
          BY <2>1, <2>3, <2>8, <2>15, <2>16, <4>1, <4>2, <5>1
      <4>3. CASE s = "left"
        <5>1. anchor'.left = n /\ anchor'.right = anchor.right
          BY <1>4, <2>3, <2>5, <4>3 DEF Opposite
        <5>. QED
          BY <2>1, <2>3, <2>8, <2>15, <2>16, <4>1, <4>3, <5>1
      <4>. QED
        BY <2>1, <4>2, <4>3 DEF Sides
    <3>3. \A a, b \in In' : new[a] = new[b] => a = b
      <4>1. \A m \in In : new[m] # new[n]
        BY <2>1, <2>15, <2>16
      <4>. QED
        BY <1>1, <2>8, <2>15, <4>1 DEF Ordered
    <3>4. \A d \in Sides : \A m \in In' : m # anchor'[d] => \E b \in In' : Towards(new, d, m, b)
      <4>. SUFFICES ASSUME NEW d \in Sides, NEW m \in In', m # anchor'[d]
                    PROVE  \E b \in In' : Towards(new, d, m, b)
        OBVIOUS
      <4>1. CASE m = n
        BY <1>4, <2>1, <2>3, <2>8, <2>17, <4>1
      <4>2. CASE m \in In /\ d = s /\ m = e
        BY <2>8, <2>17, <4>2
      <4>3. CASE m \in In /\ m # anchor[d]
        BY <1>1, <2>8, <2>18, <4>3 DEF Ordered
      <4>. QED
        BY <1>4, <2>1, <2>8, <4>1, <4>2, <4>3
    <3>5. \A d \in Sides : \A a, b \in In' :
             Towards(new, d, a, b) => link[d][a].ptr = b \/ (anchor'.status = Pushed(d) /\ b = anchor'[d])
      <4>. SUFFICES ASSUME NEW d \in Sides, NEW a \in In', NEW b \in In', Towards(new, d, a, b)
                    PROVE  link[d][a].ptr = b \/ (anchor'.status = Pushed(d) /\ b = anchor'[d])
        OBVIOUS
      <4>1. CASE a \in In /\ b \in In
        BY <1>1, <2>2, <2>18, <4>1 DEF Ordered, Pushed
      <4>2. CASE a \in In /\ b = n
        BY <1>4, <2>1, <2>17, <4>2
      <4>3. CASE a = n /\ b \in In
        BY <1>1, <1>2, <1>4, <2>1, <2>17, <4>3 DEF Read
      <4>4. CASE a = n /\ b = n
        BY <2>19, <4>4
      <4>. QED
        BY <2>8, <4>1, <4>2, <4>3, <4>4
    <3>. QED
      BY <1>2, <2>3, <2>8, <3>1, <3>2, <3>3, <3>4, <3>5 DEF Ordered, Unstable, Towards
  <2>21. \A u \in Threads : Read(new, u)'
    <3>1. Read(new, t)'
      BY <1>4 DEF Read, Stabilizing, Popping
    <3>2. ASSUME NEW u \in Threads \ {t} PROVE Read(new, u)'
      <4>1. Read(pos, u) /\ Local(u) /\ TypeOK
        BY DEF Placing, Whole
      <4>2. /\ pc'[u] = pc[u] /\ node'[u] = node[u] /\ lrs'[u] = lrs[u]
            /\ prev'[u] = prev[u] /\ prevnext'[u] = prevnext[u]
            /\ Side(u)' = Side(u) /\ Unfinished(u)' = Unfinished(u) /\ End(u)' = End(u)
        BY <1>2, Others
      <4>3. /\ lrs[u].left = lrs[u]["left"] /\ lrs[u].right = lrs[u]["right"]
            /\ lrs[u].left # n /\ lrs[u].right # n /\ lrs[u][s] # n
            /\ prev[u] # n /\ prevnext[u].ptr # n
        BY <2>1, <4>1, AnchorType DEF FreshNodes, Held, TypeOK, Sides
      <4>4. anchor' # lrs[u] /\ (pc[u] \in Stabilizing => anchor # lrs[u])
        BY <1>4, <2>2, <4>1, <4>3 DEF Local
      <4>5. anchor'[Half(anchor')] = n
        BY <1>4
      <4>6. /\ lrs[u].left \in In' => lrs[u].left \in In
            /\ lrs[u].right \in In' => lrs[u].right \in In
            /\ prev[u] \in In => prev[u] \in In'
        BY <2>8, <4>3
      <4>7. pc[u] # "idle" => Side(u) \in Sides /\ Opposite(Side(u)) \in Sides
        BY <4>1, Registered
      <4>8. pc[u] \in Popping /\ lrs[u].left \in In /\ lrs[u].right \in In =>
               new[lrs[u].left] < new[lrs[u].right]
        BY <2>15, <4>1 DEF Read
      <4>9. ASSUME pc[u] = "pop_anchor", lrs[u].left \in In, lrs[u].right \in In
            PROVE  prev[u] \in In /\ Towards(new, Opposite(Side(u)), lrs[u][Side(u)], prev[u])
        <5>1. prev[u] \in In /\ Towards(pos, Opposite(Side(u)), lrs[u][Side(u)], prev[u])
          BY <4>1, <4>9 DEF Read
        <5>2. lrs[u][Side(u)] \in In
          BY <4>3, <4>7, <4>9 DEF Sides
        <5>. QED
          BY <2>18, <4>7, <4>9, <5>1, <5>2
      <4>. QED
        BY <1>2, <4>1, <4>2, <4>3, <4>4, <4>5, <4>6, <4>8, <4>9
           DEF Read, Towards, Stabilizing, Popping
    <3>. QED
      BY <3>1, <3>2
  <2>22. Placing(new)'
    BY <2>20, <2>21 DEF Placing
  <2>. QED
    BY <1>2, <1>4, <2>8, <2>11, <2>12, <2>14, <2>15, <2>22 DEF Whole
<1>. QED
  BY <1>2, <1>3, <1>4

-----------------------------------------------------------------------------
(* A node leaves the deque.                                                *)
LEMMA PopLastStep ==
    ASSUME Whole, NEW pos \in [Nodes -> Int], Placing(pos), NEW t \in Threads, PopLast(t)
    PROVE  /\ Whole' /\ Placing(pos)'
           /\ pc'[t] = "load" => In' = In
           /\ pc'[t] # "load" => In = {lrs[t][Side(t)]} /\ In' = {}
<1>1. Ordered(pos) /\ TypeOK /\ Local(t)
  BY DEF Whole, Placing
<1>2. /\ TypeOK' /\ OthersKeep(t) /\ SameCall(t) /\ UNCHANGED <<link, free, uses>>
      /\ pc[t] = "pop_last"
      /\ \/ /\ anchor = lrs[t] /\ pc'[t] = "take" /\ Keeps(t)
            /\ anchor'.left = None /\ anchor'.right = None /\ anchor'.status = anchor.status
         \/ anchor' = anchor /\ pc'[t] = "load" /\ Leaves(t)
  BY <1>1, PopLastEffect
<1>3. CASE anchor' = anchor /\ pc'[t] = "load" /\ Leaves(t)
  BY <1>2, <1>3, LeaveStep DEF Stabilizing, shared
<1>4. CASE /\ anchor = lrs[t] /\ pc'[t] = "take" /\ Keeps(t)
           /\ anchor'.left = None /\ anchor'.right = None /\ anchor'.status = anchor.status
  <2>1. PICK n \in Nodes : n = lrs[t][Side(t)] /\ n \in In /\ In = {n} /\ ~Unstable(anchor)
    <3>1. /\ Side(t) \in Sides /\ lrs[t][Side(t)] \in Nodes /\ anchor.left = anchor.right
          /\ anchor["left"] = anchor.left /\ anchor["right"] = anchor.right
      BY <1>1, <1>2, <1>4, Registered, Ends DEF Local
    <3>2. lrs[t][Side(t)] = anchor.left /\ anchor.left \in In
      BY <1>1, <1>4, <3>1, Ends DEF Sides
    <3>3. ASSUME NEW m \in In PROVE m = anchor.left
      <4>1. pos[m] \in Int /\ pos[anchor.left] \in Int /\ pos[m] = pos[anchor.left]
        BY <1>1, <3>1, <3>2 DEF Ordered, In
      <4>. QED
        BY <1>1, <3>2, <4>1 DEF Ordered
    <3>. QED
      BY <1>1, <3>1, <3>2, <3>3 DEF Ordered
  <2>2. anchor.status = "stable" /\ anchor'.status = "stable"
    BY <1>4, <2>1 DEF Unstable
  <2>3. ~Pushing(t) /\ ~Pushing(t)' /\ ~Took(t) /\ Took(t)' /\ Owned(t) = {}
        /\ lrs'[t] = lrs[t] /\ Side(t)' = Side(t)
    BY <1>1, <1>2, <1>4, SameCallView, KeepsView DEF Local, Pushing, Took, Owned
  <2>4. Owned(t)' = {n}
    BY <2>1, <2>3 DEF Owned
  <2>5. Local(t)'
    BY <1>1, <1>2, <1>4, <2>3, SameCallView, KeepsView
       DEF Local, Popping, Stabilizing
  <2>6. \A u \in Threads \ {t} :
           /\ Owned(u)' = Owned(u) /\ (Took(u)' <=> Took(u))
           /\ (Pushing(u)' <=> Pushing(u)) /\ node'[u] = node[u]
    BY <1>2, Others
  <2>7. In' = {}
    BY <1>2, <2>1, <2>3, <2>4, <2>6 DEF In
  <2>9. \A u \in Threads : Local(u)'
    BY <1>2, <2>5, LocalOthers DEF Whole
  <2>10. Apart'
    <3>1. n \notin free /\ \A u \in Threads : n \notin Owned(u)
      BY <2>1 DEF In
    <3>. QED
      BY <1>2, <2>4, <2>6, <3>1 DEF Apart, Whole
  <2>12. Clean'
    BY <1>2, <2>3, <2>4, <2>6 DEF Whole, Clean
  <2>13. Ordered(pos)'
    BY <1>4, <2>2, <2>7 DEF Ordered, Unstable
  <2>14. \A u \in Threads : Read(pos, u)'
    <3>1. Read(pos, t)'
      BY <1>4 DEF Read, Stabilizing, Popping
    <3>2. ASSUME NEW u \in Threads \ {t} PROVE Read(pos, u)'
      <4>1. Read(pos, u) /\ Local(u)
        BY DEF Placing, Whole
      <4>2. /\ pc'[u] = pc[u] /\ node'[u] = node[u] /\ lrs'[u] = lrs[u]
            /\ prev'[u] = prev[u] /\ prevnext'[u] = prevnext[u]
            /\ Side(u)' = Side(u) /\ Unfinished(u)' = Unfinished(u) /\ End(u)' = End(u)
        BY <1>2, Others
      <4>3. ~Unstable(anchor)' /\ (pc[u] \in Stabilizing => anchor' # lrs[u] /\ anchor # lrs[u])
        BY <2>2, <4>1 DEF Unstable, Local
      <4>. QED
        BY <1>2, <2>7, <4>1, <4>2, <4>3 DEF Read, Stabilizing, Popping
    <3>. QED
      BY <3>1, <3>2
  <2>. QED
    BY <1>2, <1>4, <2>1, <2>7, <2>9, <2>10, <2>12, <2>13, <2>14 DEF Whole, Placing
<1>. QED
  BY <1>2, <1>3, <1>4

LEMMA PopAnchorStep ==
    ASSUME Whole, NEW pos \in [Nodes -> Int], Placing(pos), NEW t \in Threads, PopAnchor(t)
    PROVE  /\ Whole' /\ Placing(pos)'
           /\ pc'[t] = "load" => In' = In
           /\ pc'[t] # "load" => In' = In \ {lrs[t][Side(t)]}
<1>1. Ordered(pos) /\ TypeOK /\ Local(t) /\ Read(pos, t)
  BY DEF Whole, Placing
<1>. DEFINE s == Side(t)
            o == Opposite(Side(t))
<1>2. /\ TypeOK' /\ OthersKeep(t) /\ SameCall(t) /\ UNCHANGED <<link, free, uses>>
      /\ pc[t] = "pop_anchor"
      /\ \/ /\ anchor = lrs[t] /\ pc'[t] = "take" /\ Keeps(t)
            /\ anchor'[s] = prev[t] /\ anchor'[o] = anchor[o] /\ anchor'.status = anchor.status
         \/ anchor' = anchor /\ pc'[t] = "load" /\ Leaves(t)
  BY <1>1, PopAnchorEffect
<1>3. CASE anchor' = anchor /\ pc'[t] = "load" /\ Leaves(t)
  BY <1>2, <1>3, LeaveStep DEF Stabilizing, shared
<1>4. CASE /\ anchor = lrs[t] /\ pc'[t] = "take" /\ Keeps(t)
           /\ anchor'[s] = prev[t] /\ anchor'[o] = anchor[o] /\ anchor'.status = anchor.status
  <2>1. PICK n \in In, p \in In :
           n = lrs[t][s] /\ n = anchor[s] /\ p = prev[t] /\ Towards(pos, o, n, p)
    <3>1. /\ s \in Sides /\ lrs[t][s] \in Nodes
          /\ anchor["left"] = anchor.left /\ anchor["right"] = anchor.right
      BY <1>1, <1>2, Registered, Ends DEF Popping
    <3>2. lrs[t][s] \in In /\ lrs[t].left \in In /\ lrs[t].right \in In
      BY <1>1, <1>4, <3>1, Ends DEF Sides
    <3>. QED
      BY <1>1, <1>2, <1>4, <3>2 DEF Read
  <2>2. /\ anchor.status = "stable" /\ anchor'.status = "stable" /\ anchor.left # anchor.right
        /\ s \in Sides /\ o \in Sides /\ o = Opposite(s) /\ \A d \in Sides : d = s \/ d = o
    BY <1>1, <1>2, <1>4, Registered, SidesOf DEF Local, Popping
  <2>3. /\ anchor["left"] = anchor.left /\ anchor["right"] = anchor.right
        /\ anchor'["left"] = anchor'.left /\ anchor'["right"] = anchor'.right
        /\ anchor.left \in In /\ anchor.right \in In /\ anchor[o] \in In /\ anchor[o] # n
    BY <1>1, <1>2, <2>1, <2>2, Ends, AnchorType DEF TypeOK, Sides, Opposite
  <2>4. ~Pushing(t) /\ ~Pushing(t)' /\ ~Took(t) /\ Took(t)' /\ Owned(t) = {}
        /\ lrs'[t] = lrs[t] /\ Side(t)' = Side(t)
    BY <1>1, <1>2, <1>4, SameCallView, KeepsView DEF Local, Popping, Pushing, Took, Owned
  <2>5. Owned(t)' = {n}
    BY <2>1, <2>4 DEF Owned
  <2>6. Local(t)'
    BY <1>1, <1>2, <1>4, <2>4, SameCallView, KeepsView
       DEF Local, Popping, Stabilizing
  <2>7. \A u \in Threads \ {t} :
           /\ Owned(u)' = Owned(u) /\ (Took(u)' <=> Took(u))
           /\ (Pushing(u)' <=> Pushing(u)) /\ node'[u] = node[u]
    BY <1>2, Others
  <2>8. In' = In \ {n}
    BY <1>2, <2>4, <2>5, <2>7 DEF In
  <2>10. \A u \in Threads : Local(u)'
    BY <1>2, <2>6, LocalOthers DEF Whole
  <2>11. Apart'
    <3>1. n \notin free /\ \A u \in Threads : n \notin Owned(u)
      BY <2>1 DEF In
    <3>. QED
      BY <1>2, <2>5, <2>7, <3>1 DEF Apart, Whole
  <2>13. Clean'
    BY <1>2, <2>4, <2>5, <2>7 DEF Whole, Clean
  <2>14. /\ pos[n] \in Int /\ pos[p] \in Int /\ p # n
         /\ \A m \in In : pos[m] \in Int /\ (pos[m] = pos[n] => m = n) /\ (pos[m] = pos[p] => m = p)
         /\ \A m \in In : pos[anchor.left] <= pos[m] /\ pos[m] <= pos[anchor.right]
    <3>1. \A m \in In : pos[m] \in Int
      BY DEF In
    <3>2. p # n
      BY <2>1, <3>1 DEF Towards
    <3>. QED
      BY <1>1, <2>1, <3>1, <3>2 DEF Ordered
  <2>15. \A m \in In' : IF s = "right" THEN pos[m] <= pos[p] ELSE pos[p] <= pos[m]
    <3>. SUFFICES ASSUME NEW m \in In, m # n
                  PROVE  IF s = "right" THEN pos[m] <= pos[p] ELSE pos[p] <= pos[m]
      BY <2>8
    <3>1. pos[m] \in Int /\ pos[m] # pos[n]
      BY <2>14
    <3>2. CASE s = "right"
      BY <2>1, <2>3, <2>14, <3>1, <3>2 DEF Towards, Opposite
    <3>3. CASE s = "left"
      BY <2>1, <2>3, <2>14, <3>1, <3>3 DEF Towards, Opposite
    <3>. QED
      BY <2>2, <3>2, <3>3 DEF Sides
  <2>16. \A m \in In : /\ ~Towards(pos, o, m, n)
                       /\ Towards(pos, s, m, n) => m = p
    <3>. SUFFICES ASSUME NEW m \in In
                  PROVE  ~Towards(pos, o, m, n) /\ (Towards(pos, s, m, n) => m = p)
      OBVIOUS
    <3>1. CASE s = "right"
      BY <2>1, <2>3, <2>14, <3>1 DEF Towards, Opposite
    <3>2. CASE s = "left"
      BY <2>1, <2>3, <2>14, <3>2 DEF Towards, Opposite
    <3>. QED
      BY <2>2, <3>1, <3>2 DEF Sides
  <2>17. Ordered(pos)'
    <3>1. anchor'.left \in In' /\ anchor'.right \in In' /\ anchor'.left # None /\ anchor'.right # None
      <4>1. \A d \in Sides : anchor'[d] \in In'
        BY <1>4, <2>1, <2>2, <2>3, <2>8, <2>14
      <4>. QED
        BY <2>3, <4>1, DequeAssumption DEF In, Sides
    <3>2. \A m \in In' : pos[anchor'.left] <= pos[m] /\ pos[m] <= pos[anchor'.right]
      <4>1. CASE s = "right"
        <5>1. anchor'.left = anchor.left /\ anchor'.right = p
          BY <1>4, <2>1, <2>3, <4>1 DEF Opposite
        <5>. QED
          BY <2>8, <2>14, <2>15, <4>1, <5>1
      <4>2. CASE s = "left"
        <5>1. anchor'.left = p /\ anchor'.right = anchor.right
          BY <1>4, <2>1, <2>3, <4>2 DEF Opposite
        <5>. QED
          BY <2>8, <2>14, <2>15, <4>2, <5>1
      <4>. QED
        BY <2>2, <4>1, <4>2 DEF Sides
    <3>3. \A d \in Sides : \A m \in In' : m # anchor'[d] => \E b \in In' : Towards(pos, d, m, b)
      <4>. SUFFICES ASSUME NEW d \in Sides, NEW m \in In', m # anchor'[d]
                    PROVE  \E b \in In' : Towards(pos, d, m, b)
        OBVIOUS
      <4>1. m \in In /\ m # anchor[d] /\ (d = s => m # p)
        BY <1>4, <2>1, <2>2, <2>8
      <4>2. PICK b \in In : Towards(pos, d, m, b)
        BY <1>1, <4>1 DEF Ordered
      <4>3. b # n
        BY <2>2, <2>16, <4>1, <4>2
      <4>. QED
        BY <2>8, <4>2, <4>3
    <3>4. \A d \in Sides : \A a, b \in In' : Towards(pos, d, a, b) => link[d][a].ptr = b
      BY <1>1, <2>2, <2>8 DEF Ordered, Pushed
    <3>5. \A a, b \in In' : pos[a] = pos[b] => a = b
      BY <1>1, <2>8 DEF Ordered
    <3>. QED
      BY <1>2, <2>2, <3>1, <3>2, <3>3, <3>4, <3>5 DEF Ordered, Unstable, Towards
  <2>18. \A u \in Threads : Read(pos, u)'
    <3>1. Read(pos, t)'
      BY <1>4 DEF Read, Stabilizing, Popping
    <3>2. ASSUME NEW u \in Threads \ {t} PROVE Read(pos, u)'
      <4>1. Read(pos, u) /\ Local(u) /\ TypeOK
        BY DEF Placing, Whole
      <4>2. /\ pc'[u] = pc[u] /\ node'[u] = node[u] /\ lrs'[u] = lrs[u]
            /\ prev'[u] = prev[u] /\ prevnext'[u] = prevnext[u]
            /\ Side(u)' = Side(u) /\ Unfinished(u)' = Unfinished(u) /\ End(u)' = End(u)
        BY <1>2, Others
      <4>3. ~Unstable(anchor)' /\ (pc[u] \in Stabilizing => anchor' # lrs[u] /\ anchor # lrs[u])
        BY <2>2, <4>1 DEF Unstable, Local
      <4>4. ASSUME pc[u] = "pop_anchor", lrs[u].left \in In', lrs[u].right \in In'
            PROVE  prev[u] \in In' /\ Towards(pos, Opposite(Side(u)), lrs[u][Side(u)], prev[u])
        <5>. DEFINE l == lrs[u].left
                    r == lrs[u].right
                    q == prev[u]
        <5>1. /\ l \in In /\ r \in In /\ l # n /\ r # n
              /\ l = lrs[u]["left"] /\ r = lrs[u]["right"] /\ Side(u) \in Sides
          BY <2>8, <4>1, <4>4, AnchorType, Registered DEF TypeOK
        <5>2. q \in In /\ Towards(pos, Opposite(Side(u)), lrs[u][Side(u)], q) /\ pos[l] < pos[r]
          BY <4>1, <4>4, <5>1 DEF Read, Popping
        <5>3. /\ pos[l] \in Int /\ pos[r] \in Int /\ pos[q] \in Int
              /\ pos[l] # pos[n] /\ pos[r] # pos[n]
          BY <2>14, <5>1, <5>2
        <5>4. pos[l] <= pos[q] /\ pos[q] <= pos[r]
          <6>1. CASE Side(u) = "right"
            BY <5>1, <5>2, <5>3, <6>1 DEF Towards, Opposite
          <6>2. CASE Side(u) = "left"
            BY <5>1, <5>2, <5>3, <6>2 DEF Towards, Opposite
          <6>. QED
            BY <5>1, <6>1, <6>2 DEF Sides
        <5>5. q # n
          <6>. SUFFICES ASSUME q = n PROVE FALSE
            OBVIOUS
          <6>1. n = anchor.left \/ n = anchor.right
            BY <2>1, <2>2, <2>3 DEF Sides
          <6>2. pos[l] <= pos[n] /\ pos[n] <= pos[r]
            BY <5>4
          <6>3. pos[anchor.left] <= pos[l] /\ pos[r] <= pos[anchor.right]
            BY <2>14, <5>1
          <6>. HIDE DEF l, r, q
          <6>. QED
            BY <2>14, <5>3, <6>1, <6>2, <6>3
        <5>. QED
          BY <2>8, <5>2, <5>5
      <4>5. In' \subseteq In
        BY <2>8
      <4>. QED
        BY <1>2, <4>1, <4>2, <4>3, <4>4, <4>5 DEF Read, Stabilizing, Popping, Towards
    <3>. QED
      BY <3>1, <3>2
  <2>. QED
    BY <1>2, <1>4, <2>1, <2>8, <2>10, <2>11, <2>13, <2>17, <2>18 DEF Whole, Placing
<1>. QED
  BY <1>2, <1>3, <1>4

(* The pool's bits in a node given up are not what a thread compares with. *)
LEMMA TakeStep ==
    ASSUME Whole, NEW pos \in [Nodes -> Int], Placing(pos), NEW t \in Threads, Take(t)
    PROVE  Whole' /\ Placing(pos)' /\ In' = In
<1>1. Ordered(pos) /\ TypeOK /\ Local(t)
  BY DEF Whole, Placing
<1>2. PICK n : n = lrs[t][Side(t)]
  OBVIOUS
<1>3. /\ TypeOK' /\ OthersKeep(t) /\ UNCHANGED <<anchor, uses>>
      /\ pc[t] = "take" /\ pc'[t] = "idle" /\ call'[t] = <<>> /\ node'[t] = None /\ Leaves(t)
      /\ n \in Nodes /\ free' = free \cup {n}
      /\ link'["left"][n].ptr = Wild
      /\ \A d \in Sides, m \in Nodes : d # "left" \/ m # n => link'[d][m] = link[d][m]
  BY <1>1, <1>2, TakeEffect
<1>4. /\ ~Pushing(t) /\ ~Pushing(t)' /\ Owned(t) = {n} /\ Owned(t)' = {} /\ ~Took(t)'
  BY <1>1, <1>2, <1>3 DEF Local, Pushing, IsPush, Owned, Took
<1>5. Local(t)'
  BY <1>3, <1>4 DEF Local, Leaves, Popping, Stabilizing
<1>6. \A u \in Threads \ {t} :
         /\ Owned(u)' = Owned(u) /\ (Took(u)' <=> Took(u))
         /\ (Pushing(u)' <=> Pushing(u)) /\ node'[u] = node[u] /\ n \notin Owned(u)
  BY <1>3, <1>4, Others DEF Whole, Apart
<1>7. In' = In /\ n \notin In
  BY <1>3, <1>4, <1>6 DEF In
<1>9. \A u \in Threads : Local(u)'
  BY <1>3, <1>5, LocalOthers DEF Whole
<1>10. Apart'
  BY <1>3, <1>4, <1>6 DEF Apart, Whole
<1>12. Clean'
  <2>. SUFFICES ASSUME NEW m \in Nodes
                PROVE  \/ m \in free' \/ (\E u \in Threads : Took(u)' /\ m \in Owned(u)')
                       \/ \A s \in Sides : link'[s][m].ptr # Wild
    BY DEF Clean
  <2>1. CASE m = n
    BY <1>3, <2>1
  <2>2. CASE m # n
    BY <1>3, <1>4, <1>6, <2>2 DEF Whole, Clean
  <2>. QED
    BY <2>1, <2>2
<1>13. Ordered(pos)'
  <2>1. \A s \in Sides, m \in In : link'[s][m] = link[s][m]
    BY <1>3, <1>7 DEF In
  <2>. QED
    BY <1>1, <1>3, <1>7, <2>1 DEF Ordered, Unstable, Towards
<1>14. \A u \in Threads : Read(pos, u)'
  <2>1. Read(pos, t)'
    BY <1>3 DEF Read, Stabilizing, Popping
  <2>2. ASSUME NEW u \in Threads \ {t} PROVE Read(pos, u)'
    <3>1. Read(pos, u) /\ Local(u)
      BY DEF Placing, Whole
    <3>2. /\ pc'[u] = pc[u] /\ node'[u] = node[u] /\ lrs'[u] = lrs[u]
          /\ prev'[u] = prev[u] /\ prevnext'[u] = prevnext[u]
          /\ Side(u)' = Side(u) /\ Unfinished(u)' = Unfinished(u) /\ End(u)' = End(u)
      BY <1>3, Others
    <3>3. pc[u] = "push_anchor" =>
             link'[Opposite(Side(u))][node[u]] = link[Opposite(Side(u))][node[u]]
      <4>. SUFFICES ASSUME pc[u] = "push_anchor" PROVE node[u] # n /\ node[u] \in Nodes
                                                       /\ Opposite(Side(u)) \in Sides
        BY <1>3
      <4>1. Pushing(u) /\ node[u] \in Nodes /\ Opposite(Side(u)) \in Sides
        BY <1>1, <3>1, Registered
      <4>. QED
        BY <1>6, <4>1, NodeOfPush
    <3>4. prev[u] \in Nodes =>
             \/ link'[Unfinished(u)][prev[u]] = link[Unfinished(u)][prev[u]]
             \/ prev[u] = n /\ link'[Unfinished(u)][prev[u]].ptr = Wild
      BY <1>3, SidesOf
    <3>5. pc[u] = "link_back" =>
             anchor = lrs[u] \/ link'[Unfinished(u)][prev[u]].ptr # prevnext[u].ptr
      BY <3>1, <3>4 DEF Read, Stabilizing
    <3>6. pc[u] = "stable" /\ anchor = lrs[u] => link'[Unfinished(u)][prev[u]].ptr = End(u)
      BY <1>7, <3>1, <3>4 DEF Read, Stabilizing
    <3>. QED
      BY <1>3, <1>7, <3>1, <3>2, <3>3, <3>5, <3>6
         DEF Read, Towards, Unstable, Half, Stabilizing, Popping
  <2>. QED
    BY <2>1, <2>2
<1>. QED
  BY <1>3, <1>7, <1>9, <1>10, <1>12, <1>13, <1>14 DEF Whole, Placing

-----------------------------------------------------------------------------
(* The invariant holds at first and is kept by every step.                 *)
LEMMA InitInvariant == Init => IInv
<1>. SUFFICES ASSUME Init PROVE IInv
  OBVIOUS
<1>1. TypeOK
  BY Empties, DequeAssumption DEF Init, TypeOK, Labels, Link
<1>2. \A t \in Threads : pc[t] = "idle" /\ call[t] = <<>> /\ lrs[t] = NoAnchor /\ prev[t] = None
                         /\ prevnext[t] = NoLink /\ after[t] = "load"
  BY DEF Init
<1>3. \A t \in Threads : Local(t) /\ Owned(t) = {} /\ ~Pushing(t)
  BY <1>2 DEF Local, Popping, Stabilizing, IsPush, Owned, Pushing, Took, Done
<1>4. Apart
  BY <1>3 DEF Init, Apart
<1>5. NoLink.ptr = None /\ None \notin Nodes /\ None # Wild /\ \A s \in Sides : NoAnchor[s] = None
  BY DequeAssumption DEF NoLink, NoAnchor, Sides
<1>6. \A s \in Sides, n \in Nodes : link[s][n].ptr = None
  BY <1>5 DEF Init
<1>8. Clean
  BY <1>5, <1>6 DEF Clean
<1>9. In = {}
  BY DEF Init, In
<1>10. PICK pos : pos \in [Nodes -> Int]
  <2>1. [n \in Nodes |-> 0] \in [Nodes -> Int]
    OBVIOUS
  <2>. QED
    BY <2>1
<1>11. Ordered(pos)
  BY <1>9 DEF Ordered, Init, NoAnchor, Unstable
<1>12. \A t \in Threads : Read(pos, t)
  BY <1>2 DEF Read, Stabilizing, Popping
<1>. QED
  BY <1>1, <1>3, <1>4, <1>8, <1>10, <1>11, <1>12 DEF IInv, Whole, Placing

LEMMA StepInvariant ==
    ASSUME IInv, FreshNodes, FreshNodes', NEW t \in Threads,
           Step(t) \/ \E s \in Sides : BeginPush(t, s) \/ BeginPushWithoutNode(t, s) \/ BeginPop(t, s)
    PROVE  IInv'
<1>1. PICK pos \in [Nodes -> Int] : Placing(pos)
  BY DEF IInv
<1>2. Whole
  BY DEF IInv
<1>. SUFFICES Whole' /\ \E new \in [Nodes -> Int] : Placing(new)'
  BY DEF IInv
<1>3. CASE Load(t)
  BY <1>1, <1>2, <1>3, LoadStep
<1>4. CASE PushFirst(t)
  BY <1>1, <1>2, <1>4, PushFirstStep
<1>5. CASE PushLink(t)
  BY <1>1, <1>2, <1>5, PushLinkStep
<1>6. CASE PushAnchor(t)
  <2>1. /\ Whole'
        /\ Placing(pos)' \/ \E new \in [Nodes -> Int] : Placing(new)'
    BY <1>1, <1>2, <1>6, PushAnchorStep
  <2>. QED
    BY <2>1
<1>7. CASE ReadPrev(t)
  BY <1>1, <1>2, <1>7, ReadPrevStep
<1>8. CASE CheckPrev(t)
  BY <1>1, <1>2, <1>8, CheckPrevStep
<1>9. CASE ReadPrevnext(t)
  BY <1>1, <1>2, <1>9, ReadPrevnextStep
<1>10. CASE CheckPrevnext(t)
  BY <1>1, <1>2, <1>10, CheckPrevnextStep
<1>11. CASE LinkBack(t)
  BY <1>1, <1>2, <1>11, LinkBackStep
<1>12. CASE MakeStable(t)
  BY <1>1, <1>2, <1>12, MakeStableStep
<1>13. CASE PopLast(t)
  BY <1>1, <1>2, <1>13, PopLastStep
<1>14. CASE PopCheck(t)
  BY <1>1, <1>2, <1>14, PopCheckStep
<1>15. CASE PopPrev(t)
  BY <1>1, <1>2, <1>15, PopPrevStep
<1>16. CASE PopAnchor(t)
  BY <1>1, <1>2, <1>16, PopAnchorStep
<1>17. CASE Take(t)
  BY <1>1, <1>2, <1>17, TakeStep
<1>18. CASE Return(t)
  BY <1>1, <1>2, <1>18, ReturnStep
<1>19. CASE \E s \in Sides : BeginPush(t, s)
  BY <1>1, <1>2, <1>19, BeginPushStep
<1>20. CASE \E s \in Sides : BeginPushWithoutNode(t, s) \/ BeginPop(t, s)
  BY <1>1, <1>2, <1>20, BeginWithoutNodeStep
<1>. QED
  BY <1>3, <1>4, <1>5, <1>6, <1>7, <1>8, <1>9, <1>10, <1>11, <1>12, <1>13, <1>14, <1>15,
     <1>16, <1>17, <1>18, <1>19, <1>20 DEF Step

LEMMA StutterInvariant == IInv /\ UNCHANGED vars => IInv'
<1>. SUFFICES ASSUME IInv, UNCHANGED vars PROVE IInv'
  OBVIOUS
<1>1. PICK pos \in [Nodes -> Int] : Placing(pos)
  BY DEF IInv
<1>. USE DEF vars, shared, local
<1>2. TypeOK'
  BY DEF IInv, Whole, TypeOK
<1>3. \A t \in Threads : Local(t)' /\ Read(pos, t)'
  <2>. SUFFICES ASSUME NEW t \in Threads PROVE Local(t)' /\ Read(pos, t)'
    OBVIOUS
  <2>1. Local(t) /\ Read(pos, t)
    BY <1>1 DEF IInv, Whole, Placing
  <2>2. Local(t)'
    BY <2>1 DEF Local, IsPush, Pushing, Done, Side, Value
  <2>4. Read(pos, t)'
    <3>1. In' = In /\ \A s \in {"left", "right"} : Opposite(s)' = Opposite(s)
      BY DEF In, Owned, Took, Pushing, IsPush, Done, Side
    <3>2. /\ Side(t)' = Side(t) /\ Unfinished(t)' = Unfinished(t) /\ End(t)' = End(t)
          /\ Unstable(anchor)' = Unstable(anchor) /\ Half(anchor)' = Half(anchor)
      BY DEF Side, Unfinished, End, Unstable, Half
    <3>. QED
      BY <2>1, <3>1, <3>2, SMTT(20) DEF Read, Towards
  <2>. QED
    BY <2>2, <2>4
<1>4. Apart' /\ Clean'
  <2>1. Apart /\ Clean
    BY DEF IInv, Whole
  <2>2. \A t \in Threads : Owned(t)' = Owned(t) /\ Took(t)' = Took(t)
    BY DEF Owned, Took, Pushing, IsPush, Done, Side
  <2>3. Apart'
    BY <2>1, <2>2 DEF Apart
  <2>4. Clean'
    BY <2>1, <2>2 DEF Clean
  <2>. QED
    BY <2>3, <2>4
<1>6. Ordered(pos)'
  BY <1>1 DEF Placing, Ordered, In, Owned, Took, Pushing, IsPush, Done, Side, Unstable, Towards
<1>. QED
  BY <1>1, <1>2, <1>3, <1>4, <1>6 DEF IInv, Whole, Placing

LEMMA Invariant == Spec /\ []FreshNodes => []IInv
<1>1. IInv /\ FreshNodes /\ FreshNodes' /\ [Next]_vars => IInv'
  BY StepInvariant, StutterInvariant DEF Next
<1>. QED
  BY <1>1, InitInvariant, PTL DEF Spec

-----------------------------------------------------------------------------
(* What the invariant says of the deque as a whole.                        *)

(* q are the nodes in the deque, in the order that pos gives.              *)
Laid(pos, q) ==
    /\ q \in Seq(In)
    /\ Len(q) = IF In = {} THEN 0 ELSE pos[anchor.right] - pos[anchor.left] + 1
    /\ \A i \in 1 .. Len(q) : pos[q[i]] = pos[anchor.left] + i - 1

(* The walk over the links, as an equation that some function satisfies.   *)
Paths == Seq(Pointer) \ {<<>>}
Goes(path) == path[Len(path)] \in Nodes \ {anchor[Along]} /\ Len(path) < Cardinality(Nodes)
Further(path) == Append(path, link[Along][path[Len(path)]].ptr)
IsWalk(walk) == walk = [path \in Paths |-> IF Goes(path) THEN walk[Further(path)] ELSE path]

(* Where a walk that begins with path may end.                             *)
Completions(path) ==
    {q \in Paths : /\ Len(path) <= Len(q) /\ \A i \in 1 .. Len(path) : q[i] = path[i]
                   /\ \A i \in Len(path) .. Len(q) - 1 :
                         /\ q[i] \in Nodes \ {anchor[Along]} /\ i < Cardinality(Nodes)
                         /\ q[i + 1] = link[Along][q[i]].ptr
                   /\ ~Goes(q)}

LEMMA SizeOfNodes == Cardinality(Nodes) \in Nat
BY FS_CardinalityType, DequeAssumption

LEMMA FurtherPath ==
    ASSUME TypeOK, NEW path \in Paths, Goes(path)
    PROVE  /\ Further(path) \in Paths /\ Len(Further(path)) = Len(path) + 1
           /\ Further(path)[Len(path) + 1] = link[Along][path[Len(path)]].ptr
           /\ \A i \in 1 .. Len(path) : Further(path)[i] = path[i]
           /\ Completions(path) = Completions(Further(path))
<1>. DEFINE n == Len(path)
            p == link[Along][path[n]].ptr
            f == Append(path, p)
<1>1. path \in Seq(Pointer) /\ n \in Nat \ {0} /\ path[n] \in Nodes /\ Along \in Sides
  BY DEF Paths, Goes, Along, Sides
<1>2. p \in Pointer
  BY <1>1 DEF TypeOK, Link
<1>. HIDE DEF p
<1>3. /\ f \in Seq(Pointer) /\ f # <<>> /\ Len(f) = n + 1 /\ f[n + 1] = p
      /\ \A i \in 1 .. n : f[i] = path[i]
  BY <1>1, <1>2
<1>4. Further(path) = f
  BY DEF Further, p
<1>. HIDE DEF f
<1>5. ASSUME NEW q \in Completions(path) PROVE q \in Completions(f)
  <2>1. /\ q \in Paths /\ n <= Len(q) /\ Len(q) \in Nat /\ \A i \in 1 .. n : q[i] = path[i]
        /\ \A i \in n .. Len(q) - 1 :
              /\ q[i] \in Nodes \ {anchor[Along]} /\ i < Cardinality(Nodes)
              /\ q[i + 1] = link[Along][q[i]].ptr
        /\ ~Goes(q)
    BY DEF Completions, Paths
  <2>2. q[n] = path[n]
    BY <1>1, <2>1
  <2>3. Len(q) # n
    BY <2>1, <2>2 DEF Goes
  <2>4. n \in n .. Len(q) - 1
    BY <1>1, <2>1, <2>3
  <2>5. q[n + 1] = p
    BY <2>1, <2>2, <2>4 DEF p
  <2>6. \A i \in 1 .. n + 1 : q[i] = f[i]
    BY <1>1, <1>3, <2>1, <2>5
  <2>. QED
    BY <1>1, <1>3, <2>1, <2>3, <2>6 DEF Completions
<1>6. ASSUME NEW q \in Completions(f) PROVE q \in Completions(path)
  <2>1. /\ q \in Paths /\ n + 1 <= Len(q) /\ Len(q) \in Nat /\ \A i \in 1 .. n + 1 : q[i] = f[i]
        /\ \A i \in n + 1 .. Len(q) - 1 :
              /\ q[i] \in Nodes \ {anchor[Along]} /\ i < Cardinality(Nodes)
              /\ q[i + 1] = link[Along][q[i]].ptr
        /\ ~Goes(q)
    BY <1>3 DEF Completions, Paths
  <2>2. q[n] = path[n] /\ q[n + 1] = p /\ \A i \in 1 .. n : q[i] = path[i]
    BY <1>1, <1>3, <2>1
  <2>3. q[n + 1] = link[Along][q[n]].ptr
    BY <2>2 DEF p
  <2>4. \A i \in n .. Len(q) - 1 : i = n \/ i \in n + 1 .. Len(q) - 1
    BY <1>1, <2>1
  <2>5. q[n] \in Nodes \ {anchor[Along]} /\ n < Cardinality(Nodes)
    BY <2>2 DEF Goes
  <2>. QED
    BY <1>1, <2>1, <2>2, <2>3, <2>4, <2>5 DEF Completions
<1>. QED
  BY <1>3, <1>4, <1>5, <1>6 DEF Paths, p

LEMMA LastPath ==
    ASSUME NEW path \in Paths, ~Goes(path)
    PROVE  Completions(path) = {path}
<1>. DEFINE n == Len(path)
<1>1. path \in Seq(Pointer) /\ n \in Nat \ {0}
  BY DEF Paths
<1>2. path \in Completions(path)
  BY <1>1 DEF Completions
<1>3. ASSUME NEW q \in Completions(path) PROVE q = path
  <2>1. /\ q \in Seq(Pointer) /\ n <= Len(q) /\ Len(q) \in Nat /\ \A i \in 1 .. n : q[i] = path[i]
        /\ \A i \in n .. Len(q) - 1 : q[i] \in Nodes \ {anchor[Along]} /\ i < Cardinality(Nodes)
    BY DEF Completions, Paths
  <2>2. q[n] = path[n]
    BY <1>1, <2>1
  <2>3. Len(q) = n
    <3>. SUFFICES ASSUME n \in n .. Len(q) - 1 PROVE FALSE
      BY <1>1, <2>1
    <3>. QED
      BY <2>1, <2>2 DEF Goes
  <2>. QED
    BY <1>1, <2>1, <2>3
<1>. QED
  BY <1>2, <1>3

LEMMA WalkExists ==
    ASSUME TypeOK
    PROVE  \E walk : IsWalk(walk) /\ Visited = walk[<<anchor[Opposite(Along)]>>]
<1>. DEFINE end == [path \in Paths |-> CHOOSE q \in Completions(path) : TRUE]
<1>1. ASSUME NEW path \in Paths
      PROVE  end[path] = IF Goes(path) THEN end[Further(path)] ELSE path
  <2>1. CASE Goes(path)
    BY <2>1, FurtherPath
  <2>2. CASE ~Goes(path)
    BY <2>2, LastPath
  <2>. QED
    BY <2>1, <2>2
<1>2. IsWalk(end)
  BY <1>1 DEF IsWalk
<1>3. Visited = (CHOOSE walk : IsWalk(walk))[<<anchor[Opposite(Along)]>>]
  BY DEF Visited, IsWalk, Goes, Further, Paths
<1>. HIDE DEF end
<1>. QED
  BY <1>2, <1>3

(* The walk over a chain of links that reaches the other end.              *)
LEMMA WalkAlong ==
    ASSUME TypeOK, NEW q \in Seq(Nodes), q # <<>>, Len(q) <= Cardinality(Nodes),
           q[1] = anchor[Opposite(Along)], q[Len(q)] = anchor[Along],
           \A i \in 1 .. Len(q) - 1 : q[i] # anchor[Along] /\ link[Along][q[i]].ptr = q[i + 1]
    PROVE  Visited = q
<1>1. PICK walk : IsWalk(walk) /\ Visited = walk[<<q[1]>>]
  BY WalkExists
<1>2. Len(q) \in Nat \ {0} /\ (\A i \in 1 .. Len(q) : q[i] \in Nodes) /\ Cardinality(Nodes) \in Nat
  BY SizeOfNodes
<1>. DEFINE First(k) == [i \in 1 .. k |-> q[i]]
            T == {k \in 0 .. Len(q) - 1 : walk[<<q[1]>>] = walk[First(k + 1)]}
<1>3. \A k \in 1 .. Len(q) : First(k) \in Paths /\ Len(First(k)) = k /\ First(k)[k] = q[k]
  <2>. SUFFICES ASSUME NEW k \in 1 .. Len(q)
                PROVE  First(k) \in Paths /\ Len(First(k)) = k /\ First(k)[k] = q[k]
    OBVIOUS
  <2>1. First(k) \in Seq(Nodes) /\ Len(First(k)) = k /\ First(k)[k] = q[k] /\ k # 0
    BY <1>2
  <2>. HIDE DEF First
  <2>2. First(k) \in Seq(Pointer) /\ First(k) # <<>>
    BY <2>1 DEF Pointer
  <2>. QED
    BY <2>1, <2>2 DEF Paths
<1>4. \A path \in Paths : walk[path] = IF Goes(path) THEN walk[Further(path)] ELSE path
  BY <1>1 DEF IsWalk
<1>5. 0 \in T
  <2>1. First(1) = <<q[1]>>
    OBVIOUS
  <2>. QED
    BY <1>2, <2>1
<1>6. ASSUME NEW k \in 0 .. Len(q) - 1 - 1, k \in T PROVE k + 1 \in T
  <2>1. k + 1 \in 1 .. Len(q) - 1 /\ k + 1 \in 1 .. Len(q) /\ k + 1 < Cardinality(Nodes)
    BY <1>2
  <2>2. Goes(First(k + 1))
    BY <1>2, <1>3, <2>1 DEF Goes
  <2>3. Further(First(k + 1)) = Append(First(k + 1), q[k + 2])
    BY <1>3, <2>1 DEF Further
  <2>4. Append(First(k + 1), q[k + 2]) = First(k + 2)
    <3>1. First(k + 1) \in Seq(Nodes) /\ Len(First(k + 1)) = k + 1
      BY <1>2, <2>1
    <3>. QED
      BY <1>2, <2>1, <3>1
  <2>5. walk[First(k + 1)] = walk[First(k + 2)]
    BY <1>3, <1>4, <2>1, <2>2, <2>3, <2>4, SMTT(20)
  <2>6. k + 1 + 1 = k + 2 /\ k + 1 \in 0 .. Len(q) - 1
    BY <2>1
  <2>7. walk[<<q[1]>>] = walk[First(k + 1)]
    BY <1>6
  <2>8. walk[<<q[1]>>] = walk[First(k + 1 + 1)]
    <3>. HIDE DEF First, T
    <3>. QED
      BY <2>5, <2>6, <2>7
  <2>. HIDE DEF First
  <2>. QED
    BY <2>6, <2>8
<1>7. Len(q) - 1 \in T
  <2>. HIDE DEF T
  <2>1. Len(q) - 1 \in Nat
    BY <1>2
  <2>2. 0 .. Len(q) - 1 \subseteq T
    BY <1>5, <1>6, <2>1, SetInduction
  <2>. QED
    BY <2>1, <2>2
<1>8. First(Len(q)) = q
  BY <1>2
<1>9. ~Goes(q)
  BY DEF Goes
<1>10. Visited = walk[q]
  <2>1. Len(q) - 1 + 1 = Len(q)
    BY <1>2
  <2>2. walk[<<q[1]>>] = walk[First(Len(q) - 1 + 1)]
    BY <1>7
  <2>. HIDE DEF First, T
  <2>. QED
    BY <1>1, <1>8, <2>1, <2>2
<1>11. q \in Paths
  BY DEF Paths, Pointer
<1>. QED
  BY <1>4, <1>9, <1>10, <1>11

LEMMA LaidOut ==
    ASSUME Whole, NEW pos \in [Nodes -> Int], Ordered(pos)
    PROVE  \E q : Laid(pos, q)
<1>. DEFINE lo == pos[anchor.left]
            hi == pos[anchor.right]
<1>1. CASE In = {}
  <2>1. <<>> \in Seq(In) /\ Len(<<>>) = 0
    OBVIOUS
  <2>2. Laid(pos, <<>>)
    BY <1>1, <2>1 DEF Laid
  <2>. QED
    BY <2>2
<1>2. CASE In # {}
  <2>1. anchor.left \in In /\ anchor.right \in In /\ anchor["right"] = anchor.right
    BY <1>2, Ends
  <2>2. /\ lo \in Int /\ hi \in Int /\ lo <= hi /\ \A m \in In : pos[m] \in Int /\ pos[m] <= hi
    BY <2>1 DEF Ordered, In
  <2>. DEFINE T == {k \in 0 .. hi - lo : \E m \in In : pos[m] = lo + k}
  <2>3. 0 \in T
    BY <2>1, <2>2
  <2>4. ASSUME NEW k \in 0 .. hi - lo - 1, k \in T PROVE k + 1 \in T
    <3>1. PICK m \in In : pos[m] = lo + k
      BY <2>4
    <3>2. m # anchor["right"]
      BY <2>1, <2>2, <3>1
    <3>3. PICK b \in In : pos[b] = pos[m] + 1
      BY <3>2 DEF Ordered, Towards, Sides
    <3>4. pos[b] = lo + (k + 1)
      BY <2>2, <3>1, <3>3
    <3>. QED
      BY <2>2, <3>4
  <2>5. 0 .. hi - lo \subseteq T
    <3>. HIDE DEF T
    <3>1. hi - lo \in Nat
      BY <2>2
    <3>. QED
      BY <2>3, <2>4, <3>1, SetInduction
  <2>6. ASSUME NEW i \in 1 .. hi - lo + 1
        PROVE  \E m \in In : pos[m] = lo + i - 1
    <3>1. i - 1 \in T /\ lo + (i - 1) = lo + i - 1
      BY <2>2, <2>5
    <3>. QED
      BY <3>1
  <2>7. PICK n \in Nat : n = hi - lo + 1
    BY <2>2
  <2>. DEFINE At(i) == CHOOSE m \in In : pos[m] = lo + i - 1
              q == [i \in 1 .. n |-> At(i)]
  <2>8. \A i \in 1 .. n : At(i) \in In /\ pos[At(i)] = lo + i - 1
    BY <2>6, <2>7
  <2>. HIDE DEF At
  <2>9. q \in Seq(In) /\ Len(q) = n /\ \A i \in 1 .. Len(q) : pos[q[i]] = lo + i - 1
    BY <2>8
  <2>. HIDE DEF q
  <2>10. Laid(pos, q)
    BY <1>2, <2>7, <2>9 DEF Laid
  <2>. QED
    BY <2>10
<1>. QED
  BY <1>1, <1>2

LEMMA LaidFacts ==
    ASSUME Whole, NEW pos \in [Nodes -> Int], Ordered(pos), NEW q, Laid(pos, q)
    PROVE  /\ q \in Seq(Nodes) /\ Len(q) <= Cardinality(Nodes)
           /\ \A i \in 1 .. Len(q) : q[i] \in In /\ q[i] \in Nodes
           /\ \A i, j \in 1 .. Len(q) : q[i] = q[j] => i = j
           /\ \A i, j \in 1 .. Len(q) : (j = i + 1) <=> Towards(pos, "right", q[i], q[j])
           /\ \A i, j \in 1 .. Len(q) : (j = i + 1) <=> Towards(pos, "left", q[j], q[i])
           /\ \A m \in In : \E i \in 1 .. Len(q) : q[i] = m
           /\ Len(q) = 0 <=> In = {}
           /\ Len(q) # 0 => q[1] = anchor.left /\ q[Len(q)] = anchor.right
<1>1. /\ q \in Seq(In) /\ q \in Seq(Nodes) /\ Len(q) \in Nat
      /\ \A i \in 1 .. Len(q) : q[i] \in In /\ q[i] \in Nodes /\ pos[q[i]] \in Int
  BY DEF Laid, In
<1>2. CASE In = {}
  BY <1>1, <1>2, SizeOfNodes DEF Laid
<1>3. CASE In # {}
  <2>. DEFINE lo == pos[anchor.left]
              hi == pos[anchor.right]
  <2>1. anchor.left \in In /\ anchor.right \in In
    BY <1>3, Ends
  <2>2. /\ lo \in Int /\ hi \in Int /\ lo <= hi
        /\ \A m \in In : pos[m] \in Int /\ lo <= pos[m] /\ pos[m] <= hi
    BY <2>1 DEF Ordered, In
  <2>3. /\ Len(q) = hi - lo + 1 /\ \A i \in 1 .. Len(q) : pos[q[i]] = lo + i - 1
    BY <1>3 DEF Laid
  <2>4. \A i, j \in 1 .. Len(q) : q[i] = q[j] => i = j
    BY <1>1, <2>2, <2>3
  <2>5. /\ \A i, j \in 1 .. Len(q) : (j = i + 1) <=> Towards(pos, "right", q[i], q[j])
        /\ \A i, j \in 1 .. Len(q) : (j = i + 1) <=> Towards(pos, "left", q[j], q[i])
    BY <1>1, <2>2, <2>3, SMTT(20) DEF Towards
  <2>6. ASSUME NEW m \in In PROVE \E i \in 1 .. Len(q) : q[i] = m
    <3>1. pos[m] - lo + 1 \in 1 .. Len(q) /\ pos[q[pos[m] - lo + 1]] = pos[m]
      BY <2>2, <2>3
    <3>. QED
      BY <1>1, <3>1 DEF Ordered
  <2>7. q[1] = anchor.left /\ q[Len(q)] = anchor.right
    <3>. HIDE DEF lo, hi
    <3>1. 1 \in 1 .. Len(q) /\ Len(q) \in 1 .. Len(q)
      BY <2>2, <2>3
    <3>2. pos[q[1]] = lo + 1 - 1 /\ pos[q[Len(q)]] = lo + Len(q) - 1
      BY <2>3, <3>1
    <3>3. pos[q[1]] = lo /\ pos[q[Len(q)]] = hi
      BY <2>2, <2>3, <3>2
    <3>. QED
      BY <1>1, <2>1, <3>1, <3>3 DEF Ordered, lo, hi
  <2>8. Len(q) <= Cardinality(Nodes)
    <3>1. q \in Injection(1 .. Len(q), Nodes)
      BY <1>1, <2>4 DEF Injection, IsInjective
    <3>2. Cardinality(1 .. Len(q)) <= Cardinality(Nodes)
      BY <3>1, FS_Injection, DequeAssumption
    <3>3. Cardinality(1 .. Len(q)) = Len(q)
      <4>1. Len(q) \in Int /\ 1 \in Int /\ ~(1 > Len(q)) /\ Len(q) - 1 + 1 = Len(q)
        BY <1>1, <2>2, <2>3
      <4>2. Cardinality(1 .. Len(q)) = IF 1 > Len(q) THEN 0 ELSE Len(q) - 1 + 1
        BY <4>1, FS_Interval
      <4>. QED
        BY <4>1, <4>2
    <3>. QED
      BY <3>2, <3>3
  <2>9. Len(q) # 0
    BY <2>2, <2>3
  <2>. QED
    BY <1>1, <1>3, <2>4, <2>5, <2>6, <2>7, <2>8, <2>9
<1>. QED
  BY <1>2, <1>3

(* Only one sequence is laid out by pos.                                   *)
LEMMA LaidUnique ==
    ASSUME Whole, NEW pos \in [Nodes -> Int], Ordered(pos), NEW q, NEW r,
           Laid(pos, q), Laid(pos, r)
    PROVE  q = r
<1>1. /\ q \in Seq(In) /\ r \in Seq(In) /\ Len(q) = Len(r)
      /\ \A i \in 1 .. Len(q) : q[i] \in In /\ r[i] \in In /\ pos[q[i]] = pos[r[i]]
  BY DEF Laid
<1>2. \A i \in 1 .. Len(q) : q[i] = r[i]
  BY <1>1 DEF Ordered
<1>. QED
  BY <1>1, <1>2

(* The walk finds the nodes of the deque in their order.                   *)
LEMMA ContentsLaid ==
    ASSUME Whole, NEW pos \in [Nodes -> Int], Ordered(pos)
    PROVE  Laid(pos, Contents)
<1>1. PICK q : Laid(pos, q)
  BY LaidOut
<1>2. /\ q \in Seq(Nodes) /\ Len(q) <= Cardinality(Nodes)
      /\ \A i \in 1 .. Len(q) : q[i] \in In /\ q[i] \in Nodes
      /\ \A i, j \in 1 .. Len(q) : q[i] = q[j] => i = j
      /\ \A i, j \in 1 .. Len(q) : (j = i + 1) <=> Towards(pos, "right", q[i], q[j])
      /\ \A i, j \in 1 .. Len(q) : (j = i + 1) <=> Towards(pos, "left", q[j], q[i])
      /\ \A m \in In : \E i \in 1 .. Len(q) : q[i] = m
      /\ Len(q) = 0 <=> In = {}
      /\ Len(q) # 0 => q[1] = anchor.left /\ q[Len(q)] = anchor.right
  BY <1>1, LaidFacts
<1>3. /\ anchor["left"] = anchor.left /\ anchor["right"] = anchor.right
      /\ (anchor.left = None <=> In = {}) /\ TypeOK
      /\ \A s \in Sides : \A n, m \in In :
            Towards(pos, s, n, m) =>
               link[s][n].ptr = m \/ (anchor.status = Pushed(s) /\ m = anchor[s])
  BY Ends DEF Ordered, Whole
<1>. SUFFICES Contents = q
  BY <1>1
<1>4. CASE Len(q) = 0
  <2>1. q = <<>>
    BY <1>2, <1>4
  <2>2. Contents = <<>>
    BY <1>2, <1>3, <1>4 DEF Contents, Inside
  <2>. QED
    BY <2>1, <2>2
<1>5. CASE Len(q) # 0 /\ Along = "right"
  <2>1. q # <<>> /\ Len(q) \in Nat \ {0}
    BY <1>2, <1>5
  <2>2. anchor.status # Pushed("right") /\ "right" \in Sides
    BY <1>5 DEF Along, Pushed, Sides
  <2>3. \A i \in 1 .. Len(q) - 1 : q[i] # anchor["right"] /\ link["right"][q[i]].ptr = q[i + 1]
    <3>. SUFFICES ASSUME NEW i \in 1 .. Len(q) - 1
                  PROVE  q[i] # anchor["right"] /\ link["right"][q[i]].ptr = q[i + 1]
      OBVIOUS
    <3>1. /\ i \in 1 .. Len(q) /\ i + 1 \in 1 .. Len(q) /\ Len(q) \in 1 .. Len(q) /\ i # Len(q)
      BY <2>1
    <3>2. Towards(pos, "right", q[i], q[i + 1]) /\ q[i] \in In /\ q[i + 1] \in In
      BY <1>2, <3>1
    <3>3. q[i] # q[Len(q)]
      BY <1>2, <3>1
    <3>4. link["right"][q[i]].ptr = q[i + 1]
      BY <1>3, <2>2, <3>2
    <3>. QED
      BY <1>2, <1>3, <1>5, <3>3, <3>4
  <2>4. Visited = q
    BY <1>2, <1>3, <1>5, <2>1, <2>3, WalkAlong DEF Opposite
  <2>. QED
    BY <1>2, <1>3, <1>5, <2>4 DEF Contents, Inside
<1>6. CASE Len(q) # 0 /\ Along = "left"
  <2>. DEFINE r == [i \in 1 .. Len(q) |-> q[Len(q) - i + 1]]
  <2>1. q # <<>> /\ Len(q) \in Nat \ {0}
    BY <1>2, <1>6
  <2>2. anchor.status # Pushed("left") /\ "left" \in Sides
    BY <1>6 DEF Along, Pushed, Sides
  <2>3. /\ r \in Seq(Nodes) /\ Len(r) = Len(q) /\ r # <<>>
        /\ r[1] = anchor.right /\ r[Len(r)] = anchor.left
    <3>1. \A i \in 1 .. Len(q) : Len(q) - i + 1 \in 1 .. Len(q) /\ r[i] = q[Len(q) - i + 1]
      BY <2>1
    <3>2. Len(q) - 1 + 1 = Len(q) /\ Len(q) - Len(q) + 1 = 1
      BY <2>1
    <3>3. r \in Seq(Nodes) /\ Len(r) = Len(q)
      BY <1>2, <2>1, <3>1
    <3>4. r[1] = anchor.right /\ r[Len(q)] = anchor.left
      BY <1>2, <1>6, <2>1, <3>1, <3>2
    <3>5. r # <<>>
      BY <2>1, <3>3
    <3>. HIDE DEF r
    <3>. QED
      BY <3>3, <3>4, <3>5
  <2>4. ASSUME NEW i \in 1 .. Len(r) - 1
        PROVE  r[i] # anchor["left"] /\ link["left"][r[i]].ptr = r[i + 1]
    <3>. DEFINE j == Len(q) - i
    <3>1. /\ j \in 1 .. Len(q) /\ j + 1 \in 1 .. Len(q) /\ 1 \in 1 .. Len(q) /\ j + 1 # 1
          /\ Len(q) - i + 1 = j + 1 /\ Len(q) - (i + 1) + 1 = j
          /\ i \in 1 .. Len(q) /\ i + 1 \in 1 .. Len(q)
      BY <2>1, <2>3
    <3>2. r[i] = q[j + 1] /\ r[i + 1] = q[j]
      BY <3>1
    <3>. HIDE DEF j, r
    <3>3. Towards(pos, "left", q[j + 1], q[j]) /\ q[j] \in In /\ q[j + 1] \in In
      BY <1>2, <3>1
    <3>4. q[j + 1] # q[1]
      BY <1>2, <3>1
    <3>. QED
      BY <1>2, <1>3, <1>6, <2>2, <3>2, <3>3, <3>4
  <2>5. Visited = r
    <3>. HIDE DEF r
    <3>. QED
      BY <1>2, <1>3, <1>6, <2>3, <2>4, WalkAlong DEF Opposite
  <2>6. Reverse(r) = q
    <3>1. \A i \in 1 .. Len(q) : Len(q) - i + 1 \in 1 .. Len(q) /\ Len(q) - (Len(q) - i + 1) + 1 = i
      BY <2>1
    <3>2. \A i \in 1 .. Len(q) : r[Len(q) - i + 1] = q[i]
      BY <3>1
    <3>. HIDE DEF r
    <3>3. Reverse(r) = [i \in 1 .. Len(q) |-> q[i]]
      BY <2>3, <3>2 DEF Reverse
    <3>. QED
      BY <1>2, <3>3
  <2>. HIDE DEF r
  <2>. QED
    BY <1>2, <1>3, <1>6, <2>3, <2>5, <2>6 DEF Contents, Inside
<1>. QED
  BY <1>4, <1>5, <1>6 DEF Along

LEMMA Soundness == IInv => DequeSound
<1>. SUFFICES ASSUME IInv PROVE DequeSound
  OBVIOUS
<1>1. PICK pos \in [Nodes -> Int] : Ordered(pos)
  BY DEF IInv, Placing
<1>2. Whole /\ TypeOK
  BY DEF IInv, Whole
<1>3. PICK q : q = Contents
  OBVIOUS
<1>4. Laid(pos, q)
  BY <1>1, <1>2, <1>3, ContentsLaid
<1>5. /\ q \in Seq(Nodes)
      /\ \A i \in 1 .. Len(q) : q[i] \in In /\ q[i] \in Nodes
      /\ \A i, j \in 1 .. Len(q) : q[i] = q[j] => i = j
      /\ \A i, j \in 1 .. Len(q) : (j = i + 1) <=> Towards(pos, "right", q[i], q[j])
      /\ \A i, j \in 1 .. Len(q) : (j = i + 1) <=> Towards(pos, "left", q[j], q[i])
      /\ \A m \in In : \E i \in 1 .. Len(q) : q[i] = m
      /\ Len(q) = 0 <=> In = {}
      /\ Len(q) # 0 => q[1] = anchor.left /\ q[Len(q)] = anchor.right
  BY <1>1, <1>2, <1>4, LaidFacts
<1>6. DOMAIN q = 1 .. Len(q) /\ Len(q) \in Nat
  BY <1>5
<1>7. Range(q) = In /\ IsInjective(q)
  BY <1>5, <1>6 DEF Range, IsInjective
<1>8. OnePlace
  <2>1. anchor.left # None => q # <<>>
    BY <1>1, <1>5, <1>6 DEF Ordered
  <2>2. ASSUME NEW t \in Threads PROVE Owned(t) \subseteq Nodes /\ Owned(t) \cap (In \cup free) = {}
    <3>1. Local(t)
      BY <1>2 DEF Whole
    <3>2. Owned(t) \subseteq Nodes
      <4>1. pc[t] = "take" => lrs[t][Side(t)] \in Nodes
        BY <1>2, <3>1, Registered
      <4>2. Pushing(t) => node[t] \in Nodes
        BY <3>1 DEF Local
      <4>. QED
        BY <4>1, <4>2, OwnedView
    <3>. QED
      BY <1>2, <3>2 DEF Whole, Apart, In
  <2>3. Nodes = In \cup free \cup UNION {Owned(t) : t \in Threads}
    BY <1>2, <2>2 DEF In, TypeOK
  <2>4. In \cap free = {}
    BY DEF In
  <2>5. \A t, u \in Threads : t # u => Owned(t) \cap Owned(u) = {}
    BY <1>2 DEF Whole, Apart
  <2>. QED
    BY <1>3, <1>7, <2>1, <2>2, <2>3, <2>4, <2>5 DEF OnePlace, Placed
<1>9. Neighbours
  <2>. SUFFICES ASSUME NEW i \in 1 .. Len(q) - 1
                PROVE  /\ \/ link["right"][q[i]].ptr = q[i + 1]
                          \/ anchor.status = "rpush" /\ i = Len(q) - 1
                       /\ \/ link["left"][q[i + 1]].ptr = q[i]
                          \/ anchor.status = "lpush" /\ i = 1
    BY <1>3 DEF Neighbours, Linked
  <2>1. /\ i \in 1 .. Len(q) /\ i + 1 \in 1 .. Len(q) /\ 1 \in 1 .. Len(q)
        /\ Len(q) \in 1 .. Len(q) /\ Len(q) # 0
    BY <1>6
  <2>2. /\ Towards(pos, "right", q[i], q[i + 1]) /\ Towards(pos, "left", q[i + 1], q[i])
        /\ q[i] \in In /\ q[i + 1] \in In
    BY <1>5, <2>1
  <2>3. /\ anchor["left"] = anchor.left /\ anchor["right"] = anchor.right
        /\ "left" \in Sides /\ "right" \in Sides
        /\ Pushed("left") = "lpush" /\ Pushed("right") = "rpush"
    BY <1>1, <1>2, Ends DEF Sides, Pushed
  <2>4. /\ link["right"][q[i]].ptr = q[i + 1] \/ (anchor.status = "rpush" /\ q[i + 1] = q[Len(q)])
        /\ link["left"][q[i + 1]].ptr = q[i] \/ (anchor.status = "lpush" /\ q[i] = q[1])
    BY <1>1, <1>5, <2>1, <2>2, <2>3 DEF Ordered
  <2>5. /\ q[i + 1] = q[Len(q)] => i = Len(q) - 1
        /\ q[i] = q[1] => i = 1
    BY <1>5, <1>6, <2>1, SMTT(20)
  <2>. QED
    BY <2>4, <2>5
<1>10. NoWildPointer
  BY <1>2 DEF NoWildPointer, Whole, Local
<1>. QED
  BY <1>2, <1>8, <1>9, <1>10 DEF DequeSound

(* The deque is whole between any two steps, and no thread ever follows a  *)
(* pointer out of a node that was given up, for any number of threads and  *)
(* nodes, any number of uses of a node and any width of the tags, as long  *)
(* as no node is pushed again while a stalled thread remembers it.         *)
THEOREM DequeKeepsItsNodes == Spec /\ []FreshNodes => []DequeSound
BY Invariant, Soundness, PTL

LEMMA LinkBackLooks ==
    IInv => \A t \in Threads : LinkBack(t) /\ link' # link => anchor = lrs[t]
<1>. SUFFICES ASSUME IInv, NEW t \in Threads, LinkBack(t), link' # link PROVE anchor = lrs[t]
  OBVIOUS
<1>1. PICK pos : Read(pos, t)
  BY DEF IInv, Placing
<1>2. pc[t] = "link_back" /\ link[Unfinished(t)][prev[t]] = prevnext[t]
  BY DEF LinkBack
<1>. QED
  BY <1>1, <1>2 DEF Read

(* stabilize() changes a node's link only while the anchor still is the    *)
(* one it has loaded: a link that changed and changed back cannot mislead  *)
(* it, even without tags: what the tags are for can only come of a node    *)
(* pushed again while a stalled thread remembers it.                       *)
THEOREM LinksAreNotMistaken == Spec /\ []FreshNodes => NoABA
<1>1. IInv /\ [Next]_vars => [\A t \in Threads : LinkBack(t) /\ link' # link => anchor = lrs[t]]_vars
  BY LinkBackLooks
<1>. QED
  BY <1>1, Invariant, PTL DEF Spec, NoABA

-----------------------------------------------------------------------------
(* The deque implements the double-ended queue.                            *)
Items == ValuesOf(Contents)
CallOf(t) == IF pc[t] = "null" THEN <<>> ELSE call[t]
Calls == [t \in Threads |-> CallOf(t)]
Results == [t \in Threads |-> ResultOf(t)]

(* t's call and result become c and r, nobody else's change.               *)
Sees(t, c, r) == Calls' = [Calls EXCEPT ![t] = c] /\ Results' = [Results EXCEPT ![t] = r]

LEMMA AbstractVars == Abstract!vars = <<Items, Calls, Results>>
BY DEF Abstract!vars, Items, Calls, Results, CallOf

LEMMA AbstractSides == Abstract!Sides = Sides
BY DEF Abstract!Sides, Sides

LEMMA SameEntry ==
    ASSUME NEW t \in Threads
    PROVE  /\ [Calls EXCEPT ![t] = Calls[t]] = Calls
           /\ [Results EXCEPT ![t] = Results[t]] = Results
BY DEF Calls, Results

LEMMA AbstractInvoke ==
    ASSUME NEW t \in Threads, Calls[t] = <<>>, Items' = Items,
           NEW c, c \in {"push"} \X Sides \X Values \cup {"pop"} \X Sides,
           Sees(t, c, Results[t])
    PROVE  Abstract!Next
<1>1. Calls' = [Calls EXCEPT ![t] = c] /\ Results' = Results
  BY SameEntry DEF Sees
<1>2. \E s \in Sides : \/ \E v \in Values : Calls' = [Calls EXCEPT ![t] = <<"push", s, v>>]
                      \/ Calls' = [Calls EXCEPT ![t] = <<"pop", s>>]
  <2>1. CASE c \in {"push"} \X Sides \X Values
    <3>1. PICK s \in Sides, v \in Values : c = <<"push", s, v>>
      BY <2>1
    <3>. QED
      BY <1>1, <3>1
  <2>2. CASE c \in {"pop"} \X Sides
    <3>1. PICK s \in Sides : c = <<"pop", s>>
      BY <2>2
    <3>. QED
      BY <1>1, <3>1
  <2>. QED
    BY <2>1, <2>2
<1>3. Abstract!Invoke(t)
  BY <1>1, <1>2, AbstractSides DEF Abstract!Invoke, Items, Calls, Results, CallOf
<1>. QED
  BY <1>3 DEF Abstract!Next

LEMMA AbstractReturn ==
    ASSUME NEW t \in Threads, Results[t] # <<>>, Items' = Items, Sees(t, <<>>, <<>>)
    PROVE  Abstract!Next
<1>1. Abstract!Return(t)
  BY DEF Sees, Abstract!Return, Items, Calls, Results, CallOf
<1>. QED
  BY <1>1 DEF Abstract!Next

(* t's call is pending: it has neither taken effect nor failed.            *)
Waits(t, kind) ==
    /\ Calls[t] # <<>> /\ Results[t] = <<>>
    /\ Calls[t][1] = kind /\ Calls[t][2] \in Sides

LEMMA AbstractFindEmpty ==
    ASSUME NEW t \in Threads, Waits(t, "pop"), Items = <<>>, Items' = Items,
           Sees(t, Calls[t], <<"false">>)
    PROVE  Abstract!Next
<1>1. Calls' = Calls /\ Results' = [Results EXCEPT ![t] = <<"false">>]
  BY SameEntry DEF Sees
<1>2. Abstract!FindEmpty(t, Calls[t][2])
  BY <1>1 DEF Abstract!FindEmpty, Abstract!Pending, Abstract!TakesEffect,
              Waits, Items, Calls, Results, CallOf
<1>. QED
  BY <1>2 DEF Abstract!Next, Waits, Abstract!Sides, Sides

LEMMA AbstractPush ==
    ASSUME NEW t \in Threads, Waits(t, "push"), NEW v, v = Calls[t][3],
           Items' = IF Calls[t][2] = "left" THEN <<v>> \o Items ELSE Append(Items, v),
           Sees(t, Calls[t], <<"true">>)
    PROVE  Abstract!Next
<1>1. Calls' = Calls /\ Results' = [Results EXCEPT ![t] = <<"true">>]
  BY SameEntry DEF Sees
<1>2. Abstract!Push(t, Calls[t][2])
  BY <1>1 DEF Abstract!Push, Abstract!Pending, Abstract!TakesEffect,
              Waits, Items, Calls, Results, CallOf
<1>. QED
  BY <1>2 DEF Abstract!Next, Waits, Abstract!Sides, Sides

LEMMA AbstractPop ==
    ASSUME NEW t \in Threads, Waits(t, "pop"), Items # <<>>,
           Items' = IF Calls[t][2] = "left" THEN Tail(Items) ELSE Front(Items),
           Sees(t, Calls[t], <<"true", IF Calls[t][2] = "left" THEN Head(Items) ELSE Last(Items)>>)
    PROVE  Abstract!Next
<1>. DEFINE r == <<"true", IF Calls[t][2] = "left" THEN Head(Items) ELSE Last(Items)>>
<1>1. Calls' = Calls /\ Results' = [Results EXCEPT ![t] = r]
  BY SameEntry DEF Sees
<1>2. Abstract!Pop(t, Calls[t][2])
  BY <1>1 DEF Abstract!Pop, Abstract!Pending, Abstract!TakesEffect,
              Abstract!Front, Abstract!Last, Front, Last,
              Waits, Items, Calls, Results, CallOf
<1>. QED
  BY <1>2 DEF Abstract!Next, Waits, Abstract!Sides, Sides

LEMMA OneThreadSees ==
    ASSUME NEW t \in Threads, OthersKeep(t),
           \A u \in Threads \ {t} : Took(u) => uses'[lrs[u][Side(u)]] = uses[lrs[u][Side(u)]],
           NEW c, NEW r, CallOf(t)' = c, ResultOf(t)' = r
    PROVE  Sees(t, c, r)
<1>1. ASSUME NEW u \in Threads \ {t} PROVE CallOf(u)' = CallOf(u) /\ ResultOf(u)' = ResultOf(u)
  <2>1. /\ pc'[u] = pc[u] /\ call'[u] = call[u] /\ lrs'[u] = lrs[u]
        /\ Side(u)' = Side(u) /\ (IsPush(u)' <=> IsPush(u)) /\ (Done(u)' <=> Done(u))
        /\ (Took(u)' <=> Took(u))
    BY Others
  <2>2. CallOf(u)' = CallOf(u)
    BY <2>1 DEF CallOf
  <2>3. Took(u) => Value(lrs[u][Side(u)])' = Value(lrs[u][Side(u)])
    BY <2>1 DEF Value
  <2>4. ResultOf(u)' = ResultOf(u)
    BY <2>1, <2>3 DEF ResultOf
  <2>. QED
    BY <2>2, <2>4
<1>2. Calls' = [u \in Threads |-> CallOf(u)'] /\ Results' = [u \in Threads |-> ResultOf(u)']
  BY DEF Calls, Results
<1>3. Calls' = [Calls EXCEPT ![t] = c]
  BY <1>1, <1>2 DEF Calls
<1>4. Results' = [Results EXCEPT ![t] = r]
  BY <1>1, <1>2 DEF Results
<1>. QED
  BY <1>3, <1>4 DEF Sees

LEMMA AbstractStutter ==
    ASSUME NEW t \in Threads, Sees(t, Calls[t], Results[t]), Items' = Items
    PROVE  UNCHANGED Abstract!vars
<1>1. Calls' = Calls /\ Results' = Results
  BY SameEntry DEF Sees
<1>. QED
  BY <1>1, AbstractVars DEF Abstract!vars, Items, Calls, Results, CallOf

(* The walk, as a fact about any state.                                    *)
LEMMA ContentsByPlace ==
    Whole => \A pos \in [Nodes -> Int] :
                Ordered(pos) => Laid(pos, Contents) /\ \A q : Laid(pos, q) => Contents = q
BY ContentsLaid, LaidUnique

LEMMA ContentsByPlaceNext ==
    (Whole => \A pos \in [Nodes -> Int] :
                 Ordered(pos) => Laid(pos, Contents) /\ \A q : Laid(pos, q) => Contents = q)'
BY ContentsByPlace, PTL

LEMMA SameContents ==
    ASSUME Whole, Whole', NEW pos \in [Nodes -> Int], Ordered(pos), Ordered(pos)', In' = In
    PROVE  Contents' = Contents
<1>1. PICK q : q = Contents
  OBVIOUS
<1>2. Laid(pos, q)
  BY <1>1, ContentsByPlace
<1>3. In # {} => anchor'.left = anchor.left /\ anchor'.right = anchor.right
  <2>. SUFFICES ASSUME In # {} PROVE anchor'.left = anchor.left /\ anchor'.right = anchor.right
    OBVIOUS
  <2>1. anchor.left \in In /\ anchor.right \in In /\ anchor'.left \in In /\ anchor'.right \in In
    BY DEF Ordered
  <2>2. /\ pos[anchor.left] \in Int /\ pos[anchor.right] \in Int
        /\ pos[anchor'.left] \in Int /\ pos[anchor'.right] \in Int
    BY <2>1 DEF In
  <2>3. pos[anchor'.left] = pos[anchor.left] /\ pos[anchor'.right] = pos[anchor.right]
    <3>1. /\ pos[anchor.left] <= pos[anchor'.left] /\ pos[anchor'.right] <= pos[anchor.right]
      BY <2>1 DEF Ordered
    <3>2. /\ pos[anchor'.left] <= pos[anchor.left] /\ pos[anchor.right] <= pos[anchor'.right]
      BY <2>1 DEF Ordered
    <3>. QED
      BY <2>2, <3>1, <3>2
  <2>. QED
    BY <2>1, <2>3 DEF Ordered
<1>4. Laid(pos, q)'
  <2>1. \A i \in 1 .. Len(q) : In # {}
    BY <1>2 DEF Laid
  <2>. QED
    BY <1>2, <1>3, <2>1 DEF Laid
<1>. QED
  BY <1>1, <1>4, ContentsByPlaceNext

(* A value goes with its node as long as the node is not allocated.        *)
KeepsValues == \A n \in Nodes \ free : uses'[n] = uses[n]

LEMMA Shown ==
    ASSUME Whole, NEW t \in Threads, OthersKeep(t), KeepsValues,
           NEW c, NEW r, CallOf(t)' = c, ResultOf(t)' = r
    PROVE  Sees(t, c, r)
<1>1. ASSUME NEW u \in Threads \ {t}, Took(u)
      PROVE  uses'[lrs[u][Side(u)]] = uses[lrs[u][Side(u)]]
  <2>1. lrs[u][Side(u)] \in Nodes
    BY <1>1, Registered DEF Whole, Took
  <2>2. lrs[u][Side(u)] \notin free
    BY <1>1 DEF Whole, Apart, Owned
  <2>. QED
    BY <2>1, <2>2 DEF KeepsValues
<1>. QED
  BY <1>1, OneThreadSees

LEMMA SameItems ==
    ASSUME Whole, Whole', NEW pos \in [Nodes -> Int], Ordered(pos), Ordered(pos)', In' = In,
           KeepsValues
    PROVE  Items' = Items
<1>1. Contents' = Contents /\ Laid(pos, Contents)
  BY SameContents, ContentsByPlace
<1>2. Contents \in Seq(In)
  BY <1>1 DEF Laid
<1>3. \A i \in DOMAIN Contents : Contents[i] \in Nodes \ free
  BY <1>2 DEF In
<1>. QED
  BY <1>1, <1>3 DEF Items, ValuesOf, Value, KeepsValues

LEMMA Views ==
    ASSUME NEW t \in Threads
    PROVE  /\ Calls[t] = CallOf(t) /\ Results[t] = ResultOf(t)
           /\ pc[t] # "null" => CallOf(t) = call[t]
           /\ pc[t] = "null" => CallOf(t) = <<>>
           /\ pc[t] = "take" => ResultOf(t) = <<"true", Value(lrs[t][Side(t)])>>
           /\ pc[t] # "take" /\ IsPush(t) /\ Done(t) => ResultOf(t) = <<"true">>
           /\ pc[t] # "take" /\ ~(IsPush(t) /\ Done(t)) =>
                 ResultOf(t) = IF pc[t] = "false" THEN <<"false">> ELSE <<>>
BY DEF Calls, Results, CallOf, ResultOf, Took

LEMMA ViewsNext ==
    ASSUME NEW t \in Threads
    PROVE  /\ pc'[t] # "null" => CallOf(t)' = call'[t]
           /\ pc'[t] = "null" => CallOf(t)' = <<>>
           /\ pc'[t] = "take" => ResultOf(t)' = <<"true", Value(lrs[t][Side(t)])'>>
           /\ pc'[t] # "take" /\ IsPush(t)' /\ Done(t)' => ResultOf(t)' = <<"true">>
           /\ pc'[t] # "take" /\ ~(IsPush(t)' /\ Done(t)') =>
                 ResultOf(t)' = IF pc'[t] = "false" THEN <<"false">> ELSE <<>>
BY DEF CallOf, ResultOf, Took

(* A step that the caller does not see.                                    *)
LEMMA SilentRefines ==
    ASSUME Whole, Whole', NEW pos \in [Nodes -> Int], Placing(pos), Placing(pos)', In' = In,
           NEW t \in Threads, OthersKeep(t), SameCall(t), UNCHANGED uses,
           pc[t] \notin {"null", "take", "false"}, pc'[t] \notin {"null", "take", "false"},
           Done(t)' <=> Done(t)
    PROVE  UNCHANGED Abstract!vars
<1>1. KeepsValues
  BY DEF KeepsValues
<1>2. Items' = Items
  BY <1>1, SameItems DEF Placing
<1>3. CallOf(t)' = Calls[t] /\ ResultOf(t)' = Results[t]
  BY Views, ViewsNext, SameCallView
<1>4. Sees(t, Calls[t], Results[t])
  BY <1>1, <1>3, Shown
<1>. QED
  BY <1>2, <1>4, AbstractStutter

Silent(t) == \/ PushLink(t) \/ ReadPrev(t) \/ CheckPrev(t) \/ ReadPrevnext(t) \/ CheckPrevnext(t)
             \/ LinkBack(t) \/ MakeStable(t) \/ PopCheck(t) \/ PopPrev(t)

LEMMA SilentStep ==
    ASSUME Whole, FreshNodes, NEW pos \in [Nodes -> Int], Placing(pos), NEW t \in Threads, Silent(t)
    PROVE  Whole' /\ UNCHANGED Abstract!vars
<1>1. TypeOK /\ Local(t) /\ Read(pos, t)
  BY DEF Whole, Placing
<1>2. Whole' /\ Placing(pos)' /\ In' = In
  BY PushLinkStep, ReadPrevStep, CheckPrevStep, ReadPrevnextStep, CheckPrevnextStep,
     LinkBackStep, MakeStableStep, PopCheckStep, PopPrevStep DEF Silent
<1>. DEFINE Told ==
              /\ OthersKeep(t) /\ SameCall(t) /\ UNCHANGED uses
              /\ pc[t] \in {"push_link", "pop_check", "pop_prev"} \cup Stabilizing
              /\ \/ /\ pc'[t] \in {"push_anchor", "pop_prev", "pop_anchor"} \cup Stabilizing
                    /\ after'[t] = after[t]
                 \/ Leaves(t) /\ pc'[t] = after[t] /\ pc[t] \in Stabilizing
                 \/ Leaves(t) /\ pc'[t] = "load" /\ pc[t] = "pop_check"
<1>3. Told
  <2>1. CASE PushLink(t)
    BY <1>1, <2>1, PushLinkEffect, KeepsView
  <2>2. CASE ReadPrev(t)
    BY <1>1, <2>2, ReadPrevEffect DEF Stabilizing, shared
  <2>3. CASE CheckPrev(t)
    BY <1>1, <2>3, CheckPrevEffect, KeepsView DEF Stabilizing, shared
  <2>4. CASE ReadPrevnext(t)
    <3>1. prev[t] \in Nodes
      BY <1>1, <2>4 DEF ReadPrevnext, Read, Stabilizing
    <3>. QED
      BY <1>1, <2>4, <3>1, ReadPrevnextEffect DEF Stabilizing, shared
  <2>5. CASE CheckPrevnext(t)
    BY <1>1, <2>5, CheckPrevnextEffect, KeepsView DEF Stabilizing, shared
  <2>6. CASE LinkBack(t)
    <3>1. prev[t] \in Nodes
      BY <1>1, <2>6 DEF LinkBack, Read, Stabilizing
    <3>. QED
      BY <1>1, <2>6, <3>1, LinkBackEffect, KeepsView DEF Stabilizing
  <2>7. CASE MakeStable(t)
    BY <1>1, <2>7, MakeStableEffect DEF Stabilizing
  <2>8. CASE PopCheck(t)
    BY <1>1, <2>8, PopCheckEffect, KeepsView DEF shared
  <2>9. CASE PopPrev(t)
    BY <1>1, <2>9, PopPrevEffect DEF shared
  <2>. QED
    BY <2>1, <2>2, <2>3, <2>4, <2>5, <2>6, <2>7, <2>8, <2>9 DEF Silent
<1>4. after[t] \in {"load", "true"} /\ (pc[t] = "pop_check" => after[t] = "load")
  BY <1>1 DEF TypeOK, Local, Stabilizing
<1>5. Done(t)' <=> Done(t)
  BY <1>3, <1>4 DEF Done, Stabilizing, Leaves
<1>6. pc[t] \notin {"null", "take", "false"} /\ pc'[t] \notin {"null", "take", "false"}
  BY <1>3, <1>4 DEF Stabilizing
<1>. QED
  BY <1>2, <1>3, <1>5, <1>6, SilentRefines

LEMMA LoadRefines ==
    ASSUME Whole, NEW pos \in [Nodes -> Int], Placing(pos), NEW t \in Threads, Load(t)
    PROVE  Whole' /\ (Abstract!Next \/ UNCHANGED Abstract!vars)
<1>1. Ordered(pos) /\ TypeOK /\ Local(t)
  BY DEF Whole, Placing
<1>2. Whole' /\ Placing(pos)' /\ In' = In
  BY LoadStep
<1>3. /\ OthersKeep(t) /\ SameCall(t) /\ UNCHANGED shared
      /\ pc[t] = "load" /\ after'[t] = after[t] /\ Side(t) \in Sides
      /\ \/ /\ anchor[Side(t)] = None
            /\ pc'[t] = IF IsPush(t) THEN "push_first" ELSE "false"
         \/ pc'[t] \in {"pop_last", "prev", "push_link", "pop_check"}
  BY <1>1, LoadEffect
<1>4. KeepsValues /\ uses' = uses
  BY <1>3 DEF KeepsValues, shared
<1>5. Items' = Items
  BY <1>2, <1>4, SameItems DEF Placing
<1>6. ~Done(t) /\ call[t] # <<>>
  BY <1>1, <1>3 DEF Done, Local, Stabilizing
<1>7. CASE pc'[t] = "false"
  <2>1. ~IsPush(t) /\ anchor[Side(t)] = None
    BY <1>3, <1>7
  <2>2. Items = <<>>
    <3>1. In = {}
      BY <1>1, <1>3, <2>1, Ends, DequeAssumption DEF Sides
    <3>2. Contents = <<>>
      <4>1. Laid(pos, Contents)
        BY <1>1, ContentsByPlace
      <4>. QED
        BY <3>1, <4>1 DEF Laid
    <3>. QED
      BY <3>2 DEF Items, ValuesOf
  <2>3. Waits(t, "pop")
    <3>1. call[t][1] = "pop" /\ call[t][2] \in Sides
      <4>1. call[t] \in {"push", "pop"} \X Sides \cup {"push"} \X Sides \X Values
        BY <1>1, <1>6 DEF TypeOK
      <4>. QED
        BY <1>3, <1>6, <2>1, <4>1 DEF IsPush, Side
    <3>. QED
      BY <1>3, <1>6, <3>1, Views DEF Waits
  <2>4. CallOf(t)' = Calls[t] /\ ResultOf(t)' = <<"false">>
    BY <1>3, <1>7, <2>1, Views, ViewsNext, SameCallView
  <2>5. Sees(t, Calls[t], <<"false">>)
    BY <1>3, <1>4, <2>4, Shown
  <2>. QED
    BY <1>2, <1>5, <2>2, <2>3, <2>5, AbstractFindEmpty
<1>8. CASE pc'[t] # "false"
  <2>1. pc'[t] \notin {"null", "take", "false", "true"}
    BY <1>3, <1>8
  <2>2. ~Done(t)'
    BY <1>3, <1>6, <2>1 DEF Done
  <2>. QED
    BY <1>2, <1>3, <1>4, <1>6, <2>1, <2>2, SilentRefines
<1>. QED
  BY <1>7, <1>8

(* The call of a push, as the abstract queue sees it.                      *)
LEMMA PushWaits ==
    ASSUME TypeOK, NEW t \in Threads, Local(t), Pushing(t), pc[t] # "take", pc[t] # "false"
    PROVE  /\ Waits(t, "push") /\ Calls[t] = call[t]
           /\ Calls[t][2] = Side(t) /\ Calls[t][3] = Value(node[t])
<1>1. call[t] = <<"push", Side(t), Value(node[t])>> /\ pc[t] # "null" /\ IsPush(t) /\ ~Done(t)
  BY DEF Local, Pushing
<1>. DEFINE s == Side(t)
            v == Value(node[t])
            c == <<"push", s, v>>
<1>2. c # <<>> /\ c[1] = "push" /\ c[2] = s /\ c[3] = v
  OBVIOUS
<1>3. s \in Sides
  BY <1>1, CallType DEF IsPush
<1>4. Calls[t] = c
  BY <1>1, Views
<1>5. Results[t] = <<>>
  BY <1>1, Views
<1>6. Calls[t] = call[t]
  BY <1>1, Views
<1>. HIDE DEF c, s, v
<1>7. Waits(t, "push") /\ Calls[t][2] = s /\ Calls[t][3] = v
  BY <1>2, <1>3, <1>4, <1>5 DEF Waits
<1>. QED
  BY <1>6, <1>7 DEF s, v

LEMMA PopWaits ==
    ASSUME TypeOK, NEW t \in Threads, Local(t), pc[t] \in {"pop_last", "pop_anchor"}
    PROVE  /\ Waits(t, "pop") /\ Calls[t] = call[t] /\ Calls[t][2] = Side(t)
<1>1. call[t] # <<>> /\ ~IsPush(t)
  BY DEF Local, Popping
<1>2. call[t] \in {"push", "pop"} \X Sides \cup {"push"} \X Sides \X Values
  BY <1>1 DEF TypeOK
<1>3. call[t][1] = "pop" /\ call[t][2] \in Sides
  BY <1>1, <1>2 DEF IsPush
<1>. QED
  BY <1>1, <1>3, Views DEF Waits, Side

LEMMA ValuesOfMore ==
    ASSUME NEW q \in Seq(Nodes), NEW n \in Nodes
    PROVE  /\ ValuesOf(Append(q, n)) = Append(ValuesOf(q), Value(n))
           /\ ValuesOf(<<n>> \o q) = <<Value(n)>> \o ValuesOf(q)
<1>. DEFINE W == {Value(m) : m \in Nodes}
            w == ValuesOf(q)
<1>1. w \in Seq(W) /\ Len(w) = Len(q) /\ DOMAIN w = 1 .. Len(q) /\ \A i \in 1 .. Len(q) : w[i] = Value(q[i])
  BY DEF ValuesOf
<1>2. Value(n) \in W
  OBVIOUS
<1>. HIDE DEF W, w
<1>3. ValuesOf(Append(q, n)) = Append(w, Value(n))
  <2>. DEFINE a == ValuesOf(Append(q, n))
              b == Append(w, Value(n))
  <2>1. /\ Append(q, n) \in Seq(Nodes) /\ Len(Append(q, n)) = Len(q) + 1
        /\ Append(q, n)[Len(q) + 1] = n /\ \A i \in 1 .. Len(q) : Append(q, n)[i] = q[i]
    OBVIOUS
  <2>2. /\ b \in Seq(W) /\ Len(b) = Len(q) + 1 /\ b[Len(q) + 1] = Value(n)
        /\ \A i \in 1 .. Len(q) : b[i] = Value(q[i])
    BY <1>1, <1>2
  <2>3. a = [i \in 1 .. Len(q) + 1 |-> Value(Append(q, n)[i])]
    BY <2>1 DEF ValuesOf
  <2>. HIDE DEF b
  <2>4. b = [i \in 1 .. Len(q) + 1 |-> b[i]]
    BY <2>2
  <2>5. \A i \in 1 .. Len(q) + 1 : b[i] = Value(Append(q, n)[i])
    BY <2>1, <2>2
  <2>6. a = b
    BY <2>3, <2>4, <2>5
  <2>. QED
    BY <2>6 DEF b
<1>4. ValuesOf(<<n>> \o q) = <<Value(n)>> \o w
  <2>. DEFINE p == <<n>> \o q
              a == ValuesOf(p)
              b == <<Value(n)>> \o w
  <2>1. /\ p \in Seq(Nodes) /\ Len(p) = Len(q) + 1
        /\ p[1] = n /\ \A i \in 2 .. Len(q) + 1 : p[i] = q[i - 1]
    OBVIOUS
  <2>2. /\ b \in Seq(W) /\ Len(b) = Len(q) + 1 /\ b[1] = Value(n)
        /\ \A i \in 2 .. Len(q) + 1 : b[i] = w[i - 1]
    BY <1>1, <1>2
  <2>. HIDE DEF b, p
  <2>3. a = [i \in 1 .. Len(q) + 1 |-> Value(p[i])]
    BY <2>1 DEF ValuesOf
  <2>4. b = [i \in 1 .. Len(q) + 1 |-> b[i]]
    BY <2>2
  <2>5. ASSUME NEW i \in 1 .. Len(q) + 1 PROVE b[i] = Value(p[i])
    <3>1. CASE i = 1
      BY <2>1, <2>2, <3>1
    <3>2. CASE i # 1
      <4>1. i \in 2 .. Len(q) + 1 /\ i - 1 \in 1 .. Len(q)
        BY <3>2
      <4>. QED
        BY <1>1, <2>1, <2>2, <4>1
    <3>. QED
      BY <3>1, <3>2
  <2>6. a = b
    BY <2>3, <2>4, <2>5
  <2>. QED
    BY <2>6 DEF b, p
<1>. QED
  BY <1>3, <1>4 DEF w

LEMMA ValuesOfLess ==
    ASSUME NEW q \in Seq(Nodes), q # <<>>
    PROVE  /\ ValuesOf(Tail(q)) = Tail(ValuesOf(q)) /\ Head(ValuesOf(q)) = Value(q[1])
           /\ ValuesOf(Front(q)) = Front(ValuesOf(q)) /\ Last(ValuesOf(q)) = Value(q[Len(q)])
           /\ ValuesOf(q) # <<>>
           /\ Tail(q) \in Seq(Nodes) /\ Len(Tail(q)) = Len(q) - 1
           /\ \A i \in 1 .. Len(q) - 1 : Tail(q)[i] = q[i + 1]
           /\ Front(q) \in Seq(Nodes) /\ Len(Front(q)) = Len(q) - 1
           /\ \A i \in 1 .. Len(q) - 1 : Front(q)[i] = q[i]
<1>. DEFINE W == {Value(m) : m \in Nodes}
            w == ValuesOf(q)
            n == Len(q) - 1
<1>1. /\ w \in Seq(W) /\ Len(w) = Len(q) /\ DOMAIN w = 1 .. Len(q)
      /\ \A i \in 1 .. Len(q) : w[i] = Value(q[i])
  BY DEF ValuesOf
<1>2. Len(q) \in Nat \ {0} /\ n \in Nat
  OBVIOUS
<1>. HIDE DEF W, w
<1>3. w # <<>> /\ Head(w) = Value(q[1]) /\ Last(w) = Value(q[Len(q)])
  BY <1>1, <1>2 DEF Last
<1>4. Tail(q) \in Seq(Nodes) /\ Len(Tail(q)) = n /\ \A i \in 1 .. n : Tail(q)[i] = q[i + 1]
  BY <1>2
<1>5. Tail(w) \in Seq(W) /\ Len(Tail(w)) = n /\ \A i \in 1 .. n : Tail(w)[i] = w[i + 1]
  BY <1>1, <1>2, <1>3
<1>6. Front(q) \in Seq(Nodes) /\ Len(Front(q)) = n /\ \A i \in 1 .. n : Front(q)[i] = q[i]
  <2>1. q \in Seq(Nodes) /\ Len(q) \in Nat /\ n = Len(q) - 1 /\ n \in Nat
    BY <1>2
  <2>2. \A i \in 1 .. n : q[i] \in Nodes
    BY <2>1
  <2>. HIDE DEF n
  <2>3. /\ SubSeq(q, 1, n) \in Seq(Nodes) /\ Len(SubSeq(q, 1, n)) = n
        /\ \A i \in 1 .. n : SubSeq(q, 1, n)[i] = q[i]
    BY <2>1, <2>2
  <2>. QED
    BY <2>1, <2>3 DEF Front
<1>7. Front(w) \in Seq(W) /\ Len(Front(w)) = n /\ \A i \in 1 .. n : Front(w)[i] = w[i]
  BY <1>1, <1>2, <1>3 DEF Front
<1>8. ValuesOf(Tail(q)) = Tail(w)
  <2>1. PICK b, c : b = Tail(w) /\ c = Tail(q)
    OBVIOUS
  <2>2. b \in Seq(W) /\ Len(b) = n /\ \A i \in 1 .. n : b[i] = w[i + 1]
    BY <1>5, <2>1
  <2>3. c \in Seq(Nodes) /\ Len(c) = n /\ \A i \in 1 .. n : c[i] = q[i + 1]
    BY <1>4, <2>1
  <2>4. \A i \in 1 .. n : i + 1 \in 1 .. Len(q)
    BY <1>2
  <2>. HIDE DEF n
  <2>5. \A i \in 1 .. n : b[i] = Value(c[i])
    BY <1>1, <2>2, <2>3, <2>4
  <2>6. b = [i \in 1 .. n |-> b[i]]
    BY <2>2
  <2>7. ValuesOf(c) = [i \in 1 .. n |-> Value(c[i])]
    BY <2>3 DEF ValuesOf
  <2>8. ValuesOf(c) = b
    BY <2>5, <2>6, <2>7
  <2>. QED
    BY <2>1, <2>8
<1>9. ValuesOf(Front(q)) = Front(w)
  <2>1. ValuesOf(Front(q)) = [i \in 1 .. n |-> Value(Front(q)[i])]
    BY <1>6 DEF ValuesOf
  <2>2. \A i \in 1 .. n : Front(w)[i] = Value(Front(q)[i])
    <3>1. \A i \in 1 .. n : i \in 1 .. Len(q)
      BY <1>2
    <3>. QED
      BY <1>1, <1>6, <1>7, <3>1
  <2>3. Front(w) = [i \in 1 .. n |-> Front(w)[i]]
    BY <1>7
  <2>. QED
    BY <2>1, <2>2, <2>3
<1>. QED
  BY <1>3, <1>4, <1>6, <1>8, <1>9 DEF w

(* The walk after the step, once it is known where the nodes lie.          *)
LEMMA ItemsNext ==
    ASSUME Whole', NEW pos \in [Nodes -> Int], Ordered(pos)', NEW q, Laid(pos, q)',
           uses' = uses
    PROVE  Items' = ValuesOf(q)
<1>1. Contents' = q
  BY ContentsByPlaceNext
<1>. QED
  BY <1>1 DEF Items, ValuesOf, Value

(* A compare_exchange that fails.                                          *)
LEMMA RetryRefines ==
    ASSUME Whole, Whole', NEW pos \in [Nodes -> Int], Placing(pos), Placing(pos)', In' = In,
           NEW t \in Threads, OthersKeep(t), SameCall(t), UNCHANGED uses,
           pc[t] \in {"push_first", "push_anchor", "pop_last", "pop_anchor"},
           pc'[t] = "load", Leaves(t)
    PROVE  UNCHANGED Abstract!vars
<1>1. after[t] # "true"
  BY DEF Whole, Local, Stabilizing
<1>2. ~Done(t) /\ ~Done(t)'
  BY <1>1 DEF Done, Leaves
<1>. QED
  BY <1>2, SilentRefines

(* The node of a push that succeeds now, as the abstract queue sees it.    *)
LEMMA PushRefines ==
    ASSUME Whole, NEW t \in Threads, Pushing(t), pc[t] # "take", pc[t] # "false",
           OthersKeep(t), SameCall(t), uses' = uses,
           pc'[t] \notin {"null", "take"}, Done(t)',
           NEW v, v = Value(node[t]),
           Items' = IF Side(t) = "left" THEN <<v>> \o Items ELSE Append(Items, v)
    PROVE  Abstract!Next
<1>1. TypeOK /\ Local(t)
  BY DEF Whole
<1>2. /\ Waits(t, "push") /\ Calls[t] = call[t]
      /\ Calls[t][2] = Side(t) /\ Calls[t][3] = v
  BY <1>1, PushWaits
<1>3. KeepsValues
  BY DEF KeepsValues
<1>4. IsPush(t)'
  BY SameCallView DEF Pushing
<1>5. CallOf(t)' = Calls[t] /\ ResultOf(t)' = <<"true">>
  BY <1>2, <1>4, ViewsNext, SameCallView
<1>6. Sees(t, Calls[t], <<"true">>)
  BY <1>3, <1>5, Shown
<1>. QED
  BY <1>2, <1>6, AbstractPush

LEMMA PushFirstRefines ==
    ASSUME Whole, FreshNodes, NEW pos \in [Nodes -> Int], Placing(pos), NEW t \in Threads, PushFirst(t)
    PROVE  Whole' /\ (Abstract!Next \/ UNCHANGED Abstract!vars)
<1>1. Ordered(pos) /\ TypeOK /\ Local(t)
  BY DEF Whole, Placing
<1>2. PICK n : n = node[t]
  OBVIOUS
<1>3. /\ Whole' /\ Placing(pos)'
      /\ pc'[t] = "load" => In' = In
      /\ pc'[t] # "load" => In = {} /\ In' = {n}
  BY <1>2, PushFirstStep
<1>4. /\ OthersKeep(t) /\ SameCall(t) /\ UNCHANGED <<link, free, uses>>
      /\ pc[t] = "push_first" /\ Leaves(t)
      /\ \/ /\ anchor = lrs[t] /\ pc'[t] = "true"
            /\ anchor'.left = n /\ anchor'.right = n /\ anchor'.status = anchor.status
         \/ anchor' = anchor /\ pc'[t] = "load"
  BY <1>1, <1>2, PushFirstEffect
<1>5. CASE pc'[t] = "load"
  BY <1>3, <1>4, <1>5, RetryRefines
<1>6. CASE pc'[t] # "load"
  <2>1. In = {} /\ In' = {n} /\ pc'[t] = "true" /\ anchor'.left = n /\ anchor'.right = n
    BY <1>3, <1>4, <1>6
  <2>2. Pushing(t) /\ n \in Nodes
    BY <1>1, <1>2, <1>4, Registered
  <2>3. Items = <<>>
    <3>1. Laid(pos, Contents)
      BY <1>1, ContentsByPlace
    <3>2. Contents = <<>>
      BY <2>1, <3>1 DEF Laid
    <3>. QED
      BY <3>2 DEF Items, ValuesOf
  <2>4. PICK q : q = <<n>>
    OBVIOUS
  <2>5. q \in Seq(In') /\ Len(q) = 1 /\ q[1] = n /\ q \in Seq(Nodes) /\ DOMAIN q = 1 .. 1
    BY <2>1, <2>2, <2>4
  <2>6. Laid(pos, q)'
    <3>1. pos[n] \in Int
      BY <2>2
    <3>. QED
      BY <2>1, <2>5, <3>1 DEF Laid
  <2>7. Items' = ValuesOf(q)
    BY <1>3, <1>4, <2>6, ItemsNext DEF Placing
  <2>8. PICK v : v = Value(n)
    OBVIOUS
  <2>9. ValuesOf(q) = <<v>>
    BY <2>5, <2>8 DEF ValuesOf
  <2>10. <<v>> \o <<>> = <<v>> /\ Append(<<>>, v) = <<v>>
    OBVIOUS
  <2>11. Items' = IF Side(t) = "left" THEN <<v>> \o Items ELSE Append(Items, v)
    BY <2>3, <2>7, <2>9, <2>10
  <2>12. Done(t)'
    BY <2>1 DEF Done
  <2>. QED
    BY <1>2, <1>3, <1>4, <2>1, <2>2, <2>8, <2>11, <2>12, PushRefines
<1>. QED
  BY <1>5, <1>6

LEMMA PushAnchorRefines ==
    ASSUME Whole, FreshNodes, NEW pos \in [Nodes -> Int], Placing(pos), NEW t \in Threads, PushAnchor(t)
    PROVE  Whole' /\ (Abstract!Next \/ UNCHANGED Abstract!vars)
<1>1. Ordered(pos) /\ TypeOK /\ Local(t)
  BY DEF Whole, Placing
<1>2. PICK n, s, e : n = node[t] /\ s = Side(t) /\ e = anchor[s]
  OBVIOUS
<1>3. /\ Whole'
      /\ pc'[t] = "load" => Placing(pos)' /\ In' = In
      /\ pc'[t] # "load" =>
            \E new \in [Nodes -> Int] :
               /\ Placing(new)' /\ In' = In \cup {n}
               /\ new[n] = Beyond(pos, s, e)
               /\ \A m \in In : new[m] = pos[m]
  BY <1>2, PushAnchorStep
<1>4. /\ OthersKeep(t) /\ SameCall(t) /\ UNCHANGED <<link, free, uses>>
      /\ pc[t] = "push_anchor"
      /\ \/ /\ anchor = lrs[t] /\ pc'[t] = "prev" /\ after'[t] = "true"
            /\ anchor'[s] = n /\ anchor'[Opposite(s)] = anchor[Opposite(s)]
         \/ pc'[t] = "load" /\ Leaves(t)
  BY <1>1, <1>2, PushAnchorEffect
<1>5. CASE pc'[t] = "load"
  <2>1. Leaves(t)
    BY <1>4, <1>5
  <2>. QED
    BY <1>3, <1>4, <1>5, <2>1, RetryRefines
<1>6. CASE pc'[t] # "load"
  <2>1. /\ pc'[t] = "prev" /\ after'[t] = "true" /\ anchor = lrs[t]
        /\ anchor'[s] = n /\ anchor'[Opposite(s)] = anchor[Opposite(s)]
    BY <1>4, <1>6
  <2>2. PICK new \in [Nodes -> Int] :
               /\ Placing(new)' /\ In' = In \cup {n}
               /\ new[n] = Beyond(pos, s, e)
               /\ \A m \in In : new[m] = pos[m]
    BY <1>3, <1>6
  <2>3. Pushing(t) /\ n \in Nodes /\ s \in Sides /\ Opposite(s) \in Sides
    BY <1>1, <1>2, <1>4, Registered
  <2>4. /\ anchor.left \in In /\ anchor.right \in In
        /\ anchor["left"] = anchor.left /\ anchor["right"] = anchor.right
    <3>1. \A d \in Sides : anchor[d] \in Nodes
      BY <1>1, <1>4, <2>1, Registered
    <3>. QED
      BY <1>1, <3>1, Ends DEF Sides
  <2>5. anchor' \in Anchor
    BY <1>3 DEF Whole, TypeOK
  <2>6. /\ s = "left" => anchor'.left = n /\ anchor'.right = anchor.right /\ e = anchor.left
        /\ s = "right" => anchor'.left = anchor.left /\ anchor'.right = n /\ e = anchor.right
    BY <1>2, <2>1, <2>4, <2>5, AnchorType DEF Opposite
  <2>7. PICK q : q = Contents
    OBVIOUS
  <2>8. /\ q \in Seq(In) /\ q \in Seq(Nodes) /\ Len(q) = pos[anchor.right] - pos[anchor.left] + 1
        /\ \A i \in 1 .. Len(q) : q[i] \in In /\ pos[q[i]] = pos[anchor.left] + i - 1
    <3>1. Laid(pos, q)
      BY <1>1, <2>7, ContentsByPlace
    <3>2. q \in Seq(Nodes) /\ \A i \in 1 .. Len(q) : q[i] \in In
      BY <1>1, <3>1, LaidFacts
    <3>3. In # {}
      BY <2>4
    <3>. QED
      BY <3>1, <3>2, <3>3 DEF Laid
  <2>9. /\ pos[anchor.left] \in Int /\ pos[anchor.right] \in Int
        /\ new[anchor.left] = pos[anchor.left] /\ new[anchor.right] = pos[anchor.right]
        /\ s = "left" => new[n] = pos[anchor.left] - 1
        /\ s = "right" => new[n] = pos[anchor.right] + 1
        /\ \A i \in 1 .. Len(q) : new[q[i]] = pos[anchor.left] + i - 1
        /\ Len(q) \in Nat /\ In' # {}
    BY <2>2, <2>4, <2>6, <2>8, SMTT(20) DEF Beyond, In
  <2>. DEFINE l == pos[anchor.left]
              h == pos[anchor.right]
  <2>10. /\ l \in Int /\ h \in Int /\ Len(q) = h - l + 1 /\ Len(q) \in Nat
         /\ \A i \in 1 .. Len(q) : new[q[i]] = l + i - 1
         /\ s = "left" => new[n] = l - 1 /\ new[anchor'.left] = l - 1 /\ new[anchor'.right] = h
         /\ s = "right" => new[n] = h + 1 /\ new[anchor'.left] = l /\ new[anchor'.right] = h + 1
    BY <2>6, <2>8, <2>9
  <2>. HIDE DEF l, h
  <2>11. PICK v : v = Value(n)
    OBVIOUS
  <2>12. Items = ValuesOf(q) /\ Ordered(new)'
    BY <2>2, <2>7 DEF Items, Placing
  <2>13. ASSUME s = "right" PROVE Items' = Append(Items, v)
    <3>1. PICK r : r = Append(q, n)
      OBVIOUS
    <3>2. /\ r \in Seq(In') /\ Len(r) = Len(q) + 1 /\ r[Len(q) + 1] = n
          /\ \A i \in 1 .. Len(q) : r[i] = q[i]
      <4>1. q \in Seq(In') /\ n \in In'
        BY <2>2, <2>8
      <4>. QED
        BY <3>1, <4>1
    <3>3. \A i \in 1 .. Len(r) : new[r[i]] = new[anchor'.left] + i - 1
      <4>. SUFFICES ASSUME NEW i \in 1 .. Len(r) PROVE new[r[i]] = new[anchor'.left] + i - 1
        OBVIOUS
      <4>1. CASE i \in 1 .. Len(q)
        BY <2>13, <2>10, <3>2, <4>1
      <4>2. CASE i = Len(q) + 1
        BY <2>13, <2>10, <3>2, <4>2
      <4>. QED
        BY <2>9, <3>2, <4>1, <4>2
    <3>4. Len(r) = new[anchor'.right] - new[anchor'.left] + 1
      BY <2>13, <2>10, <3>2
    <3>5. Laid(new, r)'
      BY <2>9, <3>2, <3>3, <3>4 DEF Laid
    <3>6. Items' = ValuesOf(r)
      BY <1>3, <1>4, <2>12, <3>5, ItemsNext
    <3>. QED
      BY <2>3, <2>8, <2>11, <2>12, <3>1, <3>6, ValuesOfMore
  <2>14. ASSUME s = "left" PROVE Items' = <<v>> \o Items
    <3>1. PICK r : r = <<n>> \o q
      OBVIOUS
    <3>2. /\ r \in Seq(In') /\ Len(r) = Len(q) + 1 /\ r[1] = n
          /\ \A i \in 2 .. Len(q) + 1 : r[i] = q[i - 1]
      <4>1. q \in Seq(In') /\ n \in In'
        BY <2>2, <2>8
      <4>. QED
        BY <3>1, <4>1
    <3>3. \A i \in 1 .. Len(r) : new[r[i]] = new[anchor'.left] + i - 1
      <4>. SUFFICES ASSUME NEW i \in 1 .. Len(r) PROVE new[r[i]] = new[anchor'.left] + i - 1
        OBVIOUS
      <4>1. CASE i = 1
        BY <2>14, <2>10, <3>2, <4>1
      <4>2. CASE i # 1
        <5>1. i \in 2 .. Len(q) + 1 /\ i - 1 \in 1 .. Len(q)
          BY <2>9, <3>2, <4>2
        <5>2. r[i] = q[i - 1] /\ new[q[i - 1]] = l + (i - 1) - 1
          BY <2>10, <3>2, <5>1
        <5>. QED
          BY <2>14, <2>10, <5>1, <5>2
      <4>. QED
        BY <4>1, <4>2
    <3>4. Len(r) = new[anchor'.right] - new[anchor'.left] + 1
      BY <2>14, <2>10, <3>2
    <3>5. Laid(new, r)'
      BY <2>9, <3>2, <3>3, <3>4 DEF Laid
    <3>6. Items' = ValuesOf(r)
      BY <1>3, <1>4, <2>12, <3>5, ItemsNext
    <3>. QED
      BY <2>3, <2>8, <2>11, <2>12, <3>1, <3>6, ValuesOfMore
  <2>15. Items' = IF Side(t) = "left" THEN <<v>> \o Items ELSE Append(Items, v)
    BY <1>2, <2>3, <2>13, <2>14 DEF Sides
  <2>16. Done(t)'
    BY <2>1 DEF Done
  <2>. QED
    BY <1>2, <1>3, <1>4, <2>1, <2>3, <2>11, <2>15, <2>16, PushRefines
<1>. QED
  BY <1>5, <1>6

LEMMA SeqOver ==
    ASSUME NEW S, NEW T, NEW r \in Seq(S), \A i \in 1 .. Len(r) : r[i] \in T
    PROVE  r \in Seq(T)
OBVIOUS

(* The node of a pop that succeeds now, as the abstract queue sees it.     *)
LEMMA PopRefines ==
    ASSUME Whole, NEW t \in Threads, pc[t] \in {"pop_last", "pop_anchor"},
           OthersKeep(t), SameCall(t), uses' = uses, pc'[t] = "take", lrs'[t] = lrs[t],
           NEW n, n = lrs[t][Side(t)], Items # <<>>,
           Value(n) = IF Side(t) = "left" THEN Head(Items) ELSE Last(Items),
           Items' = IF Side(t) = "left" THEN Tail(Items) ELSE Front(Items)
    PROVE  Abstract!Next
<1>1. TypeOK /\ Local(t)
  BY DEF Whole
<1>2. Waits(t, "pop") /\ Calls[t] = call[t] /\ Calls[t][2] = Side(t)
  BY <1>1, PopWaits
<1>3. KeepsValues
  BY DEF KeepsValues
<1>4. lrs'[t][Side(t)'] = n
  BY SameCallView
<1>5. Value(lrs[t][Side(t)])' = Value(n)
  BY <1>4 DEF Value
<1>6. CallOf(t)' = Calls[t] /\ ResultOf(t)' = <<"true", Value(n)>>
  BY <1>2, <1>5, ViewsNext, SameCallView
<1>7. Sees(t, Calls[t], <<"true", Value(n)>>)
  BY <1>3, <1>6, Shown
<1>. QED
  BY <1>2, <1>7, AbstractPop

LEMMA PopLastRefines ==
    ASSUME Whole, NEW pos \in [Nodes -> Int], Placing(pos), NEW t \in Threads, PopLast(t)
    PROVE  Whole' /\ (Abstract!Next \/ UNCHANGED Abstract!vars)
<1>1. Ordered(pos) /\ TypeOK /\ Local(t)
  BY DEF Whole, Placing
<1>2. PICK n : n = lrs[t][Side(t)]
  OBVIOUS
<1>3. /\ Whole' /\ Placing(pos)'
      /\ pc'[t] = "load" => In' = In
      /\ pc'[t] # "load" => In = {n} /\ In' = {}
  BY <1>2, PopLastStep
<1>4. /\ OthersKeep(t) /\ SameCall(t) /\ UNCHANGED <<link, free, uses>>
      /\ pc[t] = "pop_last"
      /\ \/ pc'[t] = "take" /\ lrs'[t] = lrs[t]
         \/ pc'[t] = "load" /\ Leaves(t)
  BY <1>1, PopLastEffect, KeepsView
<1>5. CASE pc'[t] = "load"
  <2>1. Leaves(t)
    BY <1>4, <1>5
  <2>. QED
    BY <1>3, <1>4, <1>5, <2>1, RetryRefines
<1>6. CASE pc'[t] # "load"
  <2>1. In = {n} /\ In' = {} /\ pc'[t] = "take" /\ lrs'[t] = lrs[t]
    BY <1>3, <1>4, <1>6
  <2>2. PICK q : q = Contents
    OBVIOUS
  <2>3. /\ q \in Seq(Nodes) /\ Len(q) \in Nat /\ Len(q) # 0
        /\ \A i \in 1 .. Len(q) : q[i] = n
        /\ \A i, j \in 1 .. Len(q) : q[i] = q[j] => i = j
    <3>1. Laid(pos, q)
      BY <1>1, <2>2, ContentsByPlace
    <3>. QED
      BY <1>1, <2>1, <3>1, LaidFacts, SMTT(20)
  <2>4. Len(q) = 1
    <3>1. 1 \in 1 .. Len(q) /\ Len(q) \in 1 .. Len(q)
      BY <2>3
    <3>. QED
      BY <2>3, <3>1
  <2>5. Items = ValuesOf(q) /\ q # <<>>
    BY <2>2, <2>3 DEF Items
  <2>6. /\ ValuesOf(q) # <<>> /\ Head(ValuesOf(q)) = Value(n) /\ Last(ValuesOf(q)) = Value(n)
        /\ Tail(ValuesOf(q)) = ValuesOf(Tail(q)) /\ Front(ValuesOf(q)) = ValuesOf(Front(q))
        /\ Tail(q) = <<>> /\ Front(q) = <<>>
    <3>1. PICK a, b : a = Tail(q) /\ b = Front(q)
      OBVIOUS
    <3>2. /\ Tail(q) \in Seq(Nodes) /\ Len(Tail(q)) = Len(q) - 1
          /\ Front(q) \in Seq(Nodes) /\ Len(Front(q)) = Len(q) - 1
      BY <2>3, <2>5, ValuesOfLess
    <3>3. Len(q) - 1 = 0
      BY <2>4
    <3>4. a \in Seq(Nodes) /\ b \in Seq(Nodes) /\ Len(a) = 0 /\ Len(b) = 0
      BY <3>1, <3>2, <3>3
    <3>5. a = <<>> /\ b = <<>>
      BY <3>4
    <3>6. q[1] = n /\ q[Len(q)] = n
      BY <2>3, <2>4
    <3>. QED
      BY <2>3, <2>5, <3>1, <3>5, <3>6, ValuesOfLess
  <2>7. Items' = ValuesOf(<<>>)
    <3>1. Laid(pos, <<>>)'
      BY <2>1 DEF Laid
    <3>. QED
      BY <1>3, <1>4, <3>1, ItemsNext DEF Placing
  <2>. QED
    BY <1>2, <1>3, <1>4, <2>1, <2>5, <2>6, <2>7, PopRefines
<1>. QED
  BY <1>5, <1>6

LEMMA PopAnchorRefines ==
    ASSUME Whole, NEW pos \in [Nodes -> Int], Placing(pos), NEW t \in Threads, PopAnchor(t)
    PROVE  Whole' /\ (Abstract!Next \/ UNCHANGED Abstract!vars)
<1>1. Ordered(pos) /\ TypeOK /\ Local(t) /\ Read(pos, t)
  BY DEF Whole, Placing
<1>2. PICK n, s, p : n = lrs[t][s] /\ s = Side(t) /\ p = prev[t]
  OBVIOUS
<1>3. /\ Whole' /\ Placing(pos)'
      /\ pc'[t] = "load" => In' = In
      /\ pc'[t] # "load" => In' = In \ {n}
  BY <1>2, PopAnchorStep
<1>4. /\ OthersKeep(t) /\ SameCall(t) /\ UNCHANGED <<link, free, uses>>
      /\ pc[t] = "pop_anchor"
      /\ \/ /\ anchor = lrs[t] /\ pc'[t] = "take" /\ lrs'[t] = lrs[t]
            /\ anchor'[s] = p /\ anchor'[Opposite(s)] = anchor[Opposite(s)]
         \/ pc'[t] = "load" /\ Leaves(t)
  BY <1>1, <1>2, PopAnchorEffect, KeepsView
<1>5. CASE pc'[t] = "load"
  <2>1. Leaves(t)
    BY <1>4, <1>5
  <2>. QED
    BY <1>3, <1>4, <1>5, <2>1, RetryRefines
<1>6. CASE pc'[t] # "load"
  <2>1. /\ pc'[t] = "take" /\ lrs'[t] = lrs[t] /\ anchor = lrs[t] /\ In' = In \ {n}
        /\ anchor'[s] = p /\ anchor'[Opposite(s)] = anchor[Opposite(s)]
    BY <1>3, <1>4, <1>6
  <2>2. s \in Sides /\ Opposite(s) \in Sides /\ \A d \in Sides : anchor[d] \in Nodes
    BY <1>1, <1>2, <1>4, <2>1, Registered DEF Popping
  <2>3. /\ anchor.left \in In /\ anchor.right \in In
        /\ anchor["left"] = anchor.left /\ anchor["right"] = anchor.right
    BY <1>1, <2>2, Ends DEF Sides
  <2>4. n = anchor[s] /\ n \in In /\ p \in In /\ Towards(pos, Opposite(s), n, p)
    <3>1. lrs[t].left \in In /\ lrs[t].right \in In /\ n = anchor[s] /\ n \in In
      BY <1>2, <2>1, <2>2, <2>3 DEF Sides
    <3>. QED
      BY <1>1, <1>2, <1>4, <3>1 DEF Read
  <2>5. anchor' \in Anchor
    BY <1>3 DEF Whole, TypeOK
  <2>6. /\ s = "left" => anchor'.left = p /\ anchor'.right = anchor.right /\ n = anchor.left
        /\ s = "right" => anchor'.left = anchor.left /\ anchor'.right = p /\ n = anchor.right
    BY <2>1, <2>3, <2>4, <2>5, AnchorType DEF Opposite
  <2>7. PICK q : q = Contents
    OBVIOUS
  <2>8. /\ q \in Seq(Nodes) /\ Len(q) = pos[anchor.right] - pos[anchor.left] + 1
        /\ Len(q) \in Nat /\ Len(q) # 0
        /\ \A i \in 1 .. Len(q) : q[i] \in In /\ pos[q[i]] = pos[anchor.left] + i - 1
        /\ \A i, j \in 1 .. Len(q) : q[i] = q[j] => i = j
        /\ q[1] = anchor.left /\ q[Len(q)] = anchor.right
    <3>1. Laid(pos, q)
      BY <1>1, <2>7, ContentsByPlace
    <3>2. In # {}
      BY <2>3
    <3>3. /\ Len(q) = pos[anchor.right] - pos[anchor.left] + 1
          /\ \A i \in 1 .. Len(q) : pos[q[i]] = pos[anchor.left] + i - 1
      BY <3>1, <3>2 DEF Laid
    <3>4. /\ q \in Seq(Nodes) /\ \A i \in 1 .. Len(q) : q[i] \in In
          /\ \A i, j \in 1 .. Len(q) : q[i] = q[j] => i = j
          /\ Len(q) # 0 /\ q[1] = anchor.left /\ q[Len(q)] = anchor.right
      BY <1>1, <3>1, <3>2, LaidFacts
    <3>5. Len(q) \in Nat
      BY <3>4
    <3>. QED
      BY <3>3, <3>4, <3>5
  <2>. DEFINE l == pos[anchor.left]
              h == pos[anchor.right]
  <2>9. /\ l \in Int /\ h \in Int /\ Len(q) = h - l + 1 /\ Len(q) \in Nat \ {0}
        /\ \A i \in 1 .. Len(q) : pos[q[i]] = l + i - 1
        /\ s = "left" => pos[anchor'.left] = l + 1 /\ pos[anchor'.right] = h
        /\ s = "right" => pos[anchor'.left] = l /\ pos[anchor'.right] = h - 1
    <3>1. l \in Int /\ h \in Int /\ pos[p] \in Int
      BY <2>3, <2>4 DEF In
    <3>2. s = "left" => pos[p] = l + 1
      BY <2>4, <2>6 DEF Towards, Opposite
    <3>3. s = "right" => pos[p] = h - 1
      BY <2>4, <2>6, <3>1 DEF Towards, Opposite
    <3>. QED
      BY <2>6, <2>8, <3>1, <3>2, <3>3
  <2>. HIDE DEF l, h
  <2>10. In' # {}
    <3>1. p # n
      BY <2>4 DEF Towards, In
    <3>. QED
      BY <2>1, <2>4, <3>1
  <2>11. Items = ValuesOf(q) /\ q # <<>> /\ Ordered(pos)'
    BY <1>3, <2>7, <2>8 DEF Items, Placing
  <2>12. PICK v : v = Value(n)
    OBVIOUS
  <2>13. /\ ValuesOf(Tail(q)) = Tail(ValuesOf(q)) /\ Head(ValuesOf(q)) = Value(q[1])
         /\ ValuesOf(Front(q)) = Front(ValuesOf(q)) /\ Last(ValuesOf(q)) = Value(q[Len(q)])
         /\ ValuesOf(q) # <<>>
         /\ Tail(q) \in Seq(Nodes) /\ Len(Tail(q)) = Len(q) - 1
         /\ \A i \in 1 .. Len(q) - 1 : Tail(q)[i] = q[i + 1]
         /\ Front(q) \in Seq(Nodes) /\ Len(Front(q)) = Len(q) - 1
         /\ \A i \in 1 .. Len(q) - 1 : Front(q)[i] = q[i]
    BY <2>8, <2>11, ValuesOfLess
  <2>14. ASSUME s = "right"
         PROVE  Items' = Front(Items) /\ v = Last(Items)
    <3>1. PICK r : r = Front(q)
      OBVIOUS
    <3>2. /\ r \in Seq(Nodes) /\ Len(r) = Len(q) - 1 /\ \A i \in 1 .. Len(r) : r[i] = q[i]
      BY <2>13, <3>1
    <3>3. \A i \in 1 .. Len(r) : i \in 1 .. Len(q) /\ i # Len(q)
      BY <2>9, <3>2
    <3>4. n = q[Len(q)] /\ Len(q) \in 1 .. Len(q)
      BY <2>6, <2>8, <2>9, <2>14
    <3>5. \A i \in 1 .. Len(r) : r[i] \in In'
      BY <2>1, <2>8, <3>2, <3>3, <3>4
    <3>6. r \in Seq(In')
      BY <3>2, <3>5, SeqOver
    <3>7. /\ Len(r) = pos[anchor'.right] - pos[anchor'.left] + 1
          /\ \A i \in 1 .. Len(r) : pos[r[i]] = pos[anchor'.left] + i - 1
      <4>1. Len(r) = pos[anchor'.right] - pos[anchor'.left] + 1
        BY <2>9, <2>14, <3>2
      <4>2. ASSUME NEW i \in 1 .. Len(r) PROVE pos[r[i]] = pos[anchor'.left] + i - 1
        <5>1. pos[r[i]] = l + (i) - 1
          BY <2>9, <3>2, <3>3
        <5>. QED
          BY <2>9, <2>14, <5>1
      <4>. QED
        BY <4>1, <4>2
    <3>8. Laid(pos, r)'
      BY <2>10, <3>6, <3>7 DEF Laid
    <3>9. Items' = ValuesOf(r)
      BY <1>3, <1>4, <2>11, <3>8, ItemsNext
    <3>. QED
      BY <2>11, <2>12, <2>13, <3>1, <3>4, <3>9
  <2>15. ASSUME s = "left"
         PROVE  Items' = Tail(Items) /\ v = Head(Items)
    <3>1. PICK r : r = Tail(q)
      OBVIOUS
    <3>2. /\ r \in Seq(Nodes) /\ Len(r) = Len(q) - 1 /\ \A i \in 1 .. Len(r) : r[i] = q[i + 1]
      BY <2>13, <3>1
    <3>3. \A i \in 1 .. Len(r) : i + 1 \in 1 .. Len(q) /\ i + 1 # 1
      BY <2>9, <3>2
    <3>4. n = q[1] /\ 1 \in 1 .. Len(q)
      BY <2>6, <2>8, <2>9, <2>15
    <3>5. \A i \in 1 .. Len(r) : r[i] \in In'
      BY <2>1, <2>8, <3>2, <3>3, <3>4
    <3>6. r \in Seq(In')
      BY <3>2, <3>5, SeqOver
    <3>7. /\ Len(r) = pos[anchor'.right] - pos[anchor'.left] + 1
          /\ \A i \in 1 .. Len(r) : pos[r[i]] = pos[anchor'.left] + i - 1
      <4>1. Len(r) = pos[anchor'.right] - pos[anchor'.left] + 1
        <5>1. pos[anchor'.left] = l + 1 /\ pos[anchor'.right] = h /\ l \in Int /\ h \in Int
          BY <2>9, <2>15
        <5>2. Len(r) = h - l + 1 - 1
          BY <2>9, <3>2
        <5>. QED
          BY <5>1, <5>2
      <4>2. ASSUME NEW i \in 1 .. Len(r) PROVE pos[r[i]] = pos[anchor'.left] + i - 1
        <5>1. pos[r[i]] = l + (i + 1) - 1
          BY <2>9, <3>2, <3>3
        <5>. QED
          BY <2>9, <2>15, <5>1
      <4>. QED
        BY <4>1, <4>2
    <3>8. Laid(pos, r)'
      BY <2>10, <3>6, <3>7 DEF Laid
    <3>9. Items' = ValuesOf(r)
      BY <1>3, <1>4, <2>11, <3>8, ItemsNext
    <3>. QED
      BY <2>11, <2>12, <2>13, <3>1, <3>4, <3>9
  <2>16. /\ Value(n) = IF Side(t) = "left" THEN Head(Items) ELSE Last(Items)
         /\ Items' = IF Side(t) = "left" THEN Tail(Items) ELSE Front(Items)
    BY <1>2, <2>2, <2>12, <2>14, <2>15 DEF Sides
  <2>17. Items # <<>> /\ n = lrs[t][Side(t)]
    BY <1>2, <2>11, <2>13
  <2>. QED
    BY <1>3, <1>4, <2>1, <2>16, <2>17, PopRefines
<1>. QED
  BY <1>5, <1>6

(* The steps that end a call.                                              *)
LEMMA EndRefines ==
    ASSUME Whole, Whole', NEW pos \in [Nodes -> Int], Placing(pos), Placing(pos)', In' = In,
           NEW t \in Threads, OthersKeep(t), UNCHANGED uses, Results[t] # <<>>,
           pc'[t] = "idle", call'[t] = <<>>, Leaves(t)
    PROVE  Abstract!Next
<1>1. KeepsValues
  BY DEF KeepsValues
<1>2. Items' = Items
  BY <1>1, SameItems DEF Placing
<1>3. CallOf(t)' = <<>> /\ ResultOf(t)' = <<>>
  <2>1. ~IsPush(t)'
    BY DEF IsPush
  <2>. QED
    BY <2>1, ViewsNext
<1>4. Sees(t, <<>>, <<>>)
  BY <1>1, <1>3, Shown
<1>. QED
  BY <1>2, <1>4, AbstractReturn

LEMMA TakeRefines ==
    ASSUME Whole, NEW pos \in [Nodes -> Int], Placing(pos), NEW t \in Threads, Take(t)
    PROVE  Whole' /\ (Abstract!Next \/ UNCHANGED Abstract!vars)
<1>1. TypeOK /\ Local(t)
  BY DEF Whole
<1>2. Whole' /\ Placing(pos)' /\ In' = In
  BY TakeStep
<1>3. /\ OthersKeep(t) /\ UNCHANGED <<anchor, uses>>
      /\ pc[t] = "take" /\ pc'[t] = "idle" /\ call'[t] = <<>> /\ Leaves(t)
  BY <1>1, TakeEffect
<1>4. Results[t] # <<>>
  <2>1. Results[t] = <<"true", Value(lrs[t][Side(t)])>>
    BY <1>3, Views
  <2>. QED
    BY <2>1
<1>. QED
  BY <1>2, <1>3, <1>4, EndRefines

LEMMA ReturnRefines ==
    ASSUME Whole, NEW pos \in [Nodes -> Int], Placing(pos), NEW t \in Threads, Return(t)
    PROVE  Whole' /\ (Abstract!Next \/ UNCHANGED Abstract!vars)
<1>1. TypeOK /\ Local(t)
  BY DEF Whole
<1>2. Whole' /\ Placing(pos)' /\ In' = In
  BY ReturnStep
<1>3. /\ OthersKeep(t) /\ UNCHANGED shared /\ pc[t] \in {"true", "false"}
      /\ pc'[t] = "idle" /\ call'[t] = <<>> /\ Leaves(t)
  BY <1>1, ReturnEffect
<1>4. Results[t] # <<>>
  <2>1. pc[t] = "true" => IsPush(t) /\ Done(t)
    BY <1>1 DEF Local, Done
  <2>2. pc[t] = "false" => ~IsPush(t)
    BY <1>1 DEF Local
  <2>3. Results[t] = <<"true">> \/ Results[t] = <<"false">>
    BY <1>3, <2>1, <2>2, Views
  <2>4. <<"true">> # <<>> /\ <<"false">> # <<>>
    OBVIOUS
  <2>. QED
    BY <2>3, <2>4
<1>. QED
  BY <1>2, <1>3, <1>4, EndRefines DEF shared

(* The steps that begin a call.                                            *)
LEMMA BeginRefines ==
    ASSUME Whole, Whole', NEW pos \in [Nodes -> Int], Placing(pos), Placing(pos)', In' = In,
           NEW t \in Threads, OthersKeep(t), KeepsValues,
           pc[t] = "idle", pc'[t] = "load", Keeps(t),
           NEW c \in {"push"} \X Sides \X Values \cup {"pop"} \X Sides, call'[t] = c
    PROVE  Abstract!Next
<1>1. Items' = Items
  BY SameItems DEF Placing
<1>2. after[t] # "true" /\ call[t] = <<>>
  BY DEF Whole, Local, Stabilizing
<1>3. ~Done(t) /\ ~Done(t)'
  BY <1>2, KeepsView DEF Done
<1>4. Calls[t] = <<>> /\ Results[t] = <<>>
  BY <1>2, <1>3, Views
<1>5. CallOf(t)' = c /\ ResultOf(t)' = Results[t]
  BY <1>3, <1>4, ViewsNext
<1>6. Sees(t, c, Results[t])
  BY <1>5, Shown
<1>. QED
  BY <1>1, <1>4, <1>6, AbstractInvoke

LEMMA BeginPushRefines ==
    ASSUME Whole, FreshNodes', NEW pos \in [Nodes -> Int], Placing(pos),
           NEW t \in Threads, NEW s \in Sides, BeginPush(t, s)
    PROVE  Whole' /\ (Abstract!Next \/ UNCHANGED Abstract!vars)
<1>1. TypeOK /\ Local(t)
  BY DEF Whole
<1>2. Whole' /\ Placing(pos)' /\ In' = In
  BY BeginPushStep
<1>3. PICK n \in free :
         /\ OthersKeep(t) /\ pc[t] = "idle" /\ pc'[t] = "load" /\ Keeps(t)
         /\ uses[n] < MaxUses /\ uses'[n] = uses[n] + 1
         /\ call'[t] = <<"push", s, <<n, uses'[n]>>>>
         /\ \A m \in Nodes : m # n => uses'[m] = uses[m]
  BY <1>1, BeginPushEffect
<1>4. KeepsValues
  BY <1>3 DEF KeepsValues
<1>5. <<n, uses'[n]>> \in Values
  <2>1. n \in Nodes /\ uses[n] \in 0 .. MaxUses
    BY <1>1 DEF TypeOK
  <2>. QED
    BY <1>3, <2>1, DequeAssumption DEF Values
<1>6. PICK v \in Values : v = <<n, uses'[n]>>
  BY <1>5
<1>7. PICK c : c = <<"push", s, v>>
  OBVIOUS
<1>8. c \in {"push"} \X Sides \X Values \cup {"pop"} \X Sides
  BY <1>7
<1>9. call'[t] = c
  BY <1>3, <1>6, <1>7
<1>. QED
  BY <1>2, <1>3, <1>4, <1>8, <1>9, BeginRefines

LEMMA BeginPopRefines ==
    ASSUME Whole, NEW pos \in [Nodes -> Int], Placing(pos),
           NEW t \in Threads, NEW s \in Sides, BeginPop(t, s)
    PROVE  Whole' /\ (Abstract!Next \/ UNCHANGED Abstract!vars)
<1>1. TypeOK /\ Local(t)
  BY DEF Whole
<1>2. Whole' /\ Placing(pos)' /\ In' = In
  BY BeginWithoutNodeStep
<1>3. /\ OthersKeep(t) /\ UNCHANGED shared
      /\ pc[t] = "idle" /\ pc'[t] = "load" /\ call'[t] = <<"pop", s>> /\ Keeps(t)
  BY <1>1, BeginPopEffect
<1>4. KeepsValues
  BY <1>3 DEF KeepsValues, shared
<1>5. PICK c : c = <<"pop", s>>
  OBVIOUS
<1>6. c \in {"push"} \X Sides \X Values \cup {"pop"} \X Sides
  BY <1>5
<1>7. call'[t] = c
  BY <1>3, <1>5
<1>. QED
  BY <1>2, <1>3, <1>4, <1>6, <1>7, BeginRefines

(* A push that finds the pool empty is never seen.                         *)
LEMMA NoNodeRefines ==
    ASSUME Whole, NEW pos \in [Nodes -> Int], Placing(pos),
           NEW t \in Threads, NEW s \in Sides, BeginPushWithoutNode(t, s)
    PROVE  Whole' /\ (Abstract!Next \/ UNCHANGED Abstract!vars)
<1>1. TypeOK /\ Local(t)
  BY DEF Whole
<1>2. Whole' /\ Placing(pos)' /\ In' = In
  BY BeginWithoutNodeStep
<1>3. /\ OthersKeep(t) /\ UNCHANGED shared
      /\ pc[t] = "idle" /\ pc'[t] = "null" /\ Keeps(t)
  BY <1>1, BeginPushWithoutNodeEffect
<1>4. KeepsValues
  BY <1>3 DEF KeepsValues, shared
<1>5. Items' = Items
  BY <1>2, <1>4, SameItems DEF Placing
<1>6. after[t] # "true" /\ call[t] = <<>>
  BY <1>1, <1>3 DEF Local, Stabilizing
<1>7. ~Done(t) /\ ~Done(t)'
  BY <1>3, <1>6, KeepsView DEF Done
<1>8. Calls[t] = <<>> /\ Results[t] = <<>>
  BY <1>3, <1>6, <1>7, Views
<1>9. CallOf(t)' = Calls[t] /\ ResultOf(t)' = Results[t]
  <2>1. CallOf(t)' = <<>> /\ ResultOf(t)' = <<>>
    BY <1>3, <1>7 DEF CallOf, ResultOf, Took
  <2>. QED
    BY <1>8, <2>1
<1>10. Sees(t, Calls[t], Results[t])
  BY <1>3, <1>4, <1>9, Shown
<1>. QED
  BY <1>2, <1>5, <1>10, AbstractStutter

LEMMA StepRefines ==
    ASSUME IInv, FreshNodes, FreshNodes', Next
    PROVE  Abstract!Next \/ UNCHANGED Abstract!vars
<1>1. PICK pos \in [Nodes -> Int] : Whole /\ Placing(pos)
  BY DEF IInv
<1>2. PICK t \in Threads :
         \/ Step(t)
         \/ \E s \in Sides : BeginPush(t, s) \/ BeginPushWithoutNode(t, s) \/ BeginPop(t, s)
  BY DEF Next
<1>3. CASE Load(t)
  BY <1>1, <1>3, LoadRefines
<1>4. CASE PushFirst(t)
  BY <1>1, <1>4, PushFirstRefines
<1>5. CASE PushAnchor(t)
  BY <1>1, <1>5, PushAnchorRefines
<1>6. CASE PopLast(t)
  BY <1>1, <1>6, PopLastRefines
<1>7. CASE PopAnchor(t)
  BY <1>1, <1>7, PopAnchorRefines
<1>8. CASE Take(t)
  BY <1>1, <1>8, TakeRefines
<1>9. CASE Return(t)
  BY <1>1, <1>9, ReturnRefines
<1>10. CASE Silent(t)
  BY <1>1, <1>10, SilentStep
<1>11. CASE \E s \in Sides : BeginPush(t, s)
  BY <1>1, <1>11, BeginPushRefines
<1>12. CASE \E s \in Sides : BeginPushWithoutNode(t, s)
  BY <1>1, <1>12, NoNodeRefines
<1>13. CASE \E s \in Sides : BeginPop(t, s)
  BY <1>1, <1>13, BeginPopRefines
<1>. QED
  BY <1>2, <1>3, <1>4, <1>5, <1>6, <1>7, <1>8, <1>9, <1>10, <1>11, <1>12, <1>13
     DEF Step, Silent

LEMMA StutterRefines == UNCHANGED vars => UNCHANGED Abstract!vars
<1>. SUFFICES ASSUME UNCHANGED vars PROVE UNCHANGED Abstract!vars
  OBVIOUS
<1>1. /\ UNCHANGED <<anchor, link, uses, pc, call, lrs, after>>
  BY DEF vars, shared, local
<1>2. Contents' = Contents
  BY <1>1 DEF Contents, Inside, Visited, Along
<1>3. Items' = Items
  BY <1>1, <1>2 DEF Items, ValuesOf, Value
<1>4. Calls' = Calls /\ Results' = Results
  BY <1>1 DEF Calls, CallOf, Results, ResultOf, Took, IsPush, Done, Side, Value
<1>. QED
  BY <1>3, <1>4, AbstractVars DEF Abstract!vars, Items, Calls, Results, CallOf

LEMMA InitRefines == Init => Abstract!Init
<1>. SUFFICES ASSUME Init PROVE Abstract!Init
  OBVIOUS
<1>1. anchor.left = None
  BY DEF Init, NoAnchor
<1>2. Items = <<>>
  BY <1>1 DEF Items, Contents, Inside, ValuesOf
<1>3. Calls = [t \in Threads |-> <<>>]
  BY DEF Init, Calls, CallOf
<1>4. Results = [t \in Threads |-> <<>>]
  BY DEF Init, Results, ResultOf, Took, IsPush, Done
<1>. QED
  BY <1>2, <1>3, <1>4 DEF Abstract!Init, Items, Calls, Results, CallOf

(* The deque implements the double-ended queue whose calls take effect at  *)
(* one moment: every value pushed comes out once, in the order of the      *)
(* ends, and a pop fails only on an empty deque, for any number of threads,*)
(* nodes and uses of a node and any width of the tags, as long as no node  *)
(* is pushed again while a stalled thread remembers it.                    *)
THEOREM DequeIsLinearizable == Spec /\ []FreshNodes => ImplementsDeque
<1>1. IInv /\ FreshNodes /\ FreshNodes' /\ [Next]_vars => [Abstract!Next]_(Abstract!vars)
  BY StepRefines, StutterRefines
<1>. QED
  BY <1>1, InitRefines, Invariant, PTL DEF Spec, ImplementsDeque, Abstract!Spec
=============================================================================
