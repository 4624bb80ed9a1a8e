------------------------------ MODULE DequeMC ------------------------------
(***************************************************************************)
(* Instances of the deque for TLC.  Either the threads call what they      *)
(* like, as long as no node is on its way back into the deque while        *)
(* another thread remembers it: the hypothesis of the theorems in          *)
(* DequeProofs.  Or two threads make the calls of a given program.         *)
(***************************************************************************)
EXTENDS Deque, TLC

CONSTANTS
    First, Second,      \* the threads of the program
    Recycled, Unused    \* two nodes, see Allowances

VARIABLES
    allowed,    \* allowed[n]: times node n may be allocated
    todo        \* what is left of the program

varsMC == <<vars, allowed, todo>>

(* Every node once; or one node twice, and one not at all.                 *)
Allowances == {[n \in Nodes |-> 1],
               [n \in Nodes |-> CASE n = Recycled -> 2 [] n = Unused -> 0 [] OTHER -> 1]}

(* Bounds: the allocations of each node, and FreshNodes.                   *)
Within(A) == /\ A
             /\ \A n \in Nodes : uses'[n] <= allowed[n]
             /\ FreshNodes'
             /\ UNCHANGED <<allowed, todo>>

InitFresh == Init /\ allowed \in Allowances /\ todo = <<>>

(* A thread inside a call is scheduled again and again.                    *)
FreshSpec ==
    /\ InitFresh
    /\ [][Within(Next)]_varsMC
    /\ \A t \in Threads : WF_varsMC(Within(Step(t)))

-----------------------------------------------------------------------------
Program ==
    First  :> <<"push_left">> @@
    Second :> <<"push_right", "push_right", "pop_left", "pop_left", "pop_left",
                "push_right", "push_right", "pop_right">>

Start(t) == \/ Head(todo[t]) = "push_left"  /\ BeginPush(t, "left")
            \/ Head(todo[t]) = "push_right" /\ BeginPush(t, "right")
            \/ Head(todo[t]) = "pop_left"   /\ BeginPop(t, "left")
            \/ Head(todo[t]) = "pop_right"  /\ BeginPop(t, "right")

InitProgram == Init /\ allowed = [n \in Nodes |-> MaxUses] /\ todo = Program

ProgramSpec ==
    /\ InitProgram
    /\ [][\E t \in Threads :
             \/ Step(t) /\ UNCHANGED <<allowed, todo>>
             \/ /\ todo[t] # <<>>
                /\ Start(t)
                /\ todo' = [todo EXCEPT ![t] = Tail(@)]
                /\ UNCHANGED allowed]_varsMC
=============================================================================
