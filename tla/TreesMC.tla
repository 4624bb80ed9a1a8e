------------------------------ MODULE TreesMC ------------------------------
(***************************************************************************)
(* Instances for TLC of the two lock-free trees, NonBlockingBST and bstree,*)
(* each in a world of its own, in which the variables of the other keep    *)
(* their first value.                                                      *)
(***************************************************************************)
EXTENDS NonBlockingBST

VARIABLES world, bdata, bleft, bright, bupdate, binfo,
          bpc, bcall, bp, bl, bpupdate, bhelping, bdone

Bs == INSTANCE BsTree WITH
         data <- bdata, left <- bleft, right <- bright, update <- bupdate, info <- binfo,
         pc <- bpc, call <- bcall, p <- bp, l <- bl, pupdate <- bpupdate,
         helping <- bhelping, done <- bdone

bstree == <<bdata, bleft, bright, bupdate, binfo,
            bpc, bcall, bp, bl, bpupdate, bhelping, bdone>>

InitMC == world \in {"nbbst", "bstree"} /\ Init /\ Bs!InitBs

NextMC ==
    \/ world = "nbbst" /\ Next /\ UNCHANGED <<world, bstree>>
    \/ world = "bstree" /\ Bs!NextBs /\ UNCHANGED <<world, vars>>

(* A thread in an operation is scheduled again and again. *)
SpecMC ==
    /\ InitMC /\ [][NextMC]_<<world, vars, bstree>>
    /\ \A t \in Threads : WF_vars(world = "nbbst" /\ Step(t))
    /\ \A t \in Threads : WF_bstree(world = "bstree" /\ Bs!StepBs(t))

(* Both trees are search trees at all times, and are honest about flags.   *)
TreesSound == TreeSound /\ Bs!BsTreeSound

(* Every call of either tree returns, and those of bstree answer as those  *)
(* of a set that may lose insertions do.                                   *)
CallsAnswered == EveryCallReturns /\ Bs!EveryCallReturns /\ Bs!ImplementsLossySet
=============================================================================
