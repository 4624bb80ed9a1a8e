------------------------------- MODULE BsTree -------------------------------
(***************************************************************************)
(* bstree (utility/bstree.hpp): NonBlockingBST over shared pointers.  An   *)
(* update word points to an object with the flag and the record, and two   *)
(* words are equal when they point to the same object: the clean one a     *)
(* node was made with, or the dirty one of an insertion.                   *)
(*                                                                         *)
(* Two things differ.  helpinsert() compares the word with a dirty object  *)
(* that it has just made, so no flag is ever taken away; and insert()      *)
(* returns true after its first attempt, which may only have helped.       *)
(*                                                                         *)
(* Copying a shared pointer is taken to be atomic: the code copies words   *)
(* and child pointers without the functions for it.                        *)
(***************************************************************************)
EXTENDS NonBlockingBST

(* The constructor: Inf1 at the root and to its right, Inf0 to its left,   *)
(* no flag anywhere.                                                       *)
InitBs == Init

(* insert() is called, or lookup(), with a value: Inf0 and Inf1 are types  *)
(* of their own.                                                           *)
InvokeBs(t) == \E k \in Keys, kind \in {"insert", "search"} :
                  k < Inf1 /\ Invoke(t, kind, k)

(* lookup() goes down; at the leaf insert() decides what to do.            *)
LookupStep(t) == ReadUpdate(t) \/ ReadChild(t)

(* parent->node.update.cas_strong(pupdate, dirty), which loads the word    *)
(* when it fails.                                                          *)
FlagStep(t) == Flag(t) \/ FlagFails(t)

(* The child's cas_strong of helpinsert().                                 *)
HelpStep(t) == CASChild(t)

(* The second cas_strong of helpinsert() fails; insert() returns true.     *)
HelpDone(t) ==
    /\ pc[t] = "clean"
    /\ helping' = [helping EXCEPT ![t] = None]
    /\ Goto(t, "true")
    /\ UNCHANGED <<tree, call, p, l, pupdate, done>>

StepBs(t) == LookupStep(t) \/ FlagStep(t) \/ HelpStep(t) \/ HelpDone(t) \/ Return(t)

NextBs == \E t \in Threads : StepBs(t) \/ InvokeBs(t)

SpecBs == InitBs /\ [][NextBs]_vars /\ \A t \in Threads : WF_vars(StepBs(t))

-----------------------------------------------------------------------------
(* The flags that stay: each is of an insertion that is in the tree, once  *)
(* all calls have returned, and as no parent is flagged twice, the         *)
(* internal nodes form a path.                                             *)
FlagsStay ==
    /\ (\A t \in Threads : pc[t] = "idle") =>
          \A n \in InternalsInTree : update[n].isDirty => Applied(update[n].info)
    /\ \A n \in InternalsInTree : ~(left[n] \in Internals /\ right[n] \in Internals)

(* What is left of TreeSound.                                              *)
BsTreeSound == TypeOK /\ SearchTree /\ HelpsSomebody /\ FlagsStay

Lossy == INSTANCE InsertSet WITH
            Initial <- {Inf1, Inf2},
            keys    <- KeysInTree,
            result  <- [t \in Threads |-> ResultOf(t)]

(* Insertions may be lost; a refusal is right, and so is what lookup()     *)
(* finds.                                                                  *)
ImplementsLossySet == Lossy!SpecLossy
=============================================================================
