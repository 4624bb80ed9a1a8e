------------------------------ MODULE UndoLog ------------------------------
(***************************************************************************)
(* What an undo stack promises, with no undo buffers in it: every session  *)
(* start keeps a whole copy of the content, and undo() brings the last     *)
(* copy back.  An exception that leaves an operation half done may leave   *)
(* any content, but spares the copies.  Once the log is spoiled, nothing   *)
(* is promised until it is empty again.                                    *)
(***************************************************************************)
EXTENDS Sequences, SequencesExt

VARIABLES
    content,    \* what clients see
    snapshots,  \* the copies, oldest first
    interrupted, \* an exception has left an operation half done
    spoiled

vars == <<content, snapshots, interrupted, spoiled>>

Init == snapshots = <<>> /\ ~interrupted /\ ~spoiled

(* Creating, modifying or removing an object leaves every copy as it is.   *)
Change == snapshots' = snapshots

Start == /\ snapshots' = Append(snapshots, content)
         /\ content' = content

Undo == /\ snapshots # <<>>
        /\ content' = Last(snapshots)
        /\ snapshots' = Front(snapshots)

(* The last two sessions become one: the copy between them is dropped.     *)
Squash == /\ snapshots # <<>>
          /\ snapshots' = Front(snapshots)
          /\ content' = content

(* The oldest copies are dropped. *)
Commit == \E n \in 1 .. Len(snapshots) :
             /\ snapshots' = SubSeq(snapshots, n + 1, Len(snapshots))
             /\ content' = content

UndoAll == /\ snapshots # <<>>
           /\ content' = Head(snapshots)
           /\ snapshots' = <<>>

(* An exception ends undoing with the first n copies left.                 *)
Interrupt == /\ interrupted'
             /\ \E n \in 1 .. Len(snapshots) : snapshots' = SubSeq(snapshots, 1, n)

Spoil == spoiled'

(* Everything that could be undone has been.                               *)
Recover == spoiled /\ ~spoiled' /\ snapshots' = <<>>

Next == \/ Spoil
        \/ Recover
        \/ /\ ~spoiled
           /\ ~spoiled'
           /\ Change \/ Start \/ Undo \/ Squash \/ Commit \/ UndoAll \/ Interrupt

Spec == Init /\ [][Next]_vars
=============================================================================
