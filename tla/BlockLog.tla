------------------------------ MODULE BlockLog ------------------------------
(***************************************************************************)
(* What the driver promises of heights: the application commits exactly    *)
(* the decided ones, in order, and the next one only when the engine has   *)
(* recorded the last.  Height 0 is genesis, -1 is before it.  Nothing is   *)
(* ever taken back, wherever the process dies.  Committing a height again, *)
(* because its answer was lost in a crash, changes nothing here.           *)
(***************************************************************************)
EXTENDS Integers

VARIABLES
    decided,        \* the last height the network decided
    committed,      \* the last height of the application
    recorded        \* the last height whose answer the engine has

Init == decided = 0 /\ committed = -1 /\ recorded = -1

\* The network decides on heights after genesis only.
Decide ==
    /\ recorded >= 0
    /\ decided' = decided + 1
    /\ UNCHANGED <<committed, recorded>>

Commit ==
    /\ committed = recorded
    /\ committed < decided
    /\ committed' = committed + 1
    /\ UNCHANGED <<decided, recorded>>

Record ==
    /\ recorded < committed
    /\ recorded' = committed
    /\ UNCHANGED <<decided, committed>>

Next == Decide \/ Commit \/ Record

Spec == Init /\ [][Next]_<<decided, committed, recorded>>

=============================================================================
