------------------------ MODULE MCConsensusStrategy ------------------------
(***************************************************************************)
(* ConsensusStrategy on a small instance: three validators, one of them    *)
(* faulty, with just under a third of the power; two rounds.               *)
(***************************************************************************)
EXTENDS ConsensusStrategy

CONSTANTS v1, me, byz, t1

ThreeValidators == <<v1, byz, me>>

\* A majority is 5 of 7: neither correct validator has it alone.
UnequalPower == [v \in {v1, byz, me} |-> IF v = v1 THEN 3 ELSE 2]

Header(r, idRound, txs, form) ==
    [h |-> 1, r |-> r, id |-> [h |-> 1, r |-> idRound, txs |-> txs],
     by |-> v1, form |-> form]

\* A block with data and one that is not acceptable in round 0; headers whose
\* data ID names an earlier or a later round; and one whose ID does not parse
\* in round 1, where this node proposes.
SomeHeaders ==
    {Header(0, 0, t1, "good"), Header(0, 0, NoTxs, "badAnnotation"),
     Header(1, 0, t1, "good"), Header(0, 1, t1, "good"),
     Header(1, 1, t1, "badID")}

=============================================================================
