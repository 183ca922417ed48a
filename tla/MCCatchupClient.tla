--------------------------- MODULE MCCatchupClient ---------------------------
(***************************************************************************)
(* CatchupClient on small instances.                                       *)
(***************************************************************************)
EXTENDS CatchupClient

\* Height 1 has transactions, all later heights have none.
FirstHasData ==
    [h \in 1 .. ChainHeight |->
        IF h = 1 THEN CHOOSE d \in DataIDs : TRUE ELSE ZeroDataID]

\* Height 2 has transactions, the others have none.
SecondHasData ==
    [h \in 1 .. ChainHeight |->
        IF h = 2 THEN CHOOSE d \in DataIDs : TRUE ELSE ZeroDataID]

\* No block has transactions.
NoData == [h \in 1 .. ChainHeight |-> ZeroDataID]

=============================================================================
