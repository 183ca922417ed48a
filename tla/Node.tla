-------------------------------- MODULE Node --------------------------------
(***************************************************************************)
(* One node's driver with what else works on its stores and its buffer:    *)
(* the data host's handlers and the clients of the HTTP and gRPC servers,  *)
(* with the transaction buffer between clients, driver and proposals.      *)
(* Every step of Driver is a step of the node; three of them take          *)
(* transactions or requests along.                                         *)
(***************************************************************************)
EXTENDS DataHost, TxService

nodeVars == <<vars, hostVars, txVars>>

NodeTypeOK == TypeOK /\ HostTypeOK /\ TxTypeOK

NodeInit == Init /\ HostInit /\ TxInit

\* The next block is decided, with its transactions.
NodeDecide == Decide /\ BlockDecided /\ UNCHANGED hostVars

\* The driver's call of Buffer.Rebase returns.
NodeRebase == Rebase /\ BufferRebased /\ UNCHANGED hostVars

\* The process dies, with all that is in memory.
NodeDown ==
    /\ Crash \/ \E h \in Heights : FinalizeWithoutEntry(h)
    /\ BufferLost
    /\ StreamLost

OtherDriverStep ==
    \/ \E h \in Heights, ready \in BOOLEAN : EntryAdded(h, ready)
    \/ \E h \in Heights : EntryReady(h)
    \/ EngineRecord
    \/ Restart
    \/ InitSkipped
    \/ InitGenesis
    \/ InitCommit
    \/ InitRespond
    \/ FinalizeInitial
    \/ \E h \in Heights : FinalizeEmpty(h)
    \/ \E h \in Heights : FinalizeWithData(h)
    \/ SaveBlockData
    \/ DeliverBlock
    \/ Commit
    \/ Respond
    \/ SaveBlockResult
    \/ Fail
    \/ HandleLagStateUpdate
    \/ CatchupAccepts

NodeNext ==
    \/ NodeDecide
    \/ NodeRebase
    \/ NodeDown
    \/ OtherDriverStep /\ UNCHANGED <<hostVars, txVars>>
    \/ HostStep /\ UNCHANGED <<vars, txVars>>
    \/ TxStep /\ UNCHANGED <<vars, hostVars>>

NodeSpec == NodeInit /\ [][NodeNext]_nodeVars

\* Driver's fairness and no other: nothing is assumed of clients and peers.
NodeFairSpec == NodeSpec /\ Fairness

=============================================================================
