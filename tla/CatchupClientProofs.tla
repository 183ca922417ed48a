------------------------ MODULE CatchupClientProofs ------------------------
(***************************************************************************)
(* Proofs about CatchupClient, for every value of its constants.           *)
(***************************************************************************)
EXTENDS CatchupClient, TLAPS

\* Cancelling every queued request leaves a queue of as many requests.
LEMMA CancelQueue ==
    ASSUME NEW q \in Seq(Requests)
    PROVE  /\ [i \in DOMAIN q |-> Cancel(q[i])] \in Seq(Requests)
           /\ Len([i \in DOMAIN q |-> Cancel(q[i])]) = Len(q)
  <1> DEFINE c == [i \in DOMAIN q |-> Cancel(q[i])]
  <1>1. DOMAIN q = 1 .. Len(q) /\ Len(q) \in Nat
    OBVIOUS
  <1>2. ASSUME NEW i \in 1 .. Len(q) PROVE Cancel(q[i]) \in Requests
    <2>1. q[i] \in Requests
      OBVIOUS
    <2>2. QED
      BY <2>1 DEF Cancel, Requests
  <1>3. c \in [1 .. Len(q) -> Requests]
    BY <1>1, <1>2
  <1>4. QED
    BY <1>1, <1>3

-----------------------------------------------------------------------------
(* Type correctness and the walk over heights.  TypeOK alone is not        *)
(* inductive: what the worker sends on a channel has the channel's type    *)
(* only because of where the worker is in doFetches, and its height stays  *)
(* one of the chain only because the engine commits no other.              *)

\* What each control point implies about the values in hand.
Shape ==
    /\ mpc = "sendState" => pending \in Requests /\ pending.ctx = "live"
    /\ Fetching => w \in Requests /\ height \in Heights
    /\ wpc \in {"open", "read", "offer", "awaitEngine", "exclude"}
           => wpeer \in Peers
    /\ wpc = "offer" => got \in 1 .. ChainHeight

TypeShape == TypeOK /\ Shape

\* Every request starts at a height the engine has not skipped.
StartsInOrder ==
    /\ dcall.op = "resume" => dcall.start <= committing + 1
    /\ mpc = "sendState" => pending.start <= committing + 1
    /\ \A i \in 1 .. Len(stateCh) : stateCh[i].start <= committing + 1

\* The engine's answer the worker may read is about the header it offered
\* last: if it is good, the engine has the height the worker is at.
OrderInv ==
    /\ FetchInOrder
    /\ eng.reader = "worker" => wpc = "awaitEngine"
    /\ engResp # "none" => wpc = "awaitEngine" /\ eng.reader # "worker"
    /\ engResp = "ok" => height <= committing
    /\ StartsInOrder

TypeInv == TypeShape /\ OrderInv

LEMMA TypeShapeStep == TypeInv /\ [Next]_vars => TypeShape'
  <1> SUFFICES ASSUME TypeInv, [Next]_vars PROVE TypeShape'
    OBVIOUS
  <1> USE ConstantsAssumption
      DEF TypeInv, TypeShape, TypeOK, Shape, Fetching, Heights, ctxVars
  <1>1. ASSUME NEW start \in Starts, NEW stop \in Stops, ResumeFetching(start, stop)
        PROVE  TypeShape'
    BY <1>1 DEF ResumeFetching, chanVars, mainVars, workVars, engVars, NoCall
  <1>2. CASE PauseFetching
    BY <1>2 DEF PauseFetching, chanVars, mainVars, workVars, engVars
  <1>3. CASE DriverCallCancelled
    BY <1>3 DEF DriverCallCancelled, chanVars, mainVars, workVars, engVars
  <1>4. ASSUME NEW p \in Peers, AddPeer(p) PROVE TypeShape'
    BY <1>4 DEF AddPeer, drvVars, mainVars, workVars, engVars
  <1>5. ASSUME NEW p \in Peers, RemovePeer(p) PROVE TypeShape'
    BY <1>5 DEF RemovePeer, drvVars, mainVars, workVars, engVars
  <1>6. CASE Shutdown
    <2>1. alive' \in BOOLEAN
      BY <1>6, Zenon DEF Shutdown
    <2>2. QED
      BY <1>6, <2>1 DEF Shutdown, drvVars, chanVars, mainVars, workVars, engVars
  <1>35. CASE RootShutdown
    <2>1. rootAlive' \in BOOLEAN
      BY <1>35, Zenon DEF RootShutdown
    <2>2. QED
      BY <1>35, <2>1 DEF RootShutdown, drvVars, chanVars, mainVars, workVars, engVars
  <1>7. CASE MainResume
    BY <1>7 DEF MainResume, chanVars, workVars, engVars, Requests, PauseCall,
                NoCall, EndedCall
  <1>8. CASE MainSendState
    BY <1>8 DEF MainSendState, drvVars, workVars, engVars
  <1>9. CASE MainSendCancelled
    BY <1>9 DEF MainSendCancelled, drvVars, chanVars, workVars, engVars
  <1>10. CASE MainPause
    <2>1. stateCh' \in Seq(Requests) /\ Len(stateCh') <= FetchStateCap
      BY <1>10, CancelQueue DEF MainPause
    <2>2. /\ w' \in Requests \cup {NoReq}
          /\ w \in Requests => w' \in Requests
      BY <1>10 DEF MainPause, Cancel, Requests, NoReq
    <2>3. QED
      BY <1>10, <2>1, <2>2 DEF MainPause, mainVars, engVars
  <1>11. ASSUME NEW p \in Peers, MainNextPeer(p) PROVE TypeShape'
    BY <1>11 DEF MainNextPeer, drvVars, chanVars, mainVars, engVars
  <1>12. CASE MainNextPeerBlocked
    BY <1>12 DEF MainNextPeerBlocked, drvVars, chanVars, engVars
  <1>13. CASE MainAddPeer
    BY <1>13 DEF MainAddPeer, drvVars, engVars
  <1>14. CASE MainRemovePeer
    BY <1>14 DEF MainRemovePeer, drvVars, workVars, engVars
  <1>15. CASE MainExcludePeer
    BY <1>15 DEF MainExcludePeer, drvVars, workVars, engVars
  <1>16. CASE MainStop
    BY <1>16 DEF MainStop, drvVars, chanVars, workVars, engVars
  <1>17. CASE WorkerTake
    <2>1. /\ Head(stateCh) \in Requests
          /\ stateCh' \in Seq(Requests) /\ Len(stateCh') <= FetchStateCap
      BY <1>17 DEF WorkerTake
    <2>2. Head(stateCh).start \in Heights
      BY <2>1 DEF Requests
    <2>3. Loop(Head(stateCh), Head(stateCh).start)
      BY <1>17, Zenon DEF WorkerTake
    <2>4. /\ wpc' \in {"ask", "idle"} /\ wpeer' = NoPeer /\ resp' = NoPeer /\ got' = 0
          /\ w' \in Requests \cup {NoReq} /\ height' \in Heights \cup {0}
          /\ wpc' = "ask" => w' \in Requests /\ height' \in Heights
      BY <2>1, <2>2, <2>3 DEF Loop, ReturnToIdle
    <2>5. QED
      BY <1>17, <2>1, <2>4 DEF WorkerTake, drvVars, mainVars, engVars
  <1>18. CASE WorkerStop
    BY <1>18 DEF WorkerStop, drvVars, chanVars, mainVars, engVars
  <1>19. CASE WorkerPeerCancelled
    BY <1>19 DEF WorkerPeerCancelled, ReturnToIdle, drvVars, chanVars, engVars
  <1>20. CASE WorkerPeerReceived
    BY <1>20 DEF WorkerPeerReceived, drvVars, chanVars, mainVars, engVars
  <1>21. CASE WorkerOpen
    BY <1>21 DEF WorkerOpen, drvVars, chanVars, mainVars, engVars
  <1>22. CASE WorkerOpenFails
    BY <1>22 DEF WorkerOpenFails, drvVars, chanVars, mainVars, engVars
  <1>23. CASE WorkerBadReply
    BY <1>23 DEF WorkerBadReply, drvVars, chanVars, mainVars, engVars
  <1>24. CASE WorkerPeerError
    BY <1>24 DEF WorkerPeerError, Loop, ReturnToIdle, drvVars, chanVars, mainVars, engVars
  <1>25. ASSUME NEW h \in 1 .. ChainHeight, WorkerFullBlock(h) PROVE TypeShape'
    <2>1. panicked' \in BOOLEAN
      BY <1>25, Zenon DEF WorkerFullBlock
    <2>2. /\ wpc = "read" /\ (wpc' = wpc \/ wpc' = "offer")
          /\ (wpc' = wpc /\ got' = got) \/ got' = h
      BY <1>25, Zenon DEF WorkerFullBlock
    <2>3. cache' \in [DataIDs -> EntryStates]
      BY <1>25 DEF WorkerFullBlock, SetImmediatelyAvailable, EntryStates
    <2>4. UNCHANGED <<ctxVars, connected, drvVars, chanVars, mainVars, w, height,
                      wpeer, resp, engVars>>
      BY <1>25 DEF WorkerFullBlock
    <2>5. QED
      BY <2>1, <2>2, <2>3, <2>4 DEF drvVars, chanVars, mainVars, engVars
  <1>26. CASE EngineReceive
    BY <1>26 DEF EngineReceive, drvVars, chanVars, mainVars
  <1>27. ASSUME NEW ok \in BOOLEAN, EngineReply(ok) PROVE TypeShape'
    <2>1. eng.height \in 1 .. ChainHeight
      BY <1>27 DEF EngineReply
    <2>2. /\ accepted' = accepted \/ accepted' = accepted \cup {eng.height}
          /\ committing' = committing \/ committing' = eng.height
          /\ engResp' = engResp \/ engResp' = "ok" \/ engResp' = "err"
      BY <1>27, Zenon DEF EngineReply
    <2>3. /\ accepted' \in SUBSET Heights
          /\ committing' \in 0 .. ChainHeight
          /\ engResp' \in {"none", "ok", "err"}
      <3>1. eng.height \in Heights /\ eng.height \in 0 .. ChainHeight
        BY <2>1
      <3>2. QED
        BY <2>2, <3>1
    <2>4. eng' = NoHeader
      BY <1>27 DEF EngineReply
    <2>5. UNCHANGED <<ctxVars, panicked, connected, drvVars, chanVars, mainVars,
                      workVars, cache>>
      BY <1>27 DEF EngineReply
    <2>6. QED
      BY <2>3, <2>4, <2>5 DEF drvVars, chanVars, mainVars, workVars
  <1>36. CASE EngineAdvances
    BY <1>36 DEF EngineAdvances, drvVars, chanVars, mainVars, workVars
  <1>28. CASE WorkerEngineCancelled
    BY <1>28 DEF WorkerEngineCancelled, Loop, ReturnToIdle, NoHeader,
                 drvVars, chanVars, mainVars
  <1>29. CASE WorkerAccepted
    <2>1. height <= committing
      BY <1>29 DEF WorkerAccepted, OrderInv
    <2>2. QED
      BY <1>29, <2>1 DEF WorkerAccepted, Loop, ReturnToIdle, drvVars, chanVars, mainVars
  <1>30. CASE WorkerRejected
    BY <1>30 DEF WorkerRejected, drvVars, chanVars, mainVars
  <1>31. CASE WorkerExclude
    BY <1>31 DEF WorkerExclude, Loop, ReturnToIdle, drvVars, mainVars, engVars
  <1>32. CASE WorkerExcludeCancelled
    BY <1>32 DEF WorkerExcludeCancelled, ReturnToIdle, drvVars, chanVars, mainVars, engVars
  <1>33. CASE UNCHANGED vars
    BY <1>33 DEF vars, drvVars, chanVars, mainVars, workVars, engVars
  <1>34. QED
    BY <1>1, <1>2, <1>3, <1>4, <1>5, <1>6, <1>7, <1>8, <1>9, <1>10, <1>11,
       <1>12, <1>13, <1>14, <1>15, <1>16, <1>17, <1>18, <1>19, <1>20, <1>21,
       <1>22, <1>23, <1>24, <1>25, <1>26, <1>27, <1>28, <1>29, <1>30, <1>31,
       <1>32, <1>33, <1>35, <1>36 DEF Next, Terminated

\* The arguments of ResumeFetching are natural numbers.
LEMMA ArgumentsNat == \A r \in Requests : r.start \in Nat /\ r.stop \in Nat
  <1>1. \A n \in 1 .. (ChainHeight + 1) : n \in Nat
    BY ConstantsAssumption
  <1>2. Starts \subseteq Nat /\ Stops \subseteq Nat
    BY <1>1, ConstantsAssumption
  <1>3. QED
    BY <1>2 DEF Requests

\* The engine's committing height never falls.
LEMMA CommittingGrows ==
    TypeInv /\ [Next]_vars => /\ committing \in Nat /\ committing' \in Nat
                              /\ committing <= committing'
  <1> SUFFICES ASSUME TypeInv, [Next]_vars
               PROVE  committing' \in Nat /\ committing \in Nat /\ committing <= committing'
    OBVIOUS
  <1>1. committing \in Nat
    BY DEF TypeInv, TypeShape, TypeOK
  <1>2. CASE committing' = committing
    BY <1>1, <1>2
  <1>3. ASSUME NEW ok \in BOOLEAN, EngineReply(ok)
        PROVE  committing' = committing \/ committing' = committing + 1
    BY <1>3, Zenon DEF EngineReply
  <1>4. ASSUME EngineAdvances PROVE committing' = committing + 1
    BY <1>4 DEF EngineAdvances
  <1>5. ASSUME Next, \A ok \in BOOLEAN : ~EngineReply(ok), ~EngineAdvances
        PROVE  committing' = committing
    BY <1>5, Zenon
    DEF Next, ResumeFetching, PauseFetching, DriverCallCancelled, AddPeer,
        RemovePeer, Shutdown, RootShutdown, MainResume, MainSendState,
        MainSendCancelled, MainPause, MainNextPeer, MainNextPeerBlocked,
        MainAddPeer, MainRemovePeer, MainExcludePeer, MainStop, WorkerTake,
        WorkerStop, WorkerPeerCancelled, WorkerPeerReceived, WorkerOpen,
        WorkerOpenFails, WorkerBadReply, WorkerPeerError, WorkerFullBlock,
        EngineReceive, WorkerEngineCancelled, WorkerAccepted, WorkerRejected,
        WorkerExclude, WorkerExcludeCancelled, Terminated, engVars, vars
  <1>6. CASE committing' = committing + 1
    BY <1>1, <1>6
  <1>7. QED
    BY <1>1, <1>2, <1>3, <1>4, <1>5, <1>6 DEF vars, engVars

LEMMA StartsStep == TypeInv /\ [Next]_vars => StartsInOrder'
  <1> SUFFICES ASSUME TypeInv, [Next]_vars PROVE StartsInOrder'
    OBVIOUS
  <1>0. /\ committing \in Nat /\ committing' \in Nat /\ committing <= committing'
        /\ StartsInOrder
    BY CommittingGrows DEF TypeInv, OrderInv
  <1>1. stateCh \in Seq(Requests) /\ Len(stateCh) \in Nat
    BY DEF TypeInv, TypeShape, TypeOK
  <1>2. \A i \in 1 .. Len(stateCh) : stateCh[i].start \in Nat
    BY <1>1, ArgumentsNat
  <1>3. /\ dcall.op = "resume" => dcall.start \in Nat
        /\ mpc = "sendState" => pending.start \in Nat
    <2>1. dcall.op = "resume" => dcall.start \in Starts
      BY DEF TypeInv, TypeShape, TypeOK, PauseCall, NoCall, EndedCall
    <2>2. mpc = "sendState" => pending \in Requests
      BY DEF TypeInv, TypeShape, Shape
    <2>3. \A n \in 1 .. (ChainHeight + 1) : n \in Nat
      BY ConstantsAssumption
    <2>4. QED
      BY <2>1, <2>2, <2>3, ArgumentsNat, ConstantsAssumption
  <1>4. ASSUME UNCHANGED stateCh
        PROVE  \A i \in 1 .. Len(stateCh') : stateCh'[i].start <= committing' + 1
    BY <1>0, <1>1, <1>2, <1>4 DEF StartsInOrder
  <1>5. ASSUME UNCHANGED dcall \/ dcall'.op # "resume"
        PROVE  dcall'.op = "resume" => dcall'.start <= committing' + 1
    BY <1>0, <1>3, <1>5 DEF StartsInOrder
  <1>6. ASSUME UNCHANGED <<mpc, pending>> \/ mpc' # "sendState"
        PROVE  mpc' = "sendState" => pending'.start <= committing' + 1
    BY <1>0, <1>3, <1>6 DEF StartsInOrder
  <1> USE DEF NoCall, PauseCall, EndedCall
  <1>7. ASSUME NEW start \in Starts, NEW stop \in Stops, ResumeFetching(start, stop)
        PROVE  StartsInOrder'
    <2>1. dcall'.start <= committing' + 1
      BY <1>7 DEF ResumeFetching, engVars
    <2>2. UNCHANGED <<stateCh, mpc, pending>>
      BY <1>7 DEF ResumeFetching, chanVars, mainVars
    <2>3. QED
      BY <1>4, <1>6, <2>1, <2>2 DEF StartsInOrder
  <1>8. CASE PauseFetching \/ DriverCallCancelled
    <2>1. dcall'.op # "resume" /\ UNCHANGED <<stateCh, mpc, pending>>
      BY <1>8 DEF PauseFetching, DriverCallCancelled, chanVars, mainVars
    <2>2. QED
      BY <1>4, <1>5, <1>6, <2>1 DEF StartsInOrder
  <1>9. CASE MainResume
    <2>1. /\ dcall.op = "resume" /\ dcall'.op # "resume" /\ UNCHANGED stateCh
          /\ pending'.start = dcall.start
      BY <1>9 DEF MainResume, chanVars
    <2>2. pending'.start <= committing' + 1
      BY <1>0, <1>3, <2>1 DEF StartsInOrder
    <2>3. QED
      BY <1>4, <1>5, <2>1, <2>2 DEF StartsInOrder
  <1>10. CASE MainSendState
    <2>1. /\ mpc = "sendState" /\ mpc' = "select" /\ UNCHANGED dcall
          /\ stateCh' = Append(stateCh, pending)
      BY <1>10 DEF MainSendState, drvVars
    <2>2. pending \in Requests /\ pending.start <= committing' + 1
      BY <1>0, <1>3, <2>1 DEF StartsInOrder, TypeInv, TypeShape, Shape
    <2>3. ASSUME NEW i \in 1 .. Len(stateCh') PROVE stateCh'[i].start <= committing' + 1
      <3>1. CASE i \in 1 .. Len(stateCh)
        <4>1. stateCh'[i] = stateCh[i]
          BY <1>1, <2>1, <2>2, <3>1
        <4>2. QED
          BY <1>0, <1>2, <3>1, <4>1 DEF StartsInOrder
      <3>2. CASE i = Len(stateCh) + 1
        BY <1>1, <2>1, <2>2, <3>2
      <3>3. QED
        BY <1>1, <2>1, <2>2, <3>1, <3>2
    <2>4. QED
      BY <1>5, <1>6, <2>1, <2>3 DEF StartsInOrder
  <1>11. CASE MainSendCancelled \/ MainStop
    <2>1. mpc' = "done" /\ UNCHANGED <<stateCh, dcall>>
      BY <1>11 DEF MainSendCancelled, MainStop, drvVars, chanVars
    <2>2. QED
      BY <1>4, <1>5, <1>6, <2>1 DEF StartsInOrder
  <1>12. CASE MainPause
    <2>1. /\ dcall'.op # "resume" /\ UNCHANGED <<mpc, pending>>
          /\ stateCh' = [i \in DOMAIN stateCh |-> Cancel(stateCh[i])]
      BY <1>12 DEF MainPause, mainVars
    <2>2. Len(stateCh') = Len(stateCh)
      BY <1>1, <2>1, CancelQueue
    <2>3. \A i \in 1 .. Len(stateCh') : stateCh'[i].start = stateCh[i].start
      BY <1>1, <2>1, <2>2 DEF Cancel
    <2>4. \A i \in 1 .. Len(stateCh') : stateCh'[i].start <= committing' + 1
      BY <1>0, <1>2, <2>2, <2>3 DEF StartsInOrder
    <2>5. QED
      BY <1>5, <1>6, <2>1, <2>4 DEF StartsInOrder
  <1>13. CASE WorkerTake
    <2>1. /\ UNCHANGED <<dcall, mpc, pending>>
          /\ stateCh # <<>> /\ stateCh' = Tail(stateCh)
      BY <1>13 DEF WorkerTake, drvVars, mainVars
    <2>2. /\ Len(stateCh') = Len(stateCh) - 1
          /\ \A i \in 1 .. Len(stateCh') : /\ i + 1 \in 1 .. Len(stateCh)
                                           /\ stateCh'[i] = stateCh[i + 1]
      BY <1>1, <2>1
    <2>3. \A i \in 1 .. Len(stateCh') : stateCh'[i].start <= committing' + 1
      BY <1>0, <1>2, <2>2 DEF StartsInOrder
    <2>4. QED
      BY <1>5, <1>6, <2>1, <2>3 DEF StartsInOrder
  <1>14. ASSUME UNCHANGED <<dcall, mpc, pending, stateCh>> PROVE StartsInOrder'
    BY <1>4, <1>5, <1>6, <1>14 DEF StartsInOrder
  <1>15. ASSUME Next, ~PauseFetching, ~DriverCallCancelled, ~MainResume,
                ~MainSendState, ~MainSendCancelled, ~MainStop, ~MainPause, ~WorkerTake,
                \A start \in Starts, stop \in Stops : ~ResumeFetching(start, stop)
         PROVE  UNCHANGED <<dcall, mpc, pending, stateCh>>
    BY <1>15, Zenon
    DEF Next, AddPeer, RemovePeer, Shutdown, RootShutdown, MainNextPeer,
        MainNextPeerBlocked, MainAddPeer, MainRemovePeer, MainExcludePeer,
        WorkerStop, WorkerPeerCancelled, WorkerPeerReceived, WorkerOpen,
        WorkerOpenFails, WorkerBadReply, WorkerPeerError, WorkerFullBlock,
        EngineReceive, EngineReply, EngineAdvances, WorkerEngineCancelled,
        WorkerAccepted, WorkerRejected, WorkerExclude, WorkerExcludeCancelled,
        Terminated, drvVars, chanVars, mainVars, vars
  <1>16. CASE UNCHANGED vars
    BY <1>14, <1>16 DEF vars, drvVars, chanVars, mainVars
  <1>17. QED
    BY <1>7, <1>8, <1>9, <1>10, <1>11, <1>12, <1>13, <1>14, <1>15, <1>16

LEMMA OrderStep == TypeInv /\ [Next]_vars => OrderInv'
  <1> SUFFICES ASSUME TypeInv, [Next]_vars PROVE OrderInv'
    OBVIOUS
  <1>0. StartsInOrder' /\ committing \in Nat /\ committing' \in Nat /\ committing <= committing'
    BY StartsStep, CommittingGrows
  <1>a. Fetching => height \in Nat /\ height <= committing' + 1
    <2>1. Fetching => height \in Nat
      BY ConstantsAssumption DEF TypeInv, TypeShape, Shape, Heights
    <2>2. Fetching => height <= committing + 1
      BY DEF TypeInv, OrderInv, FetchInOrder
    <2>3. QED
      BY <1>0, <2>1, <2>2
  <1>b. engResp = "ok" => wpc = "awaitEngine" /\ height <= committing'
    BY <1>0, <1>a DEF TypeInv, OrderInv, Fetching
  <1>1. ASSUME UNCHANGED <<wpc, height, eng, engResp>>, w'.stop = w.stop
        PROVE  OrderInv'
    BY <1>0, <1>a, <1>b, <1>1 DEF TypeInv, OrderInv, FetchInOrder, Fetching
  <1>4. ASSUME UNCHANGED <<w, height, eng, engResp>>,
               Fetching, wpc # "awaitEngine"
        PROVE  OrderInv'
    BY <1>0, <1>a, <1>b, <1>4 DEF TypeInv, OrderInv, FetchInOrder, Fetching
  <1> USE ConstantsAssumption
      DEF TypeInv, TypeShape, TypeOK, Shape, Fetching, Heights, OrderInv, FetchInOrder
  <1>2. ASSUME \/ \E start \in Starts, stop \in Stops : ResumeFetching(start, stop)
               \/ PauseFetching \/ DriverCallCancelled
               \/ \E p \in Peers : AddPeer(p)
               \/ \E p \in Peers : RemovePeer(p)
               \/ Shutdown \/ RootShutdown \/ EngineAdvances
        PROVE  OrderInv'
    <2>1. UNCHANGED <<wpc, height, eng, engResp, w>>
      BY <1>2, Zenon
      DEF ResumeFetching, PauseFetching, DriverCallCancelled, AddPeer, RemovePeer,
          Shutdown, RootShutdown, EngineAdvances, workVars, engVars
    <2>2. QED
      BY <1>1, <2>1
  <1>3. CASE \/ MainResume \/ MainSendState \/ MainSendCancelled \/ MainPause
             \/ MainAddPeer \/ MainRemovePeer \/ MainExcludePeer \/ MainStop
    BY <1>1, <1>3 DEF MainResume, MainSendState, MainSendCancelled, MainPause,
                      MainAddPeer, MainRemovePeer, MainExcludePeer, MainStop,
                      Cancel, workVars, engVars
  <1>5. ASSUME \/ \E p \in Peers : MainNextPeer(p)
               \/ MainNextPeerBlocked \/ WorkerPeerReceived \/ WorkerOpen
               \/ WorkerOpenFails \/ WorkerBadReply
               \/ \E h \in 1 .. ChainHeight : WorkerFullBlock(h)
        PROVE  OrderInv'
    BY <1>4, <1>5 DEF MainNextPeer, MainNextPeerBlocked, WorkerPeerReceived,
                      WorkerOpen, WorkerOpenFails, WorkerBadReply,
                      WorkerFullBlock, engVars
  <1>6. CASE WorkerTake
    <2>1. Head(stateCh) \in Requests /\ Head(stateCh) = stateCh[1] /\ 1 \in 1 .. Len(stateCh)
      BY <1>6 DEF WorkerTake
    <2>2. Head(stateCh).start \in Nat /\ Head(stateCh).stop \in Nat
      BY <2>1, ArgumentsNat
    <2>3. Head(stateCh).start <= committing + 1
      BY <2>1 DEF StartsInOrder
    <2>4. wpc = "idle" /\ UNCHANGED <<eng, engResp, committing>>
      BY <1>6 DEF WorkerTake, engVars
    <2>5. Loop(Head(stateCh), Head(stateCh).start)
      BY <1>6, Zenon DEF WorkerTake
    <2>6. FetchInOrder'
      BY <2>2, <2>3, <2>4, <2>5 DEF Loop, ReturnToIdle, KeepFetching
    <2>7. QED
      BY <1>0, <2>4, <2>6
  <1>7. CASE WorkerStop \/ WorkerPeerCancelled \/ WorkerExcludeCancelled
    BY <1>0, <1>7 DEF WorkerStop, WorkerPeerCancelled, WorkerExcludeCancelled,
                ReturnToIdle, engVars
  <1>8. CASE WorkerPeerError \/ WorkerExclude
    BY <1>0, <1>8 DEF WorkerPeerError, WorkerExclude, Loop, ReturnToIdle,
                KeepFetching, engVars
  <1>9. CASE EngineReceive
    BY <1>0, <1>9 DEF EngineReceive
  <1>10. ASSUME NEW ok \in BOOLEAN, EngineReply(ok) PROVE OrderInv'
    <2>1. UNCHANGED <<w, wpc, height>> /\ eng' = NoHeader
      BY <1>10 DEF EngineReply, workVars
    <2>2. CASE eng.reader = "gone"
      BY <1>0, <1>10, <2>1, <2>2 DEF EngineReply, NoHeader
    <2>3. CASE eng.reader = "worker"
      <3>1. \/ engResp' = "ok" /\ committing' = committing + 1
            \/ engResp' = "err"
        BY <1>10, <2>3 DEF EngineReply
      <3>2. wpc = "awaitEngine" /\ height <= committing + 1
        BY <2>3
      <3>3. engResp' = "ok" => height' <= committing'
        BY <1>0, <1>a, <2>1, <3>1, <3>2
      <3>4. FetchInOrder'
        BY <1>a, <2>1
      <3>5. engResp' # "none" => wpc' = "awaitEngine" /\ eng'.reader # "worker"
        BY <2>1, <3>2 DEF NoHeader
      <3>6. QED
        BY <1>0, <2>1, <3>3, <3>4, <3>5 DEF NoHeader
    <2>4. QED
      BY <2>2, <2>3 DEF NoHeader
  <1>11. CASE WorkerEngineCancelled
    <2>1. engResp' = "none" /\ eng'.reader # "worker"
      BY <1>11 DEF WorkerEngineCancelled, NoHeader
    <2>2. QED
      BY <1>0, <1>11, <2>1 DEF WorkerEngineCancelled, Loop, ReturnToIdle, KeepFetching
  <1>12. CASE WorkerAccepted
    <2>1. /\ wpc = "awaitEngine" /\ engResp = "ok" /\ eng.reader # "worker"
          /\ height <= committing
      BY <1>12 DEF WorkerAccepted
    <2>2. engResp' = "none" /\ UNCHANGED eng /\ Loop(w, height + 1)
      BY <1>12 DEF WorkerAccepted
    <2>3. FetchInOrder'
      BY <1>0, <2>1, <2>2 DEF Loop, ReturnToIdle, KeepFetching, Requests
    <2>4. QED
      BY <1>0, <2>1, <2>2, <2>3
  <1>13. CASE WorkerRejected
    BY <1>0, <1>13 DEF WorkerRejected
  <1>14. CASE UNCHANGED vars
    BY <1>1, <1>14 DEF vars, workVars, engVars
  <1>15. QED
    BY <1>2, <1>3, <1>5, <1>6, <1>7, <1>8, <1>9, <1>10, <1>11, <1>12, <1>13,
       <1>14 DEF Next, Terminated

LEMMA TypeStep == TypeInv /\ [Next]_vars => TypeInv'
  BY TypeShapeStep, OrderStep DEF TypeInv

LEMMA OrderInit == Init => OrderInv
  BY DEF Init, OrderInv, FetchInOrder, StartsInOrder, Fetching, NoHeader, NoCall

LEMMA TypeInit == Init => TypeInv
  <1> SUFFICES ASSUME Init PROVE TypeInv
    OBVIOUS
  <1>1. alive \in BOOLEAN /\ rootAlive \in BOOLEAN /\ panicked \in BOOLEAN
    BY Zenon DEF Init
  <1>2. cache \in [DataIDs -> EntryStates]
    BY DEF Init, NewRequestCache, EntryStates
  <1>3. Shape
    BY DEF Init, Shape, Fetching
  <1>4. TypeOK
    BY <1>1, <1>2, ConstantsAssumption DEF Init, TypeOK, Heights
  <1>5. QED
    BY <1>3, <1>4, OrderInit DEF TypeInv, TypeShape

\* The client's state keeps its type in every reachable state.
THEOREM TypeCorrect == Spec => []TypeOK
  <1>1. TypeInv => TypeOK
    BY DEF TypeInv, TypeShape
  <1>2. QED
    BY <1>1, TypeInit, TypeStep, PTL DEF Spec

-----------------------------------------------------------------------------
(* The peer sets and the blocked next peer request.                        *)

\* The response channel is only filled while the worker reads it.
PeerInv ==
    /\ ExcludedStayOut
    /\ BlockedMeansNoPeers
    /\ BlockedReplyHasRoom
    /\ wpc # "await" => resp = NoPeer

LEMMA PeerStep == TypeInv /\ PeerInv /\ [Next]_vars => PeerInv'
  <1> SUFFICES ASSUME TypeInv, PeerInv, [Next]_vars PROVE PeerInv'
    OBVIOUS
  <1> USE DEF TypeInv, TypeShape, TypeOK, PeerInv, ExcludedStayOut, BlockedMeansNoPeers,
              BlockedReplyHasRoom
  <1>1. ASSUME UNCHANGED <<peers, excluded, blocked, wpc, resp>> PROVE PeerInv'
    BY <1>1
  <1>2. ASSUME \/ \E start \in Starts, stop \in Stops : ResumeFetching(start, stop)
               \/ PauseFetching \/ DriverCallCancelled
               \/ \E p \in Peers : AddPeer(p)
               \/ \E p \in Peers : RemovePeer(p)
               \/ Shutdown \/ RootShutdown \/ EngineAdvances
        PROVE  PeerInv'
    BY <1>1, <1>2 DEF ResumeFetching, PauseFetching, DriverCallCancelled,
                      AddPeer, RemovePeer, Shutdown, RootShutdown,
                      EngineAdvances, mainVars, workVars
  <1>3. CASE MainResume \/ MainSendState \/ MainSendCancelled \/ MainPause \/ MainStop
    BY <1>1, <1>3 DEF MainResume, MainSendState, MainSendCancelled, MainPause,
                      MainStop, mainVars, workVars
  <1>4. ASSUME NEW p \in Peers, MainNextPeer(p) PROVE PeerInv'
    BY <1>4 DEF MainNextPeer, mainVars
  <1>5. CASE MainNextPeerBlocked
    BY <1>5 DEF MainNextPeerBlocked
  <1>6. CASE MainAddPeer
    <2>1. CASE Head(addCh) \in excluded
      BY <1>6, <2>1, <1>1 DEF MainAddPeer
    <2>2. CASE Head(addCh) \notin excluded
      BY <1>6, <2>2 DEF MainAddPeer
    <2>3. QED
      BY <2>1, <2>2
  <1>7. CASE MainRemovePeer
    BY <1>7 DEF MainRemovePeer, workVars
  <1>8. CASE MainExcludePeer
    BY <1>8 DEF MainExcludePeer, workVars
  <1>9. CASE WorkerTake
    BY <1>9 DEF WorkerTake, Loop, ReturnToIdle, mainVars
  <1>10. CASE WorkerPeerCancelled
    BY <1>10 DEF WorkerPeerCancelled, ReturnToIdle
  <1>11. CASE WorkerPeerReceived
    BY <1>11 DEF WorkerPeerReceived, mainVars
  <1>12. CASE WorkerStop \/ WorkerOpen \/ WorkerOpenFails \/ WorkerBadReply \/ WorkerRejected
    BY <1>12 DEF WorkerStop, WorkerOpen, WorkerOpenFails, WorkerBadReply,
                 WorkerRejected, mainVars
  <1>13. ASSUME NEW h \in 1 .. ChainHeight, WorkerFullBlock(h) PROVE PeerInv'
    <2>1. wpc = "read" /\ wpc' \in {"read", "offer"}
      BY <1>13 DEF WorkerFullBlock
    <2>2. UNCHANGED <<peers, excluded, blocked, resp>>
      BY <1>13 DEF WorkerFullBlock, mainVars
    <2>3. QED
      BY <2>1, <2>2
  <1>14. CASE WorkerPeerError \/ WorkerAccepted \/ WorkerExclude
    BY <1>14 DEF WorkerPeerError, WorkerAccepted, WorkerExclude, Loop,
                 ReturnToIdle, mainVars
  <1>15. CASE WorkerEngineCancelled
    BY <1>15 DEF WorkerEngineCancelled, Loop, ReturnToIdle, mainVars
  <1>16. CASE WorkerExcludeCancelled
    BY <1>16 DEF WorkerExcludeCancelled, ReturnToIdle, mainVars
  <1>17. CASE EngineReceive
    BY <1>17 DEF EngineReceive, mainVars
  <1>18. ASSUME NEW ok \in BOOLEAN, EngineReply(ok) PROVE PeerInv'
    BY <1>1, <1>18 DEF EngineReply, mainVars, workVars
  <1>19. CASE UNCHANGED vars
    BY <1>1, <1>19 DEF vars, mainVars, workVars
  <1>20. QED
    BY <1>2, <1>3, <1>4, <1>5, <1>6, <1>7, <1>8, <1>9, <1>10, <1>11, <1>12,
       <1>13, <1>14, <1>15, <1>16, <1>17, <1>18, <1>19 DEF Next, Terminated

LEMMA PeerInit == Init => PeerInv
  BY DEF Init, PeerInv, ExcludedStayOut, BlockedMeansNoPeers, BlockedReplyHasRoom

LEMMA PeerCorrect == Spec => []PeerInv
  BY TypeInit, TypeStep, PeerInit, PeerStep, PTL DEF Spec

\* No excluded peer is ever a candidate again, whatever the order in which
\* the main loop takes add, remove and exclude requests.
THEOREM ExcludedStayOutHolds == Spec => []ExcludedStayOut
  <1>1. PeerInv => ExcludedStayOut
    BY DEF PeerInv
  <1>2. QED
    BY <1>1, PeerCorrect, PTL

\* A next peer request is only kept blocked while there is no candidate, so
\* the worker does not starve beside usable peers.
THEOREM BlockedMeansNoPeersHolds == Spec => []BlockedMeansNoPeers
  <1>1. PeerInv => BlockedMeansNoPeers
    BY DEF PeerInv
  <1>2. QED
    BY <1>1, PeerCorrect, PTL

\* The answer to the worker's blocked request always finds room in its
\* channel, so that the main loop's send without ctx does not block it.
THEOREM BlockedReplyHasRoomHolds == Spec => []BlockedReplyHasRoom
  <1>1. PeerInv => BlockedReplyHasRoom
    BY DEF PeerInv
  <1>2. QED
    BY <1>1, PeerCorrect, PTL

-----------------------------------------------------------------------------
(* The walk over heights and the data in the cache.                        *)

\* h is a height of the chain whose transactions, if any, are in the cache.
DataReady(h) ==
    /\ h \in 1 .. ChainHeight
    /\ DataIDAt[h] # ZeroDataID => IsReady(cache, DataIDAt[h])

\* The data of a header is ready from when it is offered, while the engine
\* holds it, and after it was accepted.
DataInv ==
    /\ wpc = "offer" => DataReady(got)
    /\ eng # NoHeader => DataReady(eng.height)
    /\ \A h \in accepted : DataReady(h)

\* Only WorkerFullBlock changes the cache, and it takes no data away.
LEMMA CacheGrows ==
    TypeInv /\ [Next]_vars => \A h \in 1 .. ChainHeight : DataReady(h) => DataReady(h)'
  <1> SUFFICES ASSUME TypeInv, [Next]_vars, NEW h \in 1 .. ChainHeight, DataReady(h)
               PROVE  DataReady(h)'
    OBVIOUS
  <1> USE DEF DataReady, IsReady
  <1>1. CASE UNCHANGED cache
    BY <1>1
  <1>2. ASSUME NEW k \in 1 .. ChainHeight, WorkerFullBlock(k) PROVE DataReady(h)'
    <2>1. CASE cache' = SetImmediatelyAvailable(cache, DataIDAt[k])
      BY <2>1, ConstantsAssumption DEF SetImmediatelyAvailable, TypeInv, TypeShape, TypeOK
    <2>2. QED
      BY <1>1, <1>2, <2>1 DEF WorkerFullBlock
  <1>3. CASE Next /\ \A k \in 1 .. ChainHeight : ~WorkerFullBlock(k)
    <2>1. UNCHANGED cache
      BY <1>3, Zenon
      DEF Next, ResumeFetching, PauseFetching, DriverCallCancelled, AddPeer,
          RemovePeer, Shutdown, RootShutdown, EngineAdvances, MainResume,
          MainSendState, MainSendCancelled, MainPause, MainNextPeer,
          MainNextPeerBlocked, MainAddPeer, MainRemovePeer, MainExcludePeer,
          MainStop, WorkerTake, WorkerStop,
          WorkerPeerCancelled, WorkerPeerReceived, WorkerOpen, WorkerOpenFails,
          WorkerBadReply, WorkerPeerError, EngineReceive, EngineReply,
          WorkerEngineCancelled, WorkerAccepted, WorkerRejected, WorkerExclude,
          WorkerExcludeCancelled, Terminated, vars
    <2>2. QED
      BY <1>1, <2>1
  <1>4. QED
    BY <1>1, <1>2, <1>3 DEF vars

LEMMA DataStep == TypeInv /\ DataInv /\ [Next]_vars => DataInv'
  <1> SUFFICES ASSUME TypeInv, DataInv, [Next]_vars PROVE DataInv'
    OBVIOUS
  <1>1. \A h : DataReady(h) => DataReady(h)'
    BY CacheGrows DEF DataReady
  <1> USE DEF TypeInv, TypeShape, TypeOK, Shape, Fetching, DataInv
  <1>2. ASSUME UNCHANGED <<eng, accepted>>,
               wpc' = "offer" => wpc = "offer" /\ got' = got
        PROVE  DataInv'
    <2>1. wpc' = "offer" => DataReady(got)'
      BY <1>1, <1>2
    <2>2. (eng # NoHeader => DataReady(eng.height))'
      BY <1>1, <1>2
    <2>3. (\A h \in accepted : DataReady(h))'
      BY <1>1, <1>2
    <2>4. QED
      BY <2>1, <2>2, <2>3
  <1>3. ASSUME \/ \E start \in Starts, stop \in Stops : ResumeFetching(start, stop)
               \/ PauseFetching \/ DriverCallCancelled
               \/ \E p \in Peers : AddPeer(p)
               \/ \E p \in Peers : RemovePeer(p)
               \/ Shutdown \/ RootShutdown \/ EngineAdvances
        PROVE  DataInv'
    BY <1>2, <1>3 DEF ResumeFetching, PauseFetching, DriverCallCancelled,
                      AddPeer, RemovePeer, Shutdown, RootShutdown,
                      EngineAdvances, workVars, engVars
  <1>4. CASE MainResume \/ MainSendState \/ MainSendCancelled \/ MainPause \/ MainStop
    BY <1>2, <1>4 DEF MainResume, MainSendState, MainSendCancelled, MainPause,
                      MainStop, workVars, engVars
  <1>5. ASSUME \/ \E p \in Peers : MainNextPeer(p)
               \/ MainNextPeerBlocked \/ MainAddPeer \/ MainRemovePeer
               \/ MainExcludePeer
        PROVE  DataInv'
    BY <1>2, <1>5 DEF MainNextPeer, MainNextPeerBlocked, MainAddPeer,
                      MainRemovePeer, MainExcludePeer, workVars, engVars
  <1>6. CASE \/ WorkerTake \/ WorkerStop \/ WorkerPeerCancelled \/ WorkerPeerReceived
             \/ WorkerOpen \/ WorkerOpenFails \/ WorkerBadReply \/ WorkerPeerError
             \/ WorkerExclude \/ WorkerExcludeCancelled
    BY <1>2, <1>6 DEF WorkerTake, WorkerStop, WorkerPeerCancelled,
                      WorkerPeerReceived, WorkerOpen, WorkerOpenFails,
                      WorkerBadReply, WorkerPeerError, WorkerExclude,
                      WorkerExcludeCancelled, Loop, ReturnToIdle, engVars
  <1>7. ASSUME NEW h \in 1 .. ChainHeight, WorkerFullBlock(h) PROVE DataInv'
    <2>1. UNCHANGED <<eng, accepted>>
      BY <1>7 DEF WorkerFullBlock, engVars
    <2>2. wpc' = "offer" => got' = h /\ DataReady(h)'
      BY <1>7, ConstantsAssumption
      DEF WorkerFullBlock, SetImmediatelyAvailable, DataReady, IsReady
    <2>3. (eng # NoHeader => DataReady(eng.height))'
      BY <1>1, <2>1
    <2>4. (\A k \in accepted : DataReady(k))'
      BY <1>1, <2>1
    <2>5. wpc' = "offer" => DataReady(got)'
      BY <2>2
    <2>6. QED
      BY <2>3, <2>4, <2>5
  <1>8. CASE EngineReceive
    <2>1. eng'.height = got /\ DataReady(got) /\ wpc' # "offer"
      BY <1>8 DEF EngineReceive
    <2>2. (\A h \in accepted : DataReady(h))'
      BY <1>1, <1>8 DEF EngineReceive
    <2>3. QED
      BY <1>1, <2>1, <2>2
  <1>9. ASSUME NEW ok \in BOOLEAN, EngineReply(ok) PROVE DataInv'
    <2>1. DataReady(eng.height) /\ eng' = NoHeader
      BY <1>9 DEF EngineReply
    <2>2. accepted' = accepted \/ accepted' = accepted \cup {eng.height}
      BY <1>9, Zenon DEF EngineReply
    <2>3. (\A h \in accepted : DataReady(h))'
      BY <1>1, <2>1, <2>2
    <2>4. UNCHANGED <<wpc, got>>
      BY <1>9 DEF EngineReply, workVars
    <2>5. QED
      BY <1>1, <2>1, <2>3, <2>4
  <1>10. CASE WorkerEngineCancelled
    <2>1. eng' = eng \/ (eng # NoHeader /\ eng'.height = eng.height)
      BY <1>10 DEF WorkerEngineCancelled
    <2>2. (eng # NoHeader => DataReady(eng.height))'
      BY <1>1, <2>1
    <2>3. (\A h \in accepted : DataReady(h))'
      BY <1>1, <1>10 DEF WorkerEngineCancelled
    <2>4. wpc' \in {"ask", "idle"}
      BY <1>10 DEF WorkerEngineCancelled, Loop, ReturnToIdle
    <2>5. QED
      BY <2>2, <2>3, <2>4
  <1>11. CASE WorkerAccepted \/ WorkerRejected
    BY <1>2, <1>11 DEF WorkerAccepted, WorkerRejected, Loop, ReturnToIdle
  <1>12. CASE UNCHANGED vars
    BY <1>2, <1>12 DEF vars, workVars, engVars
  <1>13. QED
    BY <1>3, <1>4, <1>5, <1>6, <1>7, <1>8, <1>9, <1>10, <1>11, <1>12
    DEF Next, Terminated

LEMMA DataInit == Init => DataInv
  BY DEF Init, DataInv

\* Whenever the engine has accepted a header with transactions from the
\* client, the block data is ready in the cache: it was put there before the
\* header was offered, and nothing the client does takes it away.
THEOREM AcceptedDataReadyHolds == Spec => []AcceptedDataReady
  <1>1. DataInv => AcceptedDataReady
    BY DEF DataInv, DataReady, AcceptedDataReady
  <1>2. QED
    BY <1>1, TypeInit, TypeStep, DataInit, DataStep, PTL DEF Spec

\* A fetch never works on a height before the engine has every earlier one,
\* nor on its stop height or beyond, whatever was paused, retried, answered
\* late or answered with another height's header.
THEOREM FetchInOrderHolds == Spec => []FetchInOrder
  <1>1. TypeInv => FetchInOrder
    BY DEF TypeInv, OrderInv
  <1>2. QED
    BY <1>1, TypeInit, TypeStep, PTL DEF Spec

-----------------------------------------------------------------------------
(* The driver's calls and the fetch request channel.  Requests whose       *)
(* context is live were made since the last pause, so there are at most    *)
(* "resumes" of them; the cancelled ones are all ahead of the live ones.   *)

\* Live requests on their way to the channel: the driver's, the main loop's.
OnTheWay ==
    (IF dcall.op = "resume" THEN 1 ELSE 0) + (IF mpc = "sendState" THEN 1 ELSE 0)

QueueInv ==
    /\ resumes >= OnTheWay
    /\ \A i \in 1 .. Len(stateCh) : stateCh[i].ctx = "live" =>
          /\ \A j \in i .. Len(stateCh) : stateCh[j].ctx = "live"
          /\ resumes >= (Len(stateCh) - i) + 1 + OnTheWay
    /\ w.ctx = "live" =>
          /\ \A i \in 1 .. Len(stateCh) : stateCh[i].ctx = "live"
          /\ resumes >= Len(stateCh) + 1 + OnTheWay

\* A bound survives when the bounded number grows at least as much.
LEMMA KeepBound ==
    ASSUME NEW a \in Nat, NEW b \in Nat, NEW c \in Nat, NEW d \in Nat,
           NEW n \in Nat, b + c >= a + d, a >= n + 1 + c
    PROVE  b >= n + 1 + d
  OBVIOUS

LEMMA FewerOnTheWay ==
    ASSUME NEW a \in Nat, NEW c \in Nat, NEW d \in Nat, d <= c
    PROVE  a + c >= a + d
  OBVIOUS

\* The same when one request moves from "on the way" into the channel.
LEMMA MoveOne ==
    ASSUME NEW a \in Nat, NEW c \in Nat, NEW d \in Nat, d + 1 = c
    PROVE  /\ a >= c => a >= d /\ a >= 0 + 1 + d
           /\ \A n \in Nat : a >= n + 1 + c => a >= (n + 1) + 1 + d
  OBVIOUS

LEMMA QueueStep == TypeInv /\ QueueInv /\ [Next]_vars => QueueInv'
  <1> SUFFICES ASSUME TypeInv, QueueInv, [Next]_vars PROVE QueueInv'
    OBVIOUS
  <1>0. Len(stateCh) \in Nat /\ resumes \in Nat /\ OnTheWay \in Nat
    BY ConstantsAssumption DEF TypeInv, TypeShape, TypeOK, OnTheWay
  <1>1. ASSUME stateCh' = stateCh, w' = w \/ w'.ctx = "done",
               resumes' \in Nat, OnTheWay' \in Nat,
               resumes' + OnTheWay >= resumes + OnTheWay'
        PROVE  QueueInv'
    <2>1. resumes' >= OnTheWay'
      BY <1>0, <1>1 DEF QueueInv
    <2>2. ASSUME NEW i \in 1 .. Len(stateCh), stateCh[i].ctx = "live"
          PROVE  /\ \A j \in i .. Len(stateCh) : stateCh[j].ctx = "live"
                 /\ resumes' >= (Len(stateCh) - i) + 1 + OnTheWay'
      <3>1. /\ \A j \in i .. Len(stateCh) : stateCh[j].ctx = "live"
            /\ resumes >= (Len(stateCh) - i) + 1 + OnTheWay
        BY <2>2 DEF QueueInv
      <3>2. Len(stateCh) - i \in Nat
        BY <1>0
      <3>3. resumes' >= (Len(stateCh) - i) + 1 + OnTheWay'
        BY <1>0, <1>1, <3>1, <3>2, KeepBound
      <3>4. QED
        BY <3>1, <3>3
    <2>3. ASSUME w'.ctx = "live"
          PROVE  /\ \A i \in 1 .. Len(stateCh) : stateCh[i].ctx = "live"
                 /\ resumes' >= Len(stateCh) + 1 + OnTheWay'
      <3>1. /\ \A i \in 1 .. Len(stateCh) : stateCh[i].ctx = "live"
            /\ resumes >= Len(stateCh) + 1 + OnTheWay
        BY <1>1, <2>3 DEF QueueInv
      <3>2. resumes' >= Len(stateCh) + 1 + OnTheWay'
        BY <1>0, <1>1, <3>1, KeepBound
      <3>3. QED
        BY <3>1, <3>2
    <2>4. QED
      BY <1>1, <2>1, <2>2, <2>3 DEF QueueInv
  <1>2. ASSUME NEW start \in Starts, NEW stop \in Stops, ResumeFetching(start, stop)
        PROVE  QueueInv'
    <2>1. OnTheWay' = OnTheWay + 1
      BY <1>2 DEF ResumeFetching, mainVars, OnTheWay, NoCall
    <2>2. resumes' = resumes + 1 /\ UNCHANGED <<stateCh, w>>
      BY <1>2 DEF ResumeFetching, chanVars, workVars
    <2>3. QED
      BY <1>0, <1>1, <2>1, <2>2
  <1>3. CASE PauseFetching
    <2>1. OnTheWay' = OnTheWay
      BY <1>3 DEF PauseFetching, mainVars, OnTheWay, NoCall, PauseCall
    <2>2. UNCHANGED <<resumes, stateCh, w>>
      BY <1>3 DEF PauseFetching, chanVars, workVars
    <2>3. QED
      BY <1>0, <1>1, <2>1, <2>2
  <1>4. CASE DriverCallCancelled
    <2>1. OnTheWay' \in Nat /\ OnTheWay' <= OnTheWay
      BY <1>4 DEF DriverCallCancelled, mainVars, OnTheWay, NoCall, EndedCall
    <2>2. UNCHANGED <<resumes, stateCh, w>>
      BY <1>4 DEF DriverCallCancelled, chanVars, workVars
    <2>3. resumes' + OnTheWay >= resumes + OnTheWay'
      BY <1>0, <2>1, <2>2, FewerOnTheWay
    <2>4. QED
      BY <1>0, <1>1, <2>1, <2>2, <2>3
  <1>5. CASE MainResume
    <2>1. OnTheWay' = OnTheWay
      BY <1>5 DEF MainResume, OnTheWay, NoCall
    <2>2. UNCHANGED <<resumes, stateCh, w>>
      BY <1>5 DEF MainResume, chanVars, workVars
    <2>3. QED
      BY <1>0, <1>1, <2>1, <2>2
  <1>6. CASE MainSendState
    <2>1. /\ OnTheWay' + 1 = OnTheWay /\ OnTheWay' \in Nat
          /\ UNCHANGED <<resumes, w>>
      BY <1>6 DEF MainSendState, drvVars, workVars, OnTheWay
    <2>0. /\ resumes >= OnTheWay => resumes >= OnTheWay' /\ resumes >= 0 + 1 + OnTheWay'
          /\ \A n \in Nat : resumes >= n + 1 + OnTheWay
                 => resumes >= (n + 1) + 1 + OnTheWay'
      BY <1>0, <2>1, MoveOne
    <2>2. /\ stateCh' = Append(stateCh, pending) /\ stateCh \in Seq(Requests)
          /\ pending \in Requests /\ pending.ctx = "live"
      BY <1>6 DEF MainSendState, TypeInv, TypeShape, TypeOK, Shape
    <2>3. /\ Len(stateCh') = Len(stateCh) + 1
          /\ \A i \in 1 .. Len(stateCh) : stateCh'[i] = stateCh[i]
          /\ stateCh'[Len(stateCh) + 1] = pending
      BY <2>2
    <2>4. ASSUME NEW i \in 1 .. Len(stateCh'), stateCh'[i].ctx = "live"
          PROVE  /\ \A j \in i .. Len(stateCh') : stateCh'[j].ctx = "live"
                 /\ resumes >= (Len(stateCh') - i) + 1 + OnTheWay'
      <3>1. CASE i = Len(stateCh) + 1
        <4>1. resumes >= 0 + 1 + OnTheWay' /\ Len(stateCh') - i = 0
          BY <1>0, <2>0, <2>3, <3>1 DEF QueueInv
        <4>2. \A j \in i .. Len(stateCh') : j = i
          BY <1>0, <2>3, <3>1
        <4>3. QED
          BY <2>4, <4>1, <4>2
      <3>2. CASE i \in 1 .. Len(stateCh)
        <4>1. stateCh[i].ctx = "live"
          BY <2>3, <2>4, <3>2
        <4>2. /\ \A j \in i .. Len(stateCh) : stateCh[j].ctx = "live"
              /\ resumes >= (Len(stateCh) - i) + 1 + OnTheWay
          BY <3>2, <4>1 DEF QueueInv
        <4>3. ASSUME NEW j \in i .. Len(stateCh') PROVE stateCh'[j].ctx = "live"
          <5>1. j \in i .. Len(stateCh) \/ j = Len(stateCh) + 1
            BY <1>0, <2>3, <3>2
          <5>2. QED
            BY <1>0, <2>2, <2>3, <3>2, <4>2, <5>1
        <4>4. resumes >= (Len(stateCh') - i) + 1 + OnTheWay'
          <5>1. Len(stateCh) - i \in Nat /\ Len(stateCh') - i = (Len(stateCh) - i) + 1
            BY <1>0, <2>3, <3>2
          <5>2. QED
            BY <2>0, <4>2, <5>1
        <4>5. QED
          BY <4>3, <4>4
      <3>3. QED
        BY <1>0, <2>3, <3>1, <3>2
    <2>5. ASSUME w.ctx = "live"
          PROVE  /\ \A i \in 1 .. Len(stateCh') : stateCh'[i].ctx = "live"
                 /\ resumes >= Len(stateCh') + 1 + OnTheWay'
      <3>1. /\ \A i \in 1 .. Len(stateCh) : stateCh[i].ctx = "live"
            /\ resumes >= Len(stateCh) + 1 + OnTheWay
        BY <2>5 DEF QueueInv
      <3>2. ASSUME NEW i \in 1 .. Len(stateCh') PROVE stateCh'[i].ctx = "live"
        <4>1. i \in 1 .. Len(stateCh) \/ i = Len(stateCh) + 1
          BY <1>0, <2>3
        <4>2. QED
          BY <2>2, <2>3, <3>1, <4>1
      <3>3. resumes >= Len(stateCh') + 1 + OnTheWay'
        BY <1>0, <2>0, <2>3, <3>1
      <3>4. QED
        BY <3>2, <3>3
    <2>6. resumes >= OnTheWay'
      BY <2>0 DEF QueueInv
    <2>7. QED
      BY <2>1, <2>4, <2>5, <2>6 DEF QueueInv
  <1>7. CASE MainSendCancelled
    <2>1. OnTheWay' \in Nat /\ OnTheWay' <= OnTheWay
      BY <1>7 DEF MainSendCancelled, drvVars, OnTheWay
    <2>2. UNCHANGED <<resumes, stateCh, w>>
      BY <1>7 DEF MainSendCancelled, drvVars, chanVars, workVars
    <2>3. resumes' + OnTheWay >= resumes + OnTheWay'
      BY <1>0, <2>1, <2>2, FewerOnTheWay
    <2>4. QED
      BY <1>0, <1>1, <2>1, <2>2, <2>3
  <1>8. CASE MainPause
    <2>1. OnTheWay' = 0 /\ resumes' = 0 /\ w'.ctx = "done"
      BY <1>8 DEF MainPause, mainVars, OnTheWay, NoCall, Cancel
    <2>2. \A i \in 1 .. Len(stateCh) : stateCh'[i].ctx = "done"
      BY <1>8 DEF MainPause, Cancel, TypeInv, TypeShape, TypeOK
    <2>3. Len(stateCh') = Len(stateCh)
      BY <1>8, CancelQueue DEF MainPause, TypeInv, TypeShape, TypeOK
    <2>4. QED
      BY <1>0, <2>1, <2>2, <2>3 DEF QueueInv
  <1>9. CASE WorkerTake
    <2>1. OnTheWay' = OnTheWay /\ UNCHANGED resumes
      BY <1>9 DEF WorkerTake, drvVars, mainVars, OnTheWay
    <2>2. w' = stateCh[1] \/ w'.ctx = "done"
      BY <1>9 DEF WorkerTake, Loop, ReturnToIdle, NoReq, TypeInv, TypeShape, TypeOK
    <2>3. /\ Len(stateCh) > 0 /\ Len(stateCh') = Len(stateCh) - 1
          /\ \A i \in 1 .. Len(stateCh') : stateCh'[i] = stateCh[i + 1]
      BY <1>9 DEF WorkerTake, TypeInv, TypeShape, TypeOK
    <2>4. ASSUME NEW i \in 1 .. Len(stateCh'), stateCh'[i].ctx = "live"
          PROVE  /\ \A j \in i .. Len(stateCh') : stateCh'[j].ctx = "live"
                 /\ resumes >= (Len(stateCh') - i) + 1 + OnTheWay
      <3>1. i + 1 \in 1 .. Len(stateCh) /\ stateCh[i + 1].ctx = "live"
        BY <1>0, <2>3, <2>4
      <3>2. /\ \A j \in (i + 1) .. Len(stateCh) : stateCh[j].ctx = "live"
            /\ resumes >= (Len(stateCh) - (i + 1)) + 1 + OnTheWay
        BY <3>1 DEF QueueInv
      <3>3. ASSUME NEW j \in i .. Len(stateCh') PROVE stateCh'[j].ctx = "live"
        <4>1. j \in 1 .. Len(stateCh') /\ j + 1 \in (i + 1) .. Len(stateCh)
          BY <1>0, <2>3
        <4>2. QED
          BY <2>3, <3>2, <4>1
      <3>4. resumes >= (Len(stateCh') - i) + 1 + OnTheWay
        BY <1>0, <2>3, <3>2
      <3>5. QED
        BY <3>3, <3>4
    <2>5. ASSUME w'.ctx = "live"
          PROVE  /\ \A i \in 1 .. Len(stateCh') : stateCh'[i].ctx = "live"
                 /\ resumes >= Len(stateCh') + 1 + OnTheWay
      <3>1. 1 \in 1 .. Len(stateCh) /\ stateCh[1].ctx = "live"
        BY <1>0, <2>2, <2>3, <2>5
      <3>2. /\ \A j \in 1 .. Len(stateCh) : stateCh[j].ctx = "live"
            /\ resumes >= (Len(stateCh) - 1) + 1 + OnTheWay
        BY <3>1 DEF QueueInv
      <3>3. ASSUME NEW i \in 1 .. Len(stateCh') PROVE stateCh'[i].ctx = "live"
        <4>1. i + 1 \in 1 .. Len(stateCh)
          BY <1>0, <2>3
        <4>2. QED
          BY <2>3, <3>2, <4>1
      <3>4. resumes >= Len(stateCh') + 1 + OnTheWay
        BY <1>0, <2>3, <3>2
      <3>5. QED
        BY <3>3, <3>4
    <2>6. QED
      BY <2>1, <2>4, <2>5 DEF QueueInv
  <1>10. ASSUME UNCHANGED <<dcall, mpc, resumes, stateCh>>, w' = w \/ w'.ctx = "done"
         PROVE  QueueInv'
    BY <1>0, <1>1, <1>10 DEF OnTheWay
  <1>11. ASSUME \/ \E p \in Peers : AddPeer(p)
                \/ \E p \in Peers : RemovePeer(p)
                \/ \E p \in Peers : MainNextPeer(p)
                \/ Shutdown \/ RootShutdown \/ EngineAdvances
                \/ MainNextPeerBlocked \/ MainAddPeer
                \/ MainRemovePeer \/ MainExcludePeer
         PROVE  QueueInv'
    BY <1>10, <1>11 DEF AddPeer, RemovePeer, MainNextPeer, Shutdown,
                        RootShutdown, EngineAdvances,
                        MainNextPeerBlocked, MainAddPeer, MainRemovePeer,
                        MainExcludePeer, drvVars, chanVars, mainVars, workVars
  <1>12. CASE MainStop
    <2>1. OnTheWay' = OnTheWay /\ UNCHANGED <<resumes, stateCh, w>>
      BY <1>12 DEF MainStop, drvVars, chanVars, workVars, OnTheWay
    <2>2. QED
      BY <1>0, <1>1, <2>1
  <1>13. ASSUME \/ WorkerStop \/ WorkerPeerReceived \/ WorkerOpen \/ WorkerOpenFails
                \/ WorkerBadReply \/ EngineReceive \/ WorkerRejected
                \/ \E h \in 1 .. ChainHeight : WorkerFullBlock(h)
         PROVE  QueueInv'
    BY <1>10, <1>13 DEF WorkerStop, WorkerPeerReceived, WorkerOpen,
                        WorkerOpenFails, WorkerBadReply, WorkerFullBlock,
                        EngineReceive, WorkerRejected, drvVars, chanVars, mainVars
  <1>14. CASE \/ WorkerPeerCancelled \/ WorkerPeerError \/ WorkerEngineCancelled
              \/ WorkerAccepted \/ WorkerExclude \/ WorkerExcludeCancelled
    BY <1>10, <1>14 DEF WorkerPeerCancelled, WorkerPeerError,
                        WorkerEngineCancelled, WorkerAccepted, WorkerExclude,
                        WorkerExcludeCancelled, Loop, ReturnToIdle, NoReq,
                        drvVars, chanVars, mainVars
  <1>15. ASSUME NEW ok \in BOOLEAN, EngineReply(ok) PROVE QueueInv'
    BY <1>10, <1>15 DEF EngineReply, drvVars, chanVars, mainVars, workVars
  <1>16. CASE UNCHANGED vars
    BY <1>10, <1>16 DEF vars, drvVars, chanVars, mainVars, workVars
  <1>17. QED
    BY <1>2, <1>3, <1>4, <1>5, <1>6, <1>7, <1>8, <1>9, <1>11, <1>12, <1>13,
       <1>14, <1>15, <1>16 DEF Next, Terminated

LEMMA QueueInit == Init => QueueInv
  BY DEF Init, QueueInv, OnTheWay, NoCall, NoReq

\* As long as the driver resumes at most once more than the fetch request
\* channel holds between two pauses, the main loop is never stuck sending to
\* a worker that waits for it.  (One more resume is the deadlock that
\* the run of MCCatchupStuck.cfg shows.)
THEOREM NoCircularWaitHolds ==
    ASSUME MaxResumes <= FetchStateCap + 1
    PROVE  Spec => []NoCircularWait
  <1>1. TypeInv /\ QueueInv => NoCircularWait
    <2> SUFFICES ASSUME TypeInv, QueueInv, mpc = "sendState",
                        Len(stateCh) = FetchStateCap, w.ctx = "live"
                 PROVE  FALSE
      BY DEF NoCircularWait, Cancelled, Fetching, TypeInv, TypeShape, TypeOK, Shape, Requests
    <2>1. OnTheWay \in {1, 2}
      BY DEF OnTheWay
    <2>2. resumes >= FetchStateCap + 1 + OnTheWay /\ resumes <= MaxResumes
      BY DEF QueueInv, TypeInv, TypeShape, TypeOK
    <2>3. QED
      BY <2>1, <2>2, ConstantsAssumption DEF TypeInv, TypeShape, TypeOK
  <1>2. QED
    BY <1>1, TypeInit, TypeStep, QueueInit, QueueStep, PTL DEF Spec

=============================================================================
