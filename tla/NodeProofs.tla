----------------------------- MODULE NodeProofs -----------------------------
(***************************************************************************)
(* Proofs about Driver and Node, for every number of heights, every choice *)
(* of the blocks that have transactions, and crashes and failures at every *)
(* step.                                                                   *)
(*                                                                         *)
(* First those about the driver alone.  The node's driver is that of       *)
(* module Driver: what data host and clients add is a stutter there, so    *)
(* they carry over.  With them, a peer's request for a block that was      *)
(* answered is served, and the transaction buffer holds what can be        *)
(* executed on the state the engine proposes on.                           *)
(*                                                                         *)
(* What the application and the buffer compute is defined by recursion     *)
(* over heights and transactions, and proved by module Induction.          *)
(***************************************************************************)
EXTENDS Node, Induction

-----------------------------------------------------------------------------
(* Type correctness, and what each control point implies about the height  *)
(* in hand.                                                                *)

\* The driver has a height in hand exactly while it handles one.
Shape ==
    /\ dpc \in {"wait", "deliver", "rebase", "commit", "respond", "saveResult"}
           => cur \in Heights
    /\ dpc \in {"init", "initCommit", "initRespond", "loop", "lag", "down"}
           => cur = 0
    /\ dpc = "down" => answered = {} /\ resp = -1

TypeInv == TypeOK /\ Shape

LEMMA TypeInit == Init => TypeInv
  <1> SUFFICES ASSUME Init PROVE TypeInv
    OBVIOUS
  <1>1. cache \in [DataIDs -> EntryStates]
    BY DEF Init, NewRequestCache, EntryStates
  <1>2. QED
    BY <1>1, ConstantsAssumption
    DEF Init, TypeInv, TypeOK, Shape, Versions, Heights

LEMMA TypeStep == TypeInv /\ [Next]_vars => TypeInv'
  <1> SUFFICES ASSUME TypeInv, [Next]_vars PROVE TypeInv'
    OBVIOUS
  <1> USE ConstantsAssumption DEF TypeInv, TypeOK, Shape, Versions, Heights, diskVars
  <1>1. ASSUME NEW h \in Heights, NEW ready \in BOOLEAN, EntryAdded(h, ready)
        PROVE  TypeInv'
    <2>1. cache' \in [DataIDs -> EntryStates]
      BY <1>1 DEF EntryAdded, SetImmediatelyAvailable, SetInFlight, EntryStates
    <2>2. QED
      BY <1>1, <2>1 DEF EntryAdded
  <1>2. ASSUME NEW h \in Heights, EntryReady(h) PROVE TypeInv'
    BY <1>2 DEF EntryReady, EntryStates
  <1>3. CASE Decide
    BY <1>3 DEF Decide
  <1>4. CASE EngineRecord
    BY <1>4 DEF EngineRecord
  <1>5. ASSUME LoseMemory, UNCHANGED diskVars PROVE TypeInv'
    BY <1>5 DEF LoseMemory, NewRequestCache, EntryStates
  <1>6. CASE Restart
    BY <1>6 DEF Restart
  <1>7. CASE InitSkipped
    BY <1>7 DEF InitSkipped
  <1>8. CASE InitGenesis
    BY <1>8 DEF InitGenesis
  <1>9. CASE InitCommit
    BY <1>9 DEF InitCommit
  <1>10. CASE InitRespond
    BY <1>10 DEF InitRespond
  <1>11. CASE FinalizeInitial
    BY <1>11 DEF FinalizeInitial, Requested
  <1>12. ASSUME NEW h \in Heights, FinalizeEmpty(h) \/ FinalizeWithData(h)
         PROVE  TypeInv'
    <2>1. CASE FinalizeEmpty(h)
      BY <2>1 DEF FinalizeEmpty
    <2>2. CASE FinalizeWithData(h)
      BY <2>2 DEF FinalizeWithData
    <2>3. QED
      BY <1>12, <2>1, <2>2
  <1>13. CASE SaveBlockData
    BY <1>13 DEF SaveBlockData
  <1>14. CASE DeliverBlock
    BY <1>14 DEF DeliverBlock
  <1>15. CASE Rebase
    BY <1>15 DEF Rebase
  <1>16. CASE Commit
    BY <1>16 DEF Commit
  <1>17. CASE Respond
    BY <1>17 DEF Respond
  <1>18. CASE SaveBlockResult
    BY <1>18 DEF SaveBlockResult, WithResults
  <1>19. CASE Fail
    BY <1>19 DEF Fail
  <1>20. CASE HandleLagStateUpdate
    BY <1>20 DEF HandleLagStateUpdate
  <1>21. CASE CatchupAccepts
    BY <1>21 DEF CatchupAccepts
  <1>22. CASE UNCHANGED vars
    BY <1>22 DEF vars
  <1>23. QED
    BY <1>1, <1>2, <1>3, <1>4, <1>5, <1>6, <1>7, <1>8, <1>9, <1>10, <1>11,
       <1>12, <1>13, <1>14, <1>15, <1>16, <1>17, <1>18, <1>19, <1>20, <1>21,
       <1>22
    DEF Next, Crash, FinalizeWithoutEntry

\* The driver's and the engine's variables keep their types, whatever fails.
THEOREM DriverTypeCorrect == Spec => []TypeOK
  <1>1. TypeInv => TypeOK
    BY DEF TypeInv
  <1>2. QED
    BY <1>1, TypeInit, TypeStep, PTL DEF Spec

-----------------------------------------------------------------------------
(* The SDK store and the engine.  StoreTracksEngine is not inductive: a    *)
(* commit is for the height after the engine's last only because of what   *)
(* the driver was asked for when it took the height in hand.               *)

\* An answer on its way is for the height after the engine's last, which is
\* committed; none is on its way while the driver works towards a commit.
LevelInv ==
    /\ StoreTracksEngine
    /\ resp # -1 => resp = engFinal + 1 /\ resp = sdkVersion
    /\ dpc \in {"init", "initCommit", "initRespond", "wait", "deliver",
                "rebase", "commit", "respond"} => resp = -1
    /\ dpc \in {"initCommit", "initRespond"} => engFinal = -1
    /\ dpc = "initRespond" => sdkVersion = 0
    /\ dpc \in {"wait", "deliver", "rebase", "commit", "respond"}
           => cur = engFinal + 1
    /\ dpc = "respond" => sdkVersion = cur

LEMMA LevelStep == TypeInv /\ LevelInv /\ [Next]_vars => LevelInv'
  <1> SUFFICES ASSUME TypeInv, LevelInv, [Next]_vars PROVE LevelInv'
    OBVIOUS
  <1> USE ConstantsAssumption
      DEF TypeInv, TypeOK, LevelInv, StoreTracksEngine, Versions, Heights, diskVars
  <1>1. ASSUME UNCHANGED <<sdkVersion, engFinal, resp, dpc, cur>>
        PROVE  LevelInv'
    BY <1>1
  <1>2. ASSUME UNCHANGED <<sdkVersion, engFinal, resp>>, dpc' = "ended"
        PROVE  LevelInv'
    BY <1>2
  <1>3. CASE EngineRecord
    BY <1>3 DEF EngineRecord
  <1>4. ASSUME LoseMemory, UNCHANGED diskVars PROVE LevelInv'
    BY <1>4 DEF LoseMemory
  <1>5. CASE Restart
    BY <1>5 DEF Restart, Shape
  <1>6. CASE InitSkipped
    BY <1>6 DEF InitSkipped
  <1>7. CASE InitGenesis
    BY <1>7 DEF InitGenesis
  <1>8. CASE InitCommit
    BY <1>8 DEF InitCommit
  <1>9. CASE InitRespond
    BY <1>9 DEF InitRespond
  <1>10. CASE FinalizeInitial
    BY <1>10 DEF FinalizeInitial, Requested
  <1>11. ASSUME NEW h \in Heights, FinalizeEmpty(h) PROVE LevelInv'
    BY <1>11 DEF FinalizeEmpty, Requested
  <1>12. ASSUME NEW h \in Heights, FinalizeWithData(h) PROVE LevelInv'
    BY <1>12 DEF FinalizeWithData, Requested
  <1>13. CASE SaveBlockData
    BY <1>13 DEF SaveBlockData
  <1>14. CASE DeliverBlock
    BY <1>14 DEF DeliverBlock
  <1>15. CASE Rebase
    BY <1>15 DEF Rebase
  <1>16. CASE Commit
    BY <1>16 DEF Commit
  <1>17. CASE Respond
    BY <1>17 DEF Respond
  <1>18. CASE SaveBlockResult
    BY <1>18 DEF SaveBlockResult
  <1>19. CASE Fail
    BY <1>2, <1>19 DEF Fail
  <1>20. CASE HandleLagStateUpdate
    BY <1>20 DEF HandleLagStateUpdate
  <1>21. CASE CatchupAccepts
    BY <1>21 DEF CatchupAccepts
  <1>22. ASSUME \/ \E h \in Heights, ready \in BOOLEAN : EntryAdded(h, ready)
                \/ \E h \in Heights : EntryReady(h)
                \/ Decide
                \/ UNCHANGED vars
         PROVE  LevelInv'
    BY <1>1, <1>22 DEF EntryAdded, EntryReady, Decide, vars
  <1>23. QED
    BY <1>3, <1>4, <1>5, <1>6, <1>7, <1>8, <1>9, <1>10, <1>11, <1>12, <1>13,
       <1>14, <1>15, <1>16, <1>17, <1>18, <1>19, <1>20, <1>21, <1>22
    DEF Next, Crash, FinalizeWithoutEntry

\* Wherever the process dies and whatever fails, the engine has no answer for
\* a height that is not committed, and the SDK store is at most one ahead.
THEOREM StoreTracksEngineHolds == Spec => []StoreTracksEngine
  <1>1. Init => LevelInv
    BY DEF Init, LevelInv, StoreTracksEngine
  <1>2. LevelInv => StoreTracksEngine
    BY DEF LevelInv
  <1>3. QED
    BY <1>1, <1>2, TypeInit, TypeStep, LevelStep, PTL DEF Spec

\* The height in hand was decided before it was requested.
RequestedInv == cur <= decided

LEMMA RequestedStep == TypeInv /\ RequestedInv /\ [Next]_vars => RequestedInv'
  <1> SUFFICES ASSUME TypeInv, RequestedInv, [Next]_vars PROVE RequestedInv'
    OBVIOUS
  <1> USE DEF RequestedInv, diskVars
  <1>1. decided \in Nat /\ cur \in Nat
    BY ConstantsAssumption DEF TypeInv, TypeOK
  <1>2. ASSUME cur' = cur \/ cur' = 0, UNCHANGED decided PROVE RequestedInv'
    BY <1>1, <1>2
  <1>3. CASE Decide
    BY <1>1, <1>3 DEF Decide
  <1>4. ASSUME \/ FinalizeInitial
               \/ \E h \in Heights : FinalizeEmpty(h) \/ FinalizeWithData(h)
        PROVE  RequestedInv'
    BY <1>4 DEF FinalizeInitial, FinalizeEmpty, FinalizeWithData, Requested
  <1>5. ASSUME \/ \E h \in Heights, ready \in BOOLEAN : EntryAdded(h, ready)
               \/ \E h \in Heights : EntryReady(h) \/ FinalizeWithoutEntry(h)
               \/ EngineRecord \/ Crash \/ Restart
               \/ InitSkipped \/ InitGenesis \/ InitCommit \/ InitRespond
               \/ UNCHANGED vars
        PROVE  RequestedInv'
    BY <1>2, <1>5
    DEF EntryAdded, EntryReady, FinalizeWithoutEntry, LoseMemory, EngineRecord,
        Crash, Restart, InitSkipped, InitGenesis, InitCommit, InitRespond, vars
  <1>6. ASSUME \/ SaveBlockData \/ DeliverBlock \/ Rebase \/ Commit \/ Respond
               \/ SaveBlockResult \/ Fail
               \/ HandleLagStateUpdate \/ CatchupAccepts
        PROVE  RequestedInv'
    BY <1>2, <1>6
    DEF SaveBlockData, DeliverBlock, Rebase, Commit, Respond, SaveBlockResult,
        Fail, HandleLagStateUpdate, CatchupAccepts
  <1>7. QED
    BY <1>3, <1>4, <1>5, <1>6 DEF Next

\* A step of the driver or of its environment is a step of BlockLog, or none.
\* A commit is for the height after the engine's last: the first time it
\* advances the log, the second time, after a crash, it does not.
LEMMA LogStep ==
    TypeInv /\ LevelInv /\ RequestedInv /\ [Next]_vars
        => [Log!Next]_<<decided, sdkVersion, engFinal>>
  <1> SUFFICES ASSUME TypeInv, LevelInv, RequestedInv, [Next]_vars
               PROVE  Log!Next \/ UNCHANGED <<decided, sdkVersion, engFinal>>
    OBVIOUS
  <1> USE DEF diskVars, Log!Next
  <1>1. CASE Decide
    BY <1>1 DEF Decide, Log!Decide
  <1>2. CASE EngineRecord
    <2>1. engFinal < sdkVersion /\ engFinal' = sdkVersion
      BY <1>2 DEF EngineRecord, LevelInv, TypeInv, TypeOK, Versions
    <2> QED
      BY <1>2, <2>1 DEF EngineRecord, Log!Record
  <1>3. CASE InitCommit
    <2>1. engFinal = -1 /\ sdkVersion \in {-1, 0} /\ decided \in Nat
      BY <1>3, ConstantsAssumption
      DEF InitCommit, LevelInv, StoreTracksEngine, TypeInv, TypeOK, Versions
    <2> QED
      BY <1>3, <2>1 DEF InitCommit, Log!Commit
  <1>4. CASE Commit
    <2>1. cur = engFinal + 1 /\ sdkVersion \in {engFinal, engFinal + 1}
      BY <1>4, ConstantsAssumption
      DEF Commit, LevelInv, StoreTracksEngine, TypeInv, TypeOK, Versions
    <2>2. cur <= decided /\ engFinal \in Int /\ decided \in Int
      BY <1>4, ConstantsAssumption
      DEF Commit, RequestedInv, TypeInv, TypeOK, Versions
    <2> QED
      BY <1>4, <2>1, <2>2 DEF Commit, Log!Commit
  <1>5. CASE UNCHANGED <<decided, sdkVersion, engFinal>>
    BY <1>5
  <1>6. ASSUME \/ \E h \in Heights, ready \in BOOLEAN : EntryAdded(h, ready)
               \/ \E h \in Heights : EntryReady(h)
               \/ Crash \/ Restart \/ InitSkipped \/ InitGenesis \/ InitRespond
               \/ UNCHANGED vars
        PROVE  UNCHANGED <<decided, sdkVersion, engFinal>>
    BY <1>6
    DEF EntryAdded, EntryReady, Crash, Restart, InitSkipped, InitGenesis,
        InitRespond, vars
  <1>7. ASSUME \/ FinalizeInitial
               \/ \E h \in Heights : \/ FinalizeEmpty(h)
                                     \/ FinalizeWithData(h)
                                     \/ FinalizeWithoutEntry(h)
               \/ SaveBlockData \/ DeliverBlock \/ Rebase
               \/ Respond \/ SaveBlockResult \/ Fail
               \/ HandleLagStateUpdate \/ CatchupAccepts
        PROVE  UNCHANGED <<decided, sdkVersion, engFinal>>
    BY <1>7
    DEF FinalizeInitial, FinalizeEmpty, FinalizeWithData, FinalizeWithoutEntry,
        SaveBlockData, DeliverBlock, Rebase, Respond, SaveBlockResult, Fail,
        HandleLagStateUpdate, CatchupAccepts
  <1>8. QED
    BY <1>1, <1>2, <1>3, <1>4, <1>5, <1>6, <1>7 DEF Next

\* Seen from the disk, the driver is BlockLog: no crash and no error makes the
\* application or the engine skip a height, go back, or go past the decisions.
THEOREM KeepsLogHolds == Spec => KeepsLog
  <1>1. Init => Log!Init
    BY DEF Init, Log!Init
  <1>2. Init => LevelInv /\ RequestedInv
    BY ConstantsAssumption
    DEF Init, LevelInv, StoreTracksEngine, RequestedInv
  <1>3. QED
    BY <1>1, <1>2, TypeInit, TypeStep, LevelStep, RequestedStep, LogStep, PTL
    DEF Spec, KeepsLog, Log!Spec

-----------------------------------------------------------------------------
(* The transaction buffer.  After the rebase it is ahead of the SDK store  *)
(* until the state it is on is committed.                                  *)
BufferInv ==
    /\ dpc \in {"initRespond", "loop", "lag", "respond", "saveResult"}
           => txBase = sdkState
    /\ dpc \in {"initCommit", "commit"} => txBase = newState

LEMMA BufferStep == BufferInv /\ [Next]_vars => BufferInv'
  <1> SUFFICES ASSUME BufferInv, [Next]_vars PROVE BufferInv'
    OBVIOUS
  <1> USE DEF BufferInv, diskVars
  <1>1. ASSUME UNCHANGED <<txBase, sdkState, newState, dpc>> PROVE BufferInv'
    BY <1>1
  <1>2. ASSUME dpc' \in {"init", "wait", "deliver", "rebase", "ended", "down"}
        PROVE  BufferInv'
    BY <1>2
  <1>3. CASE InitSkipped \/ InitGenesis \/ InitCommit \/ InitRespond
    BY <1>3 DEF InitSkipped, InitGenesis, InitCommit, InitRespond
  <1>4. CASE FinalizeInitial
    BY <1>4 DEF FinalizeInitial
  <1>5. CASE Rebase
    BY <1>5 DEF Rebase
  <1>6. CASE Commit
    BY <1>6 DEF Commit
  <1>7. CASE Respond \/ SaveBlockResult
    BY <1>7 DEF Respond, SaveBlockResult
  <1>8. CASE HandleLagStateUpdate \/ CatchupAccepts
    BY <1>8 DEF HandleLagStateUpdate, CatchupAccepts
  <1>9. ASSUME \/ Restart \/ Crash \/ SaveBlockData \/ DeliverBlock \/ Fail
               \/ \E h \in Heights : \/ FinalizeEmpty(h)
                                     \/ FinalizeWithData(h)
                                     \/ FinalizeWithoutEntry(h)
        PROVE  BufferInv'
    BY <1>2, <1>9
    DEF Restart, Crash, LoseMemory, SaveBlockData, DeliverBlock, Fail,
        FinalizeEmpty, FinalizeWithData, FinalizeWithoutEntry
  <1>10. ASSUME \/ \E h \in Heights, ready \in BOOLEAN : EntryAdded(h, ready)
                \/ \E h \in Heights : EntryReady(h)
                \/ Decide \/ EngineRecord
                \/ UNCHANGED vars
         PROVE  BufferInv'
    BY <1>1, <1>10 DEF EntryAdded, EntryReady, Decide, EngineRecord, vars
  <1>11. QED
    BY <1>3, <1>4, <1>5, <1>6, <1>7, <1>8, <1>9, <1>10 DEF Next

\* Between requests the buffer simulates transactions on the state the SDK
\* store holds.
THEOREM BufferOnCommittedStateHolds == Spec => []BufferOnCommittedState
  <1>1. Init => BufferInv
    BY DEF Init, BufferInv
  <1>2. BufferInv => BufferOnCommittedState
    BY DEF BufferInv, BufferOnCommittedState
  <1>3. QED
    BY <1>1, <1>2, BufferStep, PTL DEF Spec

-----------------------------------------------------------------------------
(* Stored block data.                                                      *)

\* A height in hand that has transactions and is past "wait" is saved.
SavedInv ==
    /\ AnsweredDataStored
    /\ dpc \in {"deliver", "rebase", "commit", "respond"}
           /\ cur \in DataHeights \ {1} => cur \in bdStore

LEMMA SavedStep == TypeInv /\ SavedInv /\ [Next]_vars => SavedInv'
  <1> SUFFICES ASSUME TypeInv, SavedInv, [Next]_vars PROVE SavedInv'
    OBVIOUS
  <1> USE DEF SavedInv, AnsweredDataStored, diskVars
  <1>1. ASSUME UNCHANGED <<answered, bdStore, cur, dpc>> PROVE SavedInv'
    BY <1>1
  <1>2. ASSUME UNCHANGED <<answered, bdStore>>,
               dpc' \notin {"deliver", "rebase", "commit", "respond"}
        PROVE  SavedInv'
    BY <1>2
  <1>3. CASE FinalizeInitial
    BY <1>3 DEF FinalizeInitial
  <1>4. ASSUME NEW h \in Heights, FinalizeEmpty(h) PROVE SavedInv'
    BY <1>4 DEF FinalizeEmpty
  <1>5. CASE SaveBlockData
    BY <1>5 DEF SaveBlockData
  <1>6. CASE DeliverBlock \/ Rebase \/ Commit
    BY <1>6 DEF DeliverBlock, Rebase, Commit
  <1>7. CASE Respond
    BY <1>7 DEF Respond
  <1>8. ASSUME LoseMemory PROVE SavedInv'
    BY <1>8 DEF LoseMemory
  <1>9. ASSUME \/ Restart \/ InitSkipped \/ InitGenesis \/ InitCommit
               \/ InitRespond \/ SaveBlockResult \/ Fail
               \/ HandleLagStateUpdate \/ CatchupAccepts
               \/ \E h \in Heights : FinalizeWithData(h)
        PROVE  SavedInv'
    BY <1>2, <1>9
    DEF Restart, InitSkipped, InitGenesis, InitCommit, InitRespond,
        SaveBlockResult, Fail, HandleLagStateUpdate, CatchupAccepts,
        FinalizeWithData
  <1>10. ASSUME \/ \E h \in Heights, ready \in BOOLEAN : EntryAdded(h, ready)
                \/ \E h \in Heights : EntryReady(h)
                \/ Decide \/ EngineRecord
                \/ UNCHANGED vars
         PROVE  SavedInv'
    BY <1>1, <1>10 DEF EntryAdded, EntryReady, Decide, EngineRecord, vars
  <1>11. QED
    BY <1>3, <1>4, <1>5, <1>6, <1>7, <1>8, <1>9, <1>10
    DEF Next, Crash, FinalizeWithoutEntry

\* The data of every answered block but the initial one is stored, and the
\* finalization of the initial one passes over its data.
THEOREM AnsweredDataStoredHolds == Spec => []AnsweredDataStored
  <1>1. Init => SavedInv
    BY DEF Init, SavedInv, AnsweredDataStored
  <1>2. SavedInv => AnsweredDataStored
    BY DEF SavedInv
  <1>3. QED
    BY <1>1, <1>2, TypeInit, TypeStep, SavedStep, PTL DEF Spec

-----------------------------------------------------------------------------
(* Transaction results.  ResultsTrailByOne is inductive: the height in     *)
(* hand is the one that is answered, and no height is in hand between      *)
(* requests.                                                               *)

LEMMA ResultsStep ==
    TypeInv /\ ResultsTrailByOne /\ [Next]_vars => ResultsTrailByOne'
  <1> SUFFICES ASSUME TypeInv, ResultsTrailByOne, [Next]_vars
               PROVE  ResultsTrailByOne'
    OBVIOUS
  <1> USE DEF ResultsTrailByOne, diskVars
  <1>1. ASSUME UNCHANGED <<answered, txStore, cur>>,
               dpc = "ended" => dpc' = "ended"
        PROVE  ResultsTrailByOne'
    BY <1>1
  <1>2. dpc \in {"loop", "lag"} => answered \ {1} \subseteq txStore
    BY DEF TypeInv, TypeOK, Shape, Heights
  <1>3. ASSUME \/ FinalizeInitial
               \/ \E h \in Heights : FinalizeEmpty(h) \/ FinalizeWithData(h)
        PROVE  ResultsTrailByOne'
    BY <1>2, <1>3 DEF FinalizeInitial, FinalizeEmpty, FinalizeWithData
  <1>4. CASE Respond
    BY <1>4 DEF Respond
  <1>5. CASE SaveBlockResult
    BY <1>5 DEF SaveBlockResult, WithResults
  <1>6. ASSUME LoseMemory PROVE ResultsTrailByOne'
    BY <1>6 DEF LoseMemory
  <1>7. ASSUME \/ Restart \/ InitSkipped \/ InitGenesis \/ InitCommit
               \/ InitRespond \/ SaveBlockData \/ DeliverBlock \/ Rebase
               \/ Commit \/ Fail \/ HandleLagStateUpdate \/ CatchupAccepts
        PROVE  ResultsTrailByOne'
    BY <1>1, <1>7
    DEF Restart, InitSkipped, InitGenesis, InitCommit, InitRespond,
        SaveBlockData, DeliverBlock, Rebase, Commit, Fail,
        HandleLagStateUpdate, CatchupAccepts
  <1>8. ASSUME \/ \E h \in Heights, ready \in BOOLEAN : EntryAdded(h, ready)
               \/ \E h \in Heights : EntryReady(h)
               \/ Decide \/ EngineRecord
               \/ UNCHANGED vars
        PROVE  ResultsTrailByOne'
    BY <1>1, <1>8 DEF EntryAdded, EntryReady, Decide, EngineRecord, vars
  <1>9. QED
    BY <1>3, <1>4, <1>5, <1>6, <1>7, <1>8
    DEF Next, Crash, FinalizeWithoutEntry

\* The results of every answered block but the one in hand are stored.
THEOREM ResultsTrailByOneHolds == Spec => []ResultsTrailByOne
  <1>1. Init => ResultsTrailByOne
    BY DEF Init, ResultsTrailByOne
  <1>2. QED
    BY <1>1, TypeInit, TypeStep, ResultsStep, PTL DEF Spec

-----------------------------------------------------------------------------
(* The node implements the driver.                                         *)

LEMMA NodeStepIsDriverStep == [NodeNext]_nodeVars => [Next]_vars
<1> SUFFICES ASSUME [NodeNext]_nodeVars
             PROVE  [Next]_vars
  OBVIOUS
<1>1. CASE NodeDecide
  BY <1>1 DEF NodeDecide, Next
<1>2. CASE NodeRebase
  BY <1>2 DEF NodeRebase, Next
<1>3. CASE NodeDown
  BY <1>3 DEF NodeDown, Next
<1>4. CASE OtherDriverStep
  BY <1>4 DEF OtherDriverStep, Next
<1>5. CASE UNCHANGED vars
  BY <1>5
<1> QED
  BY <1>1, <1>2, <1>3, <1>4, <1>5 DEF NodeNext, nodeVars

\* Every behaviour of the node is one of the driver.
THEOREM NodeImplementsDriver == NodeSpec => Spec
<1>1. NodeInit => Init
  BY DEF NodeInit
<1> QED
  BY <1>1, NodeStepIsDriverStep, PTL DEF NodeSpec, Spec

\* The application and the engine stay together (StoreTracksEngine), with peers
\* and clients at work.
THEOREM NodeStoreTracksEngine == NodeSpec => []StoreTracksEngine
  BY NodeImplementsDriver, StoreTracksEngineHolds, PTL

\* The disk is BlockLog whatever peers and clients do.
THEOREM NodeKeepsLog == NodeSpec => KeepsLog
  BY NodeImplementsDriver, KeepsLogHolds, PTL

\* The transaction buffer is on the committed state between requests.
THEOREM NodeBufferOnCommittedState == NodeSpec => []BufferOnCommittedState
  BY NodeImplementsDriver, BufferOnCommittedStateHolds, PTL

\* Transaction results trail the answer by at most a height.
THEOREM NodeResultsTrailByOne == NodeSpec => []ResultsTrailByOne
  BY NodeImplementsDriver, ResultsTrailByOneHolds, PTL

-----------------------------------------------------------------------------
(* Streams.                                                                *)

\* What a stream that was opened for an answered block remains entitled to,
\* step by step.
StreamInv ==
    /\ HostTypeOK
    /\ stream.sure => stream.height \in answered /\ stream.height <= headers
    /\ stream.pc = "loadData" => stream.height \in DataHeights
    /\ AnsweredBlockServed

\* A step of the driver forgets an answered height only when the process dies.
LEMMA AnsweredKept ==
    NodeDecide \/ NodeRebase \/ OtherDriverStep => answered \subseteq answered'
  BY DEF NodeDecide, Decide, NodeRebase, Rebase, OtherDriverStep, EntryAdded,
     EntryReady, EngineRecord, Restart, InitSkipped, InitGenesis, InitCommit,
     InitRespond, FinalizeInitial, FinalizeEmpty, FinalizeWithData,
     SaveBlockData, DeliverBlock, Commit, Respond, SaveBlockResult, Fail,
     HandleLagStateUpdate, CatchupAccepts

\* A reply ends the stream, and keeps the invariant if it is one the stream is
\* entitled to.
LEMMA ReplyKeepsStreamInv ==
    ASSUME StreamInv, NEW r \in Replies,
           stream.sure /\ stream.height \notin NeverStored
               => r \in {"served", "failed"},
           Reply(r), UNCHANGED <<answered, headers>>
    PROVE  StreamInv'
<1> USE DEF StreamInv, HostTypeOK, Streams
<1>1. stream' = [pc |-> "replied", handler |-> stream.handler,
                 height |-> stream.height, sure |-> stream.sure, reply |-> r]
  BY DEF Reply
<1>2. HostTypeOK'
  BY <1>1
<1>3. AnsweredBlockServed'
  BY <1>1 DEF AnsweredBlockServed
<1> QED
  BY <1>1, <1>2, <1>3

LEMMA HostStepKeepsStreamInv ==
    ASSUME TypeOK, AnsweredDataStored, StreamInv, HostStep, UNCHANGED vars
    PROVE  StreamInv'
<1> USE ConstantsAssumption
    DEF StreamInv, HostTypeOK, Streams, AnsweredBlockServed, Handlers, Replies
<1>1. UNCHANGED <<answered, bdStore, decided, dpc>>
  BY DEF vars, diskVars
<1>2. CASE SaveCommittedHeader
  BY <1>1, <1>2 DEF SaveCommittedHeader, TypeOK
<1>3. CASE \E handler \in Handlers, h \in Heights : OpenStream(handler, h)
  <2> PICK handler \in Handlers, h \in Heights : OpenStream(handler, h)
    BY <1>3
  <2> DEFINE sure == h \in answered /\ h <= headers
  <2>1. sure \in BOOLEAN
    BY Zenon
  <2>2. /\ stream' = [pc |-> "loadHeader", handler |-> handler, height |-> h,
                     sure |-> sure, reply |-> "failed"]
        /\ UNCHANGED headers
    BY DEF OpenStream
  <2>3. sure => h \in answered /\ h <= headers
    OBVIOUS
  <2> HIDE DEF sure
  <2> QED
    BY <1>1, <2>1, <2>2, <2>3 DEF Heights
<1>4. CASE HeightUnknown
  <2>1. ~stream.sure
    BY <1>4 DEF HeightUnknown
  <2> QED
    BY <1>1, <1>4, <2>1, ReplyKeepsStreamInv DEF HeightUnknown
<1>5. CASE LoadHeaderFails
  BY <1>1, <1>5, ReplyKeepsStreamInv DEF LoadHeaderFails
<1>6. CASE LoadHeader
  <2>1. CASE Reply("served")
    BY <1>1, <1>6, <2>1, ReplyKeepsStreamInv DEF LoadHeader
  <2>2. CASE stream' = [stream EXCEPT !.pc = "loadData"]
             /\ stream.height \in DataHeights
    BY <1>1, <1>6, <2>2 DEF LoadHeader
  <2> QED
    BY <1>6, <2>1, <2>2 DEF LoadHeader
<1>7. CASE LoadBlockData
  <2>1. stream.sure /\ stream.height \notin NeverStored => stream.height \in bdStore
    BY <1>7 DEF LoadBlockData, LoadBlockDataByHeight, AnsweredDataStored, NeverStored
  <2> QED
    BY <1>1, <1>7, <2>1, ReplyKeepsStreamInv DEF LoadBlockData, LoadBlockDataByHeight
<1>8. CASE CloseStream
  BY <1>1, <1>8 DEF CloseStream, NoStream
<1> QED
  BY <1>2, <1>3, <1>4, <1>5, <1>6, <1>7, <1>8 DEF HostStep

LEMMA StreamStep ==
    TypeOK /\ AnsweredDataStored /\ StreamInv /\ [NodeNext]_nodeVars => StreamInv'
<1> SUFFICES ASSUME TypeOK, AnsweredDataStored, StreamInv, [NodeNext]_nodeVars
             PROVE  StreamInv'
  OBVIOUS
<1>1. ASSUME answered \subseteq answered', UNCHANGED hostVars
      PROVE  StreamInv'
  BY <1>1 DEF StreamInv, HostTypeOK, AnsweredBlockServed, hostVars
<1>2. CASE NodeDecide
  BY <1>1, <1>2, AnsweredKept DEF NodeDecide
<1>3. CASE NodeRebase
  BY <1>1, <1>3, AnsweredKept DEF NodeRebase
<1>4. CASE OtherDriverStep /\ UNCHANGED <<hostVars, txVars>>
  BY <1>1, <1>4, AnsweredKept
<1>5. CASE NodeDown
  BY <1>5, ConstantsAssumption
     DEF NodeDown, StreamLost, NoStream, StreamInv, HostTypeOK, Streams,
         Handlers, Replies, AnsweredBlockServed
<1>6. CASE HostStep /\ UNCHANGED <<vars, txVars>>
  BY <1>6, HostStepKeepsStreamInv
<1>7. CASE UNCHANGED <<vars, hostVars>>
  BY <1>1, <1>7 DEF vars
<1> QED
  BY <1>2, <1>3, <1>4, <1>5, <1>6, <1>7 DEF NodeNext, nodeVars

\* A request for a full block with a recorded header and an answered
\* finalization is not told that the block is unknown or, but for an initial
\* block with transactions, that its data is missing.
THEOREM AnsweredBlocksServed == NodeSpec => []AnsweredBlockServed
<1>1. NodeInit => StreamInv
  BY ConstantsAssumption
     DEF NodeInit, HostInit, NoStream, StreamInv, HostTypeOK, Streams,
         Handlers, Replies, AnsweredBlockServed
<1>2. StreamInv => AnsweredBlockServed
  BY DEF StreamInv
<1>3. NodeSpec => []TypeOK /\ []AnsweredDataStored
  BY NodeImplementsDriver, DriverTypeCorrect, AnsweredDataStoredHolds, PTL
<1> QED
  BY <1>1, <1>2, <1>3, StreamStep, PTL DEF NodeSpec

-----------------------------------------------------------------------------
(* The application and the buffer.                                         *)

\* Executing transactions of which each is the next one advances the state by
\* one for each; other transactions change nothing.
LEMMA ExecuteIs ==
    ASSUME NEW n \in Nat, NEW txs \in Seq(Txs)
    PROVE  \E state \in [0 .. Len(txs) -> Nat] :
              /\ state[0] = n
              /\ \A i \in 1 .. Len(txs) :
                    state[i] = IF Executable(txs[i], state[i - 1])
                               THEN state[i - 1] + 1 ELSE state[i - 1]
              /\ Execute(n, txs) = state[Len(txs)]
<1> DEFINE N == Len(txs)
           step == [i \in 1 .. N |->
                       [x \in Nat |-> IF Executable(txs[i], x) THEN x + 1 ELSE x]]
           State(f) == [i \in 0 .. N |->
                           IF i = 0 THEN n
                           ELSE IF Executable(txs[i], f[i - 1])
                           THEN f[i - 1] + 1 ELSE f[i - 1]]
           state == CHOOSE f : f = State(f)
<1>1. Execute(n, txs) = state[N]
  BY DEF Execute
<1>2. N \in Nat
  OBVIOUS
<1>3. PICK g \in [0 .. N -> Nat] : Recursion(g, N, n, step)
  <2>1. step \in [1 .. N -> [Nat -> Nat]]
    OBVIOUS
  <2> HIDE DEF step, N
  <2> QED
    BY <1>2, <2>1, RecursionExists, Zenon
<1> HIDE DEF N
<1>4. /\ g[0] = n
      /\ \A i \in 1 .. N : g[i] = IF Executable(txs[i], g[i - 1])
                                  THEN g[i - 1] + 1 ELSE g[i - 1]
  <2>1. g[0] = n /\ \A i \in 1 .. N : g[i] = step[i][g[i - 1]]
    <3> HIDE DEF step
    <3> QED
      BY <1>3 DEF Recursion
  <2>2. \A i \in 1 .. N : g[i - 1] \in Nat
    BY <1>2, <1>3
  <2> QED
    BY <2>1, <2>2
<1> HIDE DEF step
<1>5. g = State(g)
  BY <1>3, <1>4
<1>6. state = State(state)
  <2> HIDE DEF State
  <2> QED
    BY <1>5
<1>7. /\ state = [i \in 0 .. N |-> state[i]]
      /\ state[0] = n
      /\ \A i \in 1 .. N : state[i] = IF Executable(txs[i], state[i - 1])
                                      THEN state[i - 1] + 1 ELSE state[i - 1]
  <2> HIDE DEF state
  <2>1. state = [i \in 0 .. N |->
                    IF i = 0 THEN n
                    ELSE IF Executable(txs[i], state[i - 1])
                         THEN state[i - 1] + 1 ELSE state[i - 1]]
    BY <1>6, Zenon
  <2>2. state = [i \in 0 .. N |-> state[i]]
    BY <2>1, Zenon
  <2>3. 0 \in 0 .. N /\ \A i \in 1 .. N : i \in 0 .. N /\ i # 0
    BY <1>2
  <2>4. state[0] = n
    BY <2>1, <2>3
  <2>5. \A i \in 1 .. N : state[i] = IF Executable(txs[i], state[i - 1])
                                      THEN state[i - 1] + 1 ELSE state[i - 1]
    <3> SUFFICES ASSUME NEW i \in 1 .. N
                 PROVE  state[i] = IF Executable(txs[i], state[i - 1])
                                   THEN state[i - 1] + 1 ELSE state[i - 1]
      OBVIOUS
    <3>1. i \in 0 .. N /\ i # 0
      BY <2>3
    <3> QED
      BY <2>1, <3>1, Zenon
  <2> QED
    BY <2>2, <2>4, <2>5, Zenon
<1> HIDE DEF state
<1>8. \A i \in 0 .. N : state[i] \in Nat
  <2> DEFINE T == {i \in 0 .. N : state[i] \in Nat}
  <2>1. 0 \in T
    BY <1>2, <1>7
  <2>2. ASSUME NEW i \in 1 .. N, i - 1 \in T
        PROVE  i \in T
    <3>1. state[i - 1] \in Nat /\ i \in 0 .. N
      BY <1>2, <2>2
    <3>2. state[i] = state[i - 1] + 1 \/ state[i] = state[i - 1]
      BY <1>7, Zenon
    <3>3. state[i] \in Nat
      BY <3>1, <3>2
    <3> QED
      BY <3>1, <3>3
  <2> HIDE DEF T
  <2>3. \A i \in 0 .. N : i \in T
    BY <1>2, <2>1, <2>2, InductionTo
  <2> QED
    BY <2>3 DEF T
<1>9. state \in [0 .. N -> Nat]
  BY <1>7, <1>8
<1> QED
  BY <1>1, <1>7, <1>9 DEF N

LEMMA ExecuteType ==
    ASSUME NEW n \in Nat, NEW txs \in Seq(Txs)
    PROVE  Execute(n, txs) \in Nat
<1>1. Len(txs) \in 0 .. Len(txs)
  OBVIOUS
<1> QED
  BY <1>1, ExecuteIs

LEMMA ExecuteAll ==
    ASSUME NEW n \in Nat, NEW txs \in Seq(Txs), AllExecutable(n, txs)
    PROVE  Execute(n, txs) = n + Len(txs)
<1> DEFINE N == Len(txs)
<1>1. N \in Nat /\ N \in 0 .. N
  OBVIOUS
<1>2. PICK state \in [0 .. Len(txs) -> Nat] :
              /\ state[0] = n
              /\ \A i \in 1 .. Len(txs) :
                    state[i] = IF Executable(txs[i], state[i - 1])
                               THEN state[i - 1] + 1 ELSE state[i - 1]
              /\ Execute(n, txs) = state[Len(txs)]
  BY ExecuteIs
<1> DEFINE T == {i \in 0 .. N : state[i] = n + i}
<1>3. 0 \in T
  BY <1>1, <1>2
<1>4. ASSUME NEW i \in 1 .. N, i - 1 \in T
      PROVE  i \in T
  <2>1. state[i - 1] = n + (i - 1) /\ i \in 0 .. N /\ i \in Int
    BY <1>1, <1>4
  <2>2. Executable(txs[i], n + (i - 1))
    <3>1. Executable(txs[i], n + i - 1)
      BY DEF AllExecutable
    <3>2. n + i - 1 = n + (i - 1)
      BY <2>1
    <3> QED
      BY <3>1, <3>2
  <2>3. state[i] = state[i - 1] + 1
    BY <1>2, <2>1, <2>2, Zenon
  <2> QED
    BY <2>1, <2>3
<1> HIDE DEF T
<1>5. \A i \in 0 .. N : i \in T
  BY <1>1, <1>3, <1>4, InductionTo
<1> QED
  BY <1>1, <1>2, <1>5 DEF T

\* A buffer that is moved on, by transactions that are executed then, keeps
\* what is not executed yet, in order.
LEMMA RebasedIs ==
    ASSUME NEW m \in Nat, NEW n \in Nat, m <= n,
           NEW txs \in Seq(Txs), AllExecutable(m, txs),
           NEW applied \in Seq(Txs),
           \A i \in DOMAIN applied : Number[applied[i]] <= n
    PROVE  /\ Rebased(txs, n, applied) \in Seq(Txs)
           /\ AllExecutable(n, Rebased(txs, n, applied))
           /\ \A t \in ToSet(txs) \ ToSet(Rebased(txs, n, applied)) : Number[t] <= n
<1> DEFINE N == Len(txs)
           k == n - m
           Left(i) == IF i <= k THEN <<>> ELSE SubSeq(txs, k + 1, i)
           Kept(f) == [i \in 0 .. N |->
                          IF i = 0 THEN <<>>
                          ELSE IF /\ ~Deleted(txs[i], applied)
                                  /\ Executable(txs[i], n + Len(f[i - 1]))
                          THEN Append(f[i - 1], txs[i])
                          ELSE f[i - 1]]
           kept == CHOOSE f : f = Kept(f)
<1>1. Rebased(txs, n, applied) = kept[N]
  BY DEF Rebased
<1>2. N \in Nat /\ k \in Nat /\ N \in 0 .. N
  OBVIOUS
<1> HIDE DEF N, k
<1>3. ASSUME NEW i \in 1 .. N
      PROVE  /\ i - 1 \in 0 .. N /\ i \in 1 .. Len(txs)
             /\ Number[txs[i]] = m + i
             /\ i <= k => Left(i) = <<>> /\ Left(i - 1) = <<>>
             /\ ~(i <= k) => /\ Left(i) = Append(Left(i - 1), txs[i])
                             /\ n + Len(Left(i - 1)) = m + i - 1
  <2>1. i \in Nat /\ i - 1 \in 0 .. N /\ i \in 1 .. Len(txs)
    BY <1>2 DEF N
  <2>2. Number[txs[i]] = m + i
    BY <2>1 DEF AllExecutable, Executable
  <2>3. i <= k => Left(i) = <<>> /\ Left(i - 1) = <<>>
    BY <1>2, <2>1
  <2>4. CASE ~(i <= k) /\ i - 1 <= k
    <3>1. i - 1 = k /\ Left(i) = SubSeq(txs, i, i) /\ Left(i - 1) = <<>>
      BY <1>2, <2>1, <2>4
    <3>2. SubSeq(txs, i, i) = Append(<<>>, txs[i])
      <4>1. Len(SubSeq(txs, i, i)) = 1 /\ SubSeq(txs, i, i)[1] = txs[i]
        BY <2>1
      <4>2. SubSeq(txs, i, i) \in Seq(Txs) /\ txs[i] \in Txs
        BY <2>1
      <4>3. Append(<<>>, txs[i]) = <<txs[i]>>
        OBVIOUS
      <4>4. \A q \in Seq(Txs) : Len(q) = 1 => q = <<q[1]>>
        OBVIOUS
      <4> QED
        BY <4>1, <4>2, <4>3, <4>4
    <3> HIDE DEF Left
    <3>3. n + Len(Left(i - 1)) = m + i - 1
      <4>1. Len(Left(i - 1)) = 0
        BY <3>1
      <4> QED
        BY <2>1, <3>1, <4>1 DEF k
    <3>4. Left(i) = Append(Left(i - 1), txs[i])
      BY <3>1, <3>2
    <3> QED
      BY <2>1, <2>2, <2>4, <3>3, <3>4
  <2>5. CASE ~(i - 1 <= k)
    <3>1. Left(i) = SubSeq(txs, k + 1, i) /\ Left(i - 1) = SubSeq(txs, k + 1, i - 1)
      BY <1>2, <2>1, <2>5
    <3>2. /\ SubSeq(txs, k + 1, i) = Append(SubSeq(txs, k + 1, i - 1), txs[i])
          /\ Len(SubSeq(txs, k + 1, i - 1)) = i - 1 - k
      <4>1. k + 1 \in 1 .. i - 1 /\ k + 1 \in Nat
        BY <1>2, <2>1, <2>5
      <4>2. \A a \in Nat : a \in 1 .. i - 1 =>
                /\ SubSeq(txs, a, i) = Append(SubSeq(txs, a, i - 1), txs[i])
                /\ Len(SubSeq(txs, a, i - 1)) = i - a
        BY <2>1
      <4>3. i - (k + 1) = i - 1 - k
        BY <1>2, <2>1
      <4> QED
        BY <4>1, <4>2, <4>3
    <3> HIDE DEF Left
    <3>3. n + Len(Left(i - 1)) = m + i - 1
      <4>1. Len(Left(i - 1)) = i - 1 - k
        BY <3>1, <3>2
      <4> QED
        BY <1>2, <2>1, <4>1 DEF k
    <3>4. ~(i <= k)
      BY <1>2, <2>1, <2>5
    <3> QED
      BY <1>2, <2>1, <2>2, <2>5, <3>1, <3>2, <3>3, <3>4
  <2> QED
    BY <2>1, <2>2, <2>3, <2>4, <2>5
<1> HIDE DEF Left
<1>4. Left(0) = <<>>
  BY <1>2 DEF Left
\* What is executed, and nothing else, is dropped.
<1>5. ASSUME NEW i \in 1 .. N
      PROVE  (/\ ~Deleted(txs[i], applied)
              /\ Executable(txs[i], n + Len(Left(i - 1)))) <=> ~(i <= k)
  <2>1. CASE i <= k
    <3>1. Len(Left(i - 1)) = 0 /\ Number[txs[i]] = m + i /\ i \in Nat
      BY <1>3, <2>1
    <3>2. Number[txs[i]] # n + Len(Left(i - 1)) + 1
      BY <1>2, <2>1, <3>1 DEF k
    <3> QED
      BY <2>1, <3>2 DEF Executable
  <2>2. CASE ~(i <= k)
    <3>1. Number[txs[i]] = m + i /\ n + Len(Left(i - 1)) = m + i - 1 /\ i \in Nat
      BY <1>3, <2>2
    <3>2. Executable(txs[i], n + Len(Left(i - 1)))
      BY <3>1 DEF Executable
    <3>3. ~(Number[txs[i]] <= n)
      BY <1>2, <2>2, <3>1 DEF k
    <3>4. ~Deleted(txs[i], applied)
      BY <3>3 DEF Deleted, ToSet
    <3> QED
      BY <2>2, <3>2, <3>4
  <2> QED
    BY <2>1, <2>2
<1>6. ASSUME NEW i \in 1 .. N
      PROVE  Left(i) = IF /\ ~Deleted(txs[i], applied)
                          /\ Executable(txs[i], n + Len(Left(i - 1)))
                       THEN Append(Left(i - 1), txs[i])
                       ELSE Left(i - 1)
  BY <1>3, <1>5
<1>7. kept = Kept(kept)
  <2> DEFINE g == [i \in 0 .. N |-> Left(i)]
  <2>1. \A i \in 1 .. N : g[i - 1] = Left(i - 1) /\ g[i] = Left(i)
    BY <1>3
  <2>2. g = Kept(g)
    BY <1>2, <1>4, <1>6, <2>1
  <2> HIDE DEF g, Kept
  <2> QED
    BY <2>2
<1>8. \A i \in 0 .. N : kept[i] = Left(i)
  <2> DEFINE T == {i \in 0 .. N : kept[i] = Left(i)}
  <2> HIDE DEF kept
  <2>1. 0 \in T
    BY <1>2, <1>4, <1>7
  <2>2. ASSUME NEW i \in 1 .. N, i - 1 \in T
        PROVE  i \in T
    <3>1. kept[i - 1] = Left(i - 1) /\ i \in 0 .. N /\ i # 0
      BY <2>2
    <3>2. kept[i] = Left(i)
      BY <1>6, <1>7, <3>1
    <3> QED
      BY <3>1, <3>2
  <2> HIDE DEF T
  <2>3. \A i \in 0 .. N : i \in T
    BY <1>2, <2>1, <2>2, InductionTo
  <2> QED
    BY <2>3 DEF T
<1>9. Rebased(txs, n, applied) = IF N <= k THEN <<>> ELSE SubSeq(txs, k + 1, N)
  BY <1>1, <1>2, <1>8 DEF Left
<1> HIDE DEF kept, Kept
<1>10. CASE N <= k
  <2>1. \A i \in 1 .. N : Number[txs[i]] <= n
    BY <1>2, <1>3, <1>10 DEF k
  <2>2. \A t \in ToSet(txs) : Number[t] <= n
    BY <2>1 DEF ToSet, N
  <2>3. Rebased(txs, n, applied) = <<>>
    BY <1>9, <1>10
  <2> QED
    BY <2>2, <2>3 DEF AllExecutable
<1>11. CASE ~(N <= k)
  <2> DEFINE r == SubSeq(txs, k + 1, N)
  <2>1. /\ r \in Seq(Txs) /\ Len(r) = N - k
        /\ \A j \in 1 .. N - k : r[j] = txs[k + j] /\ k + j \in 1 .. N
    <3>1. /\ N \in Nat /\ k \in Nat /\ k + 1 \in 1 .. N
          /\ txs \in Seq(Txs) /\ N = Len(txs)
      BY <1>2, <1>11 DEF N
    <3> HIDE DEF N, k
    <3> QED
      BY <3>1
  <2>2. Rebased(txs, n, applied) = r
    BY <1>9, <1>11
  <2> HIDE DEF r
  <2>3. DOMAIN r = 1 .. N - k
    BY <2>1
  <2>4. \A j \in DOMAIN r : Number[r[j]] = m + (k + j)
    BY <1>3, <2>1, <2>3
  <2>5. AllExecutable(n, r)
    <3> SUFFICES ASSUME NEW j \in DOMAIN r
                 PROVE  Number[r[j]] = n + j - 1 + 1
      BY DEF AllExecutable, Executable
    <3> QED
      BY <1>2, <2>3, <2>4 DEF k
  <2>6. ASSUME NEW i \in 1 .. N
        PROVE  Number[txs[i]] <= n \/ txs[i] \in ToSet(r)
    <3>1. CASE i <= k
      BY <1>2, <1>3, <3>1 DEF k
    <3>2. CASE ~(i <= k)
      <4>1. i - k \in 1 .. N - k /\ k + (i - k) = i
        BY <1>2, <3>2
      <4>2. txs[i] = r[i - k] /\ i - k \in DOMAIN r
        BY <2>1, <2>3, <4>1
      <4> QED
        BY <4>2 DEF ToSet
    <3> QED
      BY <3>1, <3>2
  <2>7. \A t \in ToSet(txs) \ ToSet(r) : Number[t] <= n
    BY <2>6 DEF ToSet, N
  <2> QED
    BY <2>1, <2>2, <2>5, <2>7
<1> QED
  BY <1>10, <1>11

\* The application's states, one behind each height.
AppStateSteps ==
    /\ AppState \in [0 .. MaxHeight -> Nat]
    /\ \A h \in 0 .. MaxHeight :
          AppState[h] = IF h <= 1 THEN 0 ELSE Execute(AppState[h - 1], blocks[h])

LEMMA AppStateIs == blocks \in [Heights -> Seq(Txs)] => AppStateSteps
<1> SUFFICES ASSUME blocks \in [Heights -> Seq(Txs)]
             PROVE  AppStateSteps
  OBVIOUS
<1> DEFINE step == [h \in 1 .. MaxHeight |->
                       [x \in Nat |-> IF h <= 1 THEN 0 ELSE Execute(x, blocks[h])]]
           State(f) == [h \in 0 .. MaxHeight |->
                           IF h <= 1 THEN 0 ELSE Execute(f[h - 1], blocks[h])]
           state == CHOOSE f : f = State(f)
<1>1. MaxHeight \in Nat
  BY ConstantsAssumption
<1>2. AppState = state
  BY DEF AppState
<1>3. step \in [1 .. MaxHeight -> [Nat -> Nat]]
  BY <1>1, ExecuteType DEF Heights
<1>4. PICK g \in [0 .. MaxHeight -> Nat] : Recursion(g, MaxHeight, 0, step)
  <2>1. 0 \in Nat
    OBVIOUS
  <2> HIDE DEF step
  <2> QED
    BY <1>1, <1>3, <2>1, RecursionExists, Zenon
<1>5. \A h \in 0 .. MaxHeight :
          g[h] = IF h <= 1 THEN 0 ELSE Execute(g[h - 1], blocks[h])
  <2>1. g[0] = 0 /\ \A h \in 1 .. MaxHeight : g[h] = step[h][g[h - 1]]
    <3> HIDE DEF step
    <3> QED
      BY <1>4 DEF Recursion
  <2>2. ASSUME NEW h \in 1 .. MaxHeight
        PROVE  g[h] = IF h <= 1 THEN 0 ELSE Execute(g[h - 1], blocks[h])
    <3>1. g[h - 1] \in Nat
      BY <1>1, <1>4
    <3>2. step[h][g[h - 1]] = IF h <= 1 THEN 0 ELSE Execute(g[h - 1], blocks[h])
      BY <3>1, Zenon
    <3> QED
      BY <2>1, <3>2, Zenon
  <2>3. \A h \in 0 .. MaxHeight : h = 0 \/ h \in 1 .. MaxHeight
    BY <1>1
  <2>4. 0 <= 1
    OBVIOUS
  <2> QED
    BY <2>1, <2>2, <2>3, <2>4, Zenon
<1> HIDE DEF step
<1>6. state = State(state)
  <2>1. g = State(g)
    BY <1>4, <1>5
  <2> HIDE DEF State
  <2> QED
    BY <2>1
<1>7. /\ state = [h \in 0 .. MaxHeight |-> state[h]]
      /\ \A h \in 0 .. MaxHeight :
          state[h] = IF h <= 1 THEN 0 ELSE Execute(state[h - 1], blocks[h])
  <2> HIDE DEF state
  <2> QED
    BY <1>1, <1>6
<1> HIDE DEF state
<1>8. \A h \in 0 .. MaxHeight : state[h] \in Nat
  <2> DEFINE T == {h \in 0 .. MaxHeight : state[h] \in Nat}
  <2>1. 0 \in T
    <3>1. 0 \in 0 .. MaxHeight /\ 0 <= 1
      BY <1>1
    <3>2. state[0] = 0
      BY <1>7, <3>1, Zenon
    <3> QED
      BY <3>1, <3>2
  <2>2. ASSUME NEW h \in 1 .. MaxHeight, h - 1 \in T
        PROVE  h \in T
    <3>1. state[h - 1] \in Nat /\ h \in 0 .. MaxHeight /\ h \in Heights
      BY <1>1, <2>2 DEF Heights
    <3>2. Execute(state[h - 1], blocks[h]) \in Nat
      BY <3>1, ExecuteType
    <3>3. state[h] = 0 \/ state[h] = Execute(state[h - 1], blocks[h])
      BY <1>7, <3>1, Zenon
    <3> QED
      BY <3>1, <3>2, <3>3
  <2> HIDE DEF T
  <2>3. \A h \in 0 .. MaxHeight : h \in T
    BY <1>1, <2>1, <2>2, InductionTo
  <2> QED
    BY <2>3 DEF T
<1> QED
  BY <1>2, <1>7, <1>8 DEF AppStateSteps

\* Blocks above d make no difference to the states up to d.
LEMMA AppStateKept ==
    ASSUME blocks \in [Heights -> Seq(Txs)], blocks' \in [Heights -> Seq(Txs)],
           NEW d \in 0 .. MaxHeight, \A h \in 1 .. d : blocks'[h] = blocks[h]
    PROVE  \A h \in 0 .. d : AppState'[h] = AppState[h]
<1>1. AppStateSteps /\ AppStateSteps'
  <2>1. (blocks \in [Heights -> Seq(Txs)] => AppStateSteps)'
    BY AppStateIs, PTL
  <2>2. Heights' = Heights
    BY DEF Heights
  <2> QED
    BY <2>1, <2>2, AppStateIs
<1>2. MaxHeight \in Nat /\ d \in Nat
  BY ConstantsAssumption
<1> DEFINE T == {h \in 0 .. d : AppState'[h] = AppState[h]}
<1>3. 0 \in T
  BY <1>1, <1>2 DEF AppStateSteps
<1>4. ASSUME NEW h \in 1 .. d, h - 1 \in T
      PROVE  h \in T
  <2>1. h \in 0 .. MaxHeight /\ h \in 0 .. d
    BY <1>2
  <2>2. AppState'[h - 1] = AppState[h - 1] /\ blocks'[h] = blocks[h]
    BY <1>4
  <2>3. AppState'[h] = IF h <= 1 THEN 0 ELSE Execute(AppState'[h - 1], blocks'[h])
    BY <1>1, <2>1 DEF AppStateSteps
  <2>4. AppState[h] = IF h <= 1 THEN 0 ELSE Execute(AppState[h - 1], blocks[h])
    BY <1>1, <2>1 DEF AppStateSteps
  <2>5. AppState'[h] = AppState[h]
    BY <2>2, <2>3, <2>4
  <2> QED
    BY <2>1, <2>5
<1> HIDE DEF T
<1>5. \A h \in 0 .. d : h \in T
  BY <1>2, <1>3, <1>4, InductionTo
<1> QED
  BY <1>5 DEF T

-----------------------------------------------------------------------------
(* The states that store and buffer are on.                                *)

\* The state behind height h: no block is executed at the initial height.
Behind(h) == IF h = 1 THEN 0 ELSE h

\* The buffer is on the state behind the committed height, or ahead of it by
\* the height that is about to be committed, and never ahead of the network.
BaseInv ==
    /\ sdkVersion <= decided /\ cur <= decided /\ txBase <= decided
    /\ sdkState = Behind(sdkVersion)
    /\ dpc \in {"wait", "deliver", "rebase"} => cur > 1 /\ txBase = sdkState
    /\ dpc = "rebase" => newState = cur
    /\ dpc = "commit" => newState = Behind(cur)
    /\ dpc = "initCommit" => newState = 0
    /\ dpc \in {"init", "down"} => txBase = -1
    /\ txBase \in {-1, Behind(sdkVersion), sdkVersion + 1}

LEMMA BaseStep ==
    TypeInv /\ LevelInv /\ BufferInv /\ BaseInv /\ [Next]_vars => BaseInv'
<1> SUFFICES ASSUME TypeInv, LevelInv, BufferInv, BaseInv, [Next]_vars
             PROVE  BaseInv'
  OBVIOUS
<1> USE ConstantsAssumption
    DEF TypeInv, TypeOK, Shape, LevelInv, StoreTracksEngine, BufferInv, BaseInv,
        Behind, Versions, Heights, diskVars
<1>1. ASSUME UNCHANGED <<sdkVersion, sdkState, decided, dpc, cur, newState, txBase>>
      PROVE  BaseInv'
  BY <1>1
<1>2. CASE \/ \E h \in Heights, ready \in BOOLEAN : EntryAdded(h, ready)
           \/ \E h \in Heights : EntryReady(h)
           \/ EngineRecord
           \/ UNCHANGED vars
  BY <1>1, <1>2 DEF EntryAdded, EntryReady, EngineRecord, vars
<1>3. CASE Decide
  BY <1>3 DEF Decide
<1>4. ASSUME LoseMemory, UNCHANGED diskVars
      PROVE  BaseInv'
  BY <1>4 DEF LoseMemory
<1>5. CASE Crash \/ \E h \in Heights : FinalizeWithoutEntry(h)
  BY <1>4, <1>5 DEF Crash, FinalizeWithoutEntry
<1>6. CASE Restart
  BY <1>6 DEF Restart
<1>7. CASE InitSkipped \/ InitGenesis \/ InitCommit \/ InitRespond
  BY <1>7 DEF InitSkipped, InitGenesis, InitCommit, InitRespond
<1>8. CASE FinalizeInitial
  BY <1>8 DEF FinalizeInitial, Requested
<1>9. ASSUME NEW h \in Heights, FinalizeEmpty(h) \/ FinalizeWithData(h)
      PROVE  BaseInv'
  BY <1>9 DEF FinalizeEmpty, FinalizeWithData, Requested
<1>10. CASE SaveBlockData \/ DeliverBlock
  BY <1>10 DEF SaveBlockData, DeliverBlock
<1>11. CASE Rebase
  BY <1>11 DEF Rebase
<1>12. CASE Commit
  BY <1>12 DEF Commit
<1>13. CASE Respond \/ SaveBlockResult \/ Fail \/ HandleLagStateUpdate
            \/ CatchupAccepts
  BY <1>13 DEF Respond, SaveBlockResult, Fail, HandleLagStateUpdate, CatchupAccepts
<1> QED
  BY <1>2, <1>3, <1>5, <1>6, <1>7, <1>8, <1>9, <1>10, <1>11, <1>12, <1>13 DEF Next

-----------------------------------------------------------------------------
(* Transactions.                                                           *)

\* Every decided block can be executed to its last transaction.
BlockInv ==
    \A h \in 2 .. decided : AllExecutable(AppState[h - 1], blocks[h])

\* What is pending can be executed on the state the buffer is on, and what is
\* accepted and not pending is behind that state.
PendingInv ==
    /\ txBase = -1 => pending = <<>> /\ accepted = {}
    /\ txBase # -1 =>
          /\ AllExecutable(AppState[txBase], pending)
          /\ \A t \in accepted \ ToSet(pending) : Number[t] <= AppState[txBase]

\* A request has a transaction.
RequestInv == call.pc # "none" => call.tx \in Txs

TxInv ==
    TxTypeOK /\ RequestInv /\ BlockInv /\ PendingInv /\ OwnProposalExecutes

DriverInv == TypeInv /\ LevelInv /\ BufferInv /\ BaseInv

\* A decided block takes the state on by its transactions.
LEMMA BlockAdvances ==
    ASSUME TypeOK, TxTypeOK, BlockInv, NEW h \in 2 .. decided
    PROVE  /\ h \in Heights /\ h \in 0 .. MaxHeight /\ h - 1 \in 0 .. MaxHeight
           /\ AppState[h - 1] \in Nat /\ AppState[h] \in Nat
           /\ AppState[h - 1] <= AppState[h]
           /\ \A i \in DOMAIN blocks[h] : Number[blocks[h][i]] <= AppState[h]
<1>1. /\ h \in Heights /\ h \in 0 .. MaxHeight /\ h - 1 \in 0 .. MaxHeight
      /\ ~(h <= 1) /\ blocks[h] \in Seq(Txs)
  BY ConstantsAssumption DEF TypeOK, TxTypeOK, Heights
<1>2. AppState[h - 1] \in Nat /\ AppState[h] = Execute(AppState[h - 1], blocks[h])
  BY <1>1, AppStateIs DEF AppStateSteps, TxTypeOK
<1>3. AllExecutable(AppState[h - 1], blocks[h])
  BY DEF BlockInv
<1>4. AppState[h] = AppState[h - 1] + Len(blocks[h]) /\ Len(blocks[h]) \in Nat
  BY <1>1, <1>2, <1>3, ExecuteAll
<1>5. ASSUME NEW i \in DOMAIN blocks[h]
      PROVE  Number[blocks[h][i]] <= AppState[h]
  <2>1. i \in 1 .. Len(blocks[h])
    BY <1>1
  <2>2. Number[blocks[h][i]] = AppState[h - 1] + i - 1 + 1
    BY <1>3 DEF AllExecutable, Executable
  <2> QED
    BY <1>2, <1>4, <2>1, <2>2
<1>6. AppState[h] \in Nat /\ AppState[h - 1] <= AppState[h]
  BY <1>2, <1>4
<1> QED
  BY <1>1, <1>2, <1>5, <1>6

\* The states behind the first two heights are one.
LEMMA StateBehind ==
    ASSUME TxTypeOK, NEW h \in 0 .. MaxHeight
    PROVE  /\ Behind(h) \in 0 .. MaxHeight
           /\ AppState[Behind(h)] = AppState[h] /\ AppState[h] \in Nat
<1>1. Behind(h) \in 0 .. MaxHeight
  BY ConstantsAssumption DEF Behind
<1>2. AppStateSteps
  BY AppStateIs DEF TxTypeOK
<1>3. h = 1 => AppState[0] = 0 /\ AppState[1] = 0
  BY <1>2, ConstantsAssumption DEF AppStateSteps
<1> QED
  BY <1>1, <1>2, <1>3 DEF Behind, AppStateSteps

\* While the blocks stay, and buffer, proposal and heights with them.
LEMMA TxStays ==
    ASSUME TxInv, UNCHANGED <<txVars, decided>>,
           \/ txBase' = txBase
           \/ txBase = -1
    PROVE  TxInv'
<1>1. TxTypeOK' /\ RequestInv' /\ AppState' = AppState
  BY DEF TxInv, TxTypeOK, RequestInv, txVars, Heights, AppState
<1>2. BlockInv' /\ OwnProposalExecutes'
  BY <1>1 DEF TxInv, BlockInv, OwnProposalExecutes, txVars
<1>3. PendingInv'
  BY <1>1 DEF TxInv, PendingInv, txVars, AllExecutable
<1> QED
  BY <1>1, <1>2, <1>3 DEF TxInv

LEMMA DecideKeepsTxInv == DriverInv /\ TxInv /\ NodeDecide => TxInv'
<1> SUFFICES ASSUME DriverInv, TxInv, NodeDecide
             PROVE  TxInv'
  OBVIOUS
<1>1. PICK txs \in BlocksOn(AppState[decided]) :
          blocks' = [blocks EXCEPT ![decided + 1] = txs]
  BY DEF NodeDecide, BlockDecided
<1>2. /\ txs \in Seq(Txs) /\ AllExecutable(AppState[decided], txs)
      /\ proposal' = <<>> /\ UNCHANGED <<pending, call, accepted, txBase>>
      /\ decided' = decided + 1 /\ decided < MaxHeight
  BY DEF NodeDecide, BlockDecided, BlocksOn, BoundedSeq, SeqOf, Decide
<1>3. decided \in 0 .. MaxHeight /\ MaxHeight \in Nat /\ decided + 1 \in Heights
  BY <1>2, ConstantsAssumption DEF DriverInv, TypeInv, TypeOK, Heights
<1>4. blocks \in [Heights -> Seq(Txs)]
  BY DEF TxInv, TxTypeOK
<1>5. /\ blocks' \in [Heights -> Seq(Txs)] /\ blocks'[decided + 1] = txs
      /\ \A h \in 1 .. decided : blocks'[h] = blocks[h]
  BY <1>1, <1>2, <1>3, <1>4
<1>6. \A h \in 0 .. decided : AppState'[h] = AppState[h]
  BY <1>3, <1>4, <1>5, AppStateKept
<1>7. TxTypeOK' /\ RequestInv'
  BY <1>2, <1>5 DEF TxInv, TxTypeOK, RequestInv, Heights
<1>8. BlockInv'
  <2> SUFFICES ASSUME NEW h \in 2 .. decided + 1
               PROVE  AllExecutable(AppState'[h - 1], blocks'[h])
    BY <1>2 DEF BlockInv, AllExecutable
  <2>1. h - 1 \in 0 .. decided /\ (h = decided + 1 \/ h \in 2 .. decided)
    BY <1>3
  <2>2. AppState'[h - 1] = AppState[h - 1]
    BY <1>6, <2>1
  <2>3. CASE h = decided + 1
    <3>1. h - 1 = decided
      BY <1>3, <2>3
    <3> QED
      BY <1>2, <1>5, <2>2, <2>3, <3>1
  <2>4. CASE h \in 2 .. decided
    <3>1. blocks'[h] = blocks[h]
      BY <1>3, <1>5, <2>4
    <3> QED
      BY <2>2, <2>4, <3>1 DEF TxInv, BlockInv
  <2> QED
    BY <2>1, <2>3, <2>4
<1>9. PendingInv'
  <2>1. txBase # -1 => txBase \in 0 .. decided
    BY <1>3 DEF DriverInv, TypeInv, TypeOK, BaseInv, Versions
  <2> QED
    BY <1>2, <1>6, <2>1 DEF TxInv, PendingInv, AllExecutable
<1>10. OwnProposalExecutes'
  BY <1>2 DEF OwnProposalExecutes, AllExecutable
<1> QED
  BY <1>7, <1>8, <1>9, <1>10 DEF TxInv

LEMMA RebaseKeepsTxInv == DriverInv /\ TxInv /\ NodeRebase => TxInv'
<1> SUFFICES ASSUME DriverInv, TxInv, NodeRebase
             PROVE  TxInv'
  OBVIOUS
<1> DEFINE m == AppState[txBase]
           n == AppState[cur]
           kept == Rebased(pending, n, blocks[cur])
<1>1. /\ pending' = kept /\ UNCHANGED <<blocks, call, accepted, proposal, decided>>
      /\ txBase' = newState /\ newState = cur
      /\ cur \in 2 .. decided /\ cur \in Heights /\ txBase = sdkState
      /\ sdkState = Behind(sdkVersion) /\ sdkVersion \in {cur - 1, cur}
  BY ConstantsAssumption
     DEF NodeRebase, Rebase, BufferRebased, DriverInv, TypeInv, TypeOK, Shape,
         LevelInv, StoreTracksEngine, BaseInv, Heights, Versions, diskVars
<1>2. /\ n \in Nat /\ AppState[cur - 1] \in Nat /\ AppState[cur - 1] <= n
      /\ cur - 1 \in 0 .. MaxHeight /\ cur \in 0 .. MaxHeight
      /\ \A i \in DOMAIN blocks[cur] : Number[blocks[cur][i]] <= n
  BY <1>1, BlockAdvances DEF DriverInv, TypeInv, TxInv
<1>3. sdkVersion \in 0 .. MaxHeight
  BY <1>1, <1>2
<1>4. m = AppState[sdkVersion] /\ m \in Nat /\ txBase \in 0 .. MaxHeight
  BY <1>1, <1>3, StateBehind DEF TxInv
<1>5. m <= n
  BY <1>1, <1>2, <1>4
<1>6. /\ pending \in Seq(Txs) /\ blocks[cur] \in Seq(Txs)
      /\ accepted \in SUBSET Txs /\ AllExecutable(m, pending)
      /\ \A t \in accepted \ ToSet(pending) : Number[t] <= m
  BY <1>1, <1>4, ConstantsAssumption DEF TxInv, TxTypeOK, PendingInv
<1> HIDE DEF m, n, kept
<1>7. /\ kept \in Seq(Txs) /\ AllExecutable(n, kept)
      /\ \A t \in ToSet(pending) \ ToSet(kept) : Number[t] <= n
  BY <1>2, <1>4, <1>5, <1>6, RebasedIs DEF kept
<1>8. AppState' = AppState
  BY <1>1 DEF AppState
<1>9. TxTypeOK' /\ RequestInv' /\ BlockInv' /\ OwnProposalExecutes'
  BY <1>1, <1>7, <1>8
     DEF TxInv, TxTypeOK, RequestInv, BlockInv, OwnProposalExecutes, Heights
<1>10. \A t \in accepted \ ToSet(kept) : Number[t] <= n
  <2>1. \A t \in Txs : Number[t] \in Nat
    BY TxAssumption
  <2> SUFFICES ASSUME NEW t \in accepted, t \notin ToSet(kept)
               PROVE  Number[t] <= n
    OBVIOUS
  <2>2. CASE t \in ToSet(pending)
    BY <1>7, <2>2
  <2>3. CASE t \notin ToSet(pending)
    <3>1. Number[t] <= m /\ Number[t] \in Nat
      BY <1>6, <2>1, <2>3
    <3> QED
      BY <1>2, <1>4, <1>5, <3>1
  <2> QED
    BY <2>2, <2>3
<1>11. PendingInv'
  <2>1. txBase' = cur /\ txBase' # -1 /\ AppState'[cur] = n
    BY <1>1, <1>8 DEF n
  <2> QED
    BY <1>1, <1>7, <1>10, <2>1 DEF PendingInv, AllExecutable
<1> QED
  BY <1>9, <1>11 DEF TxInv

LEMMA DownKeepsTxInv == TxInv /\ NodeDown => TxInv'
<1> SUFFICES ASSUME TxInv, NodeDown
             PROVE  TxInv'
  OBVIOUS
<1>1. /\ pending' = <<>> /\ call' = NoRequest /\ accepted' = {} /\ proposal' = <<>>
      /\ UNCHANGED <<blocks, decided>> /\ txBase' = -1
  BY DEF NodeDown, BufferLost, Crash, FinalizeWithoutEntry, LoseMemory, diskVars
<1>2. AppState' = AppState
  BY <1>1 DEF AppState
<1> QED
  BY <1>1, <1>2
     DEF TxInv, TxTypeOK, RequestInv, NoRequest, BlockInv, PendingInv, OwnProposalExecutes,
         AllExecutable, Heights

\* What is added can be executed behind what is pending.
LEMMA AddKeepsTxInv == TxInv /\ TypeOK /\ AddTx /\ UNCHANGED vars => TxInv'
<1> SUFFICES ASSUME TxInv, TypeOK, AddTx, UNCHANGED vars
             PROVE  TxInv'
  OBVIOUS
<1> DEFINE n == AppState[txBase]
           t == call.tx
<1>1. /\ Executable(t, BufferState) /\ pending' = Append(pending, t)
      /\ accepted' = accepted \cup {t} /\ call' = NoRequest
      /\ UNCHANGED <<blocks, proposal, decided, txBase>>
      /\ t \in Txs /\ txBase # -1
  BY DEF AddTx, TxInv, RequestInv, vars, diskVars
<1>2. txBase \in 0 .. MaxHeight
  BY <1>1, ConstantsAssumption DEF TypeOK, Versions
<1>3. n \in Nat
  BY <1>2, AppStateIs DEF AppStateSteps, TxInv, TxTypeOK
<1>4. /\ pending \in Seq(Txs) /\ AllExecutable(n, pending)
      /\ \A u \in accepted \ ToSet(pending) : Number[u] <= n
  BY <1>1 DEF TxInv, TxTypeOK, PendingInv
<1>5. AppState' = AppState
  BY <1>1 DEF AppState
<1> HIDE DEF n, t
<1>6. BufferState = n + Len(pending)
  BY <1>3, <1>4, ExecuteAll DEF BufferState, n
<1>7. AllExecutable(n, pending')
  <2> SUFFICES ASSUME NEW i \in 1 .. Len(pending) + 1
               PROVE  Number[pending'[i]] = n + i - 1 + 1
    BY <1>1, <1>4 DEF AllExecutable, Executable
  <2>1. CASE i = Len(pending) + 1
    <3>1. pending'[i] = t /\ Number[t] = n + Len(pending) + 1
      BY <1>1, <1>4, <1>6, <2>1 DEF Executable
    <3> QED
      BY <1>3, <1>4, <2>1, <3>1
  <2>2. CASE i # Len(pending) + 1
    <3>1. i \in DOMAIN pending /\ pending'[i] = pending[i]
      BY <1>1, <1>4, <2>2
    <3> QED
      BY <1>4, <3>1 DEF AllExecutable, Executable
  <2> QED
    BY <2>1, <2>2
<1>8. ToSet(pending') = ToSet(pending) \cup {t}
  <2>1. DOMAIN pending' = 1 .. Len(pending) + 1 /\ DOMAIN pending = 1 .. Len(pending)
    BY <1>1, <1>4
  <2>2. /\ pending'[Len(pending) + 1] = t
        /\ \A i \in DOMAIN pending : pending'[i] = pending[i]
    BY <1>1, <1>4
  <2>3. \A i \in 1 .. Len(pending) + 1 :
            i \in 1 .. Len(pending) \/ i = Len(pending) + 1
    BY <1>4
  <2>4. /\ Len(pending) + 1 \in 1 .. Len(pending) + 1
        /\ 1 .. Len(pending) \subseteq 1 .. Len(pending) + 1
    BY <1>4
  <2> QED
    BY <2>1, <2>2, <2>3, <2>4 DEF ToSet
<1>9. TxTypeOK' /\ RequestInv' /\ BlockInv' /\ OwnProposalExecutes'
  BY <1>1, <1>4, <1>5
     DEF TxInv, TxTypeOK, RequestInv, NoRequest, BlockInv, OwnProposalExecutes,
         Heights
<1>10. PendingInv'
  BY <1>1, <1>4, <1>5, <1>7, <1>8 DEF PendingInv, AllExecutable, n
<1> QED
  BY <1>9, <1>10 DEF TxInv

LEMMA TxStepKeepsTxInv ==
    DriverInv /\ TxInv /\ TxStep /\ UNCHANGED vars => TxInv'
<1> SUFFICES ASSUME DriverInv, TxInv, TxStep, UNCHANGED vars
             PROVE  TxInv'
  OBVIOUS
<1>1. AppState' = AppState \/ blocks' # blocks
  BY DEF AppState
<1>2. UNCHANGED <<decided, txBase>>
  BY DEF vars, diskVars
<1>3. ASSUME UNCHANGED <<blocks, pending, accepted, proposal>>,
             TxTypeOK', RequestInv'
      PROVE  TxInv'
  BY <1>1, <1>2, <1>3 DEF TxInv, BlockInv, PendingInv, OwnProposalExecutes
<1>4. CASE \E t \in Txs : BroadcastTxSync(t) \/ SubmitTransaction(t)
  BY <1>3, <1>4
     DEF BroadcastTxSync, SubmitTransaction, TxInv, TxTypeOK, RequestInv, Heights
<1>5. CASE Simulated \/ Validated \/ Refused \/ AddTxInvalid
  BY <1>3, <1>5
     DEF Simulated, Validated, Refused, AddTxInvalid, NoRequest, TxInv, TxTypeOK,
         RequestInv, Heights
<1>6. CASE AddTx
  BY <1>6, AddKeepsTxInv DEF DriverInv, TypeInv
<1>7. CASE ProposeBuffered
  <2>1. /\ engFinal = decided /\ txBase # -1 /\ proposal' = pending
        /\ UNCHANGED <<blocks, pending, call, accepted>>
    BY <1>7 DEF ProposeBuffered
  <2>2. txBase = Behind(decided) /\ decided \in 0 .. MaxHeight
    BY <2>1
       DEF DriverInv, TypeInv, TypeOK, LevelInv, StoreTracksEngine, BaseInv, Behind,
           Versions
  <2>3. AppState[txBase] = AppState[decided]
    BY <2>2, StateBehind DEF TxInv
  <2>4. OwnProposalExecutes'
    BY <1>1, <1>2, <2>1, <2>3
       DEF TxInv, PendingInv, OwnProposalExecutes, AllExecutable
  <2> QED
    BY <1>1, <1>2, <2>1, <2>4
       DEF TxInv, TxTypeOK, RequestInv, BlockInv, PendingInv, Heights
<1> QED
  BY <1>4, <1>5, <1>6, <1>7 DEF TxStep

LEMMA NodeStepKeepsTxInv ==
    DriverInv /\ TxInv /\ [NodeNext]_nodeVars => TxInv'
<1> SUFFICES ASSUME DriverInv, TxInv, [NodeNext]_nodeVars
             PROVE  TxInv'
  OBVIOUS
<1>1. CASE OtherDriverStep /\ UNCHANGED <<hostVars, txVars>>
  <2>1. UNCHANGED decided /\ (txBase' = txBase \/ txBase = -1)
    BY <1>1
       DEF OtherDriverStep, EntryAdded, EntryReady, EngineRecord, Restart,
           InitSkipped, InitGenesis, InitCommit, InitRespond, FinalizeInitial,
           FinalizeEmpty, FinalizeWithData, SaveBlockData, DeliverBlock, Commit,
           Respond, SaveBlockResult, Fail, HandleLagStateUpdate, CatchupAccepts,
           diskVars, DriverInv, BaseInv
  <2> QED
    BY <1>1, <2>1, TxStays
<1>2. CASE (HostStep /\ UNCHANGED <<vars, txVars>>) \/ UNCHANGED nodeVars
  BY <1>2, TxStays DEF nodeVars, vars, diskVars
<1> QED
  BY <1>1, <1>2, DecideKeepsTxInv, RebaseKeepsTxInv, DownKeepsTxInv,
     TxStepKeepsTxInv DEF NodeNext

LEMMA NodeTxInv == NodeSpec => [](DriverInv /\ TxInv)
<1>1. Init => DriverInv
  BY TypeInit, ConstantsAssumption
     DEF Init, DriverInv, LevelInv, StoreTracksEngine, BufferInv, BaseInv, Behind
<1>2. DriverInv /\ [Next]_vars => DriverInv'
  BY TypeStep, LevelStep, BufferStep, BaseStep DEF DriverInv
<1>3. NodeInit => TxInv
  BY DEF NodeInit, Init, TxInit, TxInv, TxTypeOK, RequestInv, NoRequest, BlockInv,
         PendingInv, OwnProposalExecutes, AllExecutable
<1> QED
  BY <1>1, <1>2, <1>3, NodeStepIsDriverStep, NodeStepKeepsTxInv, PTL
     DEF NodeSpec, NodeInit

LEMMA HostTypeStep == TypeOK /\ HostTypeOK /\ [NodeNext]_nodeVars => HostTypeOK'
<1> SUFFICES ASSUME TypeOK, HostTypeOK, [NodeNext]_nodeVars
             PROVE  HostTypeOK'
  OBVIOUS
<1> USE ConstantsAssumption DEF HostTypeOK, Streams, Handlers, Replies
<1>1. CASE UNCHANGED hostVars
  BY <1>1 DEF hostVars
<1>2. CASE NodeDown
  BY <1>2 DEF NodeDown, StreamLost, NoStream
<1>3. CASE SaveCommittedHeader
  BY <1>3 DEF SaveCommittedHeader, TypeOK
<1>4. CASE \E handler \in Handlers, h \in Heights : OpenStream(handler, h)
  <2> PICK handler \in Handlers, h \in Heights : OpenStream(handler, h)
    BY <1>4
  <2> DEFINE sure == h \in answered /\ h <= headers
  <2>1. sure \in BOOLEAN
    BY Zenon
  <2>2. /\ stream' = [pc |-> "loadHeader", handler |-> handler, height |-> h,
                     sure |-> sure, reply |-> "failed"]
        /\ UNCHANGED headers
    BY DEF OpenStream
  <2> HIDE DEF sure
  <2> QED
    BY <2>1, <2>2 DEF Heights
<1>5. ASSUME NEW r \in Replies, Reply(r), UNCHANGED headers
      PROVE  HostTypeOK'
  BY <1>5 DEF Reply
<1>6. CASE HeightUnknown \/ LoadHeaderFails
  BY <1>5, <1>6 DEF HeightUnknown, LoadHeaderFails
<1>7. CASE LoadHeader
  <2>1. \/ Reply("served")
        \/ stream' = [stream EXCEPT !.pc = "loadData"]
    BY <1>7 DEF LoadHeader
  <2>2. UNCHANGED headers
    BY <1>7 DEF LoadHeader
  <2> QED
    BY <1>5, <2>1, <2>2
<1>8. CASE LoadBlockData
  BY <1>5, <1>8 DEF LoadBlockData
<1>9. CASE CloseStream
  BY <1>9 DEF CloseStream, NoStream
<1> QED
  BY <1>1, <1>2, <1>3, <1>4, <1>6, <1>7, <1>8, <1>9
     DEF NodeNext, NodeDecide, NodeRebase, HostStep, nodeVars

\* The types of driver, data host and transaction service.
THEOREM NodeTypeCorrect == NodeSpec => []NodeTypeOK
<1>1. DriverInv /\ TxInv => TypeOK /\ TxTypeOK
  BY DEF DriverInv, TypeInv, TxInv
<1>2. NodeInit => HostTypeOK
  BY ConstantsAssumption
     DEF NodeInit, HostInit, NoStream, HostTypeOK, Streams, Handlers, Replies
<1> QED
  BY <1>1, <1>2, NodeTxInv, HostTypeStep, PTL DEF NodeSpec, NodeTypeOK

\* What this node proposes can be executed to the last transaction.
THEOREM OwnProposalExecutesHolds == NodeSpec => []OwnProposalExecutes
<1>1. TxInv => OwnProposalExecutes
  BY DEF TxInv
<1> QED
  BY <1>1, NodeTxInv, PTL

\* No accepted transaction is lost on the way into a block.
THEOREM FlushedTxExecutedHolds == NodeSpec => []FlushedTxExecuted
<1>1. DriverInv /\ TxInv => FlushedTxExecuted
  BY DEF DriverInv, BufferInv, TxInv, PendingInv, FlushedTxExecuted
<1> QED
  BY <1>1, NodeTxInv, PTL

=============================================================================
