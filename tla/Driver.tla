------------------------------- MODULE Driver -------------------------------
(***************************************************************************)
(* gsi.Driver: the goroutine between the consensus engine and the SDK      *)
(* application.  It initializes the chain, finalizes committed blocks one  *)
(* by one and passes lag updates to the catchup client.                    *)
(*                                                                         *)
(* What survives a restart is the SDK root store and the engine's own      *)
(* stores.  The request cache, the block data store, the transaction store *)
(* and the transaction buffer live in memory.                              *)
(*                                                                         *)
(* Each DataID is that of one height (it holds the height), so cache keys  *)
(* are heights.  An application state is named by the last block executed  *)
(* on it: 0 is genesis.                                                    *)
(*                                                                         *)
(* The engine is external: it asks for InitChain until it has recorded the *)
(* answer, then for the finalization of each decided height in turn, again *)
(* after a restart if it had not recorded the answer.                      *)
(***************************************************************************)
EXTENDS RequestCache, Integers

CONSTANTS
    MaxHeight,      \* bound on the heights the network decides
    DataHeights,    \* heights whose block has transactions
    Faults          \* "crash": the process may die; "error": calls may fail;
                    \* "missing": a decided block may have no cache entry

ASSUME ConstantsAssumption ==
    /\ MaxHeight \in Nat
    /\ DataHeights \subseteq 1 .. MaxHeight
    /\ DataIDs = DataHeights
    /\ Faults \subseteq {"crash", "error", "missing"}

VARIABLES
    \* On disk.
    sdkVersion,     \* version of the SDK root store, -1 before genesis
    sdkState,       \* the application state of that version
    engFinal,       \* last height whose finalization the engine recorded,
                    \* 0 for InitChain's answer, -1 before that
    decided,        \* highest height the network has decided
    \* In memory.
    dpc,            \* where the driver is
    cur,            \* the height being finalized
    newState,       \* the application state DeliverBlock returned
    resp,           \* a finalization or InitChain answer on its way, or -1
    answered,       \* heights answered since the process started
    txBase,         \* the state the transaction buffer simulates on, or -1
    bdStore,        \* heights in the block data store
    txStore,        \* heights whose results are in the transaction store
    cache           \* the shared request cache

diskVars == <<sdkVersion, sdkState, engFinal, decided>>
vars == <<diskVars, dpc, cur, newState, resp, answered, txBase, bdStore,
          txStore, cache>>

Versions == -1 .. MaxHeight
Heights == 1 .. MaxHeight

TypeOK ==
    /\ sdkVersion \in Versions
    /\ sdkState \in Versions
    /\ engFinal \in Versions
    /\ decided \in 0 .. MaxHeight
    /\ dpc \in {"init", "initCommit", "initRespond", "loop", "lag", "wait",
                "deliver", "rebase", "commit", "respond", "saveResult",
                "ended", "down"}
    /\ cur \in 0 .. MaxHeight
    /\ newState \in Versions
    /\ resp \in Versions
    /\ answered \in SUBSET Heights
    /\ txBase \in Versions
    /\ bdStore \in SUBSET Heights
    /\ txStore \in SUBSET Heights
    /\ cache \in [DataIDs -> EntryStates]

Init ==
    /\ sdkVersion = -1 /\ sdkState = -1
    /\ engFinal = -1
    /\ decided = 0
    /\ dpc = "init"
    /\ cur = 0
    /\ newState = -1
    /\ resp = -1
    /\ answered = {}
    /\ txBase = -1
    /\ bdStore = {}
    /\ txStore = {}
    /\ cache = NewRequestCache

-----------------------------------------------------------------------------
(* The engine, the network and the process (external).                     *)

\* The consensus strategy, the retriever or the catchup client puts an entry
\* for a block under decision or replay into the cache ...
EntryAdded(h, ready) ==
    /\ dpc # "down"
    /\ h \in DataHeights
    /\ ~Has(cache, h)
    /\ h > decided
    /\ cache' = IF ready THEN SetImmediatelyAvailable(cache, h)
                ELSE SetInFlight(cache, h)
    /\ UNCHANGED <<diskVars, dpc, cur, newState, resp, answered, txBase,
                   bdStore, txStore>>

\* ... and the block data arrives.
EntryReady(h) ==
    /\ dpc # "down"
    /\ h \in DataHeights
    /\ cache[h] = "inflight"
    /\ cache' = [cache EXCEPT ![h] = "ready"]
    /\ UNCHANGED <<diskVars, dpc, cur, newState, resp, answered, txBase,
                   bdStore, txStore>>

\* The next height is decided.  The block's data ID has an entry if this node
\* voted for the block or fetched it; it has none if the node voted for another
\* header before it looked at this one, or if Retrieve failed.
Decide ==
    /\ dpc # "down"
    /\ engFinal >= 0
    /\ decided < MaxHeight
    /\ decided + 1 \in DataHeights => Has(cache, decided + 1) \/ "missing" \in Faults
    /\ decided' = decided + 1
    /\ UNCHANGED <<sdkVersion, sdkState, engFinal, dpc, cur, newState, resp,
                   answered, txBase, bdStore, txStore, cache>>

\* The engine stores the driver's answer.
EngineRecord ==
    /\ dpc # "down"
    /\ resp # -1
    /\ engFinal' = resp
    /\ resp' = -1
    /\ UNCHANGED <<sdkVersion, sdkState, decided, dpc, cur, newState, answered,
                   txBase, bdStore, txStore, cache>>

\* The process is killed, or panics: all that is in memory is gone.
LoseMemory ==
    /\ dpc' = "down"
    /\ cur' = 0
    /\ newState' = -1
    /\ resp' = -1
    /\ answered' = {}
    /\ txBase' = -1
    /\ bdStore' = {}
    /\ txStore' = {}
    /\ cache' = NewRequestCache

Crash ==
    /\ dpc # "down"
    /\ "crash" \in Faults
    /\ LoseMemory
    /\ UNCHANGED diskVars

\* Component.Start after a stop, with new in-memory stores.
Restart ==
    /\ dpc = "down"
    /\ dpc' = "init"
    /\ UNCHANGED <<diskVars, cur, newState, resp, answered, txBase, bdStore,
                   txStore, cache>>

-----------------------------------------------------------------------------
(* handleInitialization.                                                   *)

\* The InitChain channel is closed: the buffer starts on the latest state.
InitSkipped ==
    /\ dpc = "init"
    /\ engFinal >= 0
    /\ txBase' = sdkState
    /\ dpc' = "loop"
    /\ UNCHANGED <<diskVars, cur, newState, resp, answered, bdStore, txStore,
                   cache>>

\* An InitChain request: run InitGenesis, start the buffer on its state ...
InitGenesis ==
    /\ dpc = "init"
    /\ engFinal = -1
    /\ newState' = 0
    /\ txBase' = 0
    /\ dpc' = "initCommit"
    /\ UNCHANGED <<diskVars, cur, resp, answered, bdStore, txStore, cache>>

\* ... commit it as version InitialHeight - 1 ...
InitCommit ==
    /\ dpc = "initCommit"
    /\ sdkVersion' = 0
    /\ sdkState' = newState
    /\ dpc' = "initRespond"
    /\ UNCHANGED <<engFinal, decided, cur, newState, resp, answered, txBase,
                   bdStore, txStore, cache>>

\* ... and answer with the hash and the genesis validators.
InitRespond ==
    /\ dpc = "initRespond"
    /\ resp' = 0
    /\ newState' = -1
    /\ dpc' = "loop"
    /\ UNCHANGED <<diskVars, cur, answered, txBase, bdStore, txStore, cache>>

-----------------------------------------------------------------------------
(* mainLoop and handleFinalization.                                        *)

\* The finalization request the engine has for the driver, if any.
Requested(h) == engFinal >= 0 /\ h = engFinal + 1 /\ h <= decided /\ resp = -1

\* The initial height: an empty changeset, no data, no execution, no rebase.
FinalizeInitial ==
    /\ dpc = "loop"
    /\ Requested(1)
    /\ cur' = 1
    /\ newState' = sdkState
    /\ dpc' = "commit"
    /\ UNCHANGED <<diskVars, resp, answered, txBase, bdStore, txStore, cache>>

\* A later height without transactions.
FinalizeEmpty(h) ==
    /\ dpc = "loop"
    /\ Requested(h)
    /\ h > 1 /\ h \notin DataHeights
    /\ cur' = h
    /\ dpc' = "deliver"
    /\ UNCHANGED <<diskVars, newState, resp, answered, txBase, bdStore,
                   txStore, cache>>

\* A later height with transactions, whose entry is in the cache.
FinalizeWithData(h) ==
    /\ dpc = "loop"
    /\ Requested(h)
    /\ h > 1 /\ h \in DataHeights
    /\ Has(cache, h)
    /\ cur' = h
    /\ dpc' = "wait"
    /\ UNCHANGED <<diskVars, newState, resp, answered, txBase, bdStore,
                   txStore, cache>>

\* No entry: panic.
FinalizeWithoutEntry(h) ==
    /\ dpc = "loop"
    /\ Requested(h)
    /\ h > 1 /\ h \in DataHeights
    /\ ~Has(cache, h)
    /\ LoseMemory
    /\ UNCHANGED diskVars

\* BlockDataStore.SaveBlockData refuses a second save for a height.  (It also
\* refuses one for a data ID, which comes to the same.)
AlreadyHaveBlockData(h) == h \in bdStore

\* txstore.Store.SaveBlockResult: the results of block h, overwritten if they
\* are there.
WithResults(h) == txStore \cup {h}

\* Mutant: the encoded transactions are not saved.
SaveBlockDataSkipped ==
    /\ dpc = "wait"
    /\ IsReady(cache, cur)
    /\ dpc' = "deliver"
    /\ UNCHANGED <<diskVars, cur, newState, resp, answered, txBase, bdStore,
                   txStore, cache>>

\* The entry's Ready channel is closed: take the transactions and save the
\* encoded ones.  A second save for the height is an error, and fatal.
SaveBlockData ==
    /\ dpc = "wait"
    /\ IsReady(cache, cur)
    /\ bdStore' = bdStore \cup {cur}
    /\ dpc' = IF AlreadyHaveBlockData(cur) THEN "ended" ELSE "deliver"
    /\ UNCHANGED <<diskVars, cur, newState, resp, answered, txBase, txStore,
                   cache>>

\* DeliverBlock executes the block on the latest state.
DeliverBlock ==
    /\ dpc = "deliver"
    /\ newState' = cur
    /\ dpc' = "rebase"
    /\ UNCHANGED <<diskVars, cur, resp, answered, txBase, bdStore, txStore,
                   cache>>

\* Mutant: the buffer stays on the old state.
RebaseSkipped ==
    /\ dpc = "rebase"
    /\ dpc' = "commit"
    /\ UNCHANGED <<diskVars, cur, newState, resp, answered, txBase, bdStore,
                   txStore, cache>>

\* Mutant: the answer is sent before the commit.
RebaseThenRespond ==
    /\ dpc = "rebase"
    /\ txBase' = newState
    /\ dpc' = "respond"
    /\ UNCHANGED <<diskVars, cur, newState, resp, answered, bdStore, txStore,
                   cache>>

\* The transaction buffer moves to the new state.
Rebase ==
    /\ dpc = "rebase"
    /\ txBase' = newState
    /\ dpc' = "commit"
    /\ UNCHANGED <<diskVars, cur, newState, resp, answered, bdStore, txStore,
                   cache>>

\* Mutant: the commit goes to the store's next version.
CommitNextVersion ==
    /\ dpc = "commit"
    /\ sdkVersion' = sdkVersion + 1
    /\ sdkState' = newState
    /\ newState' = -1
    /\ dpc' = "respond"
    /\ UNCHANGED <<engFinal, decided, cur, resp, answered, txBase, bdStore,
                   txStore, cache>>

\* The new state (at the initial height, the old one) is committed under the
\* block's height.
Commit ==
    /\ dpc = "commit"
    /\ sdkVersion' = cur
    /\ sdkState' = newState
    /\ newState' = -1
    /\ dpc' = "respond"
    /\ UNCHANGED <<engFinal, decided, cur, resp, answered, txBase, bdStore,
                   txStore, cache>>

\* Mutant: the answer is for the next height.
RespondNextHeight ==
    /\ dpc = "respond"
    /\ resp' = cur + 1
    /\ answered' = answered \cup {cur}
    /\ dpc' = IF cur = 1 THEN "loop" ELSE "saveResult"
    /\ cur' = IF cur = 1 THEN 0 ELSE cur
    /\ UNCHANGED <<diskVars, newState, txBase, bdStore, txStore, cache>>

\* Mutant: every height is handled like the initial one.
RespondWithoutResults ==
    /\ dpc = "respond"
    /\ resp' = cur
    /\ answered' = answered \cup {cur}
    /\ dpc' = "loop"
    /\ cur' = 0
    /\ UNCHANGED <<diskVars, newState, txBase, bdStore, txStore, cache>>

\* Mutant: the answer is never sent.
RespondUnsent ==
    /\ dpc = "respond"
    /\ answered' = answered \cup {cur}
    /\ dpc' = IF cur = 1 THEN "loop" ELSE "saveResult"
    /\ cur' = IF cur = 1 THEN 0 ELSE cur
    /\ UNCHANGED <<diskVars, newState, resp, txBase, bdStore, txStore, cache>>

\* The answer goes to the engine; at the initial height that is all.
Respond ==
    /\ dpc = "respond"
    /\ resp' = cur
    /\ answered' = answered \cup {cur}
    /\ dpc' = IF cur = 1 THEN "loop" ELSE "saveResult"
    /\ cur' = IF cur = 1 THEN 0 ELSE cur
    /\ UNCHANGED <<diskVars, newState, txBase, bdStore, txStore, cache>>

\* Only then are the transaction results stored.
SaveBlockResult ==
    /\ dpc = "saveResult"
    /\ txStore' = WithResults(cur)
    /\ cur' = 0
    /\ dpc' = "loop"
    /\ UNCHANGED <<diskVars, newState, resp, answered, txBase, bdStore, cache>>

\* An SDK call, the buffer or a store reports an error, a genesis transaction
\* has failed, or the block's driver annotation does not parse: the handler
\* returns false, and the driver's goroutine ends while the process goes on.
Fail ==
    /\ "error" \in Faults
    /\ \/ dpc = "loop" /\ \E h \in Heights \ {1} : Requested(h)
       \/ dpc \in {"init", "initCommit", "initRespond", "wait", "deliver",
                   "rebase", "commit", "saveResult"}
    /\ dpc' = "ended"
    /\ UNCHANGED <<diskVars, cur, newState, resp, answered, txBase, bdStore,
                   txStore, cache>>

\* A lag update: the driver calls the catchup client ...
HandleLagStateUpdate ==
    /\ dpc = "loop"
    /\ dpc' = "lag"
    /\ UNCHANGED <<diskVars, cur, newState, resp, answered, txBase, bdStore,
                   txStore, cache>>

\* ... and goes on when its main loop has received the request.
CatchupAccepts ==
    /\ dpc = "lag"
    /\ dpc' = "loop"
    /\ UNCHANGED <<diskVars, cur, newState, resp, answered, txBase, bdStore,
                   txStore, cache>>

Next ==
    \/ \E h \in Heights, ready \in BOOLEAN : EntryAdded(h, ready)
    \/ \E h \in Heights : EntryReady(h)
    \/ Decide
    \/ EngineRecord
    \/ Crash
    \/ Restart
    \/ InitSkipped
    \/ InitGenesis
    \/ InitCommit
    \/ InitRespond
    \/ FinalizeInitial
    \/ \E h \in Heights : FinalizeEmpty(h)
    \/ \E h \in Heights : FinalizeWithData(h)
    \/ \E h \in Heights : FinalizeWithoutEntry(h)
    \/ SaveBlockData
    \/ DeliverBlock
    \/ Rebase
    \/ Commit
    \/ Respond
    \/ SaveBlockResult
    \/ Fail
    \/ HandleLagStateUpdate
    \/ CatchupAccepts

Spec == Init /\ [][Next]_vars

HandleInitialization == InitSkipped \/ InitGenesis \/ InitCommit \/ InitRespond

\* mainLoop's select takes a finalization request.
TakeFinalization ==
    \/ FinalizeInitial
    \/ \E h \in Heights :
        FinalizeEmpty(h) \/ FinalizeWithData(h) \/ FinalizeWithoutEntry(h)

\* The rest of handleFinalization.
FinishFinalization ==
    SaveBlockData \/ DeliverBlock \/ Rebase \/ Commit \/ Respond
        \/ SaveBlockResult

(* The driver's goroutine and the engine run, and Go's select is fair to   *)
(* finalization requests in the presence of lag updates.  Nothing is       *)
(* assumed of crashes and failures, nor of those the driver waits for: a   *)
(* lost retrieval never makes its entry ready (pbdretriever.go:232), and   *)
(* a catchup client that is stuck never takes a call.                      *)
Fairness ==
    /\ WF_vars(HandleInitialization)
    /\ SF_vars(TakeFinalization)
    /\ WF_vars(FinishFinalization)
    /\ WF_vars(EngineRecord)

FairSpec == Spec /\ Fairness

-----------------------------------------------------------------------------
(* Properties.                                                             *)

\* The engine never has an answer for a height the SDK store has not
\* committed, and the store is at most one height ahead, wherever the process
\* dies: no height is ever skipped by the application.
StoreTracksEngine ==
    /\ engFinal <= sdkVersion
    /\ sdkVersion <= engFinal + 1
    /\ resp # -1 => resp <= sdkVersion

Log == INSTANCE BlockLog WITH committed <- sdkVersion, recorded <- engFinal

\* What a crash or an error may interrupt at any point is, seen from the disk,
\* a log of heights: SDK store and engine advance in turn, one height at a
\* time, behind the network's decisions, and neither ever goes back.
KeepsLog == Log!Spec

\* Between requests the transaction buffer simulates on the committed state,
\* also after a restart: transactions are never checked against a state that
\* was not committed, or against an old one.
BufferOnCommittedState ==
    dpc \in {"loop", "lag"} => txBase = sdkState

\* When a height's block has transactions and its finalization was answered,
\* its encoded data is in the block data store, "so that we can serve it to
\* peers who need it later"; except that of the initial height, which the
\* driver finalizes without a look at its transactions.
AnsweredDataStored == (answered \ {1}) \cap DataHeights \subseteq bdStore

\* Transaction results trail the answer by at most the height being handled:
\* a client that sees height h finalized finds all results below h.
ResultsTrailByOne ==
    dpc # "ended" => \A h \in answered \ {1} : h \in txStore \/ h = cur

\* "The entry must already exist in the cache" when a block with
\* transactions is finalized.
EntryExists ==
    \A h \in DataHeights \ {1} :
        dpc = "loop" /\ Requested(h) => Has(cache, h)

\* Every finalization request is answered, and the answer recorded, unless the
\* process dies or a call fails.  Otherwise there are two waits, and no other,
\* that keep the driver from it for good: one for block data that never comes,
\* and one for a catchup client that never takes a lag update.
FinalizationAnswered ==
    \/ \A h \in Heights :
         Requested(h) ~> engFinal >= h \/ dpc \in {"down", "ended"}
    \/ <>[](dpc = "wait" /\ ~IsReady(cache, cur))
    \/ <>[](dpc = "lag")

=============================================================================
