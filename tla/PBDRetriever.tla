---------------------------- MODULE PBDRetriever ----------------------------
(***************************************************************************)
(* gsi.PBDRetriever: the proposal block data retriever.  The consensus     *)
(* strategy asks for the block data of a proposed block; the main loop     *)
(* records the request in the shared cache and hands it to a pool of       *)
(* workers; a worker tries the proposer's addresses one by one and sends   *)
(* what it fetched back to the main loop, which closes the entry's Ready   *)
(* channel.                                                                *)
(*                                                                         *)
(* The strategy runs on one goroutine of the engine, so one Retrieve call  *)
(* is outstanding at a time; its context ends when the engine moves on.    *)
(***************************************************************************)
EXTENDS RequestCache, Naturals, Sequences, FiniteSets

CONSTANTS
    Workers,    \* the worker goroutines
    NWorkers,   \* their number, the capacity of both worker channels (4)
    Addrs,      \* libp2p addresses a proposal may name
    Usable,     \* the addresses of each data ID's annotation that parse
    Serving,    \* addresses that connect, and serve the right data
    Silent,     \* addresses that accept a stream and may never write to it
    Events,     \* whether contexts may end: "cancel" (the call's), "stop"
    NoID        \* placeholder where no data ID is named

ASSUME ConstantsAssumption ==
    /\ NWorkers \in Nat \ {0}
    /\ Usable \in [DataIDs -> SUBSET Addrs]
    /\ Serving \subseteq Addrs
    /\ Silent \subseteq Addrs \ Serving
    /\ Events \subseteq {"cancel", "stop"}
    /\ NoID \notin DataIDs

VARIABLES
    alive,      \* FALSE once the retriever's context is cancelled
    panicked,   \* TRUE once a goroutine panicked: the process is gone
    cpc, cid,   \* where the strategy's call is, and the data ID it is for
    mpc, mid,   \* where the main loop is, and the data ID it handles
    mcur,       \* whether the strategy's call still waits for mid's Accepted
    queue,      \* workerP2PFetchRequests
    results,    \* workerFetchResults
    ifrs,       \* data IDs in the main loop's map of in-flight requests
    wpc, wid,   \* where each worker is, and the data ID it handles
    untried,    \* the addresses each worker has not tried yet
    cache       \* the shared request cache

callVars == <<cpc, cid>>
mainVars == <<mpc, mid, mcur, ifrs>>
workVars == <<wpc, wid, untried>>
vars == <<alive, panicked, callVars, mainVars, queue, results, workVars, cache>>

TypeOK ==
    /\ alive \in BOOLEAN
    /\ panicked \in BOOLEAN
    /\ cpc \in {"idle", "send", "await", "accepted"}
    /\ cid \in DataIDs \cup {NoID}
    /\ mpc \in {"select", "register", "sendWork", "done"}
    /\ mid \in DataIDs \cup {NoID}
    /\ mcur \in BOOLEAN
    /\ queue \in Seq(DataIDs) /\ Len(queue) <= NWorkers
    /\ results \in Seq(DataIDs) /\ Len(results) <= NWorkers
    /\ ifrs \in SUBSET DataIDs
    /\ wpc \in [Workers -> {"idle", "try", "result", "done"}]
    /\ wid \in [Workers -> DataIDs \cup {NoID}]
    /\ untried \in [Workers -> SUBSET Addrs]
    /\ cache \in [DataIDs -> EntryStates]

\* NewPBDRetriever
Init ==
    /\ alive = TRUE
    /\ panicked = FALSE
    /\ cpc = "idle" /\ cid = NoID
    /\ mpc = "select" /\ mid = NoID /\ mcur = FALSE
    /\ queue = <<>>
    /\ results = <<>>
    /\ ifrs = {}
    /\ wpc = [k \in Workers |-> "idle"]
    /\ wid = [k \in Workers |-> NoID]
    /\ untried = [k \in Workers |-> {}]
    /\ cache = NewRequestCache

-----------------------------------------------------------------------------
(* The strategy's side: ConsiderProposedBlocks calling Retrieve.           *)

\* The cache has no entry for a proposed block's data ID, so Retrieve is
\* called; its annotation decodes and names a usable address.
RetrieveBegin(d) ==
    /\ ~panicked
    /\ cpc = "idle"
    /\ ~Has(cache, d)
    /\ Usable[d] # {}
    /\ cpc' = "send"
    /\ cid' = d
    /\ UNCHANGED <<alive, panicked, mainVars, queue, results, workVars, cache>>

\* ReqResp is given up, before or after the main loop received the request,
\* because the call's context is done.
RetrieveCancelled ==
    /\ ~panicked
    /\ cpc \in {"send", "await"}
    /\ ~alive \/ "cancel" \in Events
    /\ cpc' = "idle"
    /\ cid' = NoID
    /\ mcur' = FALSE
    /\ UNCHANGED <<alive, panicked, mpc, mid, ifrs, queue, results, workVars,
                   cache>>

\* The Accepted channel is closed: Retrieve returns nil.
RetrieveReturns ==
    /\ ~panicked
    /\ cpc = "accepted"
    /\ cpc' = "idle"
    /\ cid' = NoID
    /\ UNCHANGED <<alive, panicked, mainVars, queue, results, workVars, cache>>

\* The context given to NewPBDRetriever, that of Component.Start, is
\* cancelled.
Shutdown ==
    /\ ~panicked /\ alive
    /\ "stop" \in Events
    /\ alive' = FALSE
    /\ UNCHANGED <<panicked, callVars, mainVars, queue, results, workVars,
                   cache>>

-----------------------------------------------------------------------------
(* The main loop.                                                          *)

\* case req := <-r.p2pFetchRequests: a rendezvous with the caller.
MainReceive ==
    /\ ~panicked
    /\ mpc = "select"
    /\ cpc = "send"
    /\ mpc' = "register"
    /\ mid' = cid
    /\ mcur' = TRUE
    /\ cpc' = "await"
    /\ UNCHANGED <<alive, panicked, cid, ifrs, queue, results, workVars, cache>>

\* Mutant: the request does not enter ifrs.
MainRegisterUntracked ==
    /\ ~panicked
    /\ mpc = "register"
    /\ panicked' = SetPanics(cache, mid)
    /\ cache' = SetInFlight(cache, mid)
    /\ mpc' = "sendWork"
    /\ UNCHANGED <<alive, callVars, mid, mcur, ifrs, queue, results, workVars>>

\* Mutant: an existing cache entry is overwritten.
MainRegisterOverwrite ==
    /\ ~panicked
    /\ mpc = "register"
    /\ ifrs' = ifrs \cup {mid}
    /\ cache' = SetInFlight(cache, mid)
    /\ mpc' = "sendWork"
    /\ UNCHANGED <<alive, panicked, callVars, mid, mcur, queue, results,
                   workVars>>

\* The request enters ifrs and the cache; SetInFlight panics if the cache
\* has an entry for the data ID.
MainRegister ==
    /\ ~panicked
    /\ mpc = "register"
    /\ ifrs' = ifrs \cup {mid}
    /\ \/ /\ ~SetPanics(cache, mid)
          /\ cache' = SetInFlight(cache, mid)
          /\ mpc' = "sendWork"
          /\ UNCHANGED panicked
       \/ /\ SetPanics(cache, mid)
          /\ panicked' = TRUE
          /\ UNCHANGED <<cache, mpc>>
    /\ UNCHANGED <<alive, callVars, mid, mcur, queue, results, workVars>>

\* workerP2PFetchRequests has no room.
QueueFull == Len(queue) >= NWorkers


\* The blocking send to the workers goes through; close(req.Accepted).
MainSendWork ==
    /\ ~panicked
    /\ mpc = "sendWork"
    /\ ~QueueFull
    /\ queue' = Append(queue, mid)
    /\ mpc' = "select"
    /\ mid' = NoID
    /\ mcur' = FALSE
    /\ cpc' = IF mcur THEN "accepted" ELSE cpc
    /\ UNCHANGED <<alive, panicked, cid, ifrs, results, workVars, cache>>

\* The blocking send is given up: the main loop returns.
MainSendCancelled ==
    /\ ~panicked /\ ~alive
    /\ mpc = "sendWork"
    /\ mpc' = "done"
    /\ mid' = NoID
    /\ mcur' = FALSE
    /\ UNCHANGED <<alive, panicked, callVars, ifrs, queue, results, workVars,
                   cache>>

\* case res := <-r.workerFetchResults: fill in the entry, close its Ready
\* channel and forget the request.  A result without a request dereferences
\* a nil BDR, and a second close of Ready panics too.
MainResult ==
    /\ ~panicked
    /\ mpc = "select"
    /\ results # <<>>
    /\ results' = Tail(results)
    /\ LET d == Head(results) IN
       /\ ifrs' = ifrs \ {d}
       /\ cache' = [cache EXCEPT ![d] = "ready"]
       /\ panicked' = (d \notin ifrs \/ IsReady(cache, d))
    /\ UNCHANGED <<alive, callVars, mpc, mid, mcur, queue, workVars>>

\* case <-ctx.Done()
MainStop ==
    /\ ~panicked /\ ~alive
    /\ mpc = "select"
    /\ mpc' = "done"
    /\ UNCHANGED <<alive, panicked, callVars, mid, mcur, ifrs, queue, results,
                   workVars, cache>>

-----------------------------------------------------------------------------
(* The workers.                                                            *)

\* The worker returns to its select.
BackToIdle(k) ==
    /\ wpc' = [wpc EXCEPT ![k] = "idle"]
    /\ wid' = [wid EXCEPT ![k] = NoID]
    /\ untried' = [untried EXCEPT ![k] = {}]

\* worker returns.
Quit(k) ==
    /\ wpc' = [wpc EXCEPT ![k] = "done"]
    /\ wid' = [wid EXCEPT ![k] = NoID]
    /\ untried' = [untried EXCEPT ![k] = {}]

\* case req := <-r.workerP2PFetchRequests
WorkerTake(k) ==
    /\ ~panicked
    /\ wpc[k] = "idle"
    /\ queue # <<>>
    /\ queue' = Tail(queue)
    /\ wpc' = [wpc EXCEPT ![k] = "try"]
    /\ wid' = [wid EXCEPT ![k] = Head(queue)]
    /\ untried' = [untried EXCEPT ![k] = Usable[Head(queue)]]
    /\ UNCHANGED <<alive, panicked, callVars, mainVars, results, cache>>

\* workerFetchOneP2P: the next address of the shuffled list serves data that
\* decodes to the data ID.
WorkerFetched(k, a) ==
    /\ ~panicked
    /\ wpc[k] = "try"
    /\ a \in untried[k]
    /\ wpc' = [wpc EXCEPT ![k] = "result"]
    /\ UNCHANGED <<alive, panicked, callVars, mainVars, queue, results, wid,
                   untried, cache>>

\* Mutant: the first failure ends the walk through the addresses.
WorkerFailedAtOnce(k, a) ==
    /\ ~panicked
    /\ wpc[k] = "try"
    /\ a \in untried[k]
    /\ a \notin Serving \/ ~alive
    /\ BackToIdle(k)
    /\ UNCHANGED <<alive, panicked, callVars, mainVars, queue, results, cache>>

\* workerFetchOneP2P: it does not.  The worker goes on with the list, unless
\* the failure came with the end of the context.
WorkerFailed(k, a) ==
    /\ ~panicked
    /\ wpc[k] = "try"
    /\ a \in untried[k]
    /\ a \notin Serving \/ ~alive
    /\ IF alive
       THEN /\ untried' = [untried EXCEPT ![k] = @ \ {a}]
            /\ UNCHANGED <<wpc, wid>>
       ELSE Quit(k)
    /\ UNCHANGED <<alive, panicked, callVars, mainVars, queue, results, cache>>

\* No address is left: the failure is logged, and nobody is told.
WorkerGivesUp(k) ==
    /\ ~panicked
    /\ wpc[k] = "try"
    /\ untried[k] = {}
    /\ BackToIdle(k)
    /\ UNCHANGED <<alive, panicked, callVars, mainVars, queue, results, cache>>

\* Mutant: the walk through the addresses goes on after a success.
WorkerSendResultGoesOn(k) ==
    /\ ~panicked
    /\ wpc[k] = "result"
    /\ Len(results) < NWorkers
    /\ results' = Append(results, wid[k])
    /\ wpc' = [wpc EXCEPT ![k] = "try"]
    /\ UNCHANGED <<alive, panicked, callVars, mainVars, queue, wid, untried,
                   cache>>

\* The result is sent to the main loop ...
WorkerSendResult(k) ==
    /\ ~panicked
    /\ wpc[k] = "result"
    /\ Len(results) < NWorkers
    /\ results' = Append(results, wid[k])
    /\ BackToIdle(k)
    /\ UNCHANGED <<alive, panicked, callVars, mainVars, queue, cache>>

\* Mutant: a plain send of the result, without the ctx case.
WorkerStopIdleOnly(k) ==
    /\ ~panicked /\ ~alive
    /\ wpc[k] = "idle"
    /\ Quit(k)
    /\ UNCHANGED <<alive, panicked, callVars, mainVars, queue, results, cache>>

\* ... or dropped, because the context is done; or that is all the worker
\* had to notice.
WorkerStop(k) ==
    /\ ~panicked /\ ~alive
    /\ wpc[k] \in {"idle", "result"}
    /\ Quit(k)
    /\ UNCHANGED <<alive, panicked, callVars, mainVars, queue, results, cache>>

-----------------------------------------------------------------------------
AllDone == mpc = "done" /\ \A k \in Workers : wpc[k] = "done"

\* The process is gone, or there is nothing left to do.
Terminated ==
    /\ \/ panicked
       \/ AllDone /\ cpc = "idle"
       \/ /\ cpc = "idle" /\ mpc = "select" /\ queue = <<>> /\ results = <<>>
          /\ \A k \in Workers : wpc[k] = "idle"
    /\ UNCHANGED vars

Next ==
    \/ \E d \in DataIDs : RetrieveBegin(d)
    \/ RetrieveCancelled
    \/ RetrieveReturns
    \/ Shutdown
    \/ MainReceive
    \/ MainRegister
    \/ MainSendWork
    \/ MainSendCancelled
    \/ MainResult
    \/ MainStop
    \/ \E k \in Workers : WorkerTake(k)
    \/ \E k \in Workers, a \in Addrs : WorkerFetched(k, a)
    \/ \E k \in Workers, a \in Addrs : WorkerFailed(k, a)
    \/ \E k \in Workers : WorkerGivesUp(k)
    \/ \E k \in Workers : WorkerSendResult(k)
    \/ \E k \in Workers : WorkerStop(k)
    \/ Terminated

Spec == Init /\ [][Next]_vars

(* The goroutines run, and a select case that is ready again and again is  *)
(* taken.  An address that is not silent ends the fetch one way or the     *)
(* other.  The call's context descends from the retriever's.               *)
Attempt(k, a) == a \notin Silent /\ (WorkerFetched(k, a) \/ WorkerFailed(k, a))

Fairness ==
    /\ WF_vars(RetrieveReturns)
    /\ WF_vars(~alive /\ RetrieveCancelled)
    /\ SF_vars(MainReceive)
    /\ WF_vars(MainRegister)
    /\ WF_vars(MainSendWork)
    /\ WF_vars(MainSendCancelled)
    /\ SF_vars(MainResult)
    /\ SF_vars(MainStop)
    /\ \A k \in Workers :
        /\ WF_vars(WorkerTake(k))
        /\ WF_vars(\E a \in Addrs : Attempt(k, a))
        /\ WF_vars(WorkerGivesUp(k))
        /\ WF_vars(WorkerSendResult(k))
        /\ WF_vars(WorkerStop(k))

FairSpec == Spec /\ Fairness

-----------------------------------------------------------------------------
(* Properties.                                                             *)

Elems(s) == {s[i] : i \in DOMAIN s}

\* The main loop's map of in-flight requests and the shared cache agree: an
\* entry waits in the cache exactly as long as a result for it can be
\* applied.
MapsAgree ==
    ~panicked => \A d \in DataIDs : d \in ifrs <=> cache[d] = "inflight"

\* A registered request is held once: by the main loop, in the queue, by one
\* worker or among the results.  Two holders would fetch the same data twice
\* and close its Ready channel twice.
HeldOnce ==
    LET sending == IF mpc = "sendWork" THEN {mid} ELSE {}
        busy == {k \in Workers : wid[k] # NoID}
    IN  /\ \A i, j \in DOMAIN queue : queue[i] = queue[j] => i = j
        /\ \A i, j \in DOMAIN results : results[i] = results[j] => i = j
        /\ \A k, l \in busy : wid[k] = wid[l] => k = l
        /\ Elems(queue) \cap Elems(results) = {}
        /\ sending \cap (Elems(queue) \cup Elems(results)) = {}
        /\ \A k \in busy : wid[k] \notin sending \cup Elems(queue) \cup Elems(results)

\* Every result has its request, and its Ready channel is still open: the
\* unchecked lookup in ifrs and the close in the main loop do not panic.
ResultsApply ==
    ~panicked => \A i \in DOMAIN results :
        results[i] \in ifrs /\ cache[results[i]] = "inflight"

\* The main loop waits for a worker to take a request while every worker waits
\* for the main loop to take a result.  Only the end of the retriever's context
\* ends it.
CircularWait ==
    /\ mpc = "sendWork" /\ QueueFull
    /\ Len(results) = NWorkers
    /\ \A k \in Workers : wpc[k] = "result"

\* The data IDs somebody holds: sends, has queued, works on or has fetched.
InHand(d) ==
    \/ mpc = "sendWork" /\ mid = d
    \/ d \in Elems(queue)
    \/ \E k \in Workers : wid[k] = d
    \/ d \in Elems(results)

HeldIDs == {d \in DataIDs : InHand(d)}

\* The comment on the blocking send, "This might be risky": main loop and
\* workers can come to wait for each other, but not before more than three
\* different requests to each worker are held at once.
CircularWaitNeedsMany == CircularWait => Cardinality(HeldIDs) > 3 * NWorkers

\* A data ID with at least one serving address becomes ready once registered,
\* unless the retriever is shut down, waits for itself, or panics because a
\* Retrieve call that was given up while it was received is made again.
ServedBecomeReady ==
    \A d \in DataIDs :
        (d \in ifrs /\ Usable[d] \cap Serving # {})
            ~> (IsReady(cache, d) \/ ~alive \/ panicked \/ CircularWait)


\* After cancellation the main loop and all workers return.
ShutdownCompletes == ~alive ~> (panicked \/ AllDone)

-----------------------------------------------------------------------------
(* The promise, and how it is kept.                                        *)

Job == [d \in DataIDs |->
          IF cache[d] = "ready" THEN "ready"
          ELSE IF cache[d] = "absent" THEN "none"
          ELSE IF InHand(d) THEN "working" ELSE "lost"]

Jobs == INSTANCE BlockDataJobs WITH Jobs <- DataIDs, job <- Job

\* Every step of the retriever is a step of BlockDataJobs, or none.
KeepsPromise == Jobs!Spec

=============================================================================
