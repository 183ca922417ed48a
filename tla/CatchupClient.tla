---------------------------- MODULE CatchupClient ----------------------------
(***************************************************************************)
(* gp2papi.CatchupClient: the goroutine pair that fetches committed headers *)
(* and block data from peers while the engine's mirror lags behind.         *)
(*                                                                         *)
(*   - the main loop owns the peer sets and the current fetch context;     *)
(*   - the fetch worker walks heights start .. stop-1, asks the main loop  *)
(*     for a peer, fetches one full block from it, puts its block data in  *)
(*     the request cache and offers the header to the engine;              *)
(*   - the driver calls ResumeFetching and PauseFetching, one at a time;   *)
(*   - the component's connectedness goroutine calls AddPeer / RemovePeer. *)
(*                                                                         *)
(* Go's select picks at random among ready cases, so every wait on "ctx    *)
(* done or channel ready" is two actions that may both be enabled.         *)
(*                                                                         *)
(* A context is represented in each request that carries it by whether it  *)
(* is still live: all requests made since the last pause share one         *)
(* fetchCtx, and a pause cancels exactly these.                            *)
(***************************************************************************)
EXTENDS RequestCache, Naturals, Sequences

CONSTANTS
    Peers,          \* libp2p peer IDs
    NoPeer,         \* placeholder where no peer is named
    Reliable,       \* peers that stay connected and answer every fetch rightly
    Silent,         \* peers that may accept a stream and never write to it
    Faults,         \* which faults the other peers, and the engine, may show
    ChainHeight,    \* heights 1 .. ChainHeight exist on the peers
    DataIDAt,       \* the DataID of the header committed at each height
    ZeroDataID,     \* the DataID of a block without transactions
    Starts, Stops,  \* arguments of ResumeFetching (stop = 0: no upper bound)
    Calls,          \* which of "resume" and "pause" are called, and which
                    \* context ends: "stop" that of Start, "rootStop" the root
    MaxResumes,     \* Resume calls the driver makes between two pauses
    PeerChanCap,    \* capacity of the add, remove and exclude channels (8)
    FetchStateCap   \* capacity of newFetchStateRequests (1)

FaultKinds ==
    {"leave", "open", "reply", "peerErr", "height", "engine", "ahead"}

ASSUME ConstantsAssumption ==
    /\ ChainHeight \in Nat
    /\ Starts \subseteq 1 .. (ChainHeight + 1)
    /\ Stops \subseteq Nat
    /\ Reliable \subseteq Peers
    /\ Silent \subseteq Peers \ Reliable
    /\ Faults \subseteq FaultKinds
    /\ Calls \subseteq {"resume", "pause", "stop", "rootStop"}
    /\ MaxResumes \in Nat
    /\ PeerChanCap \in Nat \ {0}
    /\ FetchStateCap \in Nat \ {0}
    /\ NoPeer \notin Peers
    /\ ZeroDataID \notin DataIDs
    /\ DataIDAt \in [1 .. ChainHeight -> DataIDs \cup {ZeroDataID}]

VARIABLES
    alive,      \* FALSE once the context given to NewCatchupClient, which is
                \* Start's, is cancelled
    rootAlive,  \* FALSE once the component's root context is: the driver and
                \* the engine run on it, and the host is closed after it
    panicked,   \* TRUE once a goroutine panicked: the process is gone
    dcall,      \* the driver's outstanding ResumeFetching or PauseFetching call
    resumes,    \* Resume calls issued since the last completed pause
    connected,  \* peers the libp2p host is connected to
    addCh, removeCh, excludeCh,     \* the three buffered peer channels
    stateCh,    \* newFetchStateRequests
    mpc,        \* where the main loop is
    pending,    \* the request the main loop is sending to stateCh
    peers, excluded,                \* the main loop's two peer sets
    blocked,    \* requestBlockedOnMissingPeer: "none", "current" when it is
                \* the worker's present request, "orphaned" when the worker
                \* gave up waiting for it
    wpc,        \* where the fetch worker is
    w,          \* the request doFetches is working on
    height,     \* its loop variable
    wpeer,      \* the peer doFetch was given
    resp,       \* the 1-buffered response channel of the next peer request
    got,        \* height of the header doFetch offers (0: none), which need
                \* not be the one it asked for
    eng,        \* the replayed header the engine holds
    engResp,    \* the 1-buffered response channel of that header
    committing, \* the engine's committing height
    accepted,   \* heights the engine has accepted from the client
    cache       \* the shared request cache

mainVars == <<mpc, pending, peers, excluded, blocked>>
chanVars == <<addCh, removeCh, excludeCh, stateCh>>
workVars == <<wpc, w, height, wpeer, resp, got>>
engVars  == <<eng, engResp, committing, accepted>>
drvVars  == <<dcall, resumes>>
ctxVars  == <<alive, rootAlive>>
vars == <<ctxVars, panicked, connected, drvVars, chanVars, mainVars, workVars,
          engVars, cache>>

Heights == 1 .. (ChainHeight + 1)
Requests == [ctx : {"live", "done"}, start : Starts, stop : Stops]
NoReq == [ctx |-> "done", start |-> 0, stop |-> 0]
NoCall == [op |-> "none", start |-> 0, stop |-> 0]
PauseCall == [op |-> "pause", start |-> 0, stop |-> 0]
EndedCall == [op |-> "ended", start |-> 0, stop |-> 0]
NoHeader == [height |-> 0, reader |-> "gone"]

TypeOK ==
    /\ alive \in BOOLEAN
    /\ rootAlive \in BOOLEAN
    /\ panicked \in BOOLEAN
    /\ dcall \in [op : {"resume"}, start : Starts, stop : Stops]
                  \cup {PauseCall, NoCall, EndedCall}
    /\ resumes \in 0 .. MaxResumes
    /\ connected \in SUBSET Peers
    /\ addCh \in Seq(Peers) /\ Len(addCh) <= PeerChanCap
    /\ removeCh \in Seq(Peers) /\ Len(removeCh) <= PeerChanCap
    /\ excludeCh \in Seq(Peers) /\ Len(excludeCh) <= PeerChanCap
    /\ stateCh \in Seq(Requests) /\ Len(stateCh) <= FetchStateCap
    /\ mpc \in {"select", "sendState", "done"}
    /\ pending \in Requests \cup {NoReq}
    /\ peers \in SUBSET Peers
    /\ excluded \in SUBSET Peers
    /\ blocked \in {"none", "current", "orphaned"}
    /\ wpc \in {"idle", "ask", "await", "open", "read", "offer",
                "awaitEngine", "exclude", "done"}
    /\ w \in Requests \cup {NoReq}
    /\ height \in Heights \cup {0}
    /\ wpeer \in Peers \cup {NoPeer}
    /\ resp \in Peers \cup {NoPeer}
    /\ got \in 0 .. ChainHeight
    /\ eng \in [height : 1 .. ChainHeight, reader : {"worker", "gone"}]
               \cup {NoHeader}
    /\ engResp \in {"none", "ok", "err"}
    /\ committing \in 0 .. ChainHeight
    /\ accepted \in SUBSET Heights
    /\ cache \in [DataIDs -> EntryStates]

\* NewCatchupClient: both goroutines started, no peers, nothing to fetch.
Init ==
    /\ alive = TRUE
    /\ rootAlive = TRUE
    /\ panicked = FALSE
    /\ dcall = NoCall
    /\ resumes = 0
    /\ connected = {}
    /\ addCh = <<>> /\ removeCh = <<>> /\ excludeCh = <<>>
    /\ stateCh = <<>>
    /\ mpc = "select"
    /\ pending = NoReq
    /\ peers = {}
    /\ excluded = {}
    /\ blocked = "none"
    /\ wpc = "idle"
    /\ w = NoReq
    /\ height = 0
    /\ wpeer = NoPeer
    /\ resp = NoPeer
    /\ got = 0
    /\ eng = NoHeader
    /\ engResp = "none"
    /\ committing = 0
    /\ accepted = {}
    /\ cache = NewRequestCache

-----------------------------------------------------------------------------
(* The environment: the driver's calls, connectedness events, shutdown.    *)

\* Driver.handleLagStateUpdate for a lag status that needs fetching, from the
\* height after the one the engine was committing when it sent the status.
\* The send blocks until the main loop receives it (MainResume).
ResumeFetching(start, stop) ==
    /\ ~panicked
    /\ "resume" \in Calls
    /\ dcall = NoCall
    /\ resumes < MaxResumes
    /\ start <= committing + 1
    /\ dcall' = [op |-> "resume", start |-> start, stop |-> stop]
    /\ resumes' = resumes + 1
    /\ UNCHANGED <<ctxVars, panicked, connected, chanVars, mainVars, workVars,
                   engVars, cache>>

\* Driver.handleLagStateUpdate for LagStatusUpToDate.
PauseFetching ==
    /\ ~panicked
    /\ "pause" \in Calls
    /\ dcall = NoCall
    /\ dcall' = PauseCall
    /\ UNCHANGED <<ctxVars, panicked, connected, resumes, chanVars, mainVars,
                   workVars, engVars, cache>>

\* SendC of either call returns false because its context is done, and the
\* driver's main loop ends.  It is the driver's context, derived from the
\* component's root and not from the one the client runs on.
DriverCallCancelled ==
    /\ ~panicked /\ ~rootAlive
    /\ dcall \notin {NoCall, EndedCall}
    /\ dcall' = EndedCall
    /\ UNCHANGED <<ctxVars, panicked, connected, resumes, chanVars, mainVars,
                   workVars, engVars, cache>>

\* An EvtPeerConnectednessChanged of value Connected, handed to AddPeer.
AddPeer(p) ==
    /\ ~panicked
    /\ p \notin connected
    /\ Len(addCh) < PeerChanCap
    /\ connected' = connected \cup {p}
    /\ addCh' = Append(addCh, p)
    /\ UNCHANGED <<ctxVars, panicked, drvVars, removeCh, excludeCh, stateCh,
                   mainVars, workVars, engVars, cache>>

\* An EvtPeerConnectednessChanged of value NotConnected, handed to RemovePeer.
RemovePeer(p) ==
    /\ ~panicked
    /\ "leave" \in Faults
    /\ p \in connected \ Reliable
    /\ Len(removeCh) < PeerChanCap
    /\ connected' = connected \ {p}
    /\ removeCh' = Append(removeCh, p)
    /\ UNCHANGED <<ctxVars, panicked, drvVars, addCh, excludeCh, stateCh,
                   mainVars, workVars, engVars, cache>>

\* The context given to NewCatchupClient, that of Component.Start, is
\* cancelled.
Shutdown ==
    /\ ~panicked /\ alive
    /\ "stop" \in Calls
    /\ alive' = FALSE
    /\ UNCHANGED <<rootAlive, panicked, connected, drvVars, chanVars, mainVars,
                   workVars, engVars, cache>>

\* Component.Stop cancels the root context, before or after Start's ends.
RootShutdown ==
    /\ ~panicked /\ rootAlive
    /\ "rootStop" \in Calls
    /\ rootAlive' = FALSE
    /\ UNCHANGED <<alive, panicked, connected, drvVars, chanVars, mainVars,
                   workVars, engVars, cache>>

-----------------------------------------------------------------------------
(* The main loop.                                                          *)

\* Context cancellation as seen by a holder of r.Ctx.
Cancelled(r) == r.ctx = "done" \/ ~alive

Cancel(r) == [ctx |-> "done", start |-> r.start, stop |-> r.stop]

\* case req := <-c.resumeRequests: the request with the current fetchCtx is
\* about to be sent to the worker.
MainResume ==
    /\ ~panicked
    /\ mpc = "select"
    /\ dcall.op = "resume"
    /\ dcall' = NoCall
    /\ mpc' = "sendState"
    /\ pending' = [ctx |-> "live", start |-> dcall.start, stop |-> dcall.stop]
    /\ UNCHANGED <<ctxVars, panicked, connected, resumes, chanVars, peers,
                   excluded, blocked, workVars, engVars, cache>>

\* The SendC inside that case goes through ...
MainSendState ==
    /\ ~panicked
    /\ mpc = "sendState"
    /\ Len(stateCh) < FetchStateCap
    /\ stateCh' = Append(stateCh, pending)
    /\ pending' = NoReq
    /\ mpc' = "select"
    /\ UNCHANGED <<ctxVars, panicked, connected, drvVars, addCh, removeCh,
                   excludeCh, peers, excluded, blocked, workVars, engVars,
                   cache>>

\* Mutant: a plain send, without the ctx case.
MainSendNotCancelled ==
    /\ FALSE
    /\ UNCHANGED vars

\* ... or is given up because the client is shutting down.
MainSendCancelled ==
    /\ ~panicked /\ ~alive
    /\ mpc = "sendState"
    /\ pending' = NoReq
    /\ mpc' = "done"
    /\ UNCHANGED <<ctxVars, panicked, connected, drvVars, chanVars, peers,
                   excluded, blocked, workVars, engVars, cache>>

\* Mutant: a new fetchCtx, without cancelling the old one.
MainPauseUncancelled ==
    /\ ~panicked
    /\ mpc = "select"
    /\ dcall.op = "pause"
    /\ dcall' = NoCall
    /\ resumes' = 0
    /\ UNCHANGED <<ctxVars, panicked, connected, chanVars, mainVars, workVars,
                   engVars, cache>>

\* case <-c.pauseRequests: cancel fetchCtx, wherever it is held, and start a
\* new one.
MainPause ==
    /\ ~panicked
    /\ mpc = "select"
    /\ dcall.op = "pause"
    /\ dcall' = NoCall
    /\ resumes' = 0
    /\ w' = Cancel(w)
    /\ stateCh' = [i \in DOMAIN stateCh |-> Cancel(stateCh[i])]
    /\ UNCHANGED <<ctxVars, panicked, connected, addCh, removeCh, excludeCh,
                   mainVars, wpc, height, wpeer, resp, got, engVars, cache>>

\* case req := <-nextPeerReqCh, a rendezvous with the worker: answered with
\* some candidate peer ...
MainNextPeer(p) ==
    /\ ~panicked
    /\ mpc = "select" /\ wpc = "ask"
    /\ blocked = "none"
    /\ p \in peers
    /\ resp' = p
    /\ wpc' = "await"
    /\ UNCHANGED <<ctxVars, panicked, connected, drvVars, chanVars, mainVars, w,
                   height, wpeer, got, engVars, cache>>

\* ... or remembered until a peer is added.
MainNextPeerBlocked ==
    /\ ~panicked
    /\ mpc = "select" /\ wpc = "ask"
    /\ blocked = "none"
    /\ peers = {}
    /\ blocked' = "current"
    /\ wpc' = "await"
    /\ UNCHANGED <<ctxVars, panicked, connected, drvVars, chanVars, mpc, pending,
                   peers, excluded, w, height, wpeer, resp, got, engVars, cache>>

\* Mutant: the exclusion list is not consulted.
MainAddPeerUnchecked ==
    /\ ~panicked
    /\ mpc = "select"
    /\ addCh # <<>>
    /\ addCh' = Tail(addCh)
    /\ peers' = peers \cup {Head(addCh)}
    /\ blocked' = "none"
    /\ resp' = IF blocked = "current" THEN Head(addCh) ELSE resp
    /\ UNCHANGED <<ctxVars, panicked, connected, drvVars, removeCh, excludeCh,
                   stateCh, mpc, pending, excluded, wpc, w, height, wpeer,
                   got, engVars, cache>>

\* Mutant: the blocked request is forgotten about.
MainAddPeerUnanswered ==
    /\ ~panicked
    /\ mpc = "select"
    /\ addCh # <<>>
    /\ addCh' = Tail(addCh)
    /\ peers' = IF Head(addCh) \in excluded THEN peers
                ELSE peers \cup {Head(addCh)}
    /\ UNCHANGED <<ctxVars, panicked, connected, drvVars, removeCh, excludeCh,
                   stateCh, mpc, pending, excluded, blocked, workVars, engVars,
                   cache>>

\* case req := <-c.addPeerRequests.  The answer to a blocked request is a
\* send without ctx on that request's 1-buffered channel.
MainAddPeer ==
    /\ ~panicked
    /\ mpc = "select"
    /\ addCh # <<>>
    /\ blocked = "current" => resp = NoPeer
    /\ addCh' = Tail(addCh)
    /\ IF Head(addCh) \in excluded
       THEN UNCHANGED <<peers, blocked, resp>>
       ELSE /\ peers' = peers \cup {Head(addCh)}
            /\ blocked' = "none"
            /\ resp' = IF blocked = "current" THEN Head(addCh) ELSE resp
    /\ UNCHANGED <<ctxVars, panicked, connected, drvVars, removeCh, excludeCh,
                   stateCh, mpc, pending, excluded, wpc, w, height, wpeer,
                   got, engVars, cache>>

\* case req := <-c.removePeerRequests
MainRemovePeer ==
    /\ ~panicked
    /\ mpc = "select"
    /\ removeCh # <<>>
    /\ removeCh' = Tail(removeCh)
    /\ peers' = peers \ {Head(removeCh)}
    /\ UNCHANGED <<ctxVars, panicked, connected, drvVars, addCh, excludeCh,
                   stateCh, mpc, pending, excluded, blocked, workVars, engVars,
                   cache>>

\* case req := <-c.excludePeerRequests
MainExcludePeer ==
    /\ ~panicked
    /\ mpc = "select"
    /\ excludeCh # <<>>
    /\ excludeCh' = Tail(excludeCh)
    /\ peers' = peers \ {Head(excludeCh)}
    /\ excluded' = excluded \cup {Head(excludeCh)}
    /\ UNCHANGED <<ctxVars, panicked, connected, drvVars, addCh, removeCh,
                   stateCh, mpc, pending, blocked, workVars, engVars, cache>>

\* case <-ctx.Done()
MainStop ==
    /\ ~panicked /\ ~alive
    /\ mpc = "select"
    /\ mpc' = "done"
    /\ UNCHANGED <<ctxVars, panicked, connected, drvVars, chanVars, pending,
                   peers, excluded, blocked, workVars, engVars, cache>>

-----------------------------------------------------------------------------
(* The fetch worker.                                                       *)

\* The condition of the loop in doFetches.
KeepFetching(h, stop) == stop = 0 \/ h < stop

\* doFetches returns to fetchWorker's select.
ReturnToIdle ==
    /\ wpc' = "idle"
    /\ w' = NoReq
    /\ height' = 0
    /\ wpeer' = NoPeer
    /\ resp' = NoPeer
    /\ got' = 0

\* The top of the loop in doFetches, for the given request and height.
Loop(r, h) ==
    IF KeepFetching(h, r.stop)
    THEN /\ wpc' = "ask" /\ w' = r /\ height' = h
         /\ wpeer' = NoPeer /\ resp' = NoPeer /\ got' = 0
    ELSE ReturnToIdle

\* case startReq := <-c.newFetchStateRequests
WorkerTake ==
    /\ ~panicked
    /\ wpc = "idle"
    /\ stateCh # <<>>
    /\ stateCh' = Tail(stateCh)
    /\ Loop(Head(stateCh), Head(stateCh).start)
    /\ UNCHANGED <<ctxVars, panicked, connected, drvVars, addCh, removeCh,
                   excludeCh, mainVars, engVars, cache>>

\* case <-ctx.Done() of fetchWorker
WorkerStop ==
    /\ ~panicked /\ ~alive
    /\ wpc = "idle"
    /\ wpc' = "done"
    /\ UNCHANGED <<ctxVars, panicked, connected, drvVars, chanVars, mainVars, w,
                   height, wpeer, resp, got, engVars, cache>>

\* Mutant: one response channel is reused for all next peer requests, so an
\* abandoned request still answers into the worker's channel.
WorkerPeerCancelledReuse ==
    /\ ~panicked
    /\ wpc \in {"ask", "await"}
    /\ Cancelled(w)
    /\ ReturnToIdle
    /\ UNCHANGED <<ctxVars, panicked, connected, drvVars, chanVars, mainVars,
                   engVars, cache>>

\* Mutant: the wait for the answer ignores the context.
WorkerPeerCancelledAskOnly ==
    /\ ~panicked
    /\ wpc = "ask"
    /\ Cancelled(w)
    /\ ReturnToIdle
    /\ UNCHANGED <<ctxVars, panicked, connected, drvVars, chanVars, mainVars,
                   engVars, cache>>

\* ReqResp for the next peer fails: the context is done before the request
\* is received, or before the answer is.  A request the main loop keeps as
\* blocked loses its reader.
WorkerPeerCancelled ==
    /\ ~panicked
    /\ wpc \in {"ask", "await"}
    /\ Cancelled(w)
    /\ ReturnToIdle
    /\ blocked' = IF blocked = "current" THEN "orphaned" ELSE blocked
    /\ UNCHANGED <<ctxVars, panicked, connected, drvVars, chanVars, mpc, pending,
                   peers, excluded, engVars, cache>>

\* ReqResp for the next peer succeeds.
WorkerPeerReceived ==
    /\ ~panicked
    /\ wpc = "await"
    /\ resp # NoPeer
    /\ wpc' = "open"
    /\ wpeer' = resp
    /\ resp' = NoPeer
    /\ UNCHANGED <<ctxVars, panicked, connected, drvVars, chanVars, mainVars, w,
                   height, got, engVars, cache>>

\* A fault the peer being asked may show.
MayFail(fault) == fault \in Faults /\ wpeer \notin Reliable

\* Once the root context is done the component closes the host, and streams
\* to every peer fail.
HostMayClose == ~rootAlive

\* doFetch: host.NewStream succeeds.
WorkerOpen ==
    /\ ~panicked
    /\ wpc = "open"
    /\ wpc' = "read"
    /\ UNCHANGED <<ctxVars, panicked, connected, drvVars, chanVars, mainVars, w,
                   height, wpeer, resp, got, engVars, cache>>

\* doFetch: host.NewStream fails, for lack of a connection, by the two second
\* timeout, or because the fetch context it inherits is cancelled.
WorkerOpenFails ==
    /\ ~panicked
    /\ wpc = "open"
    /\ MayFail("open") \/ Cancelled(w) \/ HostMayClose
    /\ wpc' = "exclude"
    /\ UNCHANGED <<ctxVars, panicked, connected, drvVars, chanVars, mainVars, w,
                   height, wpeer, resp, got, engVars, cache>>

\* doFetch: the stream holds no JSON result, no full block, no header, block
\* data that does not go with the header's data ID, or cannot be decoded.
WorkerBadReply ==
    /\ ~panicked
    /\ wpc = "read"
    /\ MayFail("reply") \/ HostMayClose
    /\ wpc' = "exclude"
    /\ UNCHANGED <<ctxVars, panicked, connected, drvVars, chanVars, mainVars, w,
                   height, wpeer, resp, got, engVars, cache>>

\* doFetch: the peer answers with an error, "height unknown" (after which the
\* worker backs off for a second) or another one.  Same height, next peer.
WorkerPeerError ==
    /\ ~panicked
    /\ wpc = "read"
    /\ height > ChainHeight \/ MayFail("peerErr")
    /\ Loop(w, height)
    /\ UNCHANGED <<ctxVars, panicked, connected, drvVars, chanVars, mainVars,
                   engVars, cache>>

\* Heights whose header the peer may answer with: nothing in doFetch compares
\* the header's height with the one asked for.  (A header of another height
\* also stands for any the engine is bound to refuse.)
Served(h) == h \in 1 .. ChainHeight /\ (h = height \/ MayFail("height"))

\* Mutant: the block data is not put into the cache.
WorkerFullBlockUncached(h) ==
    /\ ~panicked
    /\ wpc = "read"
    /\ Served(h)
    /\ got' = h
    /\ wpc' = "offer"
    /\ UNCHANGED <<ctxVars, panicked, connected, drvVars, chanVars, mainVars, w,
                   height, wpeer, resp, engVars, cache>>

\* doFetch: a header with matching block data arrived.  Non-empty block data
\* enters the request cache before the header is offered to the engine, and
\* the cache panics if the data ID is already there.
WorkerFullBlock(h) ==
    /\ ~panicked
    /\ wpc = "read"
    /\ Served(h)
    /\ LET d == DataIDAt[h] IN
       \/ /\ d = ZeroDataID
          /\ wpc' = "offer" /\ got' = h
          /\ UNCHANGED <<panicked, cache>>
       \/ /\ d # ZeroDataID
          /\ ~SetPanics(cache, d)
          /\ cache' = SetImmediatelyAvailable(cache, d)
          /\ wpc' = "offer" /\ got' = h
          /\ UNCHANGED panicked
       \/ /\ d # ZeroDataID
          /\ SetPanics(cache, d)
          /\ panicked' = TRUE
          /\ UNCHANGED <<wpc, got, cache>>
    /\ UNCHANGED <<ctxVars, connected, drvVars, chanVars, mainVars, w, height,
                   wpeer, resp, engVars>>

\* The worker offers the header, and the engine receives it.
EngineReceive ==
    /\ ~panicked /\ rootAlive
    /\ wpc = "offer"
    /\ eng = NoHeader
    /\ eng' = [height |-> got, reader |-> "worker"]
    /\ wpc' = "awaitEngine"
    /\ got' = 0
    /\ UNCHANGED <<ctxVars, panicked, connected, drvVars, chanVars, mainVars, w,
                   height, wpeer, resp, engResp, committing, accepted, cache>>

\* The engine finishes with the header it holds and answers, whether or not
\* the worker still waits: it can take none but the header after the one it
\* is committing.  (External: only the error or its absence is used.)
EngineReply(ok) ==
    /\ ~panicked /\ rootAlive
    /\ eng # NoHeader
    /\ LET next == eng.height = committing + 1 IN
       IF ok THEN next ELSE ~next \/ "engine" \in Faults
    /\ eng' = NoHeader
    /\ committing' = IF ok THEN eng.height ELSE committing
    /\ accepted' = IF ok THEN accepted \cup {eng.height} ELSE accepted
    /\ engResp' = IF eng.reader = "gone" THEN engResp
                  ELSE IF ok THEN "ok" ELSE "err"
    /\ UNCHANGED <<ctxVars, panicked, connected, drvVars, chanVars, mainVars,
                   workVars, cache>>

\* The engine commits a height on the votes it hears.  (External.)
EngineAdvances ==
    /\ ~panicked /\ rootAlive
    /\ "ahead" \in Faults
    /\ committing < ChainHeight
    /\ committing' = committing + 1
    /\ UNCHANGED <<ctxVars, panicked, connected, drvVars, chanVars, mainVars,
                   workVars, eng, engResp, accepted, cache>>

\* Mutant: all headers share one response channel, so a late answer is taken
\* for the next header's.
WorkerEngineCancelledShared ==
    /\ ~panicked
    /\ wpc \in {"offer", "awaitEngine"}
    /\ Cancelled(w)
    /\ Loop(w, height)
    /\ UNCHANGED <<ctxVars, panicked, connected, drvVars, chanVars, mainVars,
                   engVars, cache>>

\* ReqResp with the engine fails because the fetch context is done: the
\* result of doFetch is meaningless, and the loop goes round.
WorkerEngineCancelled ==
    /\ ~panicked
    /\ wpc \in {"offer", "awaitEngine"}
    /\ Cancelled(w)
    /\ Loop(w, height)
    /\ eng' = IF wpc = "awaitEngine" /\ eng # NoHeader
              THEN [height |-> eng.height, reader |-> "gone"] ELSE eng
    /\ engResp' = "none"
    /\ UNCHANGED <<ctxVars, panicked, connected, drvVars, chanVars, mainVars,
                   committing, accepted, cache>>

\* The engine accepted the header: on to the next height.
WorkerAccepted ==
    /\ ~panicked
    /\ wpc = "awaitEngine"
    /\ engResp = "ok"
    /\ engResp' = "none"
    /\ Loop(w, height + 1)
    /\ UNCHANGED <<ctxVars, panicked, connected, drvVars, chanVars, mainVars,
                   eng, committing, accepted, cache>>

\* The engine refused the header: blame the peer.
WorkerRejected ==
    /\ ~panicked
    /\ wpc = "awaitEngine"
    /\ engResp = "err"
    /\ engResp' = "none"
    /\ wpc' = "exclude"
    /\ UNCHANGED <<ctxVars, panicked, connected, drvVars, chanVars, mainVars, w,
                   height, wpeer, resp, got, eng, committing, accepted, cache>>

\* Mutant: exclude requests are queued without limit.
WorkerExcludeUnbounded ==
    /\ ~panicked
    /\ wpc = "exclude"
    /\ excludeCh' = Append(excludeCh, wpeer)
    /\ Loop(w, height)
    /\ UNCHANGED <<ctxVars, panicked, connected, drvVars, addCh, removeCh,
                   stateCh, mainVars, engVars, cache>>

\* The exclude request is sent, and the loop goes round ...
WorkerExclude ==
    /\ ~panicked
    /\ wpc = "exclude"
    /\ Len(excludeCh) < PeerChanCap
    /\ excludeCh' = Append(excludeCh, wpeer)
    /\ Loop(w, height)
    /\ UNCHANGED <<ctxVars, panicked, connected, drvVars, addCh, removeCh,
                   stateCh, mainVars, engVars, cache>>

\* ... or dropped, with the whole fetch, because the context is done.
WorkerExcludeCancelled ==
    /\ ~panicked
    /\ wpc = "exclude"
    /\ Cancelled(w)
    /\ ReturnToIdle
    /\ UNCHANGED <<ctxVars, panicked, connected, drvVars, chanVars, mainVars,
                   engVars, cache>>

-----------------------------------------------------------------------------
\* The process is gone, or both goroutines have returned (Wait returns).
Terminated ==
    /\ panicked \/ (mpc = "done" /\ wpc = "done")
    /\ UNCHANGED vars

Next ==
    \/ \E start \in Starts, stop \in Stops : ResumeFetching(start, stop)
    \/ PauseFetching
    \/ DriverCallCancelled
    \/ \E p \in Peers : AddPeer(p)
    \/ \E p \in Peers : RemovePeer(p)
    \/ Shutdown
    \/ RootShutdown
    \/ MainResume
    \/ MainSendState
    \/ MainSendCancelled
    \/ MainPause
    \/ \E p \in Peers : MainNextPeer(p)
    \/ MainNextPeerBlocked
    \/ MainAddPeer
    \/ MainRemovePeer
    \/ MainExcludePeer
    \/ MainStop
    \/ WorkerTake
    \/ WorkerStop
    \/ WorkerPeerCancelled
    \/ WorkerPeerReceived
    \/ WorkerOpen
    \/ WorkerOpenFails
    \/ WorkerBadReply
    \/ WorkerPeerError
    \/ \E h \in 1 .. ChainHeight : WorkerFullBlock(h)
    \/ EngineReceive
    \/ \E ok \in BOOLEAN : EngineReply(ok)
    \/ EngineAdvances
    \/ WorkerEngineCancelled
    \/ WorkerAccepted
    \/ WorkerRejected
    \/ WorkerExclude
    \/ WorkerExcludeCancelled
    \/ Terminated

Spec == Init /\ [][Next]_vars

-----------------------------------------------------------------------------
(* Fairness.  The goroutines run and Go's select is fair: a case that is   *)
(* ready again and again at the select is eventually chosen (SF), and so   *)
(* is each key of a map that is iterated again and again.  A reliable peer *)
(* connects; a peer that is not silent ends the stream; the engine         *)
(* receives and answers until the root context it runs on is done.         *)
(* Nothing is assumed of the driver, of a silent peer, or of when contexts *)
(* are cancelled.  One condition stands for all steps of a process that    *)
(* exclude each other, and one for all ends of a goroutine: each happens   *)
(* once.                                                                   *)
MainFairness ==
    /\ WF_vars(MainResume \/ MainPause \/ MainSendState)
    /\ SF_vars(MainAddPeer)
    /\ SF_vars(MainExcludePeer)
    /\ SF_vars(MainNextPeerBlocked)
    /\ \A p \in Peers : SF_vars(MainNextPeer(p))

WorkerFairness ==
    /\ WF_vars(\/ WorkerTake \/ WorkerPeerReceived
               \/ WorkerOpen \/ WorkerOpenFails
               \/ /\ wpeer \notin Silent
                  /\ \/ WorkerBadReply \/ WorkerPeerError
                     \/ \E h \in 1 .. ChainHeight : WorkerFullBlock(h)
               \/ WorkerAccepted \/ WorkerRejected \/ WorkerEngineCancelled
               \/ WorkerExclude \/ WorkerExcludeCancelled)
    /\ SF_vars(WorkerPeerCancelled)

EnvFairness ==
    /\ WF_vars(DriverCallCancelled)
    /\ WF_vars(EngineReceive \/ \E ok \in BOOLEAN : EngineReply(ok))
    /\ SF_vars(\E p \in Reliable : AddPeer(p))

EndFairness == SF_vars(MainStop \/ MainSendCancelled \/ WorkerStop)

FairSpec ==
    Spec /\ MainFairness /\ WorkerFairness /\ EnvFairness /\ EndFairness

-----------------------------------------------------------------------------
(* Properties.                                                             *)

Fetching == wpc \notin {"idle", "done"}

\* An excluded peer is not a candidate, although add, remove and exclude
\* requests travel on separate channels and the main loop takes them in any
\* order: catchupclient.go says excluded peers "can't get added again later".
ExcludedStayOut == peers \cap excluded = {}

\* requestBlockedOnMissingPeer is only held while there is no candidate:
\* while it is held no next peer request is received, so a worker would
\* otherwise starve beside usable peers.
BlockedMeansNoPeers == blocked # "none" => peers = {}

\* When the blocked request is the worker's own, the worker waits for it and
\* its response channel is empty, so the send that answers it, which has no
\* ctx case, never stops the main loop.
BlockedReplyHasRoom ==
    blocked = "current" => wpc = "await" /\ resp = NoPeer

\* A header with transactions that the engine accepted from the client has
\* its block data ready in the request cache, where the driver's
\* finalization of that height looks it up.
AcceptedDataReady ==
    \A h \in accepted :
        DataIDAt[h] # ZeroDataID => IsReady(cache, DataIDAt[h])

\* A fetch of start .. stop-1 works on a height only when the engine has
\* every earlier one, and never on stop or beyond, whatever was paused,
\* retried, answered late or answered with another height's header on the way.
FetchInOrder ==
    Fetching => /\ height <= committing + 1
                /\ w.stop # 0 => height < w.stop

\* The main loop is never stuck sending a fetch request to a worker that can
\* itself only go on when the main loop answers it: if the channel is full,
\* the worker is idle or its context is cancelled.  (Holds while the driver
\* makes at most FetchStateCap + 1 Resume calls between two pauses.)
NoCircularWait ==
    mpc = "sendState" /\ Len(stateCh) = FetchStateCap
        => ~Fetching \/ Cancelled(w)

\* The data ID assertion of RequestCache never fails.
NoCachePanic == ~panicked

\* A ResumeFetching or PauseFetching call is under way.
Calling == dcall \notin {NoCall, EndedCall}

\* Every ResumeFetching and PauseFetching call returns: the driver's main
\* loop, which makes them, cannot finalize blocks until they do.  The one
\* exception is a client that has stopped before the driver was told to, for
\* the driver waits on another context than the client.
DriverCallsReturn == Calling ~> (~Calling \/ (~alive /\ rootAlive))

\* A fetch with an upper bound on the chain ends, or is cancelled, unless
\* every reliable peer gets excluded on the way: for the engine's refusal of
\* a header it no longer needs, or for a stream that a pause interrupted.
FetchCompletes ==
    (Fetching /\ w.stop \in 1 .. (ChainHeight + 1))
        ~> \/ ~Fetching \/ Cancelled(w) \/ ~rootAlive
           \/ Reliable \subseteq excluded

\* PauseFetching interrupts the outstanding fetch: a worker whose context is
\* cancelled stops working on it.
PauseInterrupts == (Fetching /\ w.ctx = "done") ~> (~Fetching \/ w.ctx = "live")

\* After cancellation both goroutines return, so Wait does, even from a
\* state in which they wait for each other.
ShutdownCompletes == ~alive ~> (panicked \/ (mpc = "done" /\ wpc = "done"))

=============================================================================
