------------------------------ MODULE DataHost ------------------------------
(***************************************************************************)
(* gp2papi.DataHost: it serves committed headers and full blocks to peers  *)
(* that catch up, out of two stores that are written by others: the        *)
(* engine's committed headers, on disk, and the block data, which the      *)
(* driver saves in memory while it finalizes a height.                     *)
(*                                                                         *)
(* A handler reads the header store first and the block data store after   *)
(* it; the driver, the engine and a crash may come between.  One stream is *)
(* followed at a time: handlers change no store, so others add nothing.    *)
(*                                                                         *)
(* Block data is named by its height.  The handler's DATA CORRUPTION panic *)
(* compares two names of it: that of the header at a height and the one    *)
(* the driver saved the data under, which is that of the same header.      *)
(***************************************************************************)
EXTENDS Driver

VARIABLES
    headers,        \* on disk: heights 1 .. headers have a committed header
    stream          \* the stream being handled

hostVars == <<headers, stream>>

Handlers == {"header", "fullBlock"}

\* What the peer reads: the special string "height unknown", another error
\* about the header, the error about the block data, or what it asked for.
Replies == {"unknown", "failed", "noData", "served"}

NoStream ==
    [pc |-> "none", handler |-> "header", height |-> 0, sure |-> FALSE,
     reply |-> "failed"]

\* sure is history: when the stream was opened, the height's header was
\* there and the driver had answered its finalization.
Streams ==
    [pc : {"none", "loadHeader", "loadData", "replied"}, handler : Handlers,
     height : 0 .. MaxHeight, sure : BOOLEAN, reply : Replies]

HostTypeOK ==
    /\ headers \in 0 .. MaxHeight
    /\ stream \in Streams

HostInit ==
    /\ headers = 0
    /\ stream = NoStream

-----------------------------------------------------------------------------

\* The engine records the committed headers in order, at any time after the
\* decision: it does not wait for the driver (external).
SaveCommittedHeader ==
    /\ dpc # "down"
    /\ headers < decided
    /\ headers' = headers + 1
    /\ UNCHANGED stream

\* libp2p runs a handler for a stream whose protocol names a height.
OpenStream(handler, h) ==
    /\ dpc # "down"
    /\ stream.pc = "none"
    /\ stream' = [pc |-> "loadHeader", handler |-> handler, height |-> h,
                  sure |-> h \in answered /\ h <= headers,
                  reply |-> "failed"]
    /\ UNCHANGED headers

Reply(r) == stream' = [stream EXCEPT !.pc = "replied", !.reply = r]

\* LoadCommittedHeader finds nothing at the height.
HeightUnknown ==
    /\ stream.pc = "loadHeader"
    /\ stream.height > headers
    /\ Reply("unknown")
    /\ UNCHANGED headers

\* The height has more than 64 bits, the store fails, the second is over or
\* the header cannot be marshalled.
LoadHeaderFails ==
    /\ stream.pc = "loadHeader"
    /\ Reply("failed")
    /\ UNCHANGED headers

\* The header is found.  It is the whole answer of the one handler, and of the
\* other one too when its data ID is zero.
LoadHeader ==
    /\ stream.pc = "loadHeader"
    /\ stream.height \in 1 .. headers
    /\ IF stream.handler = "fullBlock" /\ stream.height \in DataHeights
       THEN stream' = [stream EXCEPT !.pc = "loadData"]
       ELSE Reply("served")
    /\ UNCHANGED headers

\* The store finds the data at the height; it knows no other error.
LoadBlockDataByHeight(h) == h \in bdStore

LoadBlockData ==
    /\ stream.pc = "loadData"
    /\ Reply(IF LoadBlockDataByHeight(stream.height) THEN "served" ELSE "noData")
    /\ UNCHANGED headers

\* The handler returns and its deferred calls close the stream.
CloseStream ==
    /\ stream.pc = "replied"
    /\ stream' = NoStream
    /\ UNCHANGED headers

\* The process dies: the streams are gone, the headers are not.
StreamLost ==
    /\ stream' = NoStream
    /\ UNCHANGED headers

HostStep ==
    \/ SaveCommittedHeader
    \/ \E handler \in Handlers, h \in Heights : OpenStream(handler, h)
    \/ HeightUnknown
    \/ LoadHeaderFails
    \/ LoadHeader
    \/ LoadBlockData
    \/ CloseStream

-----------------------------------------------------------------------------

\* The driver finalizes the initial block without a look at its data.
NeverStored == DataHeights \cap {1}

\* A peer that asks for a full block whose header is recorded and whose
\* finalization this process has answered gets it: it is told neither that the
\* height is unknown nor that its data is missing, which would make it turn to
\* another peer.  (Between the two records it may be told so, after a restart
\* it always is, and so it is of an initial block with data, everywhere.)
AnsweredBlockServed ==
    stream.pc = "replied" /\ stream.sure /\ stream.height \notin NeverStored
        => stream.reply \in {"served", "failed"}

=============================================================================
