----------------------------- MODULE Component -----------------------------
(***************************************************************************)
(* gserver.Component: how one process's parts are started, and how they    *)
(* are stopped.  Start creates them one after the other and gives up at    *)
(* the first error; Stop waits for their goroutines and closes what they   *)
(* use, in an order of its own.                                            *)
(*                                                                         *)
(* Parts end because one of two contexts is done.  Both descend from the   *)
(* context the process was started with, which an interrupt ends.  The     *)
(* root context ends with Stop's cancel too, Start's own with that of the  *)
(* SDK's command (external).                                               *)
(*                                                                         *)
(* Data host and servers are on as long as the goroutine runs that Stop    *)
(* waits for: the one that waits for the context's end, and the one that   *)
(* accepts connections.  Neither waits for the handlers of the clients it  *)
(* has let in, which may go on after it, and after Stop.                   *)
(*                                                                         *)
(* Stop is called once Start has returned.                                 *)
(***************************************************************************)
EXTENDS Naturals, Sequences

\* What Start creates, in its order.
StartOrder ==
    <<"httpLn", "grpcLn", "sql", "host", "dataHost", "conn", "txBuffer",
      "catchup", "peerEvents", "driver", "retriever", "gossip", "engine",
      "grpcServer", "httpServer">>

\* What Stop waits for or closes, in its order.
StopOrder ==
    <<"dataHost", "engine", "driver", "retriever", "conn", "host", "httpLn",
      "httpServer", "grpcLn", "grpcServer", "sql">>

Parts == {"httpLn", "grpcLn", "sql", "host", "dataHost", "conn", "txBuffer",
          "catchup", "peerEvents", "driver", "retriever", "gossip", "engine",
          "grpcServer", "httpServer"}

\* What the configuration may leave out, and the parts it decides on.
Options == {"http", "grpc", "sql"}
Optional ==
    [http |-> {"httpLn", "httpServer"}, grpc |-> {"grpcLn", "grpcServer"},
     sql |-> {"sql"}]

Listeners == {"httpLn", "grpcLn"}
Servers == {"httpServer", "grpcServer"}
ListenerOf == [httpServer |-> "httpLn", grpcServer |-> "grpcLn"]

\* Parts without goroutines of ours, which only a call ends.
Closable == Listeners \cup {"conn", "host", "sql"}

\* Parts whose goroutines return when the root context is done, or Start's.
\* (Parts of the second kind get the context Start was given.)
OnRoot == {"dataHost", "driver", "engine"}
OnStart == {"txBuffer", "catchup", "peerEvents", "retriever", "gossip"} \cup Servers

\* Parts of the second kind that Stop does not wait for.
Unwaited == {"txBuffer", "catchup", "peerEvents", "gossip"}

\* Parts that run handlers for clients.
Serving == {"dataHost"} \cup Servers

VARIABLES
    options,        \* what is configured
    interrupted,    \* the process's context is done
    sdkDone,        \* the SDK has cancelled Start's context
    start,          \* the part Start creates next, or one more than there are
    failed,         \* Start has returned an error
    part,           \* "none", "on", "off", or "lost": open, but not kept
    stop,           \* 0: not called, i: at step i of StopOrder, or returned
    clients         \* the parts of Serving with a client's stream or connection

vars == <<options, interrupted, sdkDone, start, failed, part, stop, clients>>
contextVars == <<options, interrupted, sdkDone>>

StartReturned == Len(StartOrder) + 1
StopReturned == Len(StopOrder) + 1

TypeOK ==
    /\ options \in SUBSET Options
    /\ interrupted \in BOOLEAN
    /\ sdkDone \in BOOLEAN
    /\ start \in 1 .. StartReturned
    /\ failed \in BOOLEAN
    /\ part \in [Parts -> {"none", "on", "off", "lost"}]
    /\ stop \in 0 .. StopReturned
    /\ clients \in SUBSET Serving

\* NewComponent
Init ==
    /\ options \in SUBSET Options
    /\ interrupted = FALSE
    /\ sdkDone = FALSE
    /\ start = 1
    /\ failed = FALSE
    /\ part = [p \in Parts |-> "none"]
    /\ stop = 0
    /\ clients = {}

\* Mutant: Stop does not cancel the root context.
RootDoneUncancelled == interrupted

\* rootCtx, which Stop cancels first, and the ctx given to Start.
RootDone == interrupted \/ stop > 0
StartDone == interrupted \/ sdkDone

Interrupt ==
    /\ ~interrupted
    /\ interrupted' = TRUE
    /\ UNCHANGED <<options, sdkDone, start, failed, part, stop, clients>>

SDKCancel ==
    /\ ~sdkDone
    /\ sdkDone' = TRUE
    /\ UNCHANGED <<options, interrupted, start, failed, part, stop, clients>>

-----------------------------------------------------------------------------
(* Start.                                                                  *)

Wanted(p) == \A o \in Options \ options : p \notin Optional[o]

Starting == start < StartReturned /\ ~failed

\* The next part is created; or it is not configured: its flag is empty, or
\* there is no listener for the server.
Create ==
    /\ Starting
    /\ part' = [part EXCEPT
                    ![StartOrder[start]] = IF Wanted(StartOrder[start]) THEN "on" ELSE @]
    /\ start' = start + 1
    /\ UNCHANGED <<contextVars, failed, stop, clients>>

\* Parts whose constructor, or what is read from files just before it, may
\* report an error.
Fallible ==
    Listeners \cup {"sql", "host", "conn", "peerEvents", "driver", "engine"}

CreateFails ==
    /\ Starting
    /\ StartOrder[start] \in Fallible
    /\ StartOrder[start] \in Listeners => Wanted(StartOrder[start])
    /\ failed' = TRUE
    /\ UNCHANGED <<contextVars, start, part, stop, clients>>

\* The listener is there, and its address cannot be written to the file: Start
\* fails before the component keeps the listener.
AddressFileFails ==
    /\ Starting
    /\ StartOrder[start] \in Listeners
    /\ Wanted(StartOrder[start])
    /\ part' = [part EXCEPT ![StartOrder[start]] = "lost"]
    /\ failed' = TRUE
    /\ UNCHANGED <<contextVars, start, stop, clients>>

-----------------------------------------------------------------------------
(* Parts end.                                                              *)

\* The data host's waitForCancellation, the driver or the engine sees the root
\* context done.  The first removes the handler of headers, and not that of
\* full blocks.
EndOnRoot(p) ==
    /\ part[p] = "on"
    /\ RootDone
    /\ part' = [part EXCEPT ![p] = "off"]
    /\ UNCHANGED <<contextVars, start, failed, stop, clients>>

\* The driver's goroutine also returns when a handler fails, the engine also
\* when the watchdog ends its context.
EndEarly(p) ==
    /\ part[p] = "on"
    /\ part' = [part EXCEPT ![p] = "off"]
    /\ UNCHANGED <<contextVars, start, failed, stop, clients>>

\* The buffer, the catchup client, the goroutine of peer events, the retriever
\* or the gossip strategy sees Start's context done.
EndOnStart(p) ==
    /\ part[p] = "on"
    /\ StartDone
    /\ part' = [part EXCEPT ![p] = "off"]
    /\ UNCHANGED <<contextVars, start, failed, stop, clients>>

\* waitForShutdown closes the server, and the server its listener.  Handlers
\* under way are not waited for.
ShutDownServer(s) ==
    /\ part[s] = "on"
    /\ StartDone
    /\ part' = [part EXCEPT ![s] = "off", ![ListenerOf[s]] = "off"]
    /\ UNCHANGED <<contextVars, start, failed, stop, clients>>

\* serve returns because the listener was closed, and waitForShutdown with it,
\* so that nobody closes the connections there are.
ServerLosesListener(s) ==
    /\ part[s] = "on"
    /\ part[ListenerOf[s]] = "off"
    /\ part' = [part EXCEPT ![s] = "off"]
    /\ UNCHANGED <<contextVars, start, failed, stop, clients>>

-----------------------------------------------------------------------------
(* Clients.                                                                *)

\* A peer can open a stream for full blocks as long as the host is open, and a
\* client can connect to a server while that accepts on its listener.
Reachable(p) ==
    /\ p = "dataHost" => part[p] \in {"on", "off"} /\ part["host"] = "on"
    /\ p \in Servers => part[p] = "on" /\ part[ListenerOf[p]] = "on"

ClientArrives(p) ==
    /\ Reachable(p)
    /\ p \notin clients
    /\ clients' = clients \cup {p}
    /\ UNCHANGED <<contextVars, start, failed, part, stop>>

\* The last handler for the part's clients has returned.
ClientsLeave(p) ==
    /\ p \in clients
    /\ clients' = clients \ {p}
    /\ UNCHANGED <<contextVars, start, failed, part, stop>>

-----------------------------------------------------------------------------
(* Stop.                                                                   *)

Stopping == stop \in 1 .. Len(StopOrder)

\* Stop is called, whether Start succeeded or not, and cancels the root
\* context.
CallStop ==
    /\ stop = 0
    /\ ~Starting
    /\ stop' = 1
    /\ UNCHANGED <<contextVars, start, failed, part, clients>>

\* Mutant: nothing is waited for.
StopWaitNot ==
    /\ Stopping
    /\ StopOrder[stop] \notin Closable
    /\ stop' = stop + 1
    /\ UNCHANGED <<contextVars, start, failed, part, clients>>

\* A wait returns, or is not needed because Start did not get that far.
StopWait ==
    /\ Stopping
    /\ StopOrder[stop] \notin Closable
    /\ part[StopOrder[stop]] # "on"
    /\ stop' = stop + 1
    /\ UNCHANGED <<contextVars, start, failed, part, clients>>

\* Mutant: listeners are not closed before their servers are waited for.
StopCloseNoListener ==
    /\ Stopping
    /\ StopOrder[stop] \in Closable
    /\ IF part[StopOrder[stop]] = "on" /\ StopOrder[stop] \notin Listeners
       THEN part' = [part EXCEPT ![StopOrder[stop]] = "off"]
       ELSE UNCHANGED part
    /\ stop' = stop + 1
    /\ UNCHANGED <<contextVars, start, failed, clients>>

\* The connection, the host, a listener or the store is closed if the component
\* has it.  An error is logged, or is that of a listener already closed.
StopClose ==
    /\ Stopping
    /\ StopOrder[stop] \in Closable
    /\ IF part[StopOrder[stop]] = "on"
       THEN part' = [part EXCEPT ![StopOrder[stop]] = "off"]
       ELSE UNCHANGED part
    /\ stop' = stop + 1
    /\ UNCHANGED <<contextVars, start, failed, clients>>

-----------------------------------------------------------------------------
\* Nothing is left to do.
Terminated ==
    /\ stop = StopReturned
    /\ UNCHANGED vars

Next ==
    \/ Interrupt
    \/ SDKCancel
    \/ Create
    \/ CreateFails
    \/ AddressFileFails
    \/ \E p \in OnRoot : EndOnRoot(p)
    \/ \E p \in {"driver", "engine"} : EndEarly(p)
    \/ \E p \in OnStart \ Servers : EndOnStart(p)
    \/ \E s \in Servers : ShutDownServer(s)
    \/ \E s \in Servers : ServerLosesListener(s)
    \/ \E p \in Serving : ClientArrives(p)
    \/ \E p \in Serving : ClientsLeave(p)
    \/ CallStop
    \/ StopWait
    \/ StopClose
    \/ Terminated

Spec == Init /\ [][Next]_vars

(* Goroutines run and see that their context is done; each ends once, so   *)
(* that it does not matter that they share their fairness.  For the        *)
(* retriever this needs peers that answer or end the streams it reads:     *)
(* Stop closes the host only after it has waited for the retriever.        *)
(* Nothing is assumed of clients.                                          *)
Fairness ==
    /\ WF_vars(Create)
    /\ WF_vars(\E p \in OnRoot : EndOnRoot(p))
    /\ WF_vars(\E p \in OnStart \ Servers : EndOnStart(p))
    /\ WF_vars(\E s \in Servers : ShutDownServer(s) \/ ServerLosesListener(s))
    /\ WF_vars(StopWait \/ StopClose)

FairSpec == Spec /\ Fairness

-----------------------------------------------------------------------------
(* Properties.                                                             *)

\* Which goroutines that Stop waits for use what Stop closes: the engine the
\* SQLite store; the host is told to remove a handler by the data host's
\* waitForCancellation, and opens streams for the retriever.  (Handlers of
\* clients use the store, and gossip the connection, but Stop waits for none.)
Users == [sql |-> {"engine"}, host |-> {"dataHost", "retriever"}]

\* Stop closes store and host after the goroutines it waits for that use them,
\* whatever Start had created and in whatever order the contexts ended.
UsersEndFirst ==
    \A q \in {"sql", "host"} :
        part[q] = "off" => \A p \in Users[q] : part[p] # "on"

\* What outlives Stop is what it never waits for: transaction buffer, catchup
\* client, peer events and gossip, unless Start's context is done; a listener
\* whose address could not be written; and handlers under way.  No client can
\* come any more.
StopLeavesNothing ==
    stop = StopReturned =>
        /\ \A p \in Parts \ Unwaited : part[p] # "on"
        /\ \A p \in Serving : ~Reachable(p)

\* Stop returns once Start's context is done too, which Stop does not see to
\* itself: it waits for the retriever.
StopReturns == (stop > 0 /\ StartDone) ~> stop = StopReturned

=============================================================================
