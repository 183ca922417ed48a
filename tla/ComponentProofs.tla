-------------------------- MODULE ComponentProofs --------------------------
(***************************************************************************)
(* Proofs about Component: in all configurations and wherever Start gave   *)
(* up, Stop closes store and host after the goroutines it waits for that   *)
(* use them, and lets no client come once it has returned.                 *)
(*                                                                         *)
(* What carries the argument is that nothing starts any more once Stop is  *)
(* called, so that a part Stop has passed stays ended, and that the store, *)
(* the host and the connection are closed by Stop only, in their turn.     *)
(***************************************************************************)
EXTENDS Component, TLAPS

\* Stop is called after Start.
StopAfterStart == stop > 0 => ~Starting

\* What Stop has passed is not running, and stays so.
PassedIsOver ==
    \A i \in 1 .. Len(StopOrder) : stop > i => part[StopOrder[i]] # "on"

\* The store, the host and the connection are closed by Stop.
ClosedByStop ==
    \A i \in 1 .. Len(StopOrder) :
        StopOrder[i] \in {"sql", "host", "conn"} /\ part[StopOrder[i]] = "off"
            => stop > i

IInv == TypeOK /\ StopAfterStart /\ PassedIsOver /\ ClosedByStop

-----------------------------------------------------------------------------

\* Both orders consist of parts.
LEMMA Orders ==
    /\ Len(StartOrder) = 15 /\ \A i \in 1 .. 15 : StartOrder[i] \in Parts
    /\ Len(StopOrder) = 11 /\ \A i \in 1 .. 11 : StopOrder[i] \in Parts
  BY DEF StartOrder, StopOrder, Parts

\* A part has one place in StopOrder.
LEMMA OncePerStop ==
    \A i, j \in 1 .. 11 : StopOrder[i] = StopOrder[j] => i = j
  BY DEF StopOrder

LEMMA InitIInv == Init => IInv
<1> SUFFICES ASSUME Init
             PROVE  IInv
  OBVIOUS
<1>1. TypeOK
  <2>1. StartReturned = 16 /\ StopReturned = 12
    BY Orders DEF StartReturned, StopReturned
  <2>2. part \in [Parts -> {"none", "on", "off", "lost"}]
    BY DEF Init
  <2>3. options \in SUBSET Options
    BY Zenon DEF Init
  <2>4. interrupted \in BOOLEAN /\ sdkDone \in BOOLEAN /\ failed \in BOOLEAN
    BY Zenon DEF Init
  <2>5. start \in 1 .. 16 /\ stop \in 0 .. 12
    BY DEF Init
  <2>6. clients \in SUBSET Serving
    BY DEF Init
  <2> QED
    BY <2>1, <2>2, <2>3, <2>4, <2>5, <2>6, Zenon DEF TypeOK
<1>2. \A i \in 1 .. 11 : part[StopOrder[i]] = "none"
  BY Orders DEF Init
<1>3. StopAfterStart /\ PassedIsOver /\ ClosedByStop
  BY <1>2, Orders DEF Init, StopAfterStart, PassedIsOver, ClosedByStop
<1> QED
  BY <1>1, <1>3 DEF IInv

\* One step keeps IInv: while Start goes on, Stop has not been called; parts
\* that end by themselves are none of those Stop closes; and Stop moves on
\* from a part that is over.
LEMMA StepIInv == IInv /\ [Next]_vars => IInv'
<1> SUFFICES ASSUME IInv, [Next]_vars
             PROVE  IInv'
  OBVIOUS
<1> USE Orders DEF IInv, TypeOK, StopAfterStart, PassedIsOver, ClosedByStop,
        StartReturned, StopReturned, Starting, contextVars
<1>1. CASE Interrupt
  BY <1>1 DEF Interrupt
<1>2. CASE SDKCancel
  BY <1>2 DEF SDKCancel
<1>3. CASE Create
  <2>1. stop = 0 /\ StartOrder[start] \in Parts
    BY <1>3 DEF Create
  <2>2. /\ part' \in [Parts -> {"none", "on", "off", "lost"}]
        /\ \A p \in Parts : part'[p] = "off" => part[p] = "off"
    BY <1>3, <2>1 DEF Create
  <2> QED
    BY <1>3, <2>1, <2>2 DEF Create
<1>4. CASE CreateFails
  BY <1>4 DEF CreateFails
<1>5. CASE AddressFileFails
  <2>1. stop = 0 /\ StartOrder[start] \in Parts
    BY <1>5 DEF AddressFileFails
  <2>2. /\ part' \in [Parts -> {"none", "on", "off", "lost"}]
        /\ \A p \in Parts : part'[p] = "off" => part[p] = "off"
    BY <1>5, <2>1 DEF AddressFileFails
  <2> QED
    BY <1>5, <2>1, <2>2 DEF AddressFileFails
<1>6. ASSUME NEW p \in Parts \ {"sql", "host", "conn"},
             part' = [part EXCEPT ![p] = "off"],
             UNCHANGED <<contextVars, start, failed, stop, clients>>
      PROVE  IInv'
  <2>1. part' \in [Parts -> {"none", "on", "off", "lost"}]
    BY <1>6
  <2>2. \A q \in Parts : /\ part'[q] = "on" => part[q] = "on"
                         /\ q # p => part'[q] = part[q]
    BY <1>6
  <2> QED
    BY <1>6, <2>1, <2>2
<1>7. CASE \E p \in OnRoot : EndOnRoot(p)
  BY <1>6, <1>7 DEF OnRoot, EndOnRoot, Parts
<1>8. CASE \E p \in {"driver", "engine"} : EndEarly(p)
  BY <1>6, <1>8 DEF EndEarly, Parts
<1>9. CASE \E p \in OnStart \ Servers : EndOnStart(p)
  BY <1>6, <1>9 DEF OnStart, Servers, EndOnStart, Parts
<1>10. CASE \E s \in Servers : ShutDownServer(s)
  <2> PICK s \in Servers : ShutDownServer(s)
    BY <1>10
  <2>1. /\ s \in Parts \ {"sql", "host", "conn"}
        /\ ListenerOf[s] \in Parts \ {"sql", "host", "conn"}
    BY DEF Servers, ListenerOf, Parts
  <2>2. part' \in [Parts -> {"none", "on", "off", "lost"}]
    BY <2>1 DEF ShutDownServer
  <2>3. \A q \in Parts :
            /\ part'[q] = "on" => part[q] = "on"
            /\ q \in {"sql", "host", "conn"} => part'[q] = part[q]
    BY <2>1 DEF ShutDownServer
  <2> QED
    BY <2>2, <2>3 DEF ShutDownServer
<1>11. CASE \E s \in Servers : ServerLosesListener(s)
  BY <1>6, <1>11 DEF Servers, ServerLosesListener, Parts
<1>12. CASE CallStop
  BY <1>12 DEF CallStop
<1>13. CASE StopWait
  <2>1. stop \in 1 .. 11 /\ part[StopOrder[stop]] # "on"
    BY <1>13 DEF StopWait, Stopping
  <2> QED
    BY <1>13, <2>1 DEF StopWait
<1>14. CASE StopClose
  <2>1. stop \in 1 .. 11 /\ StopOrder[stop] \in Parts
    BY <1>14 DEF StopClose, Stopping
  <2>2. /\ part' \in [Parts -> {"none", "on", "off", "lost"}]
        /\ part'[StopOrder[stop]] # "on"
        /\ \A q \in Parts \ {StopOrder[stop]} : part'[q] = part[q]
    BY <1>14, <2>1 DEF StopClose
  <2>3. \A i \in 1 .. 11 : i # stop => part'[StopOrder[i]] = part[StopOrder[i]]
    BY <2>1, <2>2, OncePerStop
  <2>4. stop' = stop + 1 /\ UNCHANGED <<start, failed, options, interrupted, sdkDone, clients>>
    BY <1>14 DEF StopClose
  <2>5. PassedIsOver' /\ ClosedByStop'
    BY <2>1, <2>2, <2>3, <2>4
  <2> QED
    BY <1>14, <2>1, <2>2, <2>4, <2>5 DEF StopClose
<1>15. CASE Terminated
  BY <1>15 DEF Terminated, vars
<1>16. CASE UNCHANGED vars
  BY <1>16 DEF vars
<1>17. CASE \E p \in Serving : ClientArrives(p) \/ ClientsLeave(p)
  <2>1. clients' \in SUBSET Serving
    BY <1>17 DEF ClientArrives, ClientsLeave
  <2>2. UNCHANGED <<contextVars, start, failed, part, stop>>
    BY <1>17 DEF ClientArrives, ClientsLeave
  <2> QED
    BY <2>1, <2>2
<1> QED
  BY <1>1, <1>2, <1>3, <1>4, <1>5, <1>7, <1>8, <1>9, <1>10, <1>11, <1>12,
     <1>13, <1>14, <1>15, <1>16, <1>17 DEF Next

THEOREM Inductive == Spec => []IInv
<1> QED
  BY InitIInv, StepIInv, PTL DEF Spec

\* Type correctness of start, stop and the parts' states.
THEOREM TypeCorrect == Spec => []TypeOK
<1>1. IInv => TypeOK
  BY DEF IInv
<1> QED
  BY <1>1, Inductive, PTL

-----------------------------------------------------------------------------

\* Stop closes store and host only when the goroutines that it waits for and
\* that use them are over.
THEOREM UsersEndBeforeClosing == Spec => []UsersEndFirst
<1>1. IInv => UsersEndFirst
  <2> SUFFICES ASSUME IInv,
                      NEW q \in {"sql", "host"}, part[q] = "off",
                      NEW p \in Users[q]
               PROVE  part[p] # "on"
    BY DEF UsersEndFirst
  <2>1. PICK i \in 1 .. 11 : StopOrder[i] = q /\ stop > i /\ i >= 6
    BY Orders DEF IInv, ClosedByStop, StopOrder
  <2>2. PICK j \in 1 .. 4 : StopOrder[j] = p
    BY DEF Users, StopOrder
  <2>3. stop > j
    BY <2>1, <2>2 DEF IInv, TypeOK
  <2> QED
    BY <2>2, <2>3, Orders DEF IInv, PassedIsOver
<1> QED
  BY <1>1, Inductive, PTL

\* When Stop has returned, nothing it waits for or closes is left, and no
\* client can reach the data host or a server.
THEOREM StopLeavesNothingBehind == Spec => []StopLeavesNothing
<1>1. IInv => StopLeavesNothing
  <2> SUFFICES ASSUME IInv, stop = 12
               PROVE  /\ \A p \in Parts \ Unwaited : part[p] # "on"
                      /\ \A p \in Serving : ~Reachable(p)
    BY Orders DEF StopLeavesNothing, StopReturned
  <2>1. ASSUME NEW p \in Parts \ Unwaited PROVE part[p] # "on"
    <3>1. PICK i \in 1 .. 11 : StopOrder[i] = p
      BY DEF Parts, Unwaited, StopOrder
    <3> QED
      BY <3>1, Orders DEF IInv, PassedIsOver
  <2>2. ASSUME NEW p \in Serving PROVE ~Reachable(p)
    BY <2>1 DEF Serving, Servers, Reachable, Parts, Unwaited
  <2> QED
    BY <2>1, <2>2
<1> QED
  BY <1>1, Inductive, PTL

=============================================================================
