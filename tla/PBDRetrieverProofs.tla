------------------------- MODULE PBDRetrieverProofs -------------------------
(***************************************************************************)
(* Proofs about PBDRetriever, for any number of workers, data IDs and      *)
(* addresses.                                                              *)
(***************************************************************************)
EXTENDS PBDRetriever, FiniteSetTheorems, TLAPS

-----------------------------------------------------------------------------
(* The two channels as sets of data IDs.                                   *)

\* No data ID is twice in q.
Distinct(q) == \A i, j \in DOMAIN q : q[i] = q[j] => i = j

\* Sending adds one element behind the others.
LEMMA SendOne ==
    ASSUME NEW q \in Seq(DataIDs), NEW d \in DataIDs
    PROVE  /\ Append(q, d) \in Seq(DataIDs)
           /\ Len(Append(q, d)) = Len(q) + 1
           /\ Elems(Append(q, d)) = Elems(q) \cup {d}
           /\ Distinct(q) /\ d \notin Elems(q) => Distinct(Append(q, d))
  <1> DEFINE a == Append(q, d)
  <1>1. /\ DOMAIN q = 1 .. Len(q) /\ Len(q) \in Nat
        /\ a \in Seq(DataIDs) /\ Len(a) = Len(q) + 1
        /\ DOMAIN a = 1 .. (Len(q) + 1)
    OBVIOUS
  <1>2. /\ \A i \in 1 .. Len(q) : a[i] = q[i]
        /\ a[Len(q) + 1] = d
    OBVIOUS
  <1>3. Elems(a) = Elems(q) \cup {d}
    BY <1>1, <1>2 DEF Elems
  <1>4. ASSUME Distinct(q), d \notin Elems(q) PROVE Distinct(a)
    BY <1>1, <1>2, <1>4 DEF Distinct, Elems
  <1>5. QED
    BY <1>1, <1>3, <1>4

\* Receiving takes one element away.
LEMMA ReceiveOne ==
    ASSUME NEW q \in Seq(DataIDs), q # <<>>
    PROVE  /\ Head(q) \in DataIDs
           /\ Tail(q) \in Seq(DataIDs)
           /\ Len(Tail(q)) = Len(q) - 1
           /\ Elems(q) = Elems(Tail(q)) \cup {Head(q)}
           /\ Distinct(q) => Distinct(Tail(q)) /\ Head(q) \notin Elems(Tail(q))
  <1> DEFINE t == Tail(q)
  <1>1. /\ DOMAIN q = 1 .. Len(q) /\ Len(q) \in Nat /\ Len(q) > 0
        /\ Head(q) = q[1] /\ Head(q) \in DataIDs
        /\ t \in Seq(DataIDs) /\ Len(t) = Len(q) - 1
        /\ DOMAIN t = 1 .. (Len(q) - 1)
    OBVIOUS
  <1>2. \A i \in 1 .. (Len(q) - 1) : t[i] = q[i + 1]
    OBVIOUS
  <1>3. Elems(q) = Elems(t) \cup {Head(q)}
    <2>1. ASSUME NEW i \in 1 .. Len(q), i # 1 PROVE q[i] \in Elems(t)
      <3>1. i - 1 \in 1 .. (Len(q) - 1) /\ (i - 1) + 1 = i
        BY <1>1, <2>1
      <3>2. t[i - 1] = q[i]
        BY <1>2, <3>1
      <3>3. QED
        BY <1>1, <3>1, <3>2 DEF Elems
    <2>2. Elems(q) \subseteq Elems(t) \cup {Head(q)}
      BY <1>1, <2>1 DEF Elems
    <2>3. Elems(t) \cup {Head(q)} \subseteq Elems(q)
      BY <1>1, <1>2 DEF Elems
    <2>4. QED
      BY <2>2, <2>3
  <1>4. ASSUME Distinct(q) PROVE Distinct(t) /\ Head(q) \notin Elems(t)
    BY <1>1, <1>2, <1>4 DEF Distinct, Elems
  <1>5. QED
    BY <1>1, <1>3, <1>4

LEMMA ElemsEmpty == Elems(<<>>) = {} /\ Distinct(<<>>)
  BY DEF Elems, Distinct

-----------------------------------------------------------------------------
(* Type correctness.                                                       *)

\* What each control point implies about the data ID in hand, and that the
\* call the main loop is to signal is waiting for that.
Shape ==
    /\ cpc # "idle" => cid \in DataIDs
    /\ mcur => cpc = "await"
    /\ mpc \in {"register", "sendWork"} => mid \in DataIDs
    /\ \A k \in Workers :
        /\ wpc[k] \in {"try", "result"} => wid[k] \in DataIDs
        /\ wpc[k] \in {"idle", "done"} => wid[k] = NoID

TypeInv == TypeOK /\ Shape

LEMMA TypeInit == Init => TypeInv
  <1> SUFFICES ASSUME Init PROVE TypeInv
    OBVIOUS
  <1> USE DEF Init
  <1>1. alive \in BOOLEAN /\ panicked \in BOOLEAN /\ mcur \in BOOLEAN
    BY Zenon
  <1>2. cache \in [DataIDs -> EntryStates]
    BY DEF NewRequestCache, EntryStates
  <1>3. QED
    BY <1>1, <1>2, ConstantsAssumption DEF TypeInv, TypeOK, Shape

LEMMA TypeStep == TypeInv /\ [Next]_vars => TypeInv'
  <1> SUFFICES ASSUME TypeInv, [Next]_vars PROVE TypeInv'
    OBVIOUS
  <1> USE ConstantsAssumption
      DEF TypeInv, TypeOK, Shape, callVars, mainVars, workVars
  <1>1. ASSUME NEW d \in DataIDs, RetrieveBegin(d) PROVE TypeInv'
    BY <1>1 DEF RetrieveBegin
  <1>2. CASE RetrieveCancelled
    BY <1>2 DEF RetrieveCancelled
  <1>3. CASE RetrieveReturns
    BY <1>3 DEF RetrieveReturns
  <1>4. CASE Shutdown
    <2>1. alive' \in BOOLEAN
      BY <1>4, Zenon DEF Shutdown
    <2>2. QED
      BY <1>4, <2>1 DEF Shutdown
  <1>5. CASE MainReceive
    BY <1>5 DEF MainReceive
  <1>6. CASE MainRegister
    <2>1. panicked' \in BOOLEAN
      BY <1>6, Zenon DEF MainRegister
    <2>2. cache' \in [DataIDs -> EntryStates]
      BY <1>6 DEF MainRegister, SetInFlight, EntryStates
    <2>3. QED
      BY <1>6, <2>1, <2>2 DEF MainRegister
  <1>7. CASE MainSendWork
    <2>1. queue' \in Seq(DataIDs) /\ Len(queue') <= NWorkers
      BY <1>7, SendOne DEF MainSendWork, QueueFull
    <2>2. QED
      BY <1>7, <2>1 DEF MainSendWork
  <1>8. CASE MainSendCancelled
    BY <1>8 DEF MainSendCancelled
  <1>9. CASE MainResult
    <2>1. panicked' \in BOOLEAN
      <3>1. panicked' = (Head(results) \notin ifrs \/ IsReady(cache, Head(results)))
        BY <1>9 DEF MainResult
      <3>2. QED
        BY <3>1, Zenon
    <2>2. results' \in Seq(DataIDs) /\ Len(results') <= NWorkers
      BY <1>9, ReceiveOne DEF MainResult
    <2>3. cache' \in [DataIDs -> EntryStates] /\ ifrs' \in SUBSET DataIDs
      BY <1>9 DEF MainResult, EntryStates
    <2>4. QED
      BY <1>9, <2>1, <2>2, <2>3 DEF MainResult
  <1>10. CASE MainStop
    BY <1>10 DEF MainStop
  <1>11. ASSUME NEW k \in Workers, WorkerTake(k) PROVE TypeInv'
    <2>1. /\ Head(queue) \in DataIDs
          /\ queue' \in Seq(DataIDs) /\ Len(queue') <= NWorkers
      BY <1>11, ReceiveOne DEF WorkerTake
    <2>2. QED
      BY <1>11, <2>1 DEF WorkerTake
  <1>12. ASSUME NEW k \in Workers, NEW a \in Addrs, WorkerFetched(k, a)
         PROVE  TypeInv'
    BY <1>12 DEF WorkerFetched
  <1>13. ASSUME NEW k \in Workers, NEW a \in Addrs, WorkerFailed(k, a)
         PROVE  TypeInv'
    <2>1. CASE alive
      BY <1>13, <2>1 DEF WorkerFailed
    <2>2. CASE ~alive
      BY <1>13, <2>2 DEF WorkerFailed, Quit
    <2>3. QED
      BY <2>1, <2>2
  <1>14. ASSUME NEW k \in Workers, WorkerGivesUp(k) PROVE TypeInv'
    BY <1>14 DEF WorkerGivesUp, BackToIdle
  <1>15. ASSUME NEW k \in Workers, WorkerSendResult(k) PROVE TypeInv'
    <2>1. results' \in Seq(DataIDs) /\ Len(results') <= NWorkers
      BY <1>15, SendOne DEF WorkerSendResult
    <2>2. QED
      BY <1>15, <2>1 DEF WorkerSendResult, BackToIdle
  <1>16. ASSUME NEW k \in Workers, WorkerStop(k) PROVE TypeInv'
    BY <1>16 DEF WorkerStop, Quit
  <1>17. CASE Terminated \/ UNCHANGED vars
    BY <1>17 DEF Terminated, vars
  <1>18. QED
    BY <1>1, <1>2, <1>3, <1>4, <1>5, <1>6, <1>7, <1>8, <1>9, <1>10, <1>11,
       <1>12, <1>13, <1>14, <1>15, <1>16, <1>17 DEF Next

\* The retriever's channels and maps keep their types and capacities.
THEOREM RetrieverTypeCorrect == Spec => []TypeOK
  <1>1. TypeInv => TypeOK
    BY DEF TypeInv
  <1>2. QED
    BY <1>1, TypeInit, TypeStep, PTL DEF Spec

-----------------------------------------------------------------------------
(* Who holds a request.  HeldOnce depends on the cache: a data ID is       *)
(* registered only when it has no entry there, so nobody can hold it.      *)

\* The parts of HeldOnce, and that what is held is tracked by the main loop.
HeldInv ==
    /\ Distinct(queue) /\ Distinct(results)
    /\ Elems(queue) \cap Elems(results) = {}
    /\ mpc = "sendWork" => mid \notin Elems(queue) \cup Elems(results)
    /\ \A k \in Workers : wid[k] # NoID =>
        /\ wid[k] \notin Elems(queue) \cup Elems(results)
        /\ mpc = "sendWork" => wid[k] # mid
        /\ \A l \in Workers : wid[k] = wid[l] => k = l
    /\ \A d \in DataIDs : InHand(d) => d \in ifrs
    /\ MapsAgree

LEMMA HeldInit == Init => HeldInv
  BY ElemsEmpty, ConstantsAssumption
  DEF Init, HeldInv, InHand, MapsAgree, NewRequestCache

LEMMA HeldStep == TypeInv /\ HeldInv /\ [Next]_vars => HeldInv'
  <1> SUFFICES ASSUME TypeInv, HeldInv, [Next]_vars PROVE HeldInv'
    OBVIOUS
  <1> USE ConstantsAssumption
      DEF TypeInv, TypeOK, Shape, HeldInv, InHand, callVars, mainVars, workVars
  <1>1. ASSUME UNCHANGED <<queue, results, mpc, mid, wid, ifrs, cache, panicked>>
        PROVE  HeldInv'
    BY <1>1 DEF MapsAgree
  <1>2. ASSUME UNCHANGED <<queue, results, wid, ifrs, cache, panicked>>,
               mpc' # "sendWork"
        PROVE  HeldInv'
    BY <1>2 DEF MapsAgree
  <1>3. ASSUME NEW k \in Workers, UNCHANGED <<queue, results, mpc, mid, ifrs, cache, panicked>>,
               wid' = [wid EXCEPT ![k] = NoID]
        PROVE  HeldInv'
    BY <1>3 DEF MapsAgree
  <1>4. CASE MainRegister
    <2>1. CASE SetPanics(cache, mid)
      BY <1>4, <2>1 DEF MainRegister, MapsAgree
    <2>2. CASE ~SetPanics(cache, mid)
      <3>1. cache[mid] = "absent" /\ mid \in DataIDs /\ ~panicked
        BY <1>4, <2>2 DEF MainRegister, SetPanics, Has
      <3>2. mid \notin ifrs
        BY <3>1 DEF MapsAgree
      <3>3. ~InHand(mid)
        BY <3>1, <3>2
      <3>4. MapsAgree'
        BY <1>4, <2>2, <3>1 DEF MainRegister, SetInFlight, MapsAgree
      <3>5. QED
        BY <1>4, <2>2, <3>1, <3>3, <3>4 DEF MainRegister
    <2>3. QED
      BY <2>1, <2>2
  <1>5. CASE MainSendWork
    <2>1. /\ Elems(queue') = Elems(queue) \cup {mid}
          /\ Distinct(queue')
      BY <1>5, SendOne DEF MainSendWork
    <2>2. MapsAgree'
      BY <1>5 DEF MainSendWork, MapsAgree
    <2>3. QED
      BY <1>5, <2>1, <2>2 DEF MainSendWork
  <1>6. CASE MainResult
    <2> DEFINE d == Head(results)
    <2>1. /\ d \in DataIDs
          /\ Elems(results) = Elems(results') \cup {d}
          /\ Distinct(results') /\ d \notin Elems(results')
      BY <1>6, ReceiveOne DEF MainResult
    <2>2. d \in ifrs /\ ifrs' = ifrs \ {d} /\ mpc = "select"
      BY <1>6, <2>1 DEF MainResult
    <2>3. MapsAgree'
      BY <1>6, <2>1, <2>2 DEF MainResult, MapsAgree
    <2>4. UNCHANGED <<queue, mpc, wid>>
      BY <1>6 DEF MainResult
    <2>5. QED
      BY <2>1, <2>2, <2>3, <2>4
  <1>7. ASSUME NEW k \in Workers, WorkerTake(k) PROVE HeldInv'
    <2> DEFINE d == Head(queue)
    <2>1. /\ d \in DataIDs
          /\ Elems(queue) = Elems(queue') \cup {d}
          /\ Distinct(queue') /\ d \notin Elems(queue')
      BY <1>7, ReceiveOne DEF WorkerTake
    <2>2. wid' = [wid EXCEPT ![k] = d] /\ wid[k] = NoID
      BY <1>7 DEF WorkerTake
    <2>3. MapsAgree'
      BY <1>7 DEF WorkerTake, MapsAgree
    <2>4. UNCHANGED <<results, mpc, mid, ifrs>>
      BY <1>7 DEF WorkerTake
    <2>5. QED
      BY <2>1, <2>2, <2>3, <2>4
  <1>8. ASSUME NEW k \in Workers, WorkerSendResult(k) PROVE HeldInv'
    <2> DEFINE d == wid[k]
    <2>1. d \in DataIDs /\ d \notin Elems(results)
      BY <1>8 DEF WorkerSendResult
    <2>2. /\ Elems(results') = Elems(results) \cup {d}
          /\ Distinct(results')
      BY <1>8, <2>1, SendOne DEF WorkerSendResult
    <2>3. wid' = [wid EXCEPT ![k] = NoID]
      BY <1>8 DEF WorkerSendResult, BackToIdle
    <2>4. MapsAgree'
      BY <1>8 DEF WorkerSendResult, MapsAgree
    <2>5. UNCHANGED <<queue, mpc, mid, ifrs>>
      BY <1>8 DEF WorkerSendResult
    <2>6. QED
      BY <2>1, <2>2, <2>3, <2>4, <2>5
  <1>9. ASSUME \/ \E d \in DataIDs : RetrieveBegin(d)
               \/ RetrieveCancelled \/ RetrieveReturns \/ Shutdown
               \/ \E k \in Workers, a \in Addrs : WorkerFetched(k, a)
               \/ Terminated \/ UNCHANGED vars
        PROVE  HeldInv'
    BY <1>1, <1>9
    DEF RetrieveBegin, RetrieveCancelled, RetrieveReturns, Shutdown,
        WorkerFetched, Terminated, vars
  <1>10. CASE MainReceive \/ MainSendCancelled \/ MainStop
    BY <1>2, <1>10 DEF MainReceive, MainSendCancelled, MainStop
  <1>11. ASSUME NEW k \in Workers, NEW a \in Addrs, WorkerFailed(k, a)
         PROVE  HeldInv'
    BY <1>1, <1>3, <1>11 DEF WorkerFailed, Quit
  <1>12. ASSUME NEW k \in Workers, WorkerGivesUp(k) \/ WorkerStop(k)
         PROVE  HeldInv'
    BY <1>3, <1>12 DEF WorkerGivesUp, WorkerStop, BackToIdle, Quit
  <1>13. QED
    BY <1>4, <1>5, <1>6, <1>7, <1>8, <1>9, <1>10, <1>11, <1>12 DEF Next

LEMMA HeldCorrect == Spec => [](TypeInv /\ HeldInv)
  BY TypeInit, TypeStep, HeldInit, HeldStep, PTL DEF Spec

\* The main loop's map of requests and the shared cache never disagree.
THEOREM MapsAgreeHolds == Spec => []MapsAgree
  <1>1. HeldInv => MapsAgree
    BY DEF HeldInv
  <1>2. QED
    BY <1>1, HeldCorrect, PTL

\* Main loop, queue, workers and results never hold a request twice.
THEOREM HeldOnceHolds == Spec => []HeldOnce
  <1>1. HeldInv => HeldOnce
    BY DEF HeldInv, HeldOnce, Distinct
  <1>2. QED
    BY <1>1, HeldCorrect, PTL

\* The main loop's unchecked use of a result never panics.
THEOREM ResultsApplyHolds == Spec => []ResultsApply
  <1>1. TypeInv /\ HeldInv => ResultsApply
    BY DEF TypeInv, TypeOK, HeldInv, ResultsApply, InHand, Elems, MapsAgree
  <1>2. QED
    BY <1>1, HeldCorrect, PTL

-----------------------------------------------------------------------------
(* The retriever implements BlockDataJobs.  Each step leaves every job as  *)
(* it is, or moves the job of one data ID.                                 *)

\* Only the cache and who holds a request matter for a job.
LEMMA JobSame ==
    ASSUME cache' = cache, \A d \in DataIDs : InHand(d)' <=> InHand(d)
    PROVE  Job' = Job
  BY DEF Job

\* When these change for one data ID only, only its job may change.
LEMMA JobMove ==
    ASSUME NEW d \in DataIDs,
           \A e \in DataIDs \ {d} : cache'[e] = cache[e]
                                    /\ (InHand(e)' <=> InHand(e))
    PROVE  Job' = [Job EXCEPT ![d] = Job'[d]]
  BY DEF Job

\* A request that is held no more, and whose data has not come, is lost.
LEMMA JobLost ==
    ASSUME TypeInv, HeldInv, ~panicked, NEW d \in DataIDs,
           InHand(d), ~InHand(d)', cache' = cache,
           \A e \in DataIDs \ {d} : InHand(e)' <=> InHand(e)
    PROVE  Jobs!Lose(d)
  <1>1. cache[d] = "inflight"
    BY DEF HeldInv, MapsAgree
  <1>2. Job[d] = "working" /\ Job'[d] = "lost"
    BY <1>1 DEF Job
  <1>3. Job' = [Job EXCEPT ![d] = Job'[d]]
    BY JobMove
  <1>4. QED
    BY <1>2, <1>3 DEF Jobs!Lose, Jobs!Move

LEMMA JobStep == TypeInv /\ HeldInv /\ [Next]_vars => [Jobs!Next]_Job
  <1> SUFFICES ASSUME TypeInv, HeldInv, [Next]_vars PROVE Jobs!Next \/ Job' = Job
    OBVIOUS
  <1> USE ConstantsAssumption
      DEF TypeInv, TypeOK, Shape, callVars, mainVars, workVars
  <1>1. ASSUME UNCHANGED <<queue, results, mpc, mid, wid, cache>>
        PROVE  Job' = Job
    BY <1>1, JobSame DEF InHand
  <1>2. ASSUME UNCHANGED <<queue, results, wid, cache>>,
               mpc # "sendWork", mpc' # "sendWork"
        PROVE  Job' = Job
    BY <1>2, JobSame DEF InHand
  <1>3. ASSUME NEW k \in Workers, ~panicked, wid' = [wid EXCEPT ![k] = NoID],
               UNCHANGED <<queue, results, mpc, mid, cache>>
        PROVE  Jobs!Next \/ Job' = Job
    <2>1. CASE wid[k] = NoID
      <3>1. wid' = wid
        BY <1>3, <2>1
      <3>2. QED
        BY <1>1, <1>3, <3>1
    <2>2. CASE wid[k] # NoID
      <3>1. PICK d \in DataIDs : d = wid[k]
        BY <2>2
      <3>2. InHand(d)
        BY <3>1 DEF InHand
      <3>3. ~InHand(d)'
        BY <1>3, <3>1 DEF InHand, HeldInv
      <3>4. \A e \in DataIDs \ {d} : InHand(e)' <=> InHand(e)
        BY <1>3, <3>1 DEF InHand
      <3>5. Jobs!Lose(d)
        BY <1>3, <3>2, <3>3, <3>4, JobLost DEF TypeInv
      <3>6. QED
        BY <3>5 DEF Jobs!Next
    <2>3. QED
      BY <2>1, <2>2
  <1>4. CASE MainRegister
    <2>1. CASE SetPanics(cache, mid)
      BY <1>2, <1>4, <2>1 DEF MainRegister
    <2>2. CASE ~SetPanics(cache, mid)
      <3>1. /\ mid \in DataIDs /\ cache[mid] = "absent"
            /\ cache' = [cache EXCEPT ![mid] = "inflight"]
            /\ mpc = "register" /\ mpc' = "sendWork"
            /\ UNCHANGED <<mid, queue, results, wid>>
        BY <1>4, <2>2 DEF MainRegister, SetPanics, Has, SetInFlight
      <3>2. \A e \in DataIDs \ {mid} : cache'[e] = cache[e]
                                        /\ (InHand(e)' <=> InHand(e))
        BY <3>1 DEF InHand
      <3>3. Job[mid] = "none"
        BY <3>1 DEF Job
      <3>4. Job'[mid] = "working"
        BY <3>1 DEF Job, InHand
      <3>5. Job' = [Job EXCEPT ![mid] = Job'[mid]]
        BY <3>1, <3>2, JobMove
      <3>6. QED
        BY <3>1, <3>3, <3>4, <3>5 DEF Jobs!Next, Jobs!Accept, Jobs!Move
    <2>3. QED
      BY <2>1, <2>2
  <1>5. CASE MainSendWork
    <2>1. Elems(queue') = Elems(queue) \cup {mid}
      BY <1>5, SendOne DEF MainSendWork
    <2>2. \A d \in DataIDs : InHand(d)' <=> InHand(d)
      BY <1>5, <2>1 DEF MainSendWork, InHand
    <2>3. QED
      BY <1>5, <2>2, JobSame DEF MainSendWork
  <1>6. CASE MainSendCancelled
    <2>1. /\ ~panicked /\ mpc = "sendWork" /\ mpc' = "done"
          /\ UNCHANGED <<queue, results, wid, cache>>
      BY <1>6 DEF MainSendCancelled
    <2>2. PICK d \in DataIDs : d = mid
      BY <2>1
    <2>3. InHand(d)
      BY <2>1, <2>2 DEF InHand
    <2>4. ~InHand(d)'
      BY <2>1, <2>2 DEF InHand, HeldInv
    <2>5. \A e \in DataIDs \ {d} : InHand(e)' <=> InHand(e)
      BY <2>1, <2>2 DEF InHand
    <2>6. Jobs!Lose(d)
      BY <2>1, <2>3, <2>4, <2>5, JobLost DEF TypeInv
    <2>7. QED
      BY <2>6 DEF Jobs!Next
  <1>7. CASE MainResult
    <2> DEFINE d == Head(results)
    <2>1. /\ d \in DataIDs
          /\ Elems(results) = Elems(results') \cup {d}
      BY <1>7, ReceiveOne DEF MainResult
    <2>2. InHand(d) /\ ~panicked
      BY <1>7, <2>1 DEF MainResult, InHand
    <2>3. cache[d] = "inflight"
      BY <2>1, <2>2 DEF HeldInv, MapsAgree
    <2>4. /\ cache' = [cache EXCEPT ![d] = "ready"]
          /\ UNCHANGED <<queue, mpc, mid, wid>>
      BY <1>7 DEF MainResult
    <2>5. \A e \in DataIDs \ {d} : cache'[e] = cache[e]
                                    /\ (InHand(e)' <=> InHand(e))
      BY <2>1, <2>4 DEF InHand
    <2>6. Job[d] = "working" /\ Job'[d] = "ready"
      BY <2>1, <2>2, <2>3, <2>4 DEF Job
    <2>7. Job' = [Job EXCEPT ![d] = Job'[d]]
      BY <2>1, <2>5, JobMove
    <2>8. QED
      BY <2>1, <2>6, <2>7 DEF Jobs!Next, Jobs!Finish, Jobs!Move
  <1>8. ASSUME NEW k \in Workers, WorkerTake(k) PROVE Job' = Job
    <2>1. Elems(queue) = Elems(queue') \cup {Head(queue)}
      BY <1>8, ReceiveOne DEF WorkerTake
    <2>2. /\ wid' = [wid EXCEPT ![k] = Head(queue)] /\ wid[k] = NoID
          /\ UNCHANGED <<results, mpc, mid, cache>>
      BY <1>8 DEF WorkerTake
    <2>3. \A d \in DataIDs : InHand(d)' <=> InHand(d)
      BY <2>1, <2>2 DEF InHand
    <2>4. QED
      BY <2>2, <2>3, JobSame
  <1>9. ASSUME NEW k \in Workers, WorkerSendResult(k) PROVE Job' = Job
    <2>1. Elems(results') = Elems(results) \cup {wid[k]}
      BY <1>9, SendOne DEF WorkerSendResult
    <2>2. /\ wid' = [wid EXCEPT ![k] = NoID]
          /\ UNCHANGED <<queue, mpc, mid, cache>>
      BY <1>9 DEF WorkerSendResult, BackToIdle
    <2>3. \A d \in DataIDs : InHand(d)' <=> InHand(d)
      BY <2>1, <2>2 DEF InHand
    <2>4. QED
      BY <2>2, <2>3, JobSame
  <1>10. ASSUME \/ \E d \in DataIDs : RetrieveBegin(d)
                \/ RetrieveCancelled \/ RetrieveReturns \/ Shutdown
                \/ \E k \in Workers, a \in Addrs : WorkerFetched(k, a)
                \/ Terminated \/ UNCHANGED vars
         PROVE  Job' = Job
    BY <1>1, <1>10
    DEF RetrieveBegin, RetrieveCancelled, RetrieveReturns, Shutdown,
        WorkerFetched, Terminated, vars
  <1>11. CASE MainReceive \/ MainStop
    BY <1>2, <1>11 DEF MainReceive, MainStop
  <1>12. ASSUME NEW k \in Workers, NEW a \in Addrs, WorkerFailed(k, a)
         PROVE  Jobs!Next \/ Job' = Job
    BY <1>1, <1>3, <1>12 DEF WorkerFailed, Quit
  <1>13. ASSUME NEW k \in Workers, WorkerGivesUp(k) \/ WorkerStop(k)
         PROVE  Jobs!Next \/ Job' = Job
    BY <1>3, <1>13 DEF WorkerGivesUp, WorkerStop, BackToIdle, Quit
  <1>14. QED
    BY <1>4, <1>5, <1>6, <1>7, <1>8, <1>9, <1>10, <1>11, <1>12, <1>13 DEF Next

\* Retrieve, main loop and workers together keep what BlockDataJobs promises:
\* each data ID is accepted once and ends ready or lost, for good.
THEOREM KeepsPromiseHolds == Spec => KeepsPromise
  <1>1. Init => Jobs!Init
    BY DEF Init, Jobs!Init, Job, NewRequestCache
  <1>2. QED
    BY <1>1, JobStep, HeldCorrect, PTL DEF Spec, KeepsPromise, Jobs!Spec

-----------------------------------------------------------------------------
(* When main loop and workers wait for each other, each worker's share of  *)
(* the queue, each worker and its share of the results hold a different    *)
(* data ID, and the main loop has one more.                                *)

\* A channel without repetition holds as many data IDs as its length.
LEMMA ElemsCardinality ==
    ASSUME NEW q \in Seq(DataIDs), Distinct(q)
    PROVE  IsFiniteSet(Elems(q)) /\ Cardinality(Elems(q)) = Len(q)
  <1>1. Len(q) \in Nat /\ DOMAIN q = 1 .. Len(q)
    OBVIOUS
  <1>2. Elems(q) = {q[i] : i \in 1 .. Len(q)}
    BY <1>1 DEF Elems
  <1>3. q \in [1 .. Len(q) -> Elems(q)]
    BY <1>1, <1>2
  <1>4. q \in Bijection(1 .. Len(q), Elems(q))
    BY <1>1, <1>2, <1>3 DEF Distinct, Bijection, Injection, Surjection, IsInjective
  <1>5. ExistsBijection(1 .. Len(q), Elems(q))
    BY <1>4 DEF ExistsBijection
  <1>6. QED
    BY <1>1, <1>5, FS_NatBijection, FS_CountingElements

\* Workers that hold different data IDs hold as many as they are.
LEMMA BusyCardinality ==
    ASSUME IsFiniteSet(Workers), NEW f \in [Workers -> DataIDs],
           \A k, l \in Workers : f[k] = f[l] => k = l
    PROVE  LET B == {f[k] : k \in Workers}
           IN  IsFiniteSet(B) /\ Cardinality(B) = Cardinality(Workers)
  <1> DEFINE B == {f[k] : k \in Workers}
  <1>1. f \in [Workers -> B]
    OBVIOUS
  <1>2. f \in Bijection(Workers, B)
    BY <1>1 DEF Bijection, Injection, Surjection, IsInjective
  <1>3. QED
    BY <1>2, FS_Bijection DEF ExistsBijection

\* The union of sets without common elements has the sum of their sizes.
LEMMA DisjointUnion ==
    ASSUME NEW S, NEW T, IsFiniteSet(S), IsFiniteSet(T), S \cap T = {}
    PROVE  /\ IsFiniteSet(S \cup T)
           /\ Cardinality(S \cup T) = Cardinality(S) + Cardinality(T)
  <1>1. Cardinality(S) \in Nat /\ Cardinality(T) \in Nat
    BY FS_CardinalityType
  <1>2. Cardinality(S \cap T) = 0
    BY FS_EmptySet
  <1>3. /\ IsFiniteSet(S \cup T)
        /\ Cardinality(S \cup T)
               = Cardinality(S) + Cardinality(T) - Cardinality(S \cap T)
    BY FS_Union
  <1>4. QED
    BY <1>1, <1>2, <1>3

\* The main loop's blocking send to the workers can only meet workers that all
\* wait for it when more than three requests to each worker are held at once.
THEOREM RetrieverCircularWaitNeedsMany ==
    ASSUME IsFiniteSet(Workers), Cardinality(Workers) = NWorkers
    PROVE  Spec => []CircularWaitNeedsMany
  <1>1. TypeInv /\ HeldInv => CircularWaitNeedsMany
    <2> SUFFICES ASSUME TypeInv, HeldInv, mpc = "sendWork", QueueFull,
                        Len(results) = NWorkers,
                        \A k \in Workers : wpc[k] = "result"
                 PROVE  Cardinality(HeldIDs) > 3 * NWorkers
      BY DEF CircularWaitNeedsMany, CircularWait
    <2> DEFINE Q == Elems(queue)
               R == Elems(results)
               B == {wid[k] : k \in Workers}
    <2>1. NWorkers \in Nat /\ mid \in DataIDs /\ Len(queue) = NWorkers
      BY ConstantsAssumption DEF TypeInv, TypeOK, Shape, QueueFull
    <2>2. IsFiniteSet(Q) /\ Cardinality(Q) = NWorkers
      BY <2>1, ElemsCardinality DEF TypeInv, TypeOK, HeldInv
    <2>3. IsFiniteSet(R) /\ Cardinality(R) = NWorkers
      BY ElemsCardinality DEF TypeInv, TypeOK, HeldInv
    <2>4. \A k \in Workers : wid[k] \in DataIDs /\ wid[k] # NoID
      BY ConstantsAssumption DEF TypeInv, TypeOK, Shape
    <2>5. IsFiniteSet(B) /\ Cardinality(B) = NWorkers
      <3>1. wid \in [Workers -> DataIDs]
        BY <2>4 DEF TypeInv, TypeOK
      <3>2. \A k, l \in Workers : wid[k] = wid[l] => k = l
        BY <2>4 DEF HeldInv
      <3>3. QED
        BY <3>1, <3>2, BusyCardinality
    <2>6. Q \cap R = {} /\ (Q \cup R) \cap B = {} /\ mid \notin (Q \cup R) \cup B
      BY <2>4 DEF HeldInv
    <2>7. /\ IsFiniteSet(Q \cup R)
          /\ Cardinality(Q \cup R) = 2 * NWorkers
      <3>1. /\ IsFiniteSet(Q \cup R)
            /\ Cardinality(Q \cup R) = Cardinality(Q) + Cardinality(R)
        BY <2>2, <2>3, <2>6, DisjointUnion, Zenon
      <3>2. QED
        BY <2>1, <2>2, <2>3, <3>1
    <2>8. /\ IsFiniteSet((Q \cup R) \cup B)
          /\ Cardinality((Q \cup R) \cup B) = 3 * NWorkers
      <3>1. /\ IsFiniteSet((Q \cup R) \cup B)
            /\ Cardinality((Q \cup R) \cup B) = Cardinality(Q \cup R) + Cardinality(B)
        BY <2>5, <2>6, <2>7, DisjointUnion, Zenon
      <3>2. QED
        BY <2>1, <2>5, <2>7, <3>1
    <2>9. Cardinality(((Q \cup R) \cup B) \cup {mid}) = 3 * NWorkers + 1
      BY <2>6, <2>8, FS_AddElement
    <2>10. HeldIDs = ((Q \cup R) \cup B) \cup {mid}
      <3>1. Q \cup R \subseteq DataIDs
        BY DEF TypeInv, TypeOK, Elems
      <3>2. B \subseteq DataIDs
        BY <2>4
      <3>3. QED
        BY <2>1, <3>1, <3>2 DEF HeldIDs, InHand
    <2>11. QED
      BY <2>1, <2>9, <2>10
  <1>2. QED
    BY <1>1, HeldCorrect, PTL

=============================================================================
