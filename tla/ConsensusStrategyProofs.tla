---------------------- MODULE ConsensusStrategyProofs ----------------------
(***************************************************************************)
(* Proofs about ConsensusStrategy, for any validators, heights, rounds and *)
(* headers.                                                                *)
(***************************************************************************)
EXTENDS ConsensusStrategy, Induction

-----------------------------------------------------------------------------
(* Type correctness.                                                       *)

\* The header being sent is there, and so is the one being retrieved, whose
\* data ID the cache may hold.
Shape ==
    /\ pc = "send" => proposal \in Headers
    /\ pc = "retrieve" => /\ queue # <<>>
                          /\ Eligible(Head(queue))
                          /\ Head(queue).id \in DataIDs
    /\ cur # NoView => cur = view /\ cur \in Views
    /\ cur = NoView => pc = "idle"

TypeInv == TypeOK /\ Shape

\* A data ID with transactions is one the cache can hold.
LEMMA IDWithTxs ==
    ASSUME NEW x \in Headers, HasTxs(x)
    PROVE  x.id \in DataIDs
  BY DEF Headers, HasTxs, DataIDs, EmptyIDs

\* What is precommitted is one of the votes seen, or nil.
LEMMA DecidesOnVote ==
    ASSUME NEW seen, \A u \in DOMAIN seen : seen[u] \in Votes,
           NEW most \in MostVoted(seen)
    PROVE  DecidePrecommit(seen, most) \in Votes
  <1>1. PICK u \in DOMAIN seen : most = seen[u]
    BY Zenon DEF MostVoted
  <1>2. most \in Votes
    BY <1>1
  <1>3. QED
    BY <1>2 DEF DecidePrecommit, Votes

LEMMA TypeInit == Init => TypeInv
  <1> SUFFICES ASSUME Init PROVE TypeInv
    OBVIOUS
  <1> USE DEF Init
  <1>1. cache \in [DataIDs -> EntryStates]
    BY DEF NewRequestCache, EntryStates
  <1>2. panicked \in BOOLEAN
    BY Zenon
  <1>3. /\ prevotes \in [Validators -> Votes \cup {None}]
        /\ precommits \in [Validators -> Votes \cup {None}]
    BY DEF NoVotes
  <1>4. QED
    BY <1>1, <1>2, <1>3, ConstantsAssumption DEF TypeInv, TypeOK, Shape

LEMMA TypeStep == TypeInv /\ [Next]_vars => TypeInv'
  <1> SUFFICES ASSUME TypeInv, [Next]_vars PROVE TypeInv'
    OBVIOUS
  <1> USE ConstantsAssumption
      DEF TypeInv, TypeOK, Shape, engVars, memVars, histVars, Eligible, InView
  <1>1. ASSUME NEW v \in Views, EnterRound(v) PROVE TypeInv'
    <2>1. /\ prevotes' \in [Validators -> Votes \cup {None}]
          /\ precommits' \in [Validators -> Votes \cup {None}]
      <3>1. NoVotes \in [Validators -> Votes \cup {None}]
        BY DEF NoVotes
      <3>2. QED
        BY <1>1, <3>1 DEF EnterRound
    <2>2. v # NoView
      BY DEF Views, NoView
    <2>3. QED
      BY <1>1, <2>1, <2>2 DEF EnterRound
  <1>2. CASE AlreadyProposed \/ ProposeFails
    BY <1>2 DEF AlreadyProposed, ProposeFails
  <1>3. CASE ProposeEmpty
    BY <1>3 DEF ProposeEmpty, OwnHeader, Headers, Views, EmptyIDs
  <1>4. ASSUME NEW txs \in TxLists, ProposeData(txs) PROVE TypeInv'
    <2>1. OwnHeader(txs) \in Headers /\ OwnHeader(txs).id \in DataIDs
      BY <1>4 DEF ProposeData, OwnHeader, Headers, Views, DataIDs
    <2>2. cache' \in [DataIDs -> EntryStates]
      BY <1>4 DEF ProposeData, SetImmediatelyAvailable, EntryStates
    <2>3. panicked' \in BOOLEAN
      BY <1>4, Zenon DEF ProposeData
    <2>4. QED
      BY <1>4, <2>1, <2>2, <2>3 DEF ProposeData
  <1>5. CASE SendProposal
    BY <1>5 DEF SendProposal
  <1>6. CASE SendCancelled
    BY <1>6 DEF SendCancelled
  <1>7. ASSUME NEW c \in {"consider", "choose"}, NEW phs \in Passable, Begin(c, phs)
        PROVE  TypeInv'
    <2>1. phs \in Seq(Headers) /\ Len(phs) <= MaxPassed /\ ToSet(phs) \subseteq Headers
      BY DEF Passable, SeqOf, ToSet
    <2>2. QED
      BY <1>7, <2>1 DEF Begin
  <1>8. CASE Skip \/ NotReady \/ SimulateFails \/ BadAnnotation
    <2>1. Looking /\ Continue
      BY <1>8 DEF Skip, NotReady, SimulateFails, BadAnnotation
    <2>2. queue' \in Seq(Headers) /\ Len(queue') <= MaxPassed
      BY <2>1 DEF Looking, Continue
    <2>3. QED
      BY <2>1, <2>2 DEF Looking, Continue
  <1>9. CASE Retrieve
    <2>1. Head(queue) \in Headers /\ queue # <<>>
      BY <1>9 DEF Retrieve, Looking
    <2>2. QED
      BY <1>9, <2>1, IDWithTxs DEF Retrieve, Looking
  <1>10. CASE RetrieveAccepted
    <2>1. cache' \in [DataIDs -> EntryStates]
      BY <1>10 DEF RetrieveAccepted, SetInFlight, EntryStates
    <2>2. QED
      BY <1>10, <2>1 DEF RetrieveAccepted
  <1>11. CASE RetrieveFails
    BY <1>11 DEF RetrieveFails
  <1>12. CASE Choose
    BY <1>12 DEF Choose, Looking, Votes
  <1>13. CASE NoChoice
    BY <1>13 DEF NoChoice, Votes
  <1>14. ASSUME NEW v \in Validators \ Byzantine, Precommit(v) PROVE TypeInv'
    <2>1. PICK S \in SUBSET {u \in Validators \ Byzantine : prevotes[u] # None},
               B \in SUBSET Byzantine :
            \E shown \in [B -> InViewHeaders \cup {Nil}] :
                LET seen == [u \in S \cup B |->
                                IF u \in B THEN shown[u] ELSE prevotes[u]]
                IN  \E most \in MostVoted(seen) :
                        precommits' = [precommits EXCEPT ![v] =
                                           DecidePrecommit(seen, most)]
      BY <1>14 DEF Precommit
    <2>2. PICK shown \in [B -> InViewHeaders \cup {Nil}] :
            LET seen == [u \in S \cup B |->
                            IF u \in B THEN shown[u] ELSE prevotes[u]]
            IN  \E most \in MostVoted(seen) :
                    precommits' = [precommits EXCEPT ![v] =
                                       DecidePrecommit(seen, most)]
      BY <2>1
    <2> DEFINE seen == [u \in S \cup B |->
                           IF u \in B THEN shown[u] ELSE prevotes[u]]
    <2>3. \A u \in DOMAIN seen : seen[u] \in Votes
      BY DEF InViewHeaders, Votes
    <2>4. \A most \in MostVoted(seen) : DecidePrecommit(seen, most) \in Votes
      BY <2>3, DecidesOnVote
    <2>5. precommits' \in [Validators -> Votes \cup {None}]
      <3>1. PICK most \in MostVoted(seen) :
                precommits' = [precommits EXCEPT ![v] = DecidePrecommit(seen, most)]
        BY <2>2
      <3> DEFINE vote == DecidePrecommit(seen, most)
      <3>2. vote \in Votes
        BY <2>4
      <3>3. precommits' = [precommits EXCEPT ![v] = vote]
        BY <3>1
      <3> HIDE DEF vote
      <3>4. QED
        BY <3>2, <3>3
    <2>6. UNCHANGED <<view, headers, prevotes, memVars, histVars>>
      BY <1>14 DEF Precommit
    <2>7. QED
      BY <2>5, <2>6
  <1>15. ASSUME NEW x \in Offered, HeaderArrives(x) PROVE TypeInv'
    BY <1>15 DEF HeaderArrives
  <1>16. ASSUME NEW v \in Others, NEW x \in InViewHeaders \cup {Nil}, OtherPrevotes(v, x)
         PROVE  TypeInv'
    BY <1>16 DEF OtherPrevotes, InViewHeaders, Votes, Others
  <1>17. ASSUME NEW d \in DataIDs, DataArrives(d) PROVE TypeInv'
    BY <1>17 DEF DataArrives, EntryStates
  <1>18. CASE Restart
    <2>1. cache' \in [DataIDs -> EntryStates]
      BY <1>18 DEF Restart, NewRequestCache, EntryStates
    <2>2. panicked' \in BOOLEAN
      BY <1>18, Zenon DEF Restart
    <2>3. QED
      BY <1>18, <2>1, <2>2 DEF Restart
  <1>19. CASE UNCHANGED vars
    BY <1>19 DEF vars
  <1>20. QED
    BY <1>1, <1>2, <1>3, <1>4, <1>5, <1>6, <1>7, <1>8, <1>9, <1>10, <1>11,
       <1>12, <1>13, <1>14, <1>15, <1>16, <1>17, <1>18, <1>19 DEF Next

\* The strategy's and the engine's variables keep their types.
THEOREM StrategyTypeCorrect == Spec => []TypeOK
  <1>1. TypeInv => TypeOK
    BY DEF TypeInv
  <1>2. QED
    BY <1>1, TypeInit, TypeStep, PTL DEF Spec

-----------------------------------------------------------------------------
(* Entries of the cache are for rounds up to the current one, and when the *)
(* node is to propose, there is none for the current round yet.            *)

CacheInv ==
    /\ NoPanic
    /\ \A d \in DataIDs : Has(cache, d) => cur # NoView /\ ~Later(d, cur)
    /\ pc = "propose" => \A d \in DataIDs : Has(cache, d) => Later(cur, d)

LEMMA LaterOrder ==
    ASSUME NEW u \in Views, NEW v \in Views, NEW d \in DataIDs,
           Later(v, u), ~Later(d, u)
    PROVE  Later(v, d) /\ ~Later(d, v)
  BY ConstantsAssumption DEF Later, Views, DataIDs

LEMMA CacheStep == TypeInv /\ CacheInv /\ [Next]_vars => CacheInv'
  <1> SUFFICES ASSUME TypeInv, CacheInv, [Next]_vars PROVE CacheInv'
    OBVIOUS
  <1> USE ConstantsAssumption
      DEF CacheInv, NoPanic, Has, engVars, memVars, histVars
  <1>1. ASSUME UNCHANGED <<cache, cur, panicked>>, pc' # "propose"
        PROVE  CacheInv'
    BY <1>1 DEF Later
  <1>2. ASSUME UNCHANGED <<cache, cur, panicked, pc>> PROVE CacheInv'
    BY <1>2 DEF Later
  <1>3. ASSUME NEW v \in Views, EnterRound(v) PROVE CacheInv'
    <2>1. UNCHANGED <<cache, panicked>> /\ cur' = v /\ v # NoView
      BY <1>3 DEF EnterRound, Views, NoView
    <2>2. ASSUME NEW d \in DataIDs, Has(cache, d)
          PROVE  Later(v, d) /\ ~Later(d, v)
      <3>1. cur \in Views /\ ~Later(d, cur) /\ Later(v, cur)
        BY <1>3, <2>2 DEF EnterRound, TypeInv, Shape
      <3>2. QED
        BY <3>1, LaterOrder
    <2>3. QED
      BY <2>1, <2>2 DEF Later
  <1>4. ASSUME NEW txs \in TxLists, ProposeData(txs) PROVE CacheInv'
    <2> DEFINE d == OwnHeader(txs).id
    <2>1. /\ pc = "propose" /\ cur \in Views /\ cur # NoView
          /\ d \in DataIDs /\ d.h = cur.h /\ d.r = cur.r
      BY <1>4 DEF ProposeData, OwnHeader, TypeInv, Shape, Views, DataIDs
    <2>2. ~Later(cur, d) /\ ~Later(d, cur)
      BY <2>1 DEF Later, Views
    <2>3. ~SetPanics(cache, d)
      BY <2>1, <2>2 DEF SetPanics
    <2>4. /\ cache' = SetImmediatelyAvailable(cache, d) /\ pc' = "send"
          /\ UNCHANGED <<cur, panicked>>
      BY <1>4, <2>3 DEF ProposeData
    <2>5. \A e \in DataIDs : Has(cache', e) => e = d \/ Has(cache, e)
      BY <2>4 DEF SetImmediatelyAvailable, TypeInv, TypeOK
    <2>6. QED
      BY <2>1, <2>2, <2>4, <2>5 DEF Later
  <1>5. CASE RetrieveAccepted
    <2> DEFINE d == Head(queue).id
    <2>1. d \in DataIDs /\ InView(d, cur) /\ cur \in Views /\ cur # NoView
      BY <1>5 DEF RetrieveAccepted, TypeInv, Shape, Eligible
    <2>2. ~Later(d, cur)
      BY <2>1 DEF Later, InView, Views
    <2>3. /\ cache' = SetInFlight(cache, d) /\ pc' = "consider"
          /\ UNCHANGED <<cur, panicked>>
      BY <1>5 DEF RetrieveAccepted
    <2>4. \A e \in DataIDs : Has(cache', e) => e = d \/ Has(cache, e)
      BY <2>3 DEF SetInFlight, TypeInv, TypeOK
    <2>5. QED
      BY <2>1, <2>2, <2>3, <2>4 DEF Later
  <1>6. ASSUME NEW d \in DataIDs, DataArrives(d) PROVE CacheInv'
    BY <1>6 DEF DataArrives, TypeInv, TypeOK, Later
  <1>7. CASE Restart
    BY <1>7 DEF Restart, NewRequestCache
  <1>8. ASSUME \/ AlreadyProposed \/ ProposeEmpty \/ ProposeFails
               \/ SendProposal \/ SendCancelled
               \/ \E c \in {"consider", "choose"}, phs \in Passable : Begin(c, phs)
               \/ Retrieve \/ RetrieveFails \/ Choose \/ NoChoice
        PROVE  CacheInv'
    BY <1>1, <1>8
    DEF AlreadyProposed, ProposeEmpty, ProposeFails, SendProposal,
        SendCancelled, Begin, Retrieve, RetrieveFails, Choose, NoChoice
  <1>9. ASSUME \/ Skip \/ NotReady \/ SimulateFails \/ BadAnnotation
               \/ \E v \in Validators \ Byzantine : Precommit(v)
               \/ \E x \in Offered : HeaderArrives(x)
               \/ \E v \in Others, x \in InViewHeaders \cup {Nil} :
                      OtherPrevotes(v, x)
               \/ UNCHANGED vars
        PROVE  CacheInv'
    BY <1>2, <1>9
    DEF Skip, NotReady, SimulateFails, BadAnnotation, Continue, Precommit,
        HeaderArrives, OtherPrevotes, vars
  <1>10. QED
    BY <1>3, <1>4, <1>5, <1>6, <1>7, <1>8, <1>9 DEF Next

\* Providing its own proposal never makes the node panic.
THEOREM NoPanicHolds == Spec => []NoPanic
  <1>1. Init => CacheInv
    BY DEF Init, CacheInv, NoPanic, Has, NewRequestCache
  <1>2. CacheInv => NoPanic
    BY DEF CacheInv
  <1>3. QED
    BY <1>1, <1>2, TypeInit, TypeStep, CacheStep, PTL DEF Spec

-----------------------------------------------------------------------------
(* What was chosen.  That data stays ready needs that an entry is made     *)
(* only where there is none, also when the retriever makes it some time    *)
(* after the strategy looked.                                              *)

ChoiceInv ==
    /\ chosen \subseteq Headers
    /\ \A x \in chosen : InView(x.id, x)
    /\ ChosenDataReady
    /\ pc = "retrieve" => ~Has(cache, Head(queue).id)

LEMMA ChoiceStep == TypeInv /\ ChoiceInv /\ [Next]_vars => ChoiceInv'
  <1> SUFFICES ASSUME TypeInv, ChoiceInv, [Next]_vars PROVE ChoiceInv'
    OBVIOUS
  <1> USE ConstantsAssumption
      DEF ChoiceInv, ChosenDataReady, Has, IsReady, InView, engVars, memVars,
          histVars
  <1>1. ASSUME UNCHANGED <<cache, chosen>>, pc' # "retrieve" PROVE ChoiceInv'
    BY <1>1 DEF HasTxs
  <1>2. ASSUME UNCHANGED <<cache, chosen, pc, queue>> PROVE ChoiceInv'
    BY <1>2 DEF HasTxs
  <1>3. ASSUME chosen' = chosen, pc' # "retrieve", NEW d \in DataIDs, ~Has(cache, d),
               NEW e \in EntryStates, cache' = [cache EXCEPT ![d] = e]
        PROVE  ChoiceInv'
    <2>1. ASSUME NEW x \in chosen, HasTxs(x) PROVE IsReady(cache', x.id)
      <3>1. x.id \in DataIDs /\ cache[x.id] = "ready"
        BY <2>1, IDWithTxs
      <3>2. x.id # d
        BY <1>3, <3>1
      <3>3. QED
        BY <1>3, <3>1, <3>2 DEF TypeInv, TypeOK
    <2>2. QED
      BY <1>3, <2>1 DEF HasTxs
  <1>4. ASSUME NEW txs \in TxLists, ProposeData(txs) PROVE ChoiceInv'
    <2>1. CASE SetPanics(cache, OwnHeader(txs).id)
      BY <1>1, <1>4, <2>1 DEF ProposeData
    <2>2. CASE ~SetPanics(cache, OwnHeader(txs).id)
      <3>1. OwnHeader(txs).id \in DataIDs
        BY <1>4 DEF ProposeData, OwnHeader, TypeInv, Shape, Views, DataIDs
      <3>2. /\ chosen' = chosen /\ pc' = "send"
            /\ cache' = [cache EXCEPT ![OwnHeader(txs).id] = "ready"]
        BY <1>4, <2>2 DEF ProposeData, SetImmediatelyAvailable
      <3>3. QED
        BY <1>3, <2>2, <3>1, <3>2 DEF SetPanics, EntryStates
    <2>3. QED
      BY <2>1, <2>2
  <1>5. CASE Retrieve
    BY <1>5 DEF Retrieve, HasTxs
  <1>6. CASE RetrieveAccepted
    <2>1. Head(queue).id \in DataIDs /\ ~Has(cache, Head(queue).id)
      BY <1>6 DEF RetrieveAccepted, TypeInv, Shape
    <2>2. /\ chosen' = chosen /\ pc' = "consider"
          /\ cache' = [cache EXCEPT ![Head(queue).id] = "inflight"]
      BY <1>6 DEF RetrieveAccepted, SetInFlight
    <2>3. QED
      BY <1>3, <2>1, <2>2 DEF EntryStates
  <1>7. CASE Choose
    <2> DEFINE x == Head(queue)
    <2>1. /\ x \in Headers /\ InView(x.id, x)
          /\ HasTxs(x) => IsReady(cache, x.id)
      BY <1>7 DEF Choose, Looking, Eligible, DataUsable, TypeInv, TypeOK
    <2>2. chosen' = chosen \cup {x} /\ cache' = cache /\ pc' = "idle"
      BY <1>7 DEF Choose
    <2>3. QED
      BY <2>1, <2>2 DEF HasTxs
  <1>8. ASSUME NEW d \in DataIDs, DataArrives(d) PROVE ChoiceInv'
    <2>1. ASSUME NEW x \in chosen, HasTxs(x) PROVE IsReady(cache', x.id)
      <3>1. x.id \in DataIDs /\ cache[x.id] = "ready"
        BY <2>1, IDWithTxs
      <3>2. QED
        BY <1>8, <3>1 DEF DataArrives, TypeInv, TypeOK
    <2>2. pc = "retrieve" => ~Has(cache', Head(queue).id)
      <3>1. cache[d] = "inflight"
        BY <1>8 DEF DataArrives
      <3>2. pc = "retrieve" => Head(queue).id \in DataIDs /\ Head(queue).id # d
        BY <3>1 DEF TypeInv, Shape
      <3>3. QED
        BY <1>8, <3>2 DEF DataArrives, TypeInv, TypeOK
    <2>3. UNCHANGED <<chosen, pc, queue>>
      BY <1>8 DEF DataArrives
    <2>4. QED
      BY <2>1, <2>2, <2>3 DEF HasTxs
  <1>9. CASE Restart
    BY <1>9 DEF Restart
  <1>10. ASSUME \/ \E v \in Views : EnterRound(v)
                \/ AlreadyProposed \/ ProposeEmpty \/ ProposeFails
                \/ SendProposal \/ SendCancelled
                \/ \E c \in {"consider", "choose"}, phs \in Passable : Begin(c, phs)
                \/ RetrieveFails \/ NoChoice
         PROVE  ChoiceInv'
    BY <1>1, <1>10
    DEF EnterRound, AlreadyProposed, ProposeEmpty, ProposeFails, SendProposal,
        SendCancelled, Begin, RetrieveFails, NoChoice
  <1>11. CASE Skip \/ NotReady \/ SimulateFails \/ BadAnnotation
    BY <1>1, <1>11 DEF Skip, NotReady, SimulateFails, BadAnnotation, Looking, Continue
  <1>12. ASSUME \/ \E v \in Validators \ Byzantine : Precommit(v)
                \/ \E x \in Offered : HeaderArrives(x)
                \/ \E v \in Others, x \in InViewHeaders \cup {Nil} :
                       OtherPrevotes(v, x)
                \/ UNCHANGED vars
         PROVE  ChoiceInv'
    BY <1>2, <1>12 DEF Precommit, HeaderArrives, OtherPrevotes, vars
  <1>13. QED
    BY <1>4, <1>5, <1>6, <1>7, <1>8, <1>9, <1>10, <1>11, <1>12 DEF Next

LEMMA ChoiceCorrect == Spec => []ChoiceInv
  <1>1. Init => ChoiceInv
    BY DEF Init, ChoiceInv, ChosenDataReady
  <1>2. QED
    BY <1>1, TypeInit, TypeStep, ChoiceStep, PTL DEF Spec

\* The data of every block this process has voted for is ready and stays so.
THEOREM ChosenDataReadyHolds == Spec => []ChosenDataReady
  <1>1. ChoiceInv => ChosenDataReady
    BY DEF ChoiceInv
  <1>2. QED
    BY <1>1, ChoiceCorrect, PTL

\* Block data is voted for only in the round its data ID names.
THEOREM DataChosenInOneRoundHolds == Spec => []DataChosenInOneRound
  <1>1. ChoiceInv => DataChosenInOneRound
    BY DEF ChoiceInv, DataChosenInOneRound, InView
  <1>2. QED
    BY <1>1, ChoiceCorrect, PTL

-----------------------------------------------------------------------------
(* What was asked for in a call: every header passed has been dealt with   *)
(* or is still to be looked at.                                            *)

AskedInv ==
    /\ pc \in {"idle", "propose", "send"} => queue = <<>>
    /\ passed \subseteq Headers
    /\ \A x \in passed :
        Eligible(x) /\ HasTxs(x)
            => \/ Has(cache, x.id)
               \/ x.id \in refused
               \/ x \in ToSet(queue)

\* A header is the first of a queue or among the others.
LEMMA FirstOrLater ==
    ASSUME NEW q \in Seq(Headers), q # <<>>
    PROVE  ToSet(q) = {Head(q)} \cup ToSet(Tail(q))
  <1>1. /\ DOMAIN q = 1 .. Len(q) /\ Len(q) \in Nat /\ Len(q) > 0
        /\ Head(q) = q[1]
        /\ DOMAIN Tail(q) = 1 .. (Len(q) - 1)
        /\ \A i \in 1 .. (Len(q) - 1) : Tail(q)[i] = q[i + 1]
    OBVIOUS
  <1>2. ASSUME NEW i \in 1 .. Len(q), i # 1 PROVE q[i] \in ToSet(Tail(q))
    <2>1. i - 1 \in 1 .. (Len(q) - 1) /\ (i - 1) + 1 = i
      BY <1>1, <1>2
    <2>2. Tail(q)[i - 1] = q[i]
      BY <1>1, <2>1
    <2>3. QED
      BY <1>1, <2>1, <2>2 DEF ToSet
  <1>3. ToSet(q) \subseteq {Head(q)} \cup ToSet(Tail(q))
    BY <1>1, <1>2 DEF ToSet
  <1>4. {Head(q)} \cup ToSet(Tail(q)) \subseteq ToSet(q)
    BY <1>1 DEF ToSet
  <1>5. QED
    BY <1>3, <1>4

\* A step of the same call: the cache loses no entry, and a header leaves the
\* queue only when it has been dealt with.
Advances ==
    /\ cur' = cur /\ passed' = passed
    /\ refused \subseteq refused'
    /\ \A d \in DataIDs : Has(cache, d) => Has(cache', d)
    /\ pc' \in {"idle", "propose", "send"} => queue' = <<>>
    /\ \A x \in ToSet(queue) \ ToSet(queue') :
        Eligible(x) /\ HasTxs(x) => Has(cache', x.id) \/ x.id \in refused'

LEMMA AskedAdvances == AskedInv /\ Advances => AskedInv'
  <1> SUFFICES ASSUME AskedInv, Advances PROVE AskedInv'
    OBVIOUS
  <1>1. ASSUME NEW x \in passed, Eligible(x), HasTxs(x)
        PROVE  Has(cache', x.id) \/ x.id \in refused' \/ x \in ToSet(queue')
    <2>1. x.id \in DataIDs
      BY <1>1, IDWithTxs DEF AskedInv
    <2>2. Has(cache, x.id) \/ x.id \in refused \/ x \in ToSet(queue)
      BY <1>1 DEF AskedInv
    <2>3. QED
      BY <1>1, <2>1, <2>2 DEF Advances
  <1>2. QED
    BY <1>1 DEF AskedInv, Advances, Eligible, InView, HasTxs, Has, ToSet

\* The head of the queue is all that its tail leaves out.
LEMMA OnlyFirstLeaves ==
    ASSUME NEW q \in Seq(Headers), q # <<>>
    PROVE  ToSet(q) \ ToSet(Tail(q)) \subseteq {Head(q)}
  BY FirstOrLater

LEMMA AskedStep == TypeInv /\ AskedInv /\ [Next]_vars => AskedInv'
  <1> SUFFICES ASSUME TypeInv, AskedInv, [Next]_vars PROVE AskedInv'
    OBVIOUS
  <1> USE DEF engVars, memVars, histVars
  <1>1. queue \in Seq(Headers)
    BY DEF TypeInv, TypeOK
  <1>2. ASSUME \/ \E v \in Views : EnterRound(v)
               \/ Choose \/ Restart
        PROVE  AskedInv'
    <2>1. passed' = {}
      BY <1>2 DEF EnterRound, Choose, Restart
    <2>2. pc' \in {"idle", "propose", "send"} => queue' = <<>>
      BY <1>2 DEF EnterRound, Choose, Restart, AskedInv
    <2>3. QED
      BY <2>1, <2>2 DEF AskedInv
  <1>3. ASSUME NEW c \in {"consider", "choose"}, NEW phs \in Passable, Begin(c, phs)
        PROVE  AskedInv'
    <2>1. ToSet(phs) \subseteq Headers
      BY DEF Passable, SeqOf, ToSet, TypeInv, TypeOK
    <2>2. passed' = ToSet(queue') /\ passed' \subseteq Headers /\ pc' = "consider"
      BY <1>3, <2>1 DEF Begin
    <2>3. QED
      BY <2>2 DEF AskedInv
  <1>4. ASSUME NEW txs \in TxLists, ProposeData(txs) PROVE Advances
    <2>1. OwnHeader(txs).id \in DataIDs
      BY <1>4 DEF ProposeData, OwnHeader, TypeInv, Shape, Views, DataIDs
    <2>2. \A d \in DataIDs : Has(cache, d) => Has(cache', d)
      BY <1>4, <2>1 DEF ProposeData, SetImmediatelyAvailable, Has, TypeInv, TypeOK
    <2>3. queue' = queue /\ queue = <<>> /\ cur' = cur /\ passed' = passed
          /\ refused' = refused
      BY <1>4 DEF ProposeData, AskedInv
    <2>4. QED
      BY <2>2, <2>3 DEF Advances
  <1>5. ASSUME Skip \/ NotReady \/ SimulateFails \/ BadAnnotation PROVE Advances
    <2> DEFINE x == Head(queue)
    <2>1. /\ Looking /\ queue # <<>>
          /\ queue' = Tail(queue) /\ pc' = "consider"
          /\ UNCHANGED <<cur, passed, refused, cache>>
      BY <1>5 DEF Skip, NotReady, SimulateFails, BadAnnotation, Looking, Continue
    <2>2. Eligible(x) /\ HasTxs(x) => Has(cache, x.id)
      BY <1>5
      DEF Skip, NotReady, SimulateFails, BadAnnotation, DataUsable, IsReady, Has
    <2>3. QED
      BY <1>1, <2>1, <2>2, OnlyFirstLeaves DEF Advances
  <1>6. ASSUME RetrieveAccepted PROVE Advances
    <2> DEFINE x == Head(queue)
    <2>1. queue # <<>> /\ x.id \in DataIDs
      BY <1>6 DEF RetrieveAccepted, TypeInv, Shape
    <2>2. /\ queue' = Tail(queue) /\ pc' = "consider"
          /\ UNCHANGED <<cur, passed, refused>>
          /\ cache' = [cache EXCEPT ![x.id] = "inflight"]
      BY <1>6 DEF RetrieveAccepted, SetInFlight
    <2>3. /\ Has(cache', x.id)
          /\ \A d \in DataIDs : Has(cache, d) => Has(cache', d)
      BY <2>1, <2>2 DEF Has, TypeInv, TypeOK
    <2>4. QED
      BY <1>1, <2>1, <2>2, <2>3, OnlyFirstLeaves DEF Advances
  <1>7. ASSUME RetrieveFails PROVE Advances
    <2> DEFINE x == Head(queue)
    <2>1. queue # <<>>
      BY <1>7 DEF RetrieveFails, TypeInv, Shape
    <2>2. /\ queue' = Tail(queue) /\ pc' = "consider"
          /\ UNCHANGED <<cur, passed, cache>>
          /\ refused' = refused \cup {x.id}
      BY <1>7 DEF RetrieveFails
    <2>3. QED
      BY <1>1, <2>1, <2>2, OnlyFirstLeaves DEF Advances
  <1>8. ASSUME NEW d \in DataIDs, DataArrives(d) PROVE Advances
    <2>1. \A e \in DataIDs : Has(cache, e) => Has(cache', e)
      BY <1>8 DEF DataArrives, Has, TypeInv, TypeOK
    <2>2. UNCHANGED <<cur, passed, refused, queue, pc>>
      BY <1>8 DEF DataArrives
    <2>3. QED
      BY <2>1, <2>2 DEF Advances, AskedInv
  <1>9. ASSUME \/ AlreadyProposed \/ ProposeEmpty \/ ProposeFails
               \/ SendProposal \/ SendCancelled \/ Retrieve \/ NoChoice
               \/ \E v \in Validators \ Byzantine : Precommit(v)
               \/ \E x \in Offered : HeaderArrives(x)
               \/ \E v \in Others, x \in InViewHeaders \cup {Nil} :
                      OtherPrevotes(v, x)
               \/ UNCHANGED vars
        PROVE  Advances
    <2>1. /\ UNCHANGED <<cur, passed, refused, cache, queue>>
          /\ pc' \in {"idle", "propose", "send"} => queue = <<>>
      BY <1>9
      DEF AlreadyProposed, ProposeEmpty, ProposeFails, SendProposal, SendCancelled,
          Retrieve, NoChoice, Precommit, HeaderArrives, OtherPrevotes, vars, AskedInv
    <2>2. QED
      BY <2>1 DEF Advances
  <1>10. QED
    BY <1>2, <1>3, <1>4, <1>5, <1>6, <1>7, <1>8, <1>9, AskedAdvances DEF Next

\* A call that ends without a choice has asked for all the data it lacks.
THEOREM NoChoiceMeansAllAskedHolds == Spec => []NoChoiceMeansAllAsked
  <1>1. Init => AskedInv
    BY DEF Init, AskedInv
  <1>2. AskedInv => NoChoiceMeansAllAsked
    BY DEF AskedInv, NoChoiceMeansAllAsked, ToSet
  <1>3. QED
    BY <1>1, <1>2, TypeInit, TypeStep, AskedStep, PTL DEF Spec

-----------------------------------------------------------------------------
(* Sums of powers. *)

\* What SumTo adds up, one summand after the other.
LEMMA SumIs ==
    ASSUME NEW N \in Nat, NEW w \in [1 .. N -> Nat]
    PROVE  \E g \in [0 .. N -> Nat] :
              /\ g[0] = 0
              /\ \A i \in 1 .. N : g[i] = g[i - 1] + w[i]
              /\ SumTo(w, N) = g[N]
<1> DEFINE step == [i \in 1 .. N |-> [x \in Nat |-> x + w[i]]]
           Sum(f) == [i \in 0 .. N |-> IF i = 0 THEN 0 ELSE f[i - 1] + w[i]]
           sum == CHOOSE f : f = Sum(f)
<1>1. SumTo(w, N) = sum[N]
  BY DEF SumTo
<1>2. \E f : f = Sum(f)
  <2>1. step \in [1 .. N -> [Nat -> Nat]]
    OBVIOUS
  <2>2. PICK g \in [0 .. N -> Nat] : Recursion(g, N, 0, step)
    <3>1. 0 \in Nat
      OBVIOUS
    <3> HIDE DEF step
    <3> QED
      BY <2>1, <3>1, RecursionExists, Zenon
  <2>3. \A i \in 1 .. N : g[i] = g[i - 1] + w[i]
    <3>1. \A i \in 1 .. N : i - 1 \in 0 .. N
      OBVIOUS
    <3> QED
      BY <2>2, <3>1 DEF Recursion
  <2>4. g = Sum(g)
    BY <2>2, <2>3 DEF Recursion
  <2> QED
    BY <2>4
<1>3. sum = Sum(sum)
  <2> HIDE DEF Sum
  <2> QED
    BY <1>2
<1>4. sum[0] = 0 /\ \A i \in 1 .. N : sum[i] = sum[i - 1] + w[i]
  <2> HIDE DEF sum
  <2> QED
    BY <1>3
<1>5. \A i \in 0 .. N : sum[i] \in Nat
  <2> DEFINE T == {i \in 0 .. N : sum[i] \in Nat}
  <2> HIDE DEF sum
  <2>1. 0 \in T
    BY <1>4
  <2>2. ASSUME NEW i \in 1 .. N, i - 1 \in T
        PROVE  i \in T
    <3>1. sum[i - 1] \in Nat /\ i \in 0 .. N
      BY <2>2
    <3> QED
      BY <1>4, <3>1
  <2> HIDE DEF T
  <2>3. \A i \in 0 .. N : i \in T
    BY <2>1, <2>2, InductionTo
  <2> QED
    BY <2>3 DEF T
<1>6. sum \in [0 .. N -> Nat]
  <2> HIDE DEF sum
  <2> QED
    BY <1>3, <1>5
<1> HIDE DEF sum
<1> QED
  BY <1>1, <1>4, <1>6

\* Pairs of summands that are smaller one by one have the smaller sums.
LEMMA SumsGrow ==
    ASSUME NEW N \in Nat,
           NEW w1 \in [1 .. N -> Nat], NEW w2 \in [1 .. N -> Nat],
           NEW w3 \in [1 .. N -> Nat], NEW w4 \in [1 .. N -> Nat],
           \A i \in 1 .. N : w1[i] + w2[i] <= w3[i] + w4[i]
    PROVE  SumTo(w1, N) + SumTo(w2, N) <= SumTo(w3, N) + SumTo(w4, N)
<1>1. PICK g1 \in [0 .. N -> Nat] :
          /\ g1[0] = 0 /\ \A i \in 1 .. N : g1[i] = g1[i - 1] + w1[i]
          /\ SumTo(w1, N) = g1[N]
  BY SumIs
<1>2. PICK g2 \in [0 .. N -> Nat] :
          /\ g2[0] = 0 /\ \A i \in 1 .. N : g2[i] = g2[i - 1] + w2[i]
          /\ SumTo(w2, N) = g2[N]
  BY SumIs
<1>3. PICK g3 \in [0 .. N -> Nat] :
          /\ g3[0] = 0 /\ \A i \in 1 .. N : g3[i] = g3[i - 1] + w3[i]
          /\ SumTo(w3, N) = g3[N]
  BY SumIs
<1>4. PICK g4 \in [0 .. N -> Nat] :
          /\ g4[0] = 0 /\ \A i \in 1 .. N : g4[i] = g4[i - 1] + w4[i]
          /\ SumTo(w4, N) = g4[N]
  BY SumIs
<1> DEFINE T == {i \in 0 .. N : g1[i] + g2[i] <= g3[i] + g4[i]}
<1>5. 0 \in T
  BY <1>1, <1>2, <1>3, <1>4
<1>6. ASSUME NEW i \in 1 .. N, i - 1 \in T
      PROVE  i \in T
  <2>1. g1[i - 1] + g2[i - 1] <= g3[i - 1] + g4[i - 1] /\ i \in 0 .. N
    BY <1>6
  <2>2. /\ g1[i] = g1[i - 1] + w1[i] /\ g2[i] = g2[i - 1] + w2[i]
        /\ g3[i] = g3[i - 1] + w3[i] /\ g4[i] = g4[i - 1] + w4[i]
    BY <1>1, <1>2, <1>3, <1>4
  <2>3. /\ g1[i - 1] \in Nat /\ g2[i - 1] \in Nat
        /\ g3[i - 1] \in Nat /\ g4[i - 1] \in Nat
        /\ w1[i] \in Nat /\ w2[i] \in Nat /\ w3[i] \in Nat /\ w4[i] \in Nat
    BY <1>6
  <2>4. w1[i] + w2[i] <= w3[i] + w4[i]
    OBVIOUS
  <2>5. \A a1, a2, a3, a4, b1, b2, b3, b4 \in Nat :
            a1 + a2 <= a3 + a4 /\ b1 + b2 <= b3 + b4
                => (a1 + b1) + (a2 + b2) <= (a3 + b3) + (a4 + b4)
    OBVIOUS
  <2> HIDE DEF T
  <2>6. (g1[i - 1] + w1[i]) + (g2[i - 1] + w2[i])
            <= (g3[i - 1] + w3[i]) + (g4[i - 1] + w4[i])
    BY <2>1, <2>3, <2>4, <2>5
  <2>7. g1[i] + g2[i] <= g3[i] + g4[i]
    BY <2>2, <2>6
  <2> QED
    BY <2>1, <2>7 DEF T
<1> HIDE DEF T
<1>7. \A i \in 0 .. N : i \in T
  BY <1>5, <1>6, InductionTo
<1>8. g1[N] + g2[N] <= g3[N] + g4[N]
  <2>1. N \in 0 .. N
    OBVIOUS
  <2> QED
    BY <1>7, <2>1 DEF T
<1> QED
  BY <1>1, <1>2, <1>3, <1>4, <1>8

-----------------------------------------------------------------------------

LEMMA PowersType == \A S : PowersOf(S) \in [1 .. Len(ValSeq) -> Nat]
  BY ConstantsAssumption DEF PowersOf, Validators

\* Each validator of two sets is in U, and again in W if it is in both.
LEMMA PowerOfTwo ==
    ASSUME NEW S, NEW T, NEW U, NEW W, S \cup T \subseteq U, S \cap T \subseteq W
    PROVE  TotalPower(S) + TotalPower(T) <= TotalPower(U) + TotalPower(W)
<1> DEFINE n == Len(ValSeq)
<1>1. n \in Nat /\ \A i \in 1 .. n : Power[ValSeq[i]] \in Nat
  BY ConstantsAssumption
<1>2. \A i \in 1 .. n : PowersOf(S)[i] + PowersOf(T)[i]
                           <= PowersOf(U)[i] + PowersOf(W)[i]
  BY <1>1 DEF PowersOf
<1>3. /\ PowersOf(S) \in [1 .. n -> Nat] /\ PowersOf(T) \in [1 .. n -> Nat]
      /\ PowersOf(U) \in [1 .. n -> Nat] /\ PowersOf(W) \in [1 .. n -> Nat]
  BY PowersType
<1> HIDE DEF n
<1>4. SumTo(PowersOf(S), n) + SumTo(PowersOf(T), n)
          <= SumTo(PowersOf(U), n) + SumTo(PowersOf(W), n)
  BY <1>1, <1>2, <1>3, SumsGrow
<1> QED
  BY <1>4 DEF TotalPower, n

LEMMA PowerIsNat ==
    ASSUME NEW S
    PROVE  TotalPower(S) \in Nat
<1>1. Len(ValSeq) \in Nat
  BY ConstantsAssumption
<1>2. PowersOf(S) \in [1 .. Len(ValSeq) -> Nat]
  BY PowersType
<1> QED
  BY <1>1, <1>2, SumIs DEF TotalPower

\* More validators do not have less power.
LEMMA PowerGrows ==
    ASSUME NEW S, NEW T, S \subseteq T
    PROVE  TotalPower(S) <= TotalPower(T)
<1>1. TotalPower(S) + TotalPower({}) <= TotalPower(T) + TotalPower({})
  BY PowerOfTwo
<1> QED
  BY <1>1, PowerIsNat

-----------------------------------------------------------------------------
(* Agreement in a round.                                                   *)

Correct == Validators \ Byzantine
Supporters(x) == {u \in Correct : prevotes[u] = x}
Majority == ByzantineMajority(TotalPower(Validators))

\* A precommit is backed by prevotes, which are not taken back: this node does
\* not prevote a second time, although it may be asked before and after a
\* restart.
AgreeInv ==
    /\ pc \in {"consider", "retrieve"} => prevotes[Self] = None
    /\ \A v \in Correct :
        precommits[v] \in Headers =>
            TotalPower(Supporters(precommits[v]) \cup Byzantine) >= Majority

\* Prevotes stay, and precommits with them.
LEMMA SupportStays ==
    ASSUME AgreeInv, TypeInv, UNCHANGED precommits,
           \A u \in Correct : prevotes[u] # None => prevotes'[u] = prevotes[u],
           pc' \in {"consider", "retrieve"} => prevotes'[Self] = None
    PROVE  AgreeInv'
<1> SUFFICES ASSUME NEW v \in Correct, precommits[v] \in Headers
             PROVE  (TotalPower(Supporters(precommits[v]) \cup Byzantine)
                        >= Majority)'
  BY DEF AgreeInv
<1>1. Supporters(precommits[v]) \subseteq Supporters(precommits[v])'
  BY ConstantsAssumption DEF Supporters
<1>2. TotalPower(Supporters(precommits[v]) \cup Byzantine)
          <= TotalPower(Supporters(precommits[v])' \cup Byzantine)
  BY <1>1, PowerGrows
<1>3. Majority \in Int
  BY PowerIsNat DEF Majority, ByzantineMajority
<1> QED
  BY <1>2, <1>3, PowerIsNat DEF AgreeInv

\* A block that is precommitted has the prevotes of a majority, the faulty
\* validators taken for its supporters.
LEMMA PrecommitBacked ==
    ASSUME NEW S \in SUBSET Correct, NEW B \in SUBSET Byzantine,
           NEW seen, DOMAIN seen = S \cup B,
           \A u \in S : seen[u] = prevotes[u],
           NEW most \in MostVoted(seen),
           DecidePrecommit(seen, most) \in Headers
    PROVE  LET x == DecidePrecommit(seen, most) IN
           TotalPower(Supporters(x) \cup Byzantine) >= Majority
<1>1. /\ VotePower(seen, most) >= Majority
      /\ DecidePrecommit(seen, most) = most
  BY ConstantsAssumption DEF DecidePrecommit, Majority
<1>2. {u \in DOMAIN seen : seen[u] = most} \subseteq Supporters(most) \cup Byzantine
  BY DEF Supporters
<1>3. VotePower(seen, most) <= TotalPower(Supporters(most) \cup Byzantine)
  BY <1>2, PowerGrows DEF VotePower
<1>4. Majority \in Int /\ VotePower(seen, most) \in Int
  BY PowerIsNat DEF Majority, ByzantineMajority, VotePower
<1> QED
  BY <1>1, <1>3, <1>4, PowerIsNat

LEMMA AgreeStep == TypeInv /\ AgreeInv /\ [Next]_vars => AgreeInv'
<1> SUFFICES ASSUME TypeInv, AgreeInv, [Next]_vars
             PROVE  AgreeInv'
  OBVIOUS
<1> USE DEF engVars, memVars, histVars
<1>1. ASSUME NEW v \in Views, EnterRound(v)
      PROVE  AgreeInv'
  <2>1. pc' \notin {"consider", "retrieve"}
    BY <1>1 DEF EnterRound
  <2>2. CASE v = view
    BY <1>1, <2>1, <2>2, SupportStays DEF EnterRound
  <2>3. CASE v # view
    <3>1. precommits' = NoVotes
      BY <1>1, <2>3 DEF EnterRound
    <3>2. \A u \in Correct : precommits'[u] \notin Headers
      BY <3>1, ConstantsAssumption DEF NoVotes, Correct
    <3> QED
      BY <2>1, <3>2 DEF AgreeInv
  <2> QED
    BY <2>2, <2>3
<1>2. ASSUME NEW v \in Validators \ Byzantine, Precommit(v)
      PROVE  AgreeInv'
  <2>1. PICK S \in SUBSET {u \in Validators \ Byzantine : prevotes[u] # None},
             B \in SUBSET Byzantine :
          \E shown \in [B -> InViewHeaders \cup {Nil}] :
              LET seen == [u \in S \cup B |->
                              IF u \in B THEN shown[u] ELSE prevotes[u]]
              IN  \E most \in MostVoted(seen) :
                      precommits' = [precommits EXCEPT ![v] =
                                         DecidePrecommit(seen, most)]
    BY <1>2 DEF Precommit
  <2>2. PICK shown \in [B -> InViewHeaders \cup {Nil}] :
          LET seen == [u \in S \cup B |->
                          IF u \in B THEN shown[u] ELSE prevotes[u]]
          IN  \E most \in MostVoted(seen) :
                  precommits' = [precommits EXCEPT ![v] =
                                     DecidePrecommit(seen, most)]
    BY <2>1
  <2> DEFINE seen == [u \in S \cup B |->
                         IF u \in B THEN shown[u] ELSE prevotes[u]]
  <2>3. /\ S \in SUBSET Correct /\ DOMAIN seen = S \cup B
        /\ \A u \in S : seen[u] = prevotes[u]
    BY ConstantsAssumption DEF Correct
  <2>4. PICK most \in MostVoted(seen) :
            precommits' = [precommits EXCEPT ![v] = DecidePrecommit(seen, most)]
    BY <2>2
  <2> HIDE DEF seen
  <2> DEFINE vote == DecidePrecommit(seen, most)
  <2>5. vote \in Headers
            => TotalPower(Supporters(vote) \cup Byzantine) >= Majority
    BY <2>3, PrecommitBacked
  <2>6. precommits' = [precommits EXCEPT ![v] = vote]
    BY <2>4
  <2>7. UNCHANGED <<prevotes, pc>>
    BY <1>2 DEF Precommit
  <2> HIDE DEF vote
  <2>8. ASSUME NEW w \in Correct, precommits'[w] \in Headers
        PROVE  TotalPower(Supporters(precommits'[w]) \cup Byzantine) >= Majority
    BY <2>5, <2>6, <2>8 DEF AgreeInv, TypeInv, TypeOK, Correct
  <2>9. \A x : Supporters(x)' = Supporters(x)
    BY <2>7 DEF Supporters
  <2> QED
    BY <2>7, <2>8, <2>9 DEF AgreeInv
<1>3. CASE Choose
  <2>1. prevotes[Self] = None /\ pc' = "idle" /\ UNCHANGED precommits
    BY <1>3 DEF Choose, Looking, AgreeInv
  <2>2. \A u \in Correct : prevotes[u] # None => prevotes'[u] = prevotes[u]
    BY <1>3, <2>1 DEF Choose, TypeInv, TypeOK, Correct
  <2> QED
    BY <2>1, <2>2, SupportStays
<1>4. CASE NoChoice
  <2>1. prevotes[Self] = None /\ pc' = "idle" /\ UNCHANGED precommits
    BY <1>4 DEF NoChoice, AgreeInv
  <2>2. \A u \in Correct : prevotes[u] # None => prevotes'[u] = prevotes[u]
    BY <1>4, <2>1 DEF NoChoice, TypeInv, TypeOK, Correct
  <2> QED
    BY <2>1, <2>2, SupportStays
<1>5. ASSUME NEW v \in Others, NEW x \in InViewHeaders \cup {Nil},
             OtherPrevotes(v, x)
      PROVE  AgreeInv'
  <2>1. prevotes[v] = None /\ v # Self /\ UNCHANGED <<pc, precommits>>
    BY <1>5 DEF OtherPrevotes, Others
  <2>2. \A u \in Correct : prevotes[u] # None => prevotes'[u] = prevotes[u]
    BY <1>5, <2>1 DEF OtherPrevotes, TypeInv, TypeOK, Correct
  <2>3. prevotes'[Self] = prevotes[Self]
    BY <1>5, <2>1, ConstantsAssumption DEF OtherPrevotes, TypeInv, TypeOK
  <2> QED
    BY <2>1, <2>2, <2>3, SupportStays DEF AgreeInv
<1>6. ASSUME UNCHANGED <<prevotes, precommits>>,
             pc' \in {"consider", "retrieve"} => prevotes[Self] = None
      PROVE  AgreeInv'
  BY <1>6, SupportStays
<1>7. CASE AlreadyProposed \/ ProposeEmpty \/ ProposeFails \/ SendProposal
           \/ SendCancelled \/ Restart
  BY <1>6, <1>7 DEF AlreadyProposed, ProposeEmpty, ProposeFails, SendProposal,
                    SendCancelled, Restart
<1>8. ASSUME NEW txs \in TxLists, ProposeData(txs)
      PROVE  AgreeInv'
  BY <1>6, <1>8 DEF ProposeData
<1>9. ASSUME NEW c \in {"consider", "choose"}, NEW phs \in Passable,
             Begin(c, phs)
      PROVE  AgreeInv'
  BY <1>6, <1>9 DEF Begin
<1>10. CASE Skip \/ Retrieve \/ RetrieveAccepted \/ RetrieveFails \/ NotReady
            \/ SimulateFails \/ BadAnnotation
  BY <1>6, <1>10 DEF Skip, Retrieve, RetrieveAccepted, RetrieveFails, NotReady,
                     SimulateFails, BadAnnotation, Looking, Continue, AgreeInv
<1>11. ASSUME NEW x \in Offered, HeaderArrives(x)
       PROVE  AgreeInv'
  BY <1>6, <1>11 DEF HeaderArrives, AgreeInv
<1>12. ASSUME NEW d \in DataIDs, DataArrives(d)
       PROVE  AgreeInv'
  BY <1>6, <1>12 DEF DataArrives, AgreeInv
<1>13. CASE UNCHANGED vars
  BY <1>6, <1>13 DEF vars, AgreeInv
<1> QED
  BY <1>1, <1>2, <1>3, <1>4, <1>5, <1>7, <1>8, <1>9, <1>10, <1>11, <1>12, <1>13
     DEF Next

\* Two majorities share more power than the faulty validators have.
LEMMA MajoritiesMeet == AgreeInv => PrecommitsAgree
<1> SUFFICES ASSUME AgreeInv,
                    NEW v \in Correct, NEW w \in Correct,
                    precommits[v] \in Headers, precommits[w] \in Headers,
                    precommits[v] # precommits[w]
             PROVE  FALSE
  BY DEF PrecommitsAgree, Correct
<1> DEFINE S == Supporters(precommits[v]) \cup Byzantine
           T == Supporters(precommits[w]) \cup Byzantine
           all == TotalPower(Validators)
           faulty == TotalPower(Byzantine)
<1>1. S \cup T \subseteq Validators /\ S \cap T \subseteq Byzantine
  BY ConstantsAssumption DEF Supporters, Correct
<1>2. TotalPower(S) + TotalPower(T) <= all + faulty
  BY <1>1, PowerOfTwo
<1>3. /\ TotalPower(S) >= (2 * all) \div 3 + 1
      /\ TotalPower(T) >= (2 * all) \div 3 + 1
  BY DEF AgreeInv, Majority, ByzantineMajority
<1>4. 3 * faulty < all
  BY ConstantsAssumption
<1>5. /\ TotalPower(S) \in Nat /\ TotalPower(T) \in Nat
      /\ all \in Nat /\ faulty \in Nat
  BY PowerIsNat
<1> HIDE DEF S, T, all, faulty
<1> QED
  BY <1>2, <1>3, <1>4, <1>5

\* Correct validators do not precommit different blocks in a round.
THEOREM PrecommitsAgreeHolds == Spec => []PrecommitsAgree
<1>1. Init => AgreeInv
  BY ConstantsAssumption DEF Init, AgreeInv, NoVotes, Correct
<1> QED
  BY <1>1, TypeInit, TypeStep, AgreeStep, MajoritiesMeet, PTL DEF Spec

=============================================================================
