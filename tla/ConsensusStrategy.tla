-------------------------- MODULE ConsensusStrategy --------------------------
(***************************************************************************)
(* gsi.ConsensusStrategy: what one node, Self, proposes and votes for.     *)
(*                                                                         *)
(* The gordian engine is external.  It calls EnterRound,                   *)
(* ConsiderProposedBlocks, ChooseProposedBlock and DecidePrecommit from    *)
(* one goroutine, keeps the proposed headers and the votes over a restart, *)
(* and calls EnterRound again for the round it was in.  The retriever is   *)
(* represented by what BlockDataJobs promises of it: an accepted data ID   *)
(* is in flight in the cache, and may become ready.  The other validators  *)
(* run the same DecidePrecommit on the votes they have seen; the faulty    *)
(* ones may show different votes to different nodes.                       *)
(*                                                                         *)
(* A data ID is a record of height, round and transactions, which stand    *)
(* for their number, length and hash.                                      *)
(***************************************************************************)
EXTENDS Integers, SequencesExt

CONSTANTS
    ValSeq,             \* the validators, in the order of the validator set
    Power,              \* Power[v]: voting power of validator v
    Self,               \* this node
    Byzantine,          \* validators that may equivocate
    MaxHeight,          \* bound on heights
    MaxRound,           \* bound on rounds
    TxLists,            \* the non-empty transaction lists that occur
    NoTxs,              \* no transactions
    Offered,            \* headers the other validators may propose
    MaxPassed,          \* bound on the headers passed in one call
    Nil,                \* the vote for no block
    None                \* no vote, no proposal, no call

Views == [h : 1 .. MaxHeight, r : 0 .. MaxRound]
DataIDs == [h : 1 .. MaxHeight, r : 0 .. MaxRound, txs : TxLists]
EmptyIDs == [h : 1 .. MaxHeight, r : 0 .. MaxRound, txs : {NoTxs}]
Validators == {ValSeq[i] : i \in DOMAIN ValSeq}

\* A header: the view it was proposed in, its data ID, and whether the ID
\* parses and its block annotation is acceptable.
Headers == [h : 1 .. MaxHeight, r : 0 .. MaxRound, id : DataIDs \cup EmptyIDs,
            by : Validators, form : {"good", "badID", "badAnnotation"}]

\* The sum of w[1] to w[n].
SumTo(w, n) ==
    LET sum[i \in 0 .. n] == IF i = 0 THEN 0 ELSE sum[i - 1] + w[i] IN sum[n]

\* The power of the validators in S, added up along the validator set.
PowersOf(S) ==
    [i \in 1 .. Len(ValSeq) |-> IF ValSeq[i] \in S THEN Power[ValSeq[i]] ELSE 0]
TotalPower(S) == SumTo(PowersOf(S), Len(ValSeq))

ASSUME ConstantsAssumption ==
    /\ ValSeq \in Seq(Validators)
    /\ Self \in Validators
    /\ Byzantine \subseteq Validators \ {Self}
    /\ Power \in [Validators -> Nat \ {0}]
    /\ 3 * TotalPower(Byzantine) < TotalPower(Validators)
    /\ MaxHeight \in Nat /\ MaxRound \in Nat /\ MaxPassed \in Nat
    /\ NoTxs \notin TxLists
    /\ Nil # None /\ {Nil, None} \cap Headers = {}
    /\ Offered \subseteq {x \in Headers : x.by # Self}

INSTANCE RequestCache

VARIABLES
    \* Kept by the engine over a restart.
    view,               \* the round the engine is in
    headers,            \* the proposed headers the engine has
    prevotes,           \* prevotes[v]: v's prevote in this view, if any
    precommits,         \* precommits[v]: v's precommit in this view, if any
    \* The strategy, in memory.
    cur,                \* curH and curR
    pc,                 \* where the engine's call is
    proposal,           \* the header being proposed
    call,               \* which call considers blocks
    queue,              \* the headers that call has still to look at
    cache,              \* the shared request cache
    panicked,
    \* Histories, for the properties.
    chosen,             \* headers chosen since the process started
    passed,             \* headers of the call under way or just ended
    refused             \* data IDs whose Retrieve failed in that call

engVars == <<view, headers, prevotes, precommits>>
memVars == <<cur, pc, proposal, call, queue, cache, panicked>>
histVars == <<chosen, passed, refused>>
vars == <<engVars, memVars, histVars>>

NoView == [h |-> 0, r |-> 0]
Votes == Headers \cup {Nil}

TypeOK ==
    /\ view \in Views \cup {NoView}
    /\ headers \in SUBSET Headers
    /\ prevotes \in [Validators -> Votes \cup {None}]
    /\ precommits \in [Validators -> Votes \cup {None}]
    /\ cur \in Views \cup {NoView}
    /\ pc \in {"idle", "propose", "send", "consider", "retrieve"}
    /\ proposal \in Headers \cup {None}
    /\ call \in {"consider", "choose", None}
    /\ queue \in Seq(Headers) /\ Len(queue) <= MaxPassed
    /\ cache \in [DataIDs -> EntryStates]
    /\ panicked \in BOOLEAN
    /\ chosen \in SUBSET Headers
    /\ passed \in SUBSET Headers
    /\ refused \in SUBSET DataIDs

NoVotes == [v \in Validators |-> None]

Init ==
    /\ view = NoView
    /\ headers = {}
    /\ prevotes = NoVotes /\ precommits = NoVotes
    /\ cur = NoView
    /\ pc = "idle"
    /\ proposal = None
    /\ call = None
    /\ queue = <<>>
    /\ cache = NewRequestCache
    /\ panicked = FALSE
    /\ chosen = {} /\ passed = {} /\ refused = {}

-----------------------------------------------------------------------------
(* EnterRound.                                                             *)

Later(v, w) == v.h > w.h \/ (v.h = w.h /\ v.r > w.r)

\* DefaultProposerSelection
Proposer(v) == ValSeq[((v.h + v.r) % Len(ValSeq)) + 1]

InView(x, v) == x.h = v.h /\ x.r = v.r

\* The engine enters a later round, or after a restart the one it was in.
EnterRound(v) ==
    /\ ~panicked
    /\ pc = "idle"
    /\ Later(v, view) \/ (v = view /\ cur = NoView)
    /\ view' = v
    /\ prevotes' = IF v = view THEN prevotes ELSE NoVotes
    /\ precommits' = IF v = view THEN precommits ELSE NoVotes
    /\ cur' = v
    /\ pc' = IF Proposer(v) = Self THEN "propose" ELSE "idle"
    /\ passed' = {} /\ refused' = {}
    /\ UNCHANGED <<headers, proposal, call, queue, cache, panicked, chosen>>

OwnHeaders == {x \in headers : x.by = Self /\ InView(x, cur)}

\* proposalOut is nil: the engine has our header from before a restart.  (That
\* is when the engine passes nil, so that the panic below it is out of reach.)
AlreadyProposed ==
    /\ ~panicked
    /\ pc = "propose"
    /\ OwnHeaders # {}
    /\ pc' = "idle"
    /\ UNCHANGED <<engVars, cur, proposal, call, queue, cache, panicked, histVars>>

\* Mutant: the proposal is for the next round.
OwnHeaderNextRound(txs) ==
    [h |-> cur.h, r |-> cur.r + 1,
     id |-> [h |-> cur.h, r |-> cur.r + 1, txs |-> txs],
     by |-> Self, form |-> "good"]

OwnHeader(txs) ==
    [h |-> cur.h, r |-> cur.r, id |-> [h |-> cur.h, r |-> cur.r, txs |-> txs],
     by |-> Self, form |-> "good"]

\* Nothing is pending in the buffer: propose the empty data ID.
ProposeEmpty ==
    /\ ~panicked
    /\ pc = "propose"
    /\ OwnHeaders = {}
    /\ proposal' = OwnHeader(NoTxs)
    /\ pc' = "send"
    /\ UNCHANGED <<engVars, cur, call, queue, cache, panicked, histVars>>

\* Provide the pending transactions and mark them as available: a panic if
\* the cache has an entry for them.
ProposeData(txs) ==
    LET x == OwnHeader(txs) IN
    /\ ~panicked
    /\ pc = "propose"
    /\ OwnHeaders = {}
    /\ IF SetPanics(cache, x.id)
       THEN panicked' = TRUE /\ UNCHANGED <<pc, proposal, cache>>
       ELSE /\ cache' = SetImmediatelyAvailable(cache, x.id)
            /\ proposal' = x
            /\ pc' = "send"
            /\ UNCHANGED panicked
    /\ UNCHANGED <<engVars, cur, call, queue, histVars>>

\* Provide fails, and EnterRound with it.
ProposeFails ==
    /\ ~panicked
    /\ pc = "propose"
    /\ OwnHeaders = {}
    /\ pc' = "idle"
    /\ UNCHANGED <<engVars, cur, proposal, call, queue, cache, panicked, histVars>>

\* The engine takes the proposal and makes it a header of ours ...
SendProposal ==
    /\ ~panicked
    /\ pc = "send"
    /\ headers' = headers \cup {proposal}
    /\ proposal' = None
    /\ pc' = "idle"
    /\ UNCHANGED <<view, prevotes, precommits, cur, call, queue, cache, panicked,
                   histVars>>

\* ... or the round's context ends first.
SendCancelled ==
    /\ ~panicked
    /\ pc = "send"
    /\ proposal' = None
    /\ pc' = "idle"
    /\ UNCHANGED <<engVars, cur, call, queue, cache, panicked, histVars>>

-----------------------------------------------------------------------------
(* ConsiderProposedBlocks and ChooseProposedBlock.                         *)

\* The engine asks for a choice among some of its headers: any of them, for a
\* call may be under way while the round changes.
Begin(c, phs) ==
    /\ ~panicked
    /\ pc = "idle"
    /\ cur # NoView
    /\ prevotes[Self] = None
    /\ call' = c
    /\ queue' = phs
    /\ pc' = "consider"
    /\ passed' = ToSet(phs) /\ refused' = {}
    /\ UNCHANGED <<engVars, cur, proposal, cache, panicked, chosen>>

Looking == ~panicked /\ pc = "consider" /\ queue # <<>>

\* Mutant: the height and round in the data ID are not compared.
EligibleAnyID(x) == InView(x, cur) /\ x.form # "badID"

\* Height and round match, the data ID parses, and its height and round match.
Eligible(x) == InView(x, cur) /\ x.form # "badID" /\ InView(x.id, cur)

HasTxs(x) == x.id.txs # NoTxs

\* Mutant: the first header that is out of place ends the call.
SkipAll ==
    /\ Looking
    /\ ~Eligible(Head(queue))
    /\ queue' = <<>>
    /\ UNCHANGED <<engVars, cur, pc, proposal, call, cache, panicked, histVars>>

Continue ==
    /\ queue' = Tail(queue)
    /\ UNCHANGED <<engVars, cur, pc, proposal, call, cache, panicked, histVars>>

\* A header of another height or round.
Skip ==
    /\ Looking
    /\ ~Eligible(Head(queue))
    /\ Continue

\* The first time we see this data ID: call the retriever.
Retrieve ==
    /\ Looking
    /\ Eligible(Head(queue)) /\ HasTxs(Head(queue))
    /\ ~Has(cache, Head(queue).id)
    /\ pc' = "retrieve"
    /\ UNCHANGED <<engVars, cur, proposal, call, queue, cache, panicked, histVars>>

\* The retriever accepts, having made the entry ...
RetrieveAccepted ==
    /\ ~panicked
    /\ pc = "retrieve"
    /\ cache' = SetInFlight(cache, Head(queue).id)
    /\ queue' = Tail(queue)
    /\ pc' = "consider"
    /\ UNCHANGED <<engVars, cur, proposal, call, panicked, histVars>>

\* ... or the annotation names no address, or the context ends.
RetrieveFails ==
    /\ ~panicked
    /\ pc = "retrieve"
    /\ refused' = refused \cup {Head(queue).id}
    /\ queue' = Tail(queue)
    /\ pc' = "consider"
    /\ UNCHANGED <<engVars, cur, proposal, call, cache, panicked, chosen, passed>>

\* The data has been asked for and is not there.
NotReady ==
    /\ Looking
    /\ Eligible(Head(queue)) /\ HasTxs(Head(queue))
    /\ Has(cache, Head(queue).id) /\ ~IsReady(cache, Head(queue).id)
    /\ Continue

\* Mutant: having asked for the data is enough.
DataUsableOnceAsked(x) == HasTxs(x) => Has(cache, x.id)

\* The transactions, if any, are at hand.
DataUsable(x) == HasTxs(x) => IsReady(cache, x.id)

\* One of the transactions cannot be applied to the application's state.
SimulateFails ==
    /\ Looking
    /\ Eligible(Head(queue)) /\ HasTxs(Head(queue))
    /\ DataUsable(Head(queue))
    /\ Continue

\* The block annotation does not parse, or its time is in the future.
BadAnnotation ==
    /\ Looking
    /\ Eligible(Head(queue)) /\ DataUsable(Head(queue))
    /\ Head(queue).form = "badAnnotation"
    /\ Continue

\* The first acceptable header is the choice, and the engine's prevote.
Choose ==
    /\ Looking
    /\ Eligible(Head(queue)) /\ DataUsable(Head(queue))
    /\ Head(queue).form = "good"
    /\ prevotes' = [prevotes EXCEPT ![Self] = Head(queue)]
    /\ chosen' = chosen \cup {Head(queue)}
    /\ queue' = <<>>
    /\ call' = None
    /\ pc' = "idle"
    /\ passed' = {} /\ refused' = {}
    /\ UNCHANGED <<view, headers, precommits, cur, proposal, cache, panicked>>

\* No header left: ErrProposedBlockChoiceNotReady, which ChooseProposedBlock
\* makes a vote for nil.
NoChoice ==
    /\ ~panicked
    /\ pc = "consider"
    /\ queue = <<>>
    /\ prevotes' = IF call = "choose" THEN [prevotes EXCEPT ![Self] = Nil]
                   ELSE prevotes
    /\ call' = None
    /\ pc' = "idle"
    /\ UNCHANGED <<view, headers, precommits, cur, proposal, queue, cache,
                   panicked, histVars>>

-----------------------------------------------------------------------------
(* DecidePrecommit, here and on the other validators.                      *)

\* tmconsensus.ByzantineMajority
ByzantineMajority(n) == (2 * n) \div 3 + 1

\* The power of a vote among the votes seen, a function from voters.
VotePower(seen, x) == TotalPower({v \in DOMAIN seen : seen[v] = x})

\* MostVotedPrevoteHash, any of the best if there are several.
MostVoted(seen) ==
    {x \in {seen[v] : v \in DOMAIN seen} :
        \A v \in DOMAIN seen : VotePower(seen, seen[v]) <= VotePower(seen, x)}

\* Mutant: more than half is taken for a majority.
DecidePrecommitOfHalf(seen, most) ==
    IF 2 * VotePower(seen, most) > TotalPower(Validators) THEN most ELSE Nil

DecidePrecommit(seen, most) ==
    IF VotePower(seen, most) >= ByzantineMajority(TotalPower(Validators))
    THEN most ELSE Nil

InViewHeaders == {x \in headers : InView(x, view)}

\* Validator v decides on the prevotes it has seen so far.  A faulty voter may
\* have shown it any vote.
Precommit(v) ==
    /\ ~panicked
    /\ v = Self => pc = "idle" /\ cur # NoView
    /\ view # NoView
    /\ precommits[v] = None
    /\ \E S \in SUBSET {u \in Validators \ Byzantine : prevotes[u] # None},
          B \in SUBSET Byzantine :
        \E shown \in [B -> InViewHeaders \cup {Nil}] :
            LET seen == [u \in S \cup B |->
                            IF u \in B THEN shown[u] ELSE prevotes[u]]
            IN  \E most \in MostVoted(seen) :
                    precommits' = [precommits EXCEPT ![v] =
                                       DecidePrecommit(seen, most)]
    /\ UNCHANGED <<view, headers, prevotes, memVars, histVars>>

-----------------------------------------------------------------------------
(* The network, the retriever and the process.                             *)

\* A header of another validator arrives.
HeaderArrives(x) ==
    /\ ~panicked
    /\ x \notin headers
    /\ headers' = headers \cup {x}
    /\ UNCHANGED <<view, prevotes, precommits, memVars, histVars>>

\* Another correct validator prevotes.
OtherPrevotes(v, x) ==
    /\ ~panicked
    /\ view # NoView
    /\ prevotes[v] = None
    /\ prevotes' = [prevotes EXCEPT ![v] = x]
    /\ UNCHANGED <<view, headers, precommits, memVars, histVars>>

\* The retriever's main loop takes a result.
DataArrives(d) ==
    /\ ~panicked
    /\ cache[d] = "inflight"
    /\ cache' = [cache EXCEPT ![d] = "ready"]
    /\ UNCHANGED <<engVars, cur, pc, proposal, call, queue, panicked, histVars>>

\* The process dies and starts again with an empty cache.
Restart ==
    /\ cur # NoView
    /\ cur' = NoView
    /\ pc' = "idle"
    /\ proposal' = None
    /\ call' = None
    /\ queue' = <<>>
    /\ cache' = NewRequestCache
    /\ panicked' = FALSE
    /\ chosen' = {} /\ passed' = {} /\ refused' = {}
    /\ UNCHANGED engVars

Others == Validators \ (Byzantine \cup {Self})

Passable ==
    {phs \in SeqOf(headers, MaxPassed) :
        \A i, j \in DOMAIN phs : phs[i] = phs[j] => i = j}

Next ==
    \/ \E v \in Views : EnterRound(v)
    \/ AlreadyProposed
    \/ ProposeEmpty
    \/ \E txs \in TxLists : ProposeData(txs)
    \/ ProposeFails
    \/ SendProposal
    \/ SendCancelled
    \/ \E c \in {"consider", "choose"}, phs \in Passable : Begin(c, phs)
    \/ Skip
    \/ Retrieve
    \/ RetrieveAccepted
    \/ RetrieveFails
    \/ NotReady
    \/ SimulateFails
    \/ BadAnnotation
    \/ Choose
    \/ NoChoice
    \/ \E v \in Validators \ Byzantine : Precommit(v)
    \/ \E x \in Offered : HeaderArrives(x)
    \/ \E v \in Others, x \in InViewHeaders \cup {Nil} : OtherPrevotes(v, x)
    \/ \E d \in DataIDs : DataArrives(d)
    \/ Restart

Spec == Init /\ [][Next]_vars

-----------------------------------------------------------------------------
(* Properties.                                                             *)

\* The data of every block with transactions this process has voted for is
\* ready in the cache and stays so, which is what the driver relies on when
\* the block is committed.
ChosenDataReady == \A x \in chosen : HasTxs(x) => IsReady(cache, x.id)

\* Block data is voted for in the round it was proposed in and in no other:
\* a header that carries a data ID of another round is passed over.
DataChosenInOneRound ==
    \A x, y \in chosen : x.id = y.id => x.h = y.h /\ x.r = y.r

\* When a call ends without a choice, the data of each header of the round
\* that was passed is in the cache or on its way, or its retrieval was
\* refused: no header keeps a later one from being asked for.
NoChoiceMeansAllAsked ==
    pc = "idle" =>
        \A x \in passed :
            Eligible(x) /\ HasTxs(x) => Has(cache, x.id) \/ x.id \in refused

\* In one round no two correct validators precommit different blocks, although
\* each sees only some of the prevotes and the faulty ones show each of them
\* what they like.
PrecommitsAgree ==
    \A v, w \in Validators \ Byzantine :
        precommits[v] \in Headers /\ precommits[w] \in Headers
            => precommits[v] = precommits[w]

\* Marking its own proposal as available never finds an entry in the cache,
\* whatever headers the process has considered before.
NoPanic == ~panicked

=============================================================================
