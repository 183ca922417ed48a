----------------------------- MODULE TxService -----------------------------
(***************************************************************************)
(* The way of a transaction: a client submits it over HTTP or gRPC, the    *)
(* transaction buffer keeps it, this node or another one proposes it, and  *)
(* the driver executes it and moves the buffer on.                         *)
(*                                                                         *)
(* The buffer is gordian's gtxbuf (external): one goroutine that adds a    *)
(* transaction if TxManager.AddTx can execute it behind those pending, and *)
(* on a rebase drops what TxDeleterFunc names and what can no longer be    *)
(* executed.                                                               *)
(*                                                                         *)
(* The application (external) is that of one account: Number gives each     *)
(* transaction its sequence number, and it can be executed only as the     *)
(* next one.  Two transactions with one number exclude each other.         *)
(***************************************************************************)
EXTENDS Driver, SequencesExt

CONSTANTS
    Txs,            \* transactions
    NoTx,           \* the absent one
    Number,         \* their sequence numbers
    MaxBlockTxs     \* bound on the transactions of a block

ASSUME TxAssumption ==
    /\ NoTx \notin Txs
    /\ Number \in [Txs -> Nat \ {0}]
    /\ MaxBlockTxs \in Nat

VARIABLES
    blocks,         \* the transactions of each decided block
    pending,        \* the buffer's transactions, in order
    call,           \* a client's request under way
    accepted,       \* transactions whose client was told so
    proposal        \* this node's proposal after the last decided height

txVars == <<blocks, pending, call, accepted, proposal>>

NoRequest == [pc |-> "none", tx |-> NoTx]

TxTypeOK ==
    /\ blocks \in [Heights -> Seq(Txs)]
    /\ pending \in Seq(Txs)
    /\ call \in [pc : {"none", "simulate", "validate", "add"},
                 tx : Txs \cup {NoTx}]
    /\ accepted \in SUBSET Txs
    /\ proposal \in Seq(Txs)

TxInit ==
    /\ blocks = [h \in Heights |-> <<>>]
    /\ pending = <<>>
    /\ call = NoRequest
    /\ accepted = {}
    /\ proposal = <<>>

-----------------------------------------------------------------------------
(* The application.  A state is the number of transactions executed.       *)

Executable(t, n) == Number[t] = n + 1

\* DeliverBlock: a transaction that cannot be executed has an error for a
\* result, and changes nothing.
Execute(n, txs) ==
    LET state[i \in 0 .. Len(txs)] ==
            IF i = 0 THEN n
            ELSE IF Executable(txs[i], state[i - 1])
            THEN state[i - 1] + 1
            ELSE state[i - 1]
    IN  state[Len(txs)]

\* Every transaction can be executed, in order.
AllExecutable(n, txs) == \A i \in DOMAIN txs : Executable(txs[i], n + i - 1)

\* The application's state behind each height.
AppState[h \in 0 .. MaxHeight] ==
    IF h <= 1 THEN 0 ELSE Execute(AppState[h - 1], blocks[h])

-----------------------------------------------------------------------------
(* Clients.  The HTTP route and the gRPC method to submit a transaction    *)
(* are the same steps.  Simulating and validating happen on the committed  *)
(* state and change nothing; what the application says there is free.      *)

\* Client.BroadcastTxSync simulates before it submits.
BroadcastTxSync(t) ==
    /\ dpc # "down"
    /\ call.pc = "none"
    /\ call' = [pc |-> "simulate", tx |-> t]
    /\ UNCHANGED <<blocks, pending, accepted, proposal>>

SubmitTransaction(t) ==
    /\ dpc # "down"
    /\ call.pc = "none"
    /\ call' = [pc |-> "validate", tx |-> t]
    /\ UNCHANGED <<blocks, pending, accepted, proposal>>

Simulated ==
    /\ call.pc = "simulate"
    /\ call' = [call EXCEPT !.pc = "validate"]
    /\ UNCHANGED <<blocks, pending, accepted, proposal>>

Validated ==
    /\ call.pc = "validate"
    /\ call' = [call EXCEPT !.pc = "add"]
    /\ UNCHANGED <<blocks, pending, accepted, proposal>>

\* The transaction does not decode, or the application answers with an error.
Refused ==
    /\ call.pc \in {"simulate", "validate"}
    /\ call' = NoRequest
    /\ UNCHANGED <<blocks, pending, accepted, proposal>>

BufferState == Execute(AppState[txBase], pending)

\* Buffer.AddTx, which waits until the buffer has its first state: AddTx
\* simulates on the buffer's own state ...
AddTx ==
    /\ call.pc = "add"
    /\ txBase # -1
    /\ Executable(call.tx, BufferState)
    /\ pending' = Append(pending, call.tx)
    /\ accepted' = accepted \cup {call.tx}
    /\ call' = NoRequest
    /\ UNCHANGED <<blocks, proposal>>

\* ... and a failing result is a TxInvalidError.
AddTxInvalid ==
    /\ call.pc = "add"
    /\ txBase # -1
    /\ ~Executable(call.tx, BufferState)
    /\ call' = NoRequest
    /\ UNCHANGED <<blocks, pending, accepted, proposal>>

-----------------------------------------------------------------------------
(* Proposals and blocks.                                                   *)

\* The engine enters a round of the next height, which it does when it has
\* recorded the finalization of the last one, and this node is to propose:
\* EnterRound takes what is buffered.
ProposeBuffered ==
    /\ dpc # "down"
    /\ engFinal = decided
    /\ txBase # -1
    /\ proposal' = pending
    /\ UNCHANGED <<blocks, pending, call, accepted>>

\* Sequences of up to MaxBlockTxs transactions that all execute on state n.
BlocksOn(n) ==
    {txs \in BoundedSeq(Txs, MaxBlockTxs) : AllExecutable(n, txs)}

\* The next block, by whomever: a majority has voted for it, and correct
\* validators vote only for blocks whose transactions all execute.
BlockDecided ==
    /\ \E txs \in BlocksOn(AppState[decided]) :
        /\ (txs # <<>>) <=> (decided + 1 \in DataHeights)
        /\ blocks' = [blocks EXCEPT ![decided + 1] = txs]
    /\ proposal' = <<>>
    /\ UNCHANGED <<pending, call, accepted>>

\* Mutant: the test is negated.
DeletedOthers(t, reject) == t \notin ToSet(reject)

\* TxManager.TxDeleterFunc: the transactions that a block contains.
Deleted(t, reject) == t \in ToSet(reject)

\* Buffer.Rebase: without the transactions of the block, and without those
\* that can no longer be executed behind the ones kept.
Rebased(txs, n, applied) ==
    LET kept[i \in 0 .. Len(txs)] ==
            IF i = 0 THEN <<>>
            ELSE IF /\ ~Deleted(txs[i], applied)
                    /\ Executable(txs[i], n + Len(kept[i - 1]))
            THEN Append(kept[i - 1], txs[i])
            ELSE kept[i - 1]
    IN  kept[Len(txs)]

\* Mutant: the buffer is given the state the block was executed on.
BufferRebasedOnOldState ==
    /\ pending' = Rebased(pending, AppState[cur - 1], blocks[cur])
    /\ UNCHANGED <<blocks, call, accepted, proposal>>

\* With the driver's Rebase, on the state behind the block it has executed.
BufferRebased ==
    /\ pending' = Rebased(pending, AppState[cur], blocks[cur])
    /\ UNCHANGED <<blocks, call, accepted, proposal>>

\* The process dies: buffer, requests and proposal are gone.
BufferLost ==
    /\ pending' = <<>>
    /\ call' = NoRequest
    /\ accepted' = {}
    /\ proposal' = <<>>
    /\ UNCHANGED blocks

TxStep ==
    \/ \E t \in Txs : BroadcastTxSync(t) \/ SubmitTransaction(t)
    \/ Simulated
    \/ Validated
    \/ Refused
    \/ AddTx
    \/ AddTxInvalid
    \/ ProposeBuffered

-----------------------------------------------------------------------------

\* A block this node proposes can be executed to its last transaction on the
\* state behind the block before it: other validators, who simulate it on
\* that state, do not refuse it, and nothing that was executed is proposed
\* again.  The driver must have moved the buffer before the engine hears of
\* the finalization, also for a process that was started again.
OwnProposalExecutes == AllExecutable(AppState[decided], proposal)

\* Between requests, a transaction whose client was told it was accepted is
\* still pending unless it, or another one in its place, has been executed in
\* the committed state: no transaction is lost on the way.  main_test.go:1058
\* expects this for the change of a balance, "since the pending transaction was
\* flushed".
FlushedTxExecuted ==
    dpc \in {"loop", "lag"} =>
        \A t \in accepted \ ToSet(pending) : Number[t] <= AppState[sdkState]

=============================================================================
