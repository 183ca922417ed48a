-------------------------- MODULE ValidatorUpdates --------------------------
(***************************************************************************)
(* How the driver turns the validator updates of a block's execution into  *)
(* the validator set it answers to the engine (the middle part of          *)
(* handleFinalization), on several nodes that finalize the same blocks.    *)
(*                                                                         *)
(* A validator set is a sequence of records.  A public key is a number,    *)
(* compared like its bytes.  The engine is external: it stores each answer *)
(* and declares it as the NextValidatorSet of the next header, so the set  *)
(* a node starts from is the last one it answered.                         *)
(***************************************************************************)
EXTENDS Integers, FiniteSets, SequencesExt

CONSTANTS
    Nodes,
    PubKeys,        \* a set of numbers
    BadKeys,        \* keys that are no ed25519 keys
    Powers,         \* the powers an update may give, int64 in the code
    Width,          \* width of the unsigned powers, 64 in the code
    GenesisUpdates, \* the updates InitGenesis returns, a sequence
    MaxBlocks,      \* bound on the blocks the network decides
    MaxUpdates      \* bound on the updates of a block

ASSUME ConstantsAssumption ==
    /\ PubKeys \subseteq Nat
    /\ BadKeys \subseteq PubKeys
    /\ Powers \subseteq Int
    /\ Width \in Nat
    /\ \A p \in Powers : p < 2^Width
    /\ MaxBlocks \in Nat
    /\ MaxUpdates \in Nat

VARIABLES
    blocks,         \* the updates of the blocks decided so far, in order
    recorded        \* recorded[n]: the validator sets node n has answered

vars == <<blocks, recorded>>

Updates == [key : PubKeys, power : Powers]

Keys(vals) == {vals[i].key : i \in DOMAIN vals}

Distinct(vals) ==
    \A i, j \in DOMAIN vals : vals[i].key = vals[j].key => i = j

\* Update lists as the staking module emits them: one update per key.
UpdateLists == {us \in SeqOf(Updates, MaxUpdates) : Distinct(us)}

\* Genesis gives each of its validators a power; another key than an ed25519
\* key would be a panic in handleInitialization.
ASSUME GenesisAssumption ==
    /\ GenesisUpdates \in Seq(Updates)
    /\ Distinct(GenesisUpdates)
    /\ \A i \in DOMAIN GenesisUpdates :
        GenesisUpdates[i].power > 0 /\ GenesisUpdates[i].key \notin BadKeys

\* The increasing sequence of the members of a finite set of numbers, in a set.
Increasing(S) ==
    {q \in [1 .. Cardinality(S) -> S] :
        /\ \A x \in S : \E i \in DOMAIN q : q[i] = x
        /\ \A i, j \in DOMAIN q : i < j => q[i] < q[j]}

-----------------------------------------------------------------------------
(* handleFinalization, the validator set.                                  *)

\* uint64(vu.Power)
ToUnsigned(p) == p % 2^Width

\* The map valsToUpdate: a later update of a key overwrites an earlier one.
ValsToUpdate(us) ==
    [k \in Keys(us) |->
        ToUnsigned(us[SelectLastInSeq(us, LAMBDA u : u.key = k)].power)]

HasDelete(us) == \E i \in DOMAIN us : us[i].power = 0

\* Whether validator i takes a power from the map.  An entry is deleted from
\* the map when it is used, so the first of two equal keys has it.
TakesEntry(vals, m, i) ==
    /\ vals[i].key \in DOMAIN m
    /\ \A j \in 1 .. (i - 1) : vals[j].key # vals[i].key

Repowered(vals, m) ==
    [i \in DOMAIN vals |->
        IF TakesEntry(vals, m, i)
        THEN [key |-> vals[i].key, power |-> m[vals[i].key]]
        ELSE vals[i]]

\* Mutant: entries are not deleted from the map when they are used.
LeftOverKept(vals, m) == DOMAIN m

\* The keys left in the map after all validators were visited.
LeftOver(vals, m) == DOMAIN m \ Keys(vals)

\* Mutant: Go's order of iteration over a map, any.
AppendOrdersOfMap(ks) == SetToSeqs(ks)

\* The orders in which the remaining keys may be visited: sorted.
AppendOrders(ks) == Increasing(ks)

\* slices.DeleteFunc: without the validators of power zero, in their order.
WithPower(vals) ==
    LET at == CHOOSE q \in Increasing({i \in DOMAIN vals : vals[i].power # 0}) :
                  TRUE
    IN  [i \in DOMAIN at |-> vals[at[i]]]

\* The validator sets updatedVals may end as, for the declared set vals.
UpdatedVals(vals, us) ==
    LET m == ValsToUpdate(us)
        kept == IF HasDelete(us) THEN WithPower(Repowered(vals, m))
                ELSE Repowered(vals, m)
        added(ks) == [i \in DOMAIN ks |-> [key |-> ks[i], power |-> m[ks[i]]]]
    IN  IF us = <<>> THEN {vals}
        ELSE {kept \o added(ks) :
                  ks \in AppendOrders(LeftOver(vals, m) \ BadKeys)}

\* InitChain's answer: the genesis updates, in their order.
GenesisVals ==
    [i \in DOMAIN GenesisUpdates |->
        [key |-> GenesisUpdates[i].key,
         power |-> ToUnsigned(GenesisUpdates[i].power)]]

-----------------------------------------------------------------------------
(* The network and the nodes.                                              *)

\* The power of each key after the updates us, 0 for no validator.
Staked(us, before) ==
    [k \in PubKeys |-> IF k \in Keys(us)
                       THEN (CHOOSE u \in ToSet(us) : u.key = k).power
                       ELSE before[k]]

\* The staking module's own view after the first b blocks.
StakingPowers[b \in 0 .. Len(blocks)] ==
    IF b = 0 THEN Staked(GenesisUpdates, [k \in PubKeys |-> 0])
    ELSE Staked(blocks[b], StakingPowers[b - 1])

Init ==
    /\ blocks = <<>>
    /\ recorded = [n \in Nodes |-> <<GenesisVals>>]

\* Execution removes only validators there are, and never returns a negative
\* power.
Emitted(us, staking) ==
    \A i \in DOMAIN us :
        /\ us[i].power >= 0
        /\ us[i].power = 0 => staking[us[i].key] > 0

\* The network decides a block.  (External.)
Decide(us) ==
    /\ Len(blocks) < MaxBlocks
    /\ Emitted(us, StakingPowers[Len(blocks)])
    /\ blocks' = Append(blocks, us)
    /\ UNCHANGED recorded

\* Mutant: the declared set is not cloned, and changes with the new powers.
FinalizeInPlace(n) ==
    /\ Len(recorded[n]) <= Len(blocks)
    /\ LET us == blocks[Len(recorded[n])]
           vals == Last(recorded[n])
       IN  \E new \in UpdatedVals(vals, us) :
               recorded' = [recorded EXCEPT ![n] =
                   Append(Front(@) \o <<Repowered(vals, ValsToUpdate(us))>>, new)]
    /\ UNCHANGED blocks

\* Node n finalizes the next decided block and the engine records the answer.
Finalize(n) ==
    /\ Len(recorded[n]) <= Len(blocks)
    /\ \E new \in UpdatedVals(Last(recorded[n]), blocks[Len(recorded[n])]) :
           recorded' = [recorded EXCEPT ![n] = Append(@, new)]
    /\ UNCHANGED blocks

Next ==
    \/ \E us \in UpdateLists : Decide(us)
    \/ \E n \in Nodes : Finalize(n)

Spec == Init /\ [][Next]_vars

-----------------------------------------------------------------------------
(* Properties.                                                             *)

\* vals gives each key that has a power in the staking module's view that
\* power, once, and holds nothing else.
Follows(vals, staking) ==
    /\ Distinct(vals)
    /\ Keys(vals) = {k \in PubKeys \ BadKeys : staking[k] # 0}
    /\ \A i \in DOMAIN vals : vals[i].power = staking[vals[i].key]

\* Every validator set a node has answered follows the staking module's view
\* after the same blocks: nothing is lost or doubled between the map, the
\* in-place update, the deletion and the appended validators, and no validator
\* has power zero.
PowersFollowStaking ==
    \A n \in Nodes : \A b \in DOMAIN recorded[n] :
        Follows(recorded[n][b], StakingPowers[b - 1])

\* A node that has a block to finalize has one answer to it, whatever order
\* Go's maps have, and is never without.
OneAnswer ==
    \A n \in Nodes :
        Len(recorded[n]) <= Len(blocks) =>
            \E new : UpdatedVals(Last(recorded[n]), blocks[Len(recorded[n])])
                         = {new}

\* "we ensure all participating validators agree on the order of the new
\* ones": two nodes' answers for the same height are the same sequence, also
\* the ones given earlier, which later updates must not change.
NodesAgree ==
    \A n, m \in Nodes :
        IsPrefix(recorded[n], recorded[m]) \/ IsPrefix(recorded[m], recorded[n])

=============================================================================
