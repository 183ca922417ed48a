---------------------------- MODULE RequestCache ----------------------------
(***************************************************************************)
(* gsbd.RequestCache: the in-memory map from data IDs to in-flight block   *)
(* data requests that the catchup client, the proposal block data          *)
(* retriever, the consensus strategy and the driver share.                 *)
(*                                                                         *)
(* An entry is modelled by the state of its Ready channel: "inflight" when *)
(* the channel is still open, "ready" once it is closed.  Transactions and *)
(* encoded bytes are a function of the data ID (the ID holds their hash)   *)
(* and are left out.  Every method holds the mutex throughout, so each one *)
(* is a single atomic operator on the map.                                 *)
(***************************************************************************)

CONSTANT DataIDs        \* the non-empty block data IDs that can occur

EntryStates == {"absent", "inflight", "ready"}

\* NewRequestCache
NewRequestCache == [d \in DataIDs |-> "absent"]

\* The ok result of Get.
Has(rs, d) == rs[d] # "absent"

\* Whether a non-blocking read of the entry's Ready channel succeeds.
IsReady(rs, d) == rs[d] = "ready"

\* SetInFlight and SetImmediatelyAvailable panic when the ID has an entry.
SetPanics(rs, d) == Has(rs, d)

SetInFlight(rs, d) == [rs EXCEPT ![d] = "inflight"]

SetImmediatelyAvailable(rs, d) == [rs EXCEPT ![d] = "ready"]

=============================================================================
