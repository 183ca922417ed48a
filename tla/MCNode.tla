------------------------------- MODULE MCNode -------------------------------
(***************************************************************************)
(* Node on small instances.                                                *)
(***************************************************************************)
EXTENDS Node, TLC

CONSTANTS t1, u1, t2

\* t1 and u1 exclude each other, t2 comes after either.
Sequence == (t1 :> 1) @@ (u1 :> 1) @@ (t2 :> 2)

\* A behaviour has peers that read headers and blocks, or clients that submit
\* transactions: neither reads what the other changes.  No step of Fairness
\* leaves these states.
PeersOrClients ==
    \/ stream = NoStream /\ headers = 0
    \/ pending = <<>> /\ call = NoRequest

=============================================================================
