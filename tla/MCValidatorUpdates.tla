------------------------- MODULE MCValidatorUpdates -------------------------
(***************************************************************************)
(* ValidatorUpdates on a small instance.                                   *)
(***************************************************************************)
EXTENDS ValidatorUpdates

\* Genesis has one validator, so that two may join in one block.
OneValidator == <<[key |-> 2, power |-> 1]>>

=============================================================================
