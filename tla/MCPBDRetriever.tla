--------------------------- MODULE MCPBDRetriever ---------------------------
(***************************************************************************)
(* PBDRetriever on small instances.                                        *)
(***************************************************************************)
EXTENDS PBDRetriever, TLC

\* The channels' capacity is the number of workers.
WorkerCount == Cardinality(Workers)

CONSTANT d3

\* Two annotations name every address, one names only those that do not serve:
\* its data is lost.
SomeUsable == [d \in DataIDs |-> IF d = d3 THEN Addrs \ Serving ELSE Addrs]

=============================================================================
