-------------------------- MODULE MCBlockDataCodec --------------------------
(***************************************************************************)
(* BlockDataCodec on a small instance.                                     *)
(***************************************************************************)
EXTENDS BlockDataCodec

CONSTANTS a, b

\* Two lists of the same length, one that compresses well, and one whose
\* length does not fit the data ID.
SomeLists == {<<a>>, <<b>>, <<a, a>>, <<a, b, b>>}

SomeRawLen == [l \in SomeLists |-> CASE Len(l) = 1 -> 4
                                     [] Len(l) = 2 -> 7
                                     [] OTHER -> 10]

\* Only the list of repeated transactions gets shorter.
SomeSnappyLen == [l \in SomeLists |-> IF l = <<a, a>> THEN 4
                                       ELSE SomeRawLen[l] + 1]

=============================================================================
