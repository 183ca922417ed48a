--------------------------- MODULE BlockDataCodec ---------------------------
(***************************************************************************)
(* How block data travels (package gsbd): the proposer encodes its         *)
(* transactions into a frame and serves it under their data ID; a          *)
(* validator decodes the frame while it arrives and keeps a copy of what   *)
(* it has read; that copy is stored, served to peers that catch up,        *)
(* decoded and copied again, and so on, hop by hop.                        *)
(*                                                                         *)
(* A stream is a sequence of symbols: the header byte, the size (its       *)
(* varint is one symbol) and the bytes of the body, each of which names    *)
(* the body it belongs to.  The bodies that occur are the encodings of     *)
(* transaction lists, plain or compressed by snappy (external).  The hash  *)
(* of a list is the list.                                                  *)
(***************************************************************************)
EXTENDS Integers, SequencesExt

CONSTANTS
    TxLists,        \* the non-empty transaction lists that occur
    RawLen,         \* RawLen[l]: length of l's JSON encoding
    SnappyLen,      \* SnappyLen[l]: length of its compressed form
    LenWidth,       \* width of a data ID's length, 32 in the code
    SnappySlack,    \* snappy.MaxEncodedLen(n) - n - n/6, 32 in the library
    BufSize,        \* size of the buffer the size is read through
    MaxJunk,        \* bound on surplus bytes a faulty provider sends
    MaxHops         \* bound on the number of times the data is passed on

ASSUME ConstantsAssumption ==
    /\ \A l \in TxLists : l # <<>>
    /\ RawLen \in [TxLists -> Nat \ {0}]
    /\ SnappyLen \in [TxLists -> Nat \ {0}]
    /\ LenWidth \in Nat /\ SnappySlack \in Nat /\ MaxJunk \in Nat
    /\ BufSize \in Nat \ {0}
    /\ MaxHops \in Nat \ {0}

VARIABLES
    id,             \* the data ID that is asked for
    honest,         \* whether the first provider serves what it encoded
    hop,            \* how many times the data has been passed on
    src,            \* all that the provider of this hop would send
    arrived,        \* how many symbols of it have arrived
    ended,          \* whether the stream has ended
    cut,            \* whether some stream ended early
    pos,            \* how many symbols the decoder has read, and copied
    dpc,            \* where Decode is
    kind,           \* the header byte read
    size,           \* the size read
    buf,            \* read with the size and not used yet
    body            \* the bytes of the body so far

streamVars == <<src, arrived, ended, cut>>
decVars == <<pos, dpc, kind, size, buf, body>>
vars == <<id, honest, hop, streamVars, decVars>>

-----------------------------------------------------------------------------
(* Encoding.                                                               *)

Kinds == {"plain", "snappy"}
BodyLen(k, l) == IF k = "plain" THEN RawLen[l] ELSE SnappyLen[l]

\* The body bytes of list l.
BodyOf(k, l) ==
    [i \in 1 .. BodyLen(k, l) |-> [kind |-> k, of |-> l, at |-> i]]

\* DataID: the number of transactions, the length as a uint32, the hash.
DataID(l) ==
    [nTxs |-> Len(l), dataLen |-> RawLen[l] % 2^LenWidth, txsHash |-> l]

\* A frame with header k, size n and l's body.
SizedFrame(k, n, l) == <<k, n>> \o BodyOf(k, l)
Frame(k, l) == SizedFrame(k, BodyLen(k, l), l)

\* EncodeBlockData: compressed if that saves bytes.
EncodeBlockData(l) ==
    IF SnappyLen[l] < RawLen[l] THEN Frame("snappy", l) ELSE Frame("plain", l)

JunkByte == [kind |-> "junk", of |-> <<>>, at |-> 0]
Junk == [i \in 1 .. MaxJunk |-> JunkByte]

\* What a provider that is broken may send in place of the encoding of l:
\* surplus bytes, other data, another compression, a wrong size or header.
FaultyStreams(l) ==
    {EncodeBlockData(l) \o Junk}
    \cup {Frame(k, o) : k \in Kinds, o \in TxLists}
    \cup {SizedFrame(k, n, o) :
              k \in Kinds, n \in {0, RawLen[l]}, o \in TxLists}
    \cup {<<"unknown", 1, JunkByte>>}

-----------------------------------------------------------------------------
(* The stream.                                                             *)

Init ==
    \E l \in TxLists :
        /\ id = DataID(l)
        /\ \/ honest = TRUE /\ src = EncodeBlockData(l)
           \/ honest = FALSE /\ src \in FaultyStreams(l)
        /\ hop = 1
        /\ arrived = 0 /\ ended = FALSE /\ cut = FALSE
        /\ pos = 0 /\ dpc = "header"
        /\ kind = "none" /\ size = 0
        /\ buf = <<>> /\ body = <<>>

\* More of the stream arrives ...
Arrive(n) ==
    /\ ~ended
    /\ arrived + n <= Len(src)
    /\ arrived' = arrived + n
    /\ UNCHANGED <<id, honest, hop, src, ended, cut, decVars>>

\* ... or it ends, early if the connection breaks.
End ==
    /\ ~ended
    /\ ended' = TRUE
    /\ cut' = (cut \/ arrived < Len(src))
    /\ UNCHANGED <<id, honest, hop, src, arrived, decVars>>

-----------------------------------------------------------------------------
(* Decode.                                                                 *)

MaxEncodedLen(n) == SnappySlack + n + n \div 6

Unread == SubSeq(src, pos + 1, arrived)

Fail ==
    /\ dpc' = "failed"
    /\ UNCHANGED <<id, honest, hop, streamVars, pos, kind, size, buf, body>>

\* The first byte.
ReadHeader ==
    /\ dpc = "header"
    /\ Unread # <<>>
    /\ pos' = pos + 1
    /\ kind' = Head(Unread)
    /\ dpc' = IF Head(Unread) \in Kinds THEN "size" ELSE "failed"
    /\ UNCHANGED <<id, honest, hop, streamVars, size, buf, body>>

\* Whether a size is acceptable for the data ID.
SizeFits(k, n) ==
    /\ n > 0
    /\ IF k = "plain" THEN n = id.dataLen ELSE n <= MaxEncodedLen(id.dataLen)

\* Mutant: what was read into the buffer behind the size is forgotten.
ReadSizeOnly(n) ==
    LET got == SubSeq(Unread, 1, n) IN
    /\ dpc = "size"
    /\ n <= Len(Unread)
    /\ pos' = pos + n
    /\ size' = Head(got)
    /\ buf' = <<>>
    /\ dpc' = IF SizeFits(kind, Head(got)) THEN "body" ELSE "failed"
    /\ UNCHANGED <<id, honest, hop, streamVars, kind, body>>

\* The size, through a buffered reader that may read n symbols at once.
ReadSize(n) ==
    LET got == SubSeq(Unread, 1, n) IN
    /\ dpc = "size"
    /\ n <= Len(Unread)
    /\ pos' = pos + n
    /\ size' = Head(got)
    /\ buf' = Tail(got)
    /\ dpc' = IF SizeFits(kind, Head(got)) THEN "body" ELSE "failed"
    /\ UNCHANGED <<id, honest, hop, streamVars, kind, body>>

Missing == size - Len(body)

\* The body, first from the buffer ...
ReadBuffered ==
    LET n == IF Len(buf) < Missing THEN Len(buf) ELSE Missing IN
    /\ dpc = "body"
    /\ buf # <<>> /\ Missing > 0
    /\ body' = body \o SubSeq(buf, 1, n)
    /\ buf' = SubSeq(buf, n + 1, Len(buf))
    /\ UNCHANGED <<id, honest, hop, streamVars, pos, dpc, kind, size>>

\* ... then from the stream, n symbols at once.
ReadStream(n) ==
    /\ dpc = "body"
    /\ buf = <<>> /\ n <= Missing
    /\ n <= Len(Unread)
    /\ pos' = pos + n
    /\ body' = body \o SubSeq(Unread, 1, n)
    /\ UNCHANGED <<id, honest, hop, streamVars, dpc, kind, size, buf>>

\* The stream ends before the decoder has all it needs.
ReadEOF ==
    /\ dpc \in {"header", "size", "body"}
    /\ ended /\ Unread = <<>>
    /\ dpc = "body" => buf = <<>> /\ Missing > 0
    /\ Fail

\* The lists a complete body decodes to, none or one: a plain body is parsed
\* as it is, a compressed one must have the length of the data ID inside.
Decoded ==
    {l \in TxLists : /\ body = BodyOf(kind, l)
                     /\ kind = "snappy" => RawLen[l] = id.dataLen}

\* Mutant: the number of transactions is compared, their hash is not.
MatchesCountOnly(l) == Len(l) = id.nTxs

\* The checks of decodeRaw.
Matches(l) == Len(l) = id.nTxs /\ l = id.txsHash

\* All of the body is there: decompress, parse and compare.
DecodeRaw ==
    /\ dpc = "body"
    /\ Missing = 0
    /\ dpc' = IF \E l \in Decoded : Matches(l) THEN "done" ELSE "failed"
    /\ UNCHANGED <<id, honest, hop, streamVars, pos, kind, size, buf, body>>

\* Mutant: the copy is cut to the length in the data ID.
PassOnTruncated ==
    /\ dpc = "done"
    /\ hop < MaxHops
    /\ hop' = hop + 1
    /\ src' = SubSeq(src, 1, IF pos < id.dataLen THEN pos ELSE id.dataLen)
    /\ arrived' = Len(src') /\ ended' = TRUE
    /\ pos' = 0 /\ dpc' = "header"
    /\ kind' = "none" /\ size' = 0 /\ buf' = <<>> /\ body' = <<>>
    /\ UNCHANGED <<id, honest, cut>>

\* The copy of what was read is kept, and later served to a peer: by the data
\* host, as one value that arrives whole or not at all.
PassOn ==
    /\ dpc = "done"
    /\ hop < MaxHops
    /\ hop' = hop + 1
    /\ src' = SubSeq(src, 1, pos)
    /\ arrived' = pos /\ ended' = TRUE
    /\ pos' = 0 /\ dpc' = "header"
    /\ kind' = "none" /\ size' = 0 /\ buf' = <<>> /\ body' = <<>>
    /\ UNCHANGED <<id, honest, cut>>

Next ==
    \/ \E n \in 1 .. Len(src) : Arrive(n)
    \/ End
    \/ ReadHeader
    \/ \E n \in 1 .. BufSize : ReadSize(n)
    \/ ReadBuffered
    \/ \E n \in 1 .. Len(src) : ReadStream(n)
    \/ ReadEOF
    \/ DecodeRaw
    \/ PassOn

Spec == Init /\ [][Next]_vars

-----------------------------------------------------------------------------
(* Properties.                                                             *)

TypeOK ==
    /\ id \in {DataID(l) : l \in TxLists}
    /\ hop \in 1 .. MaxHops
    /\ arrived \in 0 .. Len(src)
    /\ pos \in 0 .. arrived
    /\ dpc \in {"header", "size", "body", "done", "failed"}
    /\ dpc = "body" => Missing >= 0
    /\ Len(buf) < BufSize

\* Whatever a provider sends and however it arrives, Decode returns the
\* transactions whose data ID was asked for or none.
DecodedIsAskedFor ==
    dpc = "done" =>
        \E l \in TxLists : body = BodyOf(kind, l) /\ DataID(l) = id

\* What EncodeBlockData wrote is never refused, in whatever pieces it arrives,
\* as long as the stream is not cut and the length fits the data ID: the
\* sizes the two sides write and expect, plain or compressed, agree.
EncodedIsAccepted ==
    honest /\ ~cut /\ RawLen[id.txsHash] < 2^LenWidth => dpc # "failed"

\* A copy that a validator made while decoding is accepted by every later
\* peer, also when the first provider sent surplus bytes that were copied:
\* block data never becomes unreadable by being passed on.
CopyIsAccepted == hop > 1 => dpc # "failed"

=============================================================================
