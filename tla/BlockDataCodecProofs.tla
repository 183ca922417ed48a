------------------------ MODULE BlockDataCodecProofs ------------------------
(***************************************************************************)
(* Proofs about BlockDataCodec, for any transaction lists, any compression *)
(* of them and any sizes of buffer and data ID.                            *)
(*                                                                         *)
(* What the decoder holds is a part of the stream: header, size, body and  *)
(* unused bytes, in this order, are the first pos symbols (Shape).  A      *)
(* stream is Good if it starts with what the data ID asks for.  Decoding   *)
(* depends on nothing else, and the first pos symbols of a stream that was *)
(* decoded are Good, whatever the stream was.                              *)
(***************************************************************************)
EXTENDS BlockDataCodec, TLAPS

Bytes == {JunkByte} \cup [kind : Kinds, of : TxLists, at : Nat]

Symbols == Kinds \cup {"unknown"} \cup Nat \cup Bytes

\* A stream has a header and a size.
Stream(s) == s \in Seq(Symbols) /\ Len(s) >= 2 /\ s[2] \in Nat

\* The first symbols read are header, size, body and buffer.
ReadSoFar ==
    /\ kind = src[1] /\ kind \in Kinds
    /\ size = src[2] /\ SizeFits(kind, size)
    /\ Len(body) <= size
    /\ pos = 2 + Len(body) + Len(buf)
    /\ \A i \in 1 .. Len(body) : body[i] = src[2 + i]
    /\ \A i \in 1 .. Len(buf) : buf[i] = src[2 + Len(body) + i]

\* What the decoder does not change.
Setting ==
    /\ id.txsHash \in TxLists /\ id = DataID(id.txsHash)
    /\ hop \in 1 .. MaxHops
    /\ Stream(src)

Shape ==
    /\ Setting
    /\ arrived \in 0 .. Len(src)
    /\ pos \in 0 .. arrived
    /\ dpc \in {"header", "size", "body", "done", "failed"}
    /\ buf \in Seq(Symbols) /\ body \in Seq(Symbols)
    /\ Len(buf) < BufSize
    /\ dpc = "header" => pos = 0
    /\ dpc = "size" => pos = 1 /\ kind = src[1] /\ kind \in Kinds
    /\ dpc \in {"header", "size"} => buf = <<>> /\ body = <<>>
    /\ dpc \in {"body", "done"} => ReadSoFar
    /\ dpc = "done" =>
        /\ Len(body) = size
        /\ \E l \in Decoded : Matches(l)

\* The stream starts with what the data ID asks for.
Good(s) ==
    /\ Stream(s)
    /\ s[1] \in Kinds /\ SizeFits(s[1], s[2])
    /\ Len(s) >= 2 + s[2]
    /\ \E l \in TxLists :
        /\ Matches(l)
        /\ s[1] = "snappy" => RawLen[l] = id.dataLen
        /\ BodyOf(s[1], l) = [i \in 1 .. s[2] |-> s[2 + i]]

\* The length of what is asked for fits the data ID.  The provers know nothing
\* of powers: what they need is an assumption.
WidthIsNat == 2^LenWidth \in Nat
Fits == WidthIsNat /\ RawLen[id.txsHash] < 2^LenWidth

\* Streams that nothing is wrong with: copies, and encodings that are not cut.
Trusted == hop > 1 \/ (honest /\ ~cut /\ Fits)

TrustInv ==
    /\ hop > 1 => ended
    /\ Trusted => /\ Good(src)
                  /\ ended => arrived = Len(src)
                  /\ dpc # "failed"

-----------------------------------------------------------------------------
(* Streams.                                                                *)

\* What a header, a size and a body make.
LEMMA Framed ==
    ASSUME NEW k \in Kinds, NEW o \in TxLists, NEW n \in Nat
    PROVE  LET s == SizedFrame(k, n, o) IN
           /\ Stream(s)
           /\ Len(s) = 2 + BodyLen(k, o)
           /\ s[1] = k /\ s[2] = n
           /\ \A i \in 1 .. BodyLen(k, o) : s[2 + i] = BodyOf(k, o)[i]
<1>1. BodyLen(k, o) \in Nat
  BY ConstantsAssumption DEF BodyLen
<1>2. BodyOf(k, o) \in Seq(Symbols) /\ Len(BodyOf(k, o)) = BodyLen(k, o)
  <2>1. \A i \in 1 .. BodyLen(k, o) :
            [kind |-> k, of |-> o, at |-> i] \in Symbols
    BY <1>1 DEF Symbols, Bytes
  <2> QED
    BY <1>1, <2>1 DEF BodyOf
<1>3. <<k, n>> \in Seq(Symbols) /\ Len(<<k, n>>) = 2
  BY DEF Symbols
<1> QED
  BY <1>1, <1>2, <1>3 DEF Stream, SizedFrame

LEMMA FrameIsStream ==
    ASSUME NEW k \in Kinds, NEW o \in TxLists
    PROVE  /\ BodyLen(k, o) \in Nat \ {0}
           /\ Stream(Frame(k, o))
           /\ Len(Frame(k, o)) = 2 + BodyLen(k, o)
           /\ Frame(k, o)[1] = k /\ Frame(k, o)[2] = BodyLen(k, o)
           /\ \A i \in 1 .. BodyLen(k, o) :
                  Frame(k, o)[2 + i] = BodyOf(k, o)[i]
<1>1. BodyLen(k, o) \in Nat \ {0}
  BY ConstantsAssumption DEF BodyLen
<1> QED
  BY <1>1, Framed DEF Frame

LEMMA EncodingIsStream ==
    ASSUME NEW l \in TxLists
    PROVE  Stream(EncodeBlockData(l))
<1>1. "plain" \in Kinds /\ "snappy" \in Kinds
  BY DEF Kinds
<1> QED
  BY <1>1, FrameIsStream DEF EncodeBlockData

LEMMA FaultyIsStream ==
    ASSUME NEW l \in TxLists, NEW s \in FaultyStreams(l)
    PROVE  Stream(s)
<1> USE ConstantsAssumption
<1>1. CASE s = EncodeBlockData(l) \o Junk
  <2>1. JunkByte \in Symbols
    BY DEF JunkByte, Symbols, Bytes
  <2>2. Junk \in Seq(Symbols)
    BY <2>1 DEF Junk
  <2> QED
    BY <1>1, <2>2, EncodingIsStream DEF Stream
<1>2. CASE s \in {Frame(k, o) : k \in Kinds, o \in TxLists}
  BY <1>2, FrameIsStream
<1>3. CASE s \in {SizedFrame(k, n, o) :
                      k \in Kinds, n \in {0, RawLen[l]}, o \in TxLists}
  <2>1. \A n \in {0, RawLen[l]} : n \in Nat
    OBVIOUS
  <2> QED
    BY <1>3, <2>1, Framed
<1>4. CASE s = <<"unknown", 1, JunkByte>>
  <2>1. "unknown" \in Symbols /\ 1 \in Symbols /\ JunkByte \in Symbols
    BY DEF Symbols, Bytes, JunkByte
  <2> QED
    BY <1>4, <2>1 DEF Stream
<1> QED
  BY <1>1, <1>2, <1>3, <1>4 DEF FaultyStreams

\* What has arrived and is not read yet.
LEMMA UnreadIs ==
    ASSUME Shape
    PROVE  /\ Unread \in Seq(Symbols)
           /\ Len(Unread) = arrived - pos
           /\ \A i \in 1 .. Len(Unread) : Unread[i] = src[pos + i]
  BY DEF Shape, Setting, Stream, Unread

-----------------------------------------------------------------------------
(* What the decoder holds.                                                 *)

LEMMA InitShape == Init => Shape
<1> SUFFICES ASSUME NEW l \in TxLists, id = DataID(l), Init
             PROVE  Shape
  BY DEF Init
<1>1. id.txsHash = l
  BY DEF DataID
<1>2. Stream(src)
  <2>1. \E o \in TxLists :
            src = EncodeBlockData(o) \/ src \in FaultyStreams(o)
    BY DEF Init
  <2> QED
    BY <2>1, EncodingIsStream, FaultyIsStream
<1> QED
  BY <1>1, <1>2, ConstantsAssumption DEF Init, Shape, Setting, Stream, DataID

\* The decoder alone moves: what it holds stays a part of the stream.
LEMMA SettingKept ==
    ASSUME Setting, UNCHANGED <<id, hop, src>>
    PROVE  Setting'
  BY DEF Setting, Stream, DataID

LEMMA ReadSizeShape ==
    ASSUME Shape, NEW n \in 1 .. BufSize, ReadSize(n)
    PROVE  Shape'
<1> DEFINE got == SubSeq(Unread, 1, n)
<1>1. /\ got \in Seq(Symbols) /\ Len(got) = n
      /\ \A i \in 1 .. n : got[i] = src[pos + i]
  BY UnreadIs DEF ReadSize
<1>2. pos = 1 /\ kind = src[1] /\ kind \in Kinds /\ body = <<>>
  BY DEF Shape, ReadSize
<1>3. Head(got) = src[2]
  BY <1>1, <1>2
<1>4. /\ Tail(got) \in Seq(Symbols) /\ Len(Tail(got)) = n - 1
      /\ \A i \in 1 .. n - 1 : Tail(got)[i] = src[2 + i]
  <2> HIDE DEF got
  <2>1. /\ Tail(got) \in Seq(Symbols) /\ Len(Tail(got)) = n - 1
        /\ \A i \in 1 .. n - 1 : Tail(got)[i] = got[i + 1]
    BY <1>1, ConstantsAssumption
  <2>2. \A i \in 1 .. n - 1 : i + 1 \in 1 .. n
    BY ConstantsAssumption
  <2> QED
    BY <1>1, <1>2, <2>1, <2>2
<1>5. pos' = 1 + n /\ n <= arrived - 1 /\ size' = src[2] /\ buf' = Tail(got)
      /\ dpc' = IF SizeFits(kind, src[2]) THEN "body" ELSE "failed"
  BY <1>2, <1>3, UnreadIs DEF ReadSize, Shape
<1>6. UNCHANGED <<id, hop, src, arrived, kind, body>>
  BY DEF ReadSize, streamVars
<1>7. SizeFits(kind, src[2])' = SizeFits(kind, src[2])
  BY <1>6 DEF SizeFits
<1> HIDE DEF got
<1>8. CASE dpc' = "body"
  <2>1. ReadSoFar'
    BY <1>2, <1>4, <1>5, <1>6, <1>7, <1>8 DEF ReadSoFar, Shape, Setting, Stream, SizeFits
  <2> QED
    BY <1>2, <1>4, <1>5, <1>6, <1>8, <2>1, SettingKept, ConstantsAssumption DEF Shape
<1>9. CASE dpc' = "failed"
  BY <1>2, <1>4, <1>5, <1>6, <1>9, SettingKept, ConstantsAssumption DEF Shape
<1> QED
  BY <1>5, <1>8, <1>9

LEMMA ReadBufferedShape ==
    ASSUME Shape, ReadBuffered
    PROVE  Shape'
<1> DEFINE n == IF Len(buf) < Missing THEN Len(buf) ELSE Missing
<1>1. ReadSoFar /\ dpc = "body" /\ size \in Nat
      /\ buf \in Seq(Symbols) /\ body \in Seq(Symbols)
  BY DEF Shape, Setting, ReadBuffered, ReadSoFar, Stream
<1>2. n \in 1 .. Len(buf) /\ Len(body) + n <= size
  BY <1>1 DEF Missing, ReadBuffered
<1>3. body' = body \o SubSeq(buf, 1, n) /\ buf' = SubSeq(buf, n + 1, Len(buf))
  BY DEF ReadBuffered
<1>4. UNCHANGED <<id, hop, src, arrived, pos, dpc, kind, size>>
  BY DEF ReadBuffered, streamVars
<1> HIDE DEF n
<1>5. /\ body' \in Seq(Symbols) /\ Len(body') = Len(body) + n
      /\ \A i \in 1 .. Len(body) : body'[i] = body[i]
      /\ \A i \in Len(body) + 1 .. Len(body) + n :
            body'[i] = buf[i - Len(body)]
  BY <1>1, <1>2, <1>3
<1>6. /\ buf' \in Seq(Symbols) /\ Len(buf') = Len(buf) - n
      /\ \A i \in 1 .. Len(buf) - n : buf'[i] = buf[n + i]
  BY <1>1, <1>2, <1>3
<1>7. ReadSoFar'
  <2>1. \A i \in 1 .. Len(body') : body'[i] = src[2 + i]
    <3> SUFFICES ASSUME NEW i \in 1 .. Len(body')
                 PROVE  body'[i] = src[2 + i]
      OBVIOUS
    <3>1. CASE i <= Len(body)
      BY <3>1, <1>1, <1>2, <1>5 DEF ReadSoFar
    <3>2. CASE i > Len(body)
      <4>1. i - Len(body) \in 1 .. Len(buf)
        BY <3>2, <1>1, <1>2, <1>5
      <4>2. buf[i - Len(body)] = src[2 + Len(body) + (i - Len(body))]
        BY <4>1, <1>1 DEF ReadSoFar
      <4> QED
        BY <4>1, <4>2, <3>2, <1>1, <1>2, <1>5
    <3> QED
      BY <3>1, <3>2, <1>1, <1>2, <1>5
  <2>2. \A i \in 1 .. Len(buf') : buf'[i] = src[2 + Len(body') + i]
    <3> SUFFICES ASSUME NEW i \in 1 .. Len(buf')
                 PROVE  buf'[i] = src[2 + Len(body') + i]
      OBVIOUS
    <3>1. n + i \in 1 .. Len(buf)
      BY <1>1, <1>2, <1>6
    <3>2. buf[n + i] = src[2 + Len(body) + (n + i)]
      BY <3>1, <1>1 DEF ReadSoFar
    <3> QED
      BY <3>1, <3>2, <1>1, <1>2, <1>5, <1>6
  <2>3. SizeFits(kind, size)'
    BY <1>1, <1>4 DEF ReadSoFar, SizeFits
  <2> QED
    BY <2>1, <2>2, <2>3, <1>1, <1>2, <1>4, <1>5, <1>6 DEF ReadSoFar
<1> QED
  BY <1>1, <1>2, <1>4, <1>5, <1>6, <1>7, SettingKept,
     ConstantsAssumption DEF Shape

LEMMA ReadStreamShape ==
    ASSUME Shape, NEW n \in 1 .. Len(src), ReadStream(n)
    PROVE  Shape'
<1>1. /\ ReadSoFar /\ dpc = "body" /\ size \in Nat /\ buf = <<>>
      /\ body \in Seq(Symbols)
  BY DEF Shape, Setting, ReadStream, ReadSoFar, Stream
<1>2. Len(body) + n <= size /\ n <= arrived - pos
  BY <1>1, UnreadIs DEF Missing, ReadStream
<1>3. body' = body \o SubSeq(Unread, 1, n) /\ pos' = pos + n
  BY DEF ReadStream
<1>4. UNCHANGED <<id, hop, src, arrived, dpc, kind, size, buf>>
  BY DEF ReadStream, streamVars
<1>5. /\ body' \in Seq(Symbols) /\ Len(body') = Len(body) + n
      /\ \A i \in 1 .. Len(body) : body'[i] = body[i]
      /\ \A i \in Len(body) + 1 .. Len(body) + n :
            body'[i] = Unread[i - Len(body)]
  BY <1>1, <1>2, <1>3, UnreadIs
<1>6. pos = 2 + Len(body) /\ pos \in 0 .. arrived /\ arrived \in 0 .. Len(src)
  BY <1>1 DEF ReadSoFar, Shape
<1>7. ReadSoFar'
  <2>1. \A i \in 1 .. Len(body') : body'[i] = src[2 + i]
    <3> SUFFICES ASSUME NEW i \in 1 .. Len(body')
                 PROVE  body'[i] = src[2 + i]
      OBVIOUS
    <3>1. CASE i <= Len(body)
      BY <3>1, <1>1, <1>2, <1>5 DEF ReadSoFar
    <3>2. CASE i > Len(body)
      <4>1. i - Len(body) \in 1 .. Len(Unread)
        BY <3>2, <1>1, <1>2, <1>5, UnreadIs
      <4>2. Unread[i - Len(body)] = src[pos + (i - Len(body))]
        BY <4>1, UnreadIs
      <4> QED
        BY <4>1, <4>2, <3>2, <1>1, <1>2, <1>5, <1>6
    <3> QED
      BY <3>1, <3>2, <1>1, <1>2, <1>5
  <2>3. SizeFits(kind, size)'
    BY <1>1, <1>4 DEF ReadSoFar, SizeFits
  <2> QED
    BY <2>1, <2>3, <1>1, <1>2, <1>3, <1>4, <1>5, <1>6 DEF ReadSoFar
<1> QED
  BY <1>1, <1>2, <1>3, <1>4, <1>5, <1>6, <1>7, SettingKept,
     ConstantsAssumption DEF Shape

LEMMA DecodeRawShape ==
    ASSUME Shape, DecodeRaw
    PROVE  Shape'
<1>1. ReadSoFar /\ Len(body) = size
  BY DEF Shape, Setting, DecodeRaw, Missing, ReadSoFar, Stream
<1>2. UNCHANGED <<id, hop, src, arrived, pos, kind, size, buf, body>>
  BY DEF DecodeRaw, streamVars
<1>3. ReadSoFar'
  BY <1>1, <1>2 DEF ReadSoFar, SizeFits
<1>4. (\E l \in Decoded : Matches(l))' = (\E l \in Decoded : Matches(l))
  BY <1>2 DEF Decoded, Matches
<1>5. dpc' = IF \E l \in Decoded : Matches(l) THEN "done" ELSE "failed"
  BY DEF DecodeRaw
<1> QED
  BY <1>1, <1>2, <1>3, <1>4, <1>5, SettingKept DEF Shape

\* What a decoder has read is a frame of the data asked for.
LEMMA ReadIsGood ==
    ASSUME Shape, dpc = "done"
    PROVE  /\ Good(SubSeq(src, 1, pos))
           /\ Len(SubSeq(src, 1, pos)) = pos
<1> DEFINE s == SubSeq(src, 1, pos)
<1>1. ReadSoFar /\ Len(body) = size /\ size \in Nat /\ Stream(src)
      /\ pos \in 2 .. Len(src) /\ pos >= 2 + size
      /\ body \in Seq(Symbols)
  BY DEF Shape, Setting, ReadSoFar, Stream
<1>2. /\ s \in Seq(Symbols) /\ Len(s) = pos
      /\ \A i \in 1 .. pos : s[i] = src[i]
  BY <1>1 DEF Stream
<1> HIDE DEF s
<1>3. s[1] = kind /\ s[2] = size
  BY <1>1, <1>2 DEF ReadSoFar
<1>4. Stream(s)
  BY <1>1, <1>2, <1>3 DEF Stream
<1>5. body = [i \in 1 .. size |-> s[2 + i]]
  <2>1. \A i \in 1 .. size : body[i] = s[2 + i]
    BY <1>1, <1>2 DEF ReadSoFar
  <2>2. body = [i \in 1 .. size |-> body[i]]
    BY <1>1
  <2> QED
    BY <2>1, <2>2
<1>6. PICK l \in Decoded : Matches(l)
  BY DEF Shape
<1>7. l \in TxLists /\ body = BodyOf(kind, l)
      /\ (kind = "snappy" => RawLen[l] = id.dataLen)
  BY DEF Decoded
<1>8. Good(s)
  BY <1>1, <1>2, <1>3, <1>4, <1>5, <1>6, <1>7 DEF Good, ReadSoFar
<1> QED
  BY <1>2, <1>8 DEF s

LEMMA StepShape == Shape /\ [Next]_vars => Shape'
<1> SUFFICES ASSUME Shape, [Next]_vars
             PROVE  Shape'
  OBVIOUS
<1> USE DEF Shape, streamVars, decVars, Setting, Stream, DataID
<1>1. ASSUME NEW n \in 1 .. Len(src), Arrive(n)
      PROVE  Shape'
  BY <1>1 DEF Arrive, Stream, ReadSoFar, SizeFits, Decoded, Matches
<1>2. CASE End
  BY <1>2 DEF End, ReadSoFar, SizeFits, Decoded, Matches
<1>3. CASE ReadHeader
  BY <1>3, UnreadIs DEF ReadHeader
<1>4. ASSUME NEW n \in 1 .. BufSize, ReadSize(n)
      PROVE  Shape'
  BY <1>4, ReadSizeShape
<1>5. CASE ReadBuffered
  BY <1>5, ReadBufferedShape
<1>6. ASSUME NEW n \in 1 .. Len(src), ReadStream(n)
      PROVE  Shape'
  BY <1>6, ReadStreamShape
<1>7. CASE ReadEOF
  BY <1>7 DEF ReadEOF, Fail
<1>8. CASE DecodeRaw
  BY <1>8, DecodeRawShape
<1>9. CASE PassOn
  <2>1. /\ dpc = "done" /\ src' = SubSeq(src, 1, pos) /\ hop < MaxHops
        /\ hop' = hop + 1 /\ id' = id
    BY <1>9 DEF PassOn
  <2>2. Stream(src') /\ Len(src') = pos
    BY <2>1, ReadIsGood DEF Good
  <2>3. Setting'
    <3>1. hop' \in 1 .. MaxHops
      BY <2>1, ConstantsAssumption
    <3>2. (id.txsHash \in TxLists /\ id = DataID(id.txsHash))'
      BY <2>1
    <3>3. Stream(src)'
      BY <2>2
    <3> QED
      BY <3>1, <3>2, <3>3
  <2>4. /\ arrived' = pos /\ pos' = 0 /\ dpc' = "header"
        /\ buf' = <<>> /\ body' = <<>>
    BY <1>9 DEF PassOn
  <2> HIDE DEF Setting
  <2>5. pos \in Nat
    BY DEF Setting
  <2> QED
    BY <2>2, <2>3, <2>4, <2>5, ConstantsAssumption
<1>10. CASE UNCHANGED vars
  BY <1>10 DEF vars, ReadSoFar, SizeFits, Decoded, Matches
<1> QED
  BY <1>1, <1>2, <1>3, <1>4, <1>5, <1>6, <1>7, <1>8, <1>9, <1>10 DEF Next

-----------------------------------------------------------------------------
(* What is asked for is decoded.                                           *)

LEMMA EncodingIsGood ==
    ASSUME WidthIsNat, NEW l \in TxLists, id = DataID(l),
           RawLen[l] < 2^LenWidth
    PROVE  Good(EncodeBlockData(l))
<1>1. /\ RawLen[l] \in Nat \ {0} /\ SnappyLen[l] \in Nat \ {0}
      /\ SnappySlack \in Nat
  BY ConstantsAssumption
<1>2. id.txsHash = l /\ id.nTxs = Len(l)
      /\ id.dataLen = RawLen[l] % 2^LenWidth
  BY DEF DataID
<1>3. id.dataLen = RawLen[l]
  <2> DEFINE w == 2^LenWidth
  <2>1. w \in Nat /\ RawLen[l] < w /\ id.dataLen = RawLen[l] % w
    BY <1>2 DEF WidthIsNat
  <2> HIDE DEF w
  <2> QED
    BY <2>1, <1>1
<1>4. ASSUME NEW k \in Kinds,
             SizeFits(k, BodyLen(k, l))
      PROVE  Good(Frame(k, l))
  <2> DEFINE s == Frame(k, l)
  <2>1. /\ BodyLen(k, l) \in Nat \ {0} /\ Stream(s)
        /\ Len(s) = 2 + BodyLen(k, l)
        /\ s[1] = k /\ s[2] = BodyLen(k, l)
        /\ \A i \in 1 .. BodyLen(k, l) : s[2 + i] = BodyOf(k, l)[i]
    BY FrameIsStream
  <2> HIDE DEF s
  <2>2. BodyOf(k, l) = [i \in 1 .. s[2] |-> s[2 + i]]
    BY <2>1 DEF BodyOf
  <2>3. Matches(l)
    BY <1>2 DEF Matches
  <2>4. Good(s)
    BY <2>1, <2>2, <2>3, <1>3, <1>4 DEF Good
  <2> QED
    BY <2>4 DEF s
<1>5. CASE SnappyLen[l] < RawLen[l]
  <2>1. SizeFits("snappy", BodyLen("snappy", l))
    BY <1>1, <1>3, <1>5 DEF SizeFits, BodyLen, MaxEncodedLen
  <2> QED
    BY <2>1, <1>4, <1>5 DEF EncodeBlockData, Kinds
<1>6. CASE ~(SnappyLen[l] < RawLen[l])
  <2>1. SizeFits("plain", BodyLen("plain", l))
    BY <1>1, <1>3 DEF SizeFits, BodyLen
  <2> QED
    BY <2>1, <1>4, <1>6 DEF EncodeBlockData, Kinds
<1> QED
  BY <1>5, <1>6

LEMMA InitTrust == Init => TrustInv
<1> SUFFICES ASSUME Init
             PROVE  TrustInv
  OBVIOUS
<1>1. hop = 1 /\ ~ended /\ dpc = "header"
  BY DEF Init
<1>2. Trusted => Good(src)
  <2> SUFFICES ASSUME Trusted
               PROVE  Good(src)
    OBVIOUS
  <2>1. PICK l \in TxLists :
            /\ id = DataID(l)
            /\ hop = 1 /\ (honest => src = EncodeBlockData(l))
    BY DEF Init
  <2>2. honest /\ WidthIsNat /\ RawLen[l] < 2^LenWidth
    BY <2>1 DEF Trusted, Fits, DataID
  <2> QED
    BY <2>1, <2>2, EncodingIsGood
<1> QED
  BY <1>1, <1>2 DEF TrustInv

LEMMA GoodKept ==
    ASSUME UNCHANGED <<id, src>>
    PROVE  Good(src)' = Good(src)
  BY DEF Good, Stream, SizeFits, Matches

\* A good stream that is all there gives the decoder no reason to fail.
LEMMA GoodDecodes ==
    ASSUME Shape, Good(src), ended => arrived = Len(src), dpc # "failed"
    PROVE  /\ ReadHeader => dpc' # "failed"
           /\ \A n \in 1 .. BufSize : ReadSize(n) => dpc' # "failed"
           /\ ~ReadEOF
           /\ DecodeRaw => dpc' # "failed"
<1>1. Stream(src) /\ arrived \in 0 .. Len(src) /\ pos \in 0 .. arrived
  BY DEF Shape, Setting
<1>2. ReadHeader => dpc' # "failed"
  <2> SUFFICES ASSUME ReadHeader
               PROVE  dpc' # "failed"
    OBVIOUS
  <2>1. Head(Unread) = src[1]
    BY UnreadIs, <1>1 DEF ReadHeader, Shape
  <2> QED
    BY <2>1 DEF Good, ReadHeader
<1>3. ASSUME NEW n \in 1 .. BufSize, ReadSize(n)
      PROVE  dpc' # "failed"
  <2>1. pos = 1 /\ kind = src[1] /\ n <= Len(Unread)
    BY <1>3 DEF Shape, ReadSize
  <2>2. Head(SubSeq(Unread, 1, n)) = src[2]
    BY <2>1, UnreadIs, ConstantsAssumption
  <2> QED
    BY <1>3, <2>1, <2>2 DEF ReadSize, Good
<1>4. ~ReadEOF
  <2> SUFFICES ASSUME ReadEOF
               PROVE  FALSE
    OBVIOUS
  <2>1. pos = Len(src)
    BY <1>1, UnreadIs DEF ReadEOF
  <2>2. pos >= 2 + src[2] /\ src[2] \in Nat
    BY <1>1, <2>1 DEF Good, Stream
  <2>3. dpc = "body"
    BY <2>2 DEF Shape, ReadEOF
  <2>4. pos = 2 + Len(body) /\ size = src[2] /\ size - Len(body) > 0
    BY <2>3 DEF Shape, ReadSoFar, ReadEOF, Missing
  <2>5. Len(body) \in Nat
    BY DEF Shape
  <2> QED
    BY <2>2, <2>4, <2>5
<1>5. DecodeRaw => dpc' # "failed"
  <2> SUFFICES ASSUME DecodeRaw
               PROVE  dpc' # "failed"
    OBVIOUS
  <2>1. /\ ReadSoFar /\ size \in Nat /\ Len(body) = size
        /\ body \in Seq(Symbols)
    BY <1>1 DEF Shape, DecodeRaw, Missing, ReadSoFar, Stream
  <2>2. body = [i \in 1 .. size |-> src[2 + i]]
    <3>1. \A i \in 1 .. size : body[i] = src[2 + i]
      BY <2>1 DEF ReadSoFar
    <3>2. body = [i \in 1 .. size |-> body[i]]
      BY <2>1
    <3> QED
      BY <3>1, <3>2
  <2>3. PICK l \in TxLists :
            /\ Matches(l)
            /\ src[1] = "snappy" => RawLen[l] = id.dataLen
            /\ BodyOf(src[1], l) = [i \in 1 .. src[2] |-> src[2 + i]]
    BY DEF Good
  <2>4. kind = src[1] /\ size = src[2]
    BY <2>1 DEF ReadSoFar
  <2>5. l \in Decoded
    BY <2>2, <2>3, <2>4 DEF Decoded
  <2> QED
    BY <2>3, <2>5 DEF DecodeRaw
<1> QED
  BY <1>2, <1>3, <1>4, <1>5

LEMMA StepTrust == Shape /\ TrustInv /\ [Next]_vars => TrustInv'
<1> SUFFICES ASSUME Shape, TrustInv, [Next]_vars
             PROVE  TrustInv'
  OBVIOUS
<1> USE DEF streamVars, decVars
<1>1. CASE PassOn
  <2>1. Good(SubSeq(src, 1, pos)) /\ Len(SubSeq(src, 1, pos)) = pos
    BY <1>1, ReadIsGood DEF PassOn
  <2>2. /\ src' = SubSeq(src, 1, pos) /\ id' = id /\ arrived' = pos
        /\ ended' = TRUE /\ dpc' = "header"
    BY <1>1 DEF PassOn
  <2>3. Good(src)'
    BY <2>1, <2>2 DEF Good, Stream, SizeFits, Matches
  <2> QED
    BY <2>1, <2>2, <2>3 DEF TrustInv
<1>2. CASE UNCHANGED <<id, honest, hop, src>>
  <2>1. Good(src)' = Good(src)
    BY <1>2, GoodKept
  <2>2. ASSUME UNCHANGED <<arrived, ended, cut>>,
               Trusted /\ dpc # "failed" => dpc' # "failed"
        PROVE  TrustInv'
    BY <1>2, <2>1, <2>2 DEF TrustInv, Trusted, Fits
  <2>3. Trusted => /\ Good(src) /\ dpc # "failed"
                   /\ ended => arrived = Len(src)
    BY DEF TrustInv
  <2>4. ASSUME NEW n \in 1 .. Len(src), Arrive(n)
        PROVE  TrustInv'
    BY <1>2, <2>1, <2>4 DEF Arrive, TrustInv, Trusted, Fits
  <2>5. CASE End
    <3>1. ~ended /\ ended' /\ ~(hop > 1)
          /\ (cut' <=> cut \/ arrived < Len(src))
      BY <2>5 DEF End, TrustInv
    <3>2. UNCHANGED <<arrived, dpc>>
      BY <2>5 DEF End
    <3>3. ~(arrived < Len(src)) => arrived = Len(src)
      BY DEF Shape, Setting, Stream
    <3>4. Trusted' => Trusted /\ ~(arrived < Len(src))
      BY <1>2, <3>1 DEF Trusted, Fits
    <3> QED
      BY <1>2, <2>1, <2>3, <3>1, <3>2, <3>3, <3>4 DEF TrustInv
  <2>6. CASE ReadHeader
    BY <2>2, <2>3, <2>6, GoodDecodes DEF ReadHeader
  <2>7. ASSUME NEW n \in 1 .. BufSize, ReadSize(n)
        PROVE  TrustInv'
    BY <2>2, <2>3, <2>7, GoodDecodes DEF ReadSize
  <2>8. CASE ReadBuffered
    BY <2>2, <2>8 DEF ReadBuffered
  <2>9. ASSUME NEW n \in 1 .. Len(src), ReadStream(n)
        PROVE  TrustInv'
    BY <2>2, <2>9 DEF ReadStream
  <2>10. CASE ReadEOF
    BY <2>2, <2>3, <2>10, GoodDecodes DEF ReadEOF, Fail
  <2>11. CASE DecodeRaw
    BY <2>2, <2>3, <2>11, GoodDecodes DEF DecodeRaw
  <2>12. CASE UNCHANGED vars
    BY <2>2, <2>12 DEF vars
  <2> QED
    BY <2>4, <2>5, <2>6, <2>7, <2>8, <2>9, <2>10, <2>11, <2>12, <1>1
       DEF Next
<1>3. PassOn \/ UNCHANGED <<id, honest, hop, src>>
  BY DEF Next, vars, Arrive, End, ReadHeader, ReadSize, ReadBuffered,
         ReadStream, ReadEOF, Fail, DecodeRaw
<1> QED
  BY <1>1, <1>2, <1>3

-----------------------------------------------------------------------------
(* The theorems.                                                           *)

\* The types, with what the decoder holds at each place of Decode: never
\* more of the body than the size says, never a buffer that overflows.
THEOREM CodecTypeCorrect == Spec => []TypeOK
<1>1. Shape => TypeOK
  BY DEF Shape, Setting, ReadSoFar, Stream, TypeOK, Missing
<1> QED
  BY InitShape, StepShape, <1>1, PTL DEF Spec

\* Decode returns the transactions that were asked for or none, whatever the
\* provider sends and however it arrives.
THEOREM DecodedIsAskedForHolds == Spec => []DecodedIsAskedFor
<1>1. Shape => DecodedIsAskedFor
  BY DEF Shape, Setting, DecodedIsAskedFor, Decoded, Matches
<1> QED
  BY InitShape, StepShape, <1>1, PTL DEF Spec

\* What EncodeBlockData wrote is accepted in whatever pieces it arrives.
THEOREM EncodedIsAcceptedHolds ==
    ASSUME WidthIsNat
    PROVE  Spec => []EncodedIsAccepted
<1>1. TrustInv => EncodedIsAccepted
  BY DEF TrustInv, Trusted, Fits, EncodedIsAccepted
<1> QED
  BY InitShape, StepShape, InitTrust, StepTrust, <1>1, PTL DEF Spec

\* A copy made while decoding is accepted by every later peer, surplus bytes
\* included.
THEOREM CopyIsAcceptedHolds == Spec => []CopyIsAccepted
<1>1. TrustInv => CopyIsAccepted
  BY DEF TrustInv, Trusted, CopyIsAccepted
<1> QED
  BY InitShape, StepShape, InitTrust, StepTrust, <1>1, PTL DEF Spec

=============================================================================
