------------------------- MODULE PccConnectionProofs -------------------------
(***************************************************************************)
(* Proofs about PccConnection.  IInv is inductive, and has the safety      *)
(* properties among its conjuncts or follows from them.                    *)
(***************************************************************************)
EXTENDS PccConnection, FiniteSetTheorems, SequenceTheorems, TLAPS

USE UintLenAssumption, IntMaxAssumption, BuffLenAssumption, ArgumentsAssumption

----------------------------------------------------------------------------
(***************************************************************************)
(* The inductive invariant.                                                *)
(***************************************************************************)

\* sendData never sends more than its N, an int, and is between two blocks or in
\* one of them.
ClientInv ==
  /\ Len(sent) <= IF AsInt(N) > 0 THEN AsInt(N) ELSE 0
  /\ clientPc = "sendN" => written = 0 /\ sentOfWrite < UINT_LEN
  /\ clientPc = "fill" =>
       written = Len(sent) /\ sentOfWrite = 0 /\ written < AsInt(N)
  /\ clientPc = "sendData" =>
       /\ Len(sent) = written + sentOfWrite
       /\ sentOfWrite < Len(buff) /\ written + Len(buff) <= AsInt(N)

\* Byte i of what the client sends: N, then the data.
StreamByte(i) == IF i <= UINT_LEN THEN UintByte(N, i) ELSE sent[i - UINT_LEN]

Received == Len(gotOfN) + totalRead

\* The bytes under way are those after the bytes received, up to the last one sent.
StreamInv ==
  /\ ~WholeUint(gotOfN) => totalRead = 0
  /\ \A i \in 1 .. Len(gotOfN) : gotOfN[i] = UintByte(N, i)
  /\ \A i \in 1 .. Len(toServer) : toServer[i] = StreamByte(Received + i)
  /\ \/ Received + Len(toServer) < UINT_LEN /\ Len(sent) = 0
     \/ Received + Len(toServer) = UINT_LEN + Len(sent)
  /\ clientPc = "sendN" => Received + Len(toServer) = sentOfWrite
  /\ clientPc \in {"fill", "sendData", "readC", "done"} =>
       Received + Len(toServer) = UINT_LEN + Len(sent)
  /\ totalPrintable = Printables(SubSeq(sent, 1, totalRead))

\* The server goes on without the whole of N only when its client has died.
ServerInv ==
  /\ serverPc = "readN" => ~WholeUint(gotOfN)
  /\ serverPc \in {"readData", "sendC", "closed"} =>
       IF WholeUint(gotOfN) THEN serverN = N
                            ELSE clientPc = "died" /\ toServer = << >>
  /\ AnsweredAfterAll
  /\ OrderlyClientSparesServer

\* The bytes of the answer, which the client has until it has all of them.
AnswerInv ==
  /\ sentOfC = Len(gotOfC) + Len(toClient)
  /\ \A i \in 1 .. Len(gotOfC) : gotOfC[i] = UintByte(totalPrintable, i)
  /\ \A i \in 1 .. Len(toClient) :
       toClient[i] = UintByte(totalPrintable, Len(gotOfC) + i)
  /\ serverPc \in {"readN", "readData"} => sentOfC = 0
  /\ serverPc = "sendC" => sentOfC < UINT_LEN
  /\ serverPc = "closed" => sentOfC = UINT_LEN
  /\ ~ClientGone => ~WholeUint(gotOfC)
  /\ clientPc = "done" => ServerGone
  /\ PrintedIsAnswer

IInv ==
  /\ TypeOK
  /\ ClientInv
  /\ StreamInv
  /\ ServerInv
  /\ AnswerInv

----------------------------------------------------------------------------
(***************************************************************************)
(* Bytes, and pieces of a sequence of bytes.                               *)
(***************************************************************************)

\* The bytes of a number and of the data are bytes, and as many as sizeof says.
LEMMA BytesType ==
  /\ \A n \in Uints, k \in 0 .. UINT_LEN : UintByte(n, k) \in Byte
  /\ \A q \in BOOLEAN : DataByte(q) \in Byte
  /\ \A n \in Uints : /\ UintBytes(n) \in Seq(Byte) /\ Len(UintBytes(n)) = UINT_LEN
                      /\ \A i \in 1 .. UINT_LEN : UintBytes(n)[i] = UintByte(n, i)
<1>1. \A n \in Uints, k \in 0 .. UINT_LEN : UintByte(n, k) \in Byte
  BY DEF UintByte, Byte
<1>2. \A q \in BOOLEAN : DataByte(q) \in Byte
  BY DEF DataByte, Byte, Uints
<1>3. ASSUME NEW n \in Uints
      PROVE  /\ UintBytes(n) \in Seq(Byte) /\ Len(UintBytes(n)) = UINT_LEN
             /\ \A i \in 1 .. UINT_LEN : UintBytes(n)[i] = UintByte(n, i)
  BY <1>1 DEF UintBytes
<1>. QED  BY <1>1, <1>2, <1>3

\* What a read() or write() takes out of a longer text.
LEMMA PieceProps ==
  ASSUME NEW bytes \in Seq(Byte), NEW done \in Nat, NEW n \in Nat \ {0},
         done + n <= Len(bytes)
  PROVE  /\ Piece(bytes, done, n) \in Seq(Byte) /\ Len(Piece(bytes, done, n)) = n
         /\ \A i \in 1 .. n : Piece(bytes, done, n)[i] = bytes[done + i]
BY SubSeqProperties DEF Piece

\* What a read takes, and what it leaves.
LEMMA ReadProps ==
  ASSUME NEW stream \in Seq(Byte), NEW n \in 0 .. Len(stream)
  PROVE  /\ SubSeq(stream, 1, n) \in Seq(Byte) /\ Len(SubSeq(stream, 1, n)) = n
         /\ \A i \in 1 .. n : SubSeq(stream, 1, n)[i] = stream[i]
         /\ Left(stream, SubSeq(stream, 1, n)) \in Seq(Byte)
         /\ Len(Left(stream, SubSeq(stream, 1, n))) = Len(stream) - n
         /\ \A i \in 1 .. Len(stream) - n :
              Left(stream, SubSeq(stream, 1, n))[i] = stream[n + i]
<1>1. /\ SubSeq(stream, 1, n) \in Seq(Byte) /\ Len(SubSeq(stream, 1, n)) = n
      /\ \A i \in 1 .. n : SubSeq(stream, 1, n)[i] = stream[i]
  BY SubSeqProperties
<1>2. Left(stream, SubSeq(stream, 1, n)) = SubSeq(stream, n + 1, Len(stream))
  BY <1>1 DEF Left
<1>3. /\ SubSeq(stream, n + 1, Len(stream)) \in Seq(Byte)
      /\ Len(SubSeq(stream, n + 1, Len(stream))) = Len(stream) - n
      /\ \A i \in 1 .. Len(stream) - n : SubSeq(stream, n + 1, Len(stream))[i] = stream[n + i]
  BY SubSeqProperties
<1>. QED  BY <1>1, <1>2, <1>3

\* The bytes of two texts one behind the other.
LEMMA AppendProps ==
  ASSUME NEW s \in Seq(Byte), NEW t \in Seq(Byte)
  PROVE  /\ s \o t \in Seq(Byte) /\ Len(s \o t) = Len(s) + Len(t)
         /\ \A i \in 1 .. Len(s) : (s \o t)[i] = s[i]
         /\ \A i \in 1 .. Len(t) : (s \o t)[Len(s) + i] = t[i]
BY ConcatProperties

\* An unsigned int whose bytes have all come holds what was sent.
LEMMA ValueOfWhole ==
  ASSUME NEW n \in Uints, NEW bytes \in Seq(Byte), Len(bytes) = UINT_LEN,
         \A i \in 1 .. Len(bytes) : bytes[i] = UintByte(n, i)
  PROVE  bytes = UintBytes(n) /\ ValuesOf(bytes) = {n}
<1>1. bytes = UintBytes(n)
  BY BytesType
<1>2. \A m \in Uints : UintBytes(m) = UintBytes(n) => m = n
  <2>. SUFFICES ASSUME NEW m \in Uints, UintBytes(m) = UintBytes(n)
                PROVE  m = n
    OBVIOUS
  <2>1. UintByte(m, 1) = UintByte(n, 1)
    BY BytesType
  <2>. QED  BY <2>1 DEF UintByte
<1>. QED  BY <1>1, <1>2 DEF ValuesOf

\* What follows the bytes of N is the data.
LEMMA DataAfterN ==
  ASSUME NEW k \in Nat \ {0}
  PROVE  StreamByte(UINT_LEN + k) = sent[k]
BY DEF StreamByte

\* Bytes give a number the width of an unsigned int.
LEMMA ValuesType == \A bytes : ValuesOf(bytes) \subseteq Uints
BY DEF ValuesOf

\* N as an int is N or not positive.
LEMMA AsIntType ==
  ASSUME TypeOK
  PROVE  /\ N \in Uints /\ N \in Nat /\ AsInt(N) \in Int /\ AsInt(N) <= IntMax
         /\ AsInt(N) > 0 => AsInt(N) = N
BY DEF TypeOK, AsInt, Uints

----------------------------------------------------------------------------
(***************************************************************************)
(* Counting the printable bytes.                                           *)
(***************************************************************************)

\* There are at most as many printable characters as characters.
LEMMA PrintablesType ==
  ASSUME NEW s \in Seq(Byte)
  PROVE  /\ IsFiniteSet({k \in DOMAIN s : s[k].printable})
         /\ Printables(s) \in 0 .. Len(s)
<1>. DEFINE P == {k \in DOMAIN s : s[k].printable}
<1>1. DOMAIN s = 1 .. Len(s) /\ Len(s) \in Nat
  OBVIOUS
<1>2. IsFiniteSet(1 .. Len(s)) /\ Cardinality(1 .. Len(s)) = Len(s)
  <2>1. 1 \in Int /\ Len(s) \in Int /\ (1 > Len(s) => Len(s) = 0) /\ Len(s) - 1 + 1 = Len(s)
    BY <1>1
  <2>. QED  BY <2>1, FS_Interval
<1>3. P \subseteq 1 .. Len(s)
  BY <1>1
<1>4. IsFiniteSet(P) /\ Cardinality(P) <= Len(s)
  BY <1>2, <1>3, FS_Subset
<1>5. Cardinality(P) \in Nat
  BY <1>4, FS_CardinalityType
<1>. QED  BY <1>4, <1>5 DEF Printables

\* The count of a sequence is the sum of the counts of its two parts.
LEMMA PrintablesConcat ==
  ASSUME NEW s \in Seq(Byte), NEW t \in Seq(Byte)
  PROVE  Printables(s \o t) = Printables(s) + Printables(t)
<1>. DEFINE A == {k \in DOMAIN s : s[k].printable}
            B == {k \in DOMAIN t : t[k].printable}
            C == {Len(s) + k : k \in B}
            P == {k \in DOMAIN (s \o t) : (s \o t)[k].printable}
<1>1. /\ Len(s) \in Nat /\ Len(t) \in Nat /\ DOMAIN s = 1 .. Len(s) /\ DOMAIN t = 1 .. Len(t)
      /\ DOMAIN (s \o t) = 1 .. Len(s) + Len(t)
      /\ \A i \in 1 .. Len(s) : (s \o t)[i] = s[i]
      /\ \A i \in 1 .. Len(t) : (s \o t)[Len(s) + i] = t[i]
  BY AppendProps
<1>2. P = A \cup C
  <2>1. ASSUME NEW k \in P PROVE k \in A \cup C
    <3>1. k \in 1 .. Len(s) + Len(t) /\ (s \o t)[k].printable
      BY <1>1
    <3>2. CASE k <= Len(s)
      BY <1>1, <3>1, <3>2
    <3>3. CASE k > Len(s)
      <4>. DEFINE j == k - Len(s)
      <4>1. j \in 1 .. Len(t) /\ k = Len(s) + j
        BY <1>1, <3>1, <3>3
      <4>2. j \in B
        BY <1>1, <3>1, <4>1
      <4>. QED  BY <4>1, <4>2
    <3>. QED  BY <1>1, <3>1, <3>2, <3>3
  <2>2. ASSUME NEW k \in A PROVE k \in P
    BY <1>1
  <2>3. ASSUME NEW k \in C PROVE k \in P
    <3>1. PICK j \in B : k = Len(s) + j
      OBVIOUS
    <3>. QED  BY <1>1, <3>1
  <2>. QED  BY <2>1, <2>2, <2>3
<1>3. A \cap C = {}
  BY <1>1
<1>4. IsFiniteSet(A) /\ IsFiniteSet(B)
  BY PrintablesType
<1>5. IsFiniteSet(C) /\ Cardinality(C) = Cardinality(B)
  <2>. DEFINE f == [k \in B |-> Len(s) + k]
  <2>1. f \in Bijection(B, C)
    <3>1. f \in [B -> C] /\ \A y \in C : \E x \in B : f[x] = y
      OBVIOUS
    <3>2. \A x, y \in B : f[x] = f[y] => x = y
      BY <1>1
    <3>. QED  BY <3>1, <3>2 DEF Bijection, Injection, Surjection, IsInjective
  <2>. HIDE DEF f, B, C
  <2>2. ExistsBijection(B, C)
    BY <2>1 DEF ExistsBijection
  <2>. QED  BY <1>4, <2>2, FS_Bijection
<1>6. Cardinality(A \cup C) = Cardinality(A) + Cardinality(C)
  <2>. HIDE DEF A, C
  <2>1. Cardinality(A \cup C) = Cardinality(A) + Cardinality(C) - Cardinality({})
    BY <1>3, <1>4, <1>5, FS_Union
  <2>2. Cardinality(A) \in Nat /\ Cardinality(C) \in Nat /\ Cardinality({}) = 0
    BY <1>4, <1>5, FS_CardinalityType, FS_EmptySet
  <2>. QED  BY <2>1, <2>2
<1>. QED  BY <1>2, <1>5, <1>6 DEF Printables

\* Counting what a read has taken of the data: n bytes after the first r.
LEMMA PrintablesOfPrefix ==
  ASSUME NEW s \in Seq(Byte), NEW r \in Nat, NEW bytes \in Seq(Byte),
         r + Len(bytes) <= Len(s),
         \A i \in 1 .. Len(bytes) : bytes[i] = s[r + i]
  PROVE  Printables(SubSeq(s, 1, r + Len(bytes))) = Printables(SubSeq(s, 1, r)) + Printables(bytes)
<1>. DEFINE u == SubSeq(s, 1, r)
            v == SubSeq(s, 1, r + Len(bytes))
<1>1. Len(bytes) \in Nat /\ Len(s) \in Nat
  OBVIOUS
<1>2. /\ u \in Seq(Byte) /\ Len(u) = r /\ \A i \in 1 .. r : u[i] = s[i]
      /\ v \in Seq(Byte) /\ Len(v) = r + Len(bytes)
      /\ \A i \in 1 .. r + Len(bytes) : v[i] = s[i]
  BY <1>1, SubSeqProperties
<1>. HIDE DEF u, v
<1>3. u \o bytes \in Seq(Byte) /\ Len(u \o bytes) = Len(v)
  BY <1>1, <1>2, AppendProps
<1>4. ASSUME NEW i \in 1 .. Len(v) PROVE v[i] = (u \o bytes)[i]
  <2>1. CASE i <= r
    BY <1>1, <1>2, <2>1, AppendProps
  <2>2. CASE i > r
    <3>1. i - r \in 1 .. Len(bytes) /\ i = r + (i - r)
      BY <1>1, <1>2, <2>2
    <3>2. (u \o bytes)[r + (i - r)] = bytes[i - r]
      BY <1>2, <3>1, AppendProps
    <3>. QED  BY <1>1, <1>2, <3>1, <3>2
  <2>. QED  BY <1>1, <1>2, <2>1, <2>2
<1>5. v = u \o bytes
  BY <1>2, <1>3, <1>4, SeqEqual
<1>. QED  BY <1>2, <1>5, PrintablesConcat DEF u, v

----------------------------------------------------------------------------
(***************************************************************************)
(* The client.                                                             *)
(***************************************************************************)

\* Bytes are added to the stream to the server: n bytes from a number or a buffer.
LEMMA StreamGrows ==
  ASSUME TypeOK, NEW piece \in Seq(Byte), toServer' = toServer \o piece,
         UNCHANGED <<gotOfN, totalRead>>
  PROVE  /\ toServer' \in Seq(Byte) /\ Len(toServer') = Len(toServer) + Len(piece)
         /\ \A i \in 1 .. Len(toServer) : toServer'[i] = toServer[i]
         /\ \A i \in 1 .. Len(toServer') \ 1 .. Len(toServer) :
              /\ i - Len(toServer) \in 1 .. Len(piece)
              /\ toServer'[i] = piece[i - Len(toServer)]
         /\ Len(toServer) \in Nat /\ Len(piece) \in Nat
         /\ Len(gotOfN) \in Nat /\ totalRead \in Nat /\ Received \in Nat /\ Received' = Received
<1>1. toServer \in Seq(Byte) /\ gotOfN \in Seq(Byte) /\ totalRead \in Nat
  BY DEF TypeOK
<1>2. /\ toServer' \in Seq(Byte) /\ Len(toServer') = Len(toServer) + Len(piece)
      /\ \A i \in 1 .. Len(toServer) : toServer'[i] = toServer[i]
      /\ \A i \in 1 .. Len(piece) : toServer'[Len(toServer) + i] = piece[i]
  BY <1>1, AppendProps
<1>3. Len(toServer) \in Nat /\ Len(piece) \in Nat /\ Len(gotOfN) \in Nat
  BY <1>1
<1>4. ASSUME NEW i \in 1 .. Len(toServer') \ 1 .. Len(toServer)
      PROVE  /\ i - Len(toServer) \in 1 .. Len(piece)
             /\ toServer'[i] = piece[i - Len(toServer)]
  <2>1. i - Len(toServer) \in 1 .. Len(piece) /\ i = Len(toServer) + (i - Len(toServer))
    BY <1>2, <1>3
  <2>. QED  BY <1>2, <2>1
<1>. QED  BY <1>1, <1>2, <1>3, <1>4 DEF Received

\* The client sends the next bytes of N.
LEMMA SendNInv ==
  ASSUME IInv, SendN
  PROVE  IInv'
<1>0. TypeOK /\ ClientInv /\ StreamInv /\ ServerInv /\ AnswerInv
  BY DEF IInv
<1>1. PICK n \in 1 .. UINT_LEN - sentOfWrite :
        /\ toServer' = toServer \o Piece(UintBytes(N), sentOfWrite, n)
        /\ IF sentOfWrite + n = UINT_LEN
           THEN clientPc' = AfterBlock(0) /\ sentOfWrite' = 0
           ELSE clientPc' = clientPc /\ sentOfWrite' = sentOfWrite + n
  BY DEF SendN
<1>2. /\ clientPc = "sendN"
      /\ UNCHANGED <<N, buff, written, gotOfC, printed, serverVars, toClient, link, sent>>
  BY DEF SendN
<1>. USE DEF serverVars
<1>. DEFINE piece == Piece(UintBytes(N), sentOfWrite, n)
<1>3. /\ sentOfWrite \in Nat /\ n \in Nat \ {0} /\ sentOfWrite + n <= UINT_LEN
      /\ Received + Len(toServer) = sentOfWrite /\ sentOfWrite < UINT_LEN
      /\ Len(sent) = 0 /\ written = 0
  BY <1>0, <1>2 DEF TypeOK, ClientInv, StreamInv, Received
<1>4. /\ piece \in Seq(Byte) /\ Len(piece) = n
      /\ \A i \in 1 .. n : piece[i] = UintByte(N, sentOfWrite + i)
  <2>1. /\ UintBytes(N) \in Seq(Byte) /\ Len(UintBytes(N)) = UINT_LEN
        /\ \A i \in 1 .. UINT_LEN : UintBytes(N)[i] = UintByte(N, i)
    BY <1>0, BytesType, AsIntType
  <2>2. \A i \in 1 .. n : sentOfWrite + i \in 1 .. UINT_LEN
    BY <1>3
  <2>. QED  BY <1>3, <2>1, <2>2, PieceProps
<1>. HIDE DEF piece
<1>5. /\ toServer' \in Seq(Byte) /\ Len(toServer') = Len(toServer) + n
      /\ \A i \in 1 .. Len(toServer) : toServer'[i] = toServer[i]
      /\ \A i \in 1 .. Len(toServer') \ 1 .. Len(toServer) :
           /\ i - Len(toServer) \in 1 .. n
           /\ toServer'[i] = piece[i - Len(toServer)]
      /\ Len(toServer) \in Nat /\ Received \in Nat /\ Received' = Received
  BY <1>0, <1>1, <1>2, <1>4, StreamGrows DEF piece
<1>6. TypeOK'
  BY <1>0, <1>1, <1>2, <1>3, <1>5 DEF TypeOK, AfterBlock
<1>7. ClientInv'
  BY <1>0, <1>1, <1>2, <1>3 DEF ClientInv, AfterBlock, AsInt
<1>8. StreamInv'
  <2>1. ASSUME NEW i \in 1 .. Len(toServer')
        PROVE  toServer'[i] = StreamByte(Received + i)'
    <3>1. CASE i \in 1 .. Len(toServer)
      BY <1>0, <1>2, <1>5, <3>1 DEF StreamInv, StreamByte
    <3>2. CASE i \notin 1 .. Len(toServer)
      <4>1. toServer'[i] = UintByte(N, sentOfWrite + (i - Len(toServer)))
        BY <1>4, <1>5, <3>2
      <4>2. i - Len(toServer) \in 1 .. n /\ Len(toServer) \in Nat /\ Received \in Nat
        BY <1>5, <3>2
      <4>3. sentOfWrite + (i - Len(toServer)) = Received + i /\ Received + i <= UINT_LEN
        BY <1>3, <4>2
      <4>. QED  BY <1>2, <1>5, <4>1, <4>3 DEF StreamByte
    <3>. QED  BY <3>1, <3>2
  <2>2. Received' + Len(toServer') = sentOfWrite + n
    BY <1>3, <1>5
  <2>3. IF sentOfWrite + n = UINT_LEN THEN clientPc' # "sendN"
                                     ELSE clientPc' = "sendN" /\ sentOfWrite' = sentOfWrite + n
    BY <1>1, <1>2 DEF AfterBlock
  <2>. QED
    BY <1>0, <1>2, <1>3, <2>1, <2>2, <2>3 DEF StreamInv, WholeUint
<1>9. ServerInv'
  BY <1>0, <1>1, <1>2, <1>3 DEF ServerInv, AnsweredAfterAll, OrderlyClientSparesServer, WholeUint, AfterBlock
<1>10. AnswerInv'
  BY <1>0, <1>1, <1>2 DEF AnswerInv, ClientGone, ServerGone, WholeUint, PrintedIsAnswer, AfterBlock
<1>. QED  BY <1>6, <1>7, <1>8, <1>9, <1>10 DEF IInv

\* The client fills its buffer, and no further than N.
LEMMA FillInv ==
  ASSUME IInv, Fill
  PROVE  IInv'
<1>0. TypeOK /\ ClientInv /\ StreamInv /\ ServerInv /\ AnswerInv
  BY DEF IInv
<1>1. PICK q \in [1 .. ToRead -> BOOLEAN] : buff' = [k \in 1 .. ToRead |-> DataByte(q[k])]
  BY DEF Fill
<1>2. /\ clientPc = "fill" /\ clientPc' = "sendData"
      /\ UNCHANGED <<N, written, sentOfWrite, gotOfC, printed, serverVars, toServer, toClient, link, sent>>
  BY DEF Fill
<1>. USE DEF serverVars
<1>3. /\ written = Len(sent) /\ sentOfWrite = 0 /\ written < AsInt(N) /\ AsInt(N) \in Int
      /\ written \in Nat
  BY <1>0, <1>2, AsIntType DEF ClientInv, TypeOK
<1>4. ToRead \in 1 .. BUFF_LEN /\ written + ToRead <= AsInt(N)
  BY <1>3 DEF ToRead
<1>5. buff' \in Seq(Byte) /\ Len(buff') = ToRead
  BY <1>1, <1>4, BytesType
<1>6. TypeOK'
  BY <1>0, <1>2, <1>4, <1>5 DEF TypeOK
<1>7. ClientInv'
  BY <1>0, <1>2, <1>3, <1>4, <1>5 DEF ClientInv, AsInt
<1>8. StreamInv'
  BY <1>0, <1>2 DEF StreamInv, StreamByte, Received, WholeUint
<1>9. ServerInv'
  BY <1>0, <1>2 DEF ServerInv, AnsweredAfterAll, OrderlyClientSparesServer, WholeUint
<1>10. AnswerInv'
  BY <1>0, <1>2 DEF AnswerInv, ClientGone, ServerGone, WholeUint, PrintedIsAnswer
<1>. QED  BY <1>6, <1>7, <1>8, <1>9, <1>10 DEF IInv

\* The client sends the next bytes of its buffer.
LEMMA SendDataInv ==
  ASSUME IInv, SendData
  PROVE  IInv'
<1>0. TypeOK /\ ClientInv /\ StreamInv /\ ServerInv /\ AnswerInv
  BY DEF IInv
<1>1. PICK n \in 1 .. Len(buff) - sentOfWrite :
        /\ toServer' = toServer \o Piece(buff, sentOfWrite, n)
        /\ sent' = sent \o Piece(buff, sentOfWrite, n)
        /\ IF sentOfWrite + n = Len(buff)
           THEN /\ written' = written + Len(buff) /\ sentOfWrite' = 0
                /\ clientPc' = AfterBlock(written + Len(buff))
           ELSE /\ sentOfWrite' = sentOfWrite + n
                /\ UNCHANGED <<clientPc, written>>
  BY DEF SendData
<1>2. /\ clientPc = "sendData"
      /\ UNCHANGED <<N, buff, gotOfC, printed, serverVars, toClient, link>>
  BY DEF SendData
<1>. USE DEF serverVars
<1>. DEFINE piece == Piece(buff, sentOfWrite, n)
<1>3. /\ buff \in Seq(Byte) /\ sent \in Seq(Byte) /\ Len(buff) \in Nat /\ Len(sent) \in Nat
      /\ sentOfWrite \in Nat /\ written \in Nat /\ n \in Nat \ {0}
      /\ sentOfWrite + n <= Len(buff) /\ Len(sent) = written + sentOfWrite
      /\ written + Len(buff) <= AsInt(N)
      /\ AsInt(N) \in Int /\ AsInt(N) <= IntMax /\ (AsInt(N) > 0 => AsInt(N) = N)
      /\ Received + Len(toServer) = UINT_LEN + Len(sent)
  <2>1. /\ buff \in Seq(Byte) /\ sent \in Seq(Byte)
        /\ sentOfWrite \in Nat /\ written \in Nat
    BY <1>0 DEF TypeOK
  <2>2. Len(buff) \in Nat /\ Len(sent) \in Nat /\ n \in Nat \ {0}
    BY <2>1
  <2>3. /\ Len(sent) = written + sentOfWrite /\ sentOfWrite < Len(buff)
        /\ written + Len(buff) <= AsInt(N)
    BY <1>0, <1>2 DEF ClientInv
  <2>4. Received + Len(toServer) = UINT_LEN + Len(sent)
    BY <1>0, <1>2 DEF StreamInv
  <2>5. sentOfWrite + n <= Len(buff)
    BY <2>1, <2>2
  <2>. QED  BY <1>0, <2>1, <2>2, <2>3, <2>4, <2>5, AsIntType
<1>4. /\ piece \in Seq(Byte) /\ Len(piece) = n
      /\ toServer' = toServer \o piece /\ sent' = sent \o piece
  BY <1>1, <1>3, PieceProps
<1>. HIDE DEF piece
<1>5. /\ toServer' \in Seq(Byte) /\ Len(toServer') = Len(toServer) + n
      /\ \A i \in 1 .. Len(toServer) : toServer'[i] = toServer[i]
      /\ \A i \in 1 .. Len(toServer') \ 1 .. Len(toServer) :
           /\ i - Len(toServer) \in 1 .. n
           /\ toServer'[i] = piece[i - Len(toServer)]
      /\ Len(toServer) \in Nat /\ Received \in Nat /\ Received' = Received
      /\ totalRead \in Nat /\ Len(gotOfN) \in Nat
  BY <1>0, <1>2, <1>4, StreamGrows
<1>6. /\ sent' \in Seq(Byte) /\ Len(sent') = Len(sent) + n
      /\ \A i \in 1 .. Len(sent) : sent'[i] = sent[i]
      /\ \A i \in 1 .. n : sent'[Len(sent) + i] = piece[i]
  BY <1>3, <1>4, AppendProps
<1>7. /\ Len(sent) \in Nat /\ Len(toServer) \in Nat /\ Received \in Nat /\ n \in Nat \ {0}
      /\ Received + Len(toServer) = UINT_LEN + Len(sent)
      /\ Received' = Received /\ Len(toServer') = Len(toServer) + n /\ Len(sent') = Len(sent) + n
  BY <1>3, <1>5, <1>6
<1>8. TypeOK'
  <2>1. written' \in 0 .. IntMax /\ sentOfWrite' \in 0 .. UINT_LEN + BUFF_LEN
    <3>1. Len(buff) <= BUFF_LEN /\ written \in 0 .. IntMax
      BY <1>0 DEF TypeOK
    <3>2. CASE sentOfWrite + n = Len(buff)
      BY <1>1, <1>3, <3>1, <3>2
    <3>3. CASE sentOfWrite + n # Len(buff)
      BY <1>1, <1>3, <3>1, <3>3
    <3>. QED  BY <3>2, <3>3
  <2>2. clientPc' \in {"fill", "readC", "sendData"}
    BY <1>1, <1>2 DEF AfterBlock
  <2>. QED  BY <1>0, <1>2, <1>5, <1>6, <2>1, <2>2 DEF TypeOK
<1>9. ClientInv'
  <2>1. Len(sent') <= AsInt(N)
    BY <1>3, <1>6
  <2>2. AsInt(N)' = AsInt(N) /\ buff' = buff
    BY <1>2 DEF AsInt
  <2>3. CASE sentOfWrite + n = Len(buff)
    <3>1. written' = Len(sent') /\ sentOfWrite' = 0
      <4>1. written' = written + Len(buff) /\ sentOfWrite' = 0
        BY <1>1, <2>3
      <4>2. Len(sent') = written + sentOfWrite + n
        BY <1>3, <1>7
      <4>. QED  BY <1>3, <2>3, <4>1, <4>2
    <3>2. clientPc' = IF written' < AsInt(N) THEN "fill" ELSE "readC"
      BY <1>1, <2>3 DEF AfterBlock
    <3>. QED  BY <1>3, <1>7, <2>1, <2>2, <3>1, <3>2 DEF ClientInv
  <2>4. CASE sentOfWrite + n # Len(buff)
    <3>1. /\ clientPc' = "sendData" /\ Len(sent') = written' + sentOfWrite'
          /\ sentOfWrite' < Len(buff) /\ written' + Len(buff) <= AsInt(N)
      BY <1>1, <1>2, <1>3, <1>7, <2>4
    <3>. QED  BY <1>3, <1>7, <2>1, <2>2, <3>1 DEF ClientInv
  <2>. QED  BY <2>3, <2>4
<1>10. StreamInv'
  <2>1. ASSUME NEW i \in 1 .. Len(toServer')
        PROVE  toServer'[i] = StreamByte(Received + i)'
    <3>1. CASE i \in 1 .. Len(toServer)
      <4>1. toServer'[i] = StreamByte(Received + i)
        BY <1>0, <1>5, <3>1 DEF StreamInv
      <4>2. CASE Received + i <= UINT_LEN
        BY <1>2, <1>5, <4>1, <4>2 DEF StreamByte
      <4>3. CASE Received + i > UINT_LEN
        <5>1. Received + i - UINT_LEN \in 1 .. Len(sent)
          BY <1>7, <3>1, <4>3
        <5>2. sent'[Received + i - UINT_LEN] = sent[Received + i - UINT_LEN]
          BY <1>6, <5>1
        <5>3. ~(Received + i <= UINT_LEN)
          BY <1>7, <3>1, <4>3
        <5>. QED  BY <1>7, <4>1, <5>2, <5>3 DEF StreamByte
      <4>. QED  BY <1>5, <4>2, <4>3
    <3>2. CASE i \notin 1 .. Len(toServer)
      <4>1. /\ i - Len(toServer) \in 1 .. n
            /\ toServer'[i] = piece[i - Len(toServer)]
        BY <1>5, <3>2
      <4>2. Received + i - UINT_LEN = Len(sent) + (i - Len(toServer)) /\ ~(Received + i <= UINT_LEN)
        BY <1>7, <4>1
      <4>3. sent'[Received + i - UINT_LEN] = piece[i - Len(toServer)]
        BY <1>6, <4>1, <4>2
      <4>. QED  BY <1>5, <4>1, <4>2, <4>3 DEF StreamByte
    <3>. QED  BY <3>1, <3>2
  <2>2. Received' + Len(toServer') = UINT_LEN + Len(sent')
    BY <1>7
  <2>3. SubSeq(sent', 1, totalRead) = SubSeq(sent, 1, totalRead)
    <3>1. totalRead <= Len(sent)
      BY <1>0, <1>3, <1>5 DEF StreamInv, Received, WholeUint
    <3>2. /\ SubSeq(sent, 1, totalRead) \in Seq(Byte) /\ Len(SubSeq(sent, 1, totalRead)) = totalRead
          /\ \A i \in 1 .. totalRead : SubSeq(sent, 1, totalRead)[i] = sent[i]
      BY <1>3, <1>5, <3>1, SubSeqProperties
    <3>3. /\ SubSeq(sent', 1, totalRead) \in Seq(Byte) /\ Len(SubSeq(sent', 1, totalRead)) = totalRead
          /\ \A i \in 1 .. totalRead : SubSeq(sent', 1, totalRead)[i] = sent'[i]
      <4>1. totalRead <= Len(sent')
        BY <1>5, <1>7, <3>1
      <4>. QED  BY <1>5, <1>6, <4>1, SubSeqProperties
    <3>. QED  BY <1>3, <1>5, <1>6, <3>1, <3>2, <3>3, SeqEqual
  <2>4. clientPc' # "sendN"
    BY <1>1, <1>2 DEF AfterBlock
  <2>. QED  BY <1>0, <1>2, <2>1, <2>2, <2>3, <2>4 DEF StreamInv, WholeUint
<1>11. ServerInv'
  <2>1. serverPc \notin {"sendC", "closed"}
    BY <1>0, <1>2, <1>3 DEF ServerInv, AnsweredAfterAll, TypeOK
  <2>. QED
    BY <1>0, <1>1, <1>2, <2>1 DEF ServerInv, AnsweredAfterAll, OrderlyClientSparesServer, WholeUint, AfterBlock
<1>12. AnswerInv'
  BY <1>0, <1>1, <1>2 DEF AnswerInv, ClientGone, ServerGone, WholeUint, PrintedIsAnswer, AfterBlock
<1>. QED  BY <1>8, <1>9, <1>10, <1>11, <1>12 DEF IInv

\* The client takes the next bytes of the answer, or its end.
LEMMA ReadCInv ==
  ASSUME IInv, ReadC
  PROVE  IInv'
<1>0. TypeOK /\ ClientInv /\ StreamInv /\ ServerInv /\ AnswerInv
  BY DEF IInv
<1>1. PICK bytes \in {SubSeq(toClient, 1, n) : n \in 0 .. Len(toClient)} :
       /\ gotOfC' = gotOfC \o bytes
       /\ toClient' = Left(toClient, bytes)
       /\ \/ /\ Read(toClient, UINT_LEN - Len(gotOfC), bytes)
             /\ IF WholeUint(gotOfC') THEN PrintC(gotOfC')
                                      ELSE UNCHANGED <<clientPc, printed>>
          \/ /\ EndOfFile(toClient, ServerGone, bytes)
             /\ PrintC(gotOfC')
  BY DEF ReadC
<1>2. /\ clientPc = "readC"
      /\ UNCHANGED <<N, buff, written, sentOfWrite, serverVars, toServer, link, sent>>
  BY DEF ReadC
<1>. USE DEF serverVars
<1>3. PICK n \in 0 .. Len(toClient) :
        /\ bytes = SubSeq(toClient, 1, n) /\ toClient' = Left(toClient, bytes)
        /\ gotOfC' = gotOfC \o bytes
  BY <1>1
<1>4. /\ toClient \in Seq(Byte) /\ gotOfC \in Seq(Byte) /\ sent \in Seq(Byte)
      /\ Len(toClient) \in Nat /\ Len(gotOfC) \in Nat /\ n \in Nat
      /\ Len(gotOfC) < UINT_LEN /\ sentOfC = Len(gotOfC) + Len(toClient)
      /\ totalPrintable \in Uints /\ sentOfC <= UINT_LEN
  <2>1. toClient \in Seq(Byte) /\ gotOfC \in Seq(Byte) /\ sent \in Seq(Byte)
    BY <1>0 DEF TypeOK
  <2>2. Len(gotOfC) <= UINT_LEN /\ sentOfC <= UINT_LEN /\ totalPrintable \in Uints
    BY <1>0 DEF TypeOK, Uints
  <2>3. Len(gotOfC) # UINT_LEN /\ sentOfC = Len(gotOfC) + Len(toClient)
    BY <1>0, <1>2 DEF AnswerInv, WholeUint, ClientGone
  <2>. QED  BY <2>1, <2>2, <2>3
<1>5. /\ bytes \in Seq(Byte) /\ Len(bytes) = n
      /\ \A i \in 1 .. n : bytes[i] = toClient[i]
      /\ toClient' \in Seq(Byte) /\ Len(toClient') = Len(toClient) - n
      /\ \A i \in 1 .. Len(toClient) - n : toClient'[i] = toClient[n + i]
  <2>1. bytes = SubSeq(toClient, 1, n) /\ toClient' = Left(toClient, SubSeq(toClient, 1, n))
    BY <1>3
  <2>2. toClient \in Seq(Byte)
    BY <1>4
  <2>. QED  BY <2>1, <2>2, ReadProps
<1>6. /\ gotOfC' \in Seq(Byte) /\ Len(gotOfC') = Len(gotOfC) + n
      /\ \A i \in 1 .. Len(gotOfC) : gotOfC'[i] = gotOfC[i]
      /\ \A i \in 1 .. n : gotOfC'[Len(gotOfC) + i] = bytes[i]
  BY <1>3, <1>4, <1>5, AppendProps
<1>7. ASSUME NEW i \in 1 .. Len(gotOfC') PROVE gotOfC'[i] = UintByte(totalPrintable, i)
  <2>1. CASE i <= Len(gotOfC)
    BY <1>0, <1>4, <1>6, <2>1 DEF AnswerInv
  <2>2. CASE i > Len(gotOfC)
    <3>. DEFINE j == i - Len(gotOfC)
    <3>1. j \in 1 .. n /\ i = Len(gotOfC) + j
      BY <1>4, <1>6, <2>2
    <3>2. gotOfC'[i] = toClient[j]
      BY <1>5, <1>6, <3>1
    <3>3. j \in 1 .. Len(toClient)
      BY <1>3, <1>4, <3>1
    <3>. QED  BY <1>0, <3>1, <3>2, <3>3 DEF AnswerInv
  <2>. QED  BY <1>4, <1>6, <2>1, <2>2
<1>8. ASSUME NEW i \in 1 .. Len(toClient')
      PROVE  toClient'[i] = UintByte(totalPrintable, Len(gotOfC') + i)
  <2>1. /\ n \in 0 .. Len(toClient) /\ Len(toClient) \in Nat /\ Len(gotOfC) \in Nat
        /\ Len(toClient') = Len(toClient) - n /\ Len(gotOfC') = Len(gotOfC) + n
    BY <1>4, <1>5, <1>6
  <2>2. n + i \in 1 .. Len(toClient) /\ Len(gotOfC) + (n + i) = Len(gotOfC') + i
    BY <2>1
  <2>. QED  BY <1>0, <1>5, <2>1, <2>2 DEF AnswerInv
\* What the client then does: it reads on, or prints and ends.
<1>9. \/ /\ Len(gotOfC') < UINT_LEN
         /\ UNCHANGED <<clientPc, printed>>
      \/ /\ Len(gotOfC') <= UINT_LEN
         /\ clientPc' = "done" /\ printed' \in Uints /\ ServerGone
         /\ serverPc = "closed" => printed' = Printables(sent)
  <2>1. CASE /\ Read(toClient, UINT_LEN - Len(gotOfC), bytes)
             /\ IF WholeUint(gotOfC') THEN PrintC(gotOfC')
                                      ELSE UNCHANGED <<clientPc, printed>>
    <3>1. Len(gotOfC') <= UINT_LEN
      <4>1. PICK m \in 1 .. UINT_LEN - Len(gotOfC) :
              m <= Len(toClient) /\ bytes = SubSeq(toClient, 1, m)
        BY <2>1 DEF Read
      <4>2. m \in 0 .. Len(toClient)
        BY <1>4, <4>1
      <4>3. Len(bytes) = m
        BY <1>4, <4>1, <4>2, ReadProps
      <4>. QED  BY <1>4, <1>5, <1>6, <4>1, <4>3
    <3>2. CASE ~WholeUint(gotOfC')
      BY <1>4, <1>6, <2>1, <3>1, <3>2 DEF WholeUint
    <3>3. CASE WholeUint(gotOfC')
      <4>1. printed' = totalPrintable
        <5>1. ValuesOf(gotOfC') = {totalPrintable}
          BY <1>4, <1>6, <1>7, <3>3, ValueOfWhole DEF WholeUint
        <5>. QED  BY <2>1, <3>3, <5>1 DEF PrintC
      <4>2. ServerGone
        <5>1. sentOfC = UINT_LEN
          BY <1>4, <1>6, <3>3 DEF WholeUint
        <5>2. serverPc \in {"readN", "readData", "sendC", "closed", "exited", "killed"}
          BY <1>0 DEF TypeOK
        <5>. QED  BY <1>0, <5>1, <5>2 DEF AnswerInv, ServerGone
      <4>3. ASSUME serverPc = "closed" PROVE totalPrintable = Printables(sent)
        <5>1. totalRead = Len(sent)
          BY <1>0, <1>2, <4>3 DEF ServerInv, AnsweredAfterAll
        <5>2. SubSeq(sent, 1, Len(sent)) = sent
          BY <1>4, SubSeqProperties, SeqEqual
        <5>. QED  BY <1>0, <5>1, <5>2 DEF StreamInv
      <4>. QED  BY <1>4, <2>1, <3>1, <3>3, <4>1, <4>2, <4>3 DEF PrintC
    <3>. QED  BY <3>2, <3>3
  <2>2. CASE EndOfFile(toClient, ServerGone, bytes) /\ PrintC(gotOfC')
    <3>1. n = 0 /\ Len(toClient) = 0 /\ ServerGone /\ Len(gotOfC') < UINT_LEN
      BY <1>4, <1>5, <1>6, <2>2 DEF EndOfFile
    <3>2. serverPc # "closed"
      BY <1>0, <1>4, <3>1 DEF AnswerInv
    <3>. QED  BY <1>4, <2>2, <3>1, <3>2, ValuesType DEF PrintC
  <2>. QED  BY <1>1, <2>1, <2>2
<1>10. TypeOK'
  BY <1>0, <1>2, <1>5, <1>6, <1>9 DEF TypeOK
<1>11. ClientInv'
  BY <1>0, <1>2, <1>9 DEF ClientInv, AsInt
<1>12. StreamInv'
  BY <1>0, <1>2, <1>9 DEF StreamInv, StreamByte, Received, WholeUint
<1>13. ServerInv'
  BY <1>0, <1>2, <1>9 DEF ServerInv, AnsweredAfterAll, OrderlyClientSparesServer, WholeUint
<1>14. AnswerInv'
  <2>1. sentOfC' = Len(gotOfC') + Len(toClient')
    BY <1>2, <1>4, <1>5, <1>6
  <2>2. ~ClientGone' => ~WholeUint(gotOfC')
    BY <1>2, <1>4, <1>6, <1>9 DEF ClientGone, WholeUint
  <2>3. clientPc' = "done" => ServerGone'
    BY <1>2, <1>9 DEF ServerGone
  <2>4. PrintedIsAnswer'
    BY <1>2, <1>9 DEF PrintedIsAnswer
  <2>. QED  BY <1>0, <1>2, <1>7, <1>8, <2>1, <2>2, <2>3, <2>4 DEF AnswerInv, ClientGone
<1>. QED  BY <1>10, <1>11, <1>12, <1>13, <1>14 DEF IInv

----------------------------------------------------------------------------
(***************************************************************************)
(* The thread of the connection.                                           *)
(***************************************************************************)

\* The thread takes the next bytes of N, or an end of file in between.
LEMMA ReadNInv ==
  ASSUME IInv, ReadN
  PROVE  IInv'
<1>0. TypeOK /\ ClientInv /\ StreamInv /\ ServerInv /\ AnswerInv
  BY DEF IInv
<1>1. PICK bytes \in {SubSeq(toServer, 1, n) : n \in 0 .. Len(toServer)} :
       /\ gotOfN' = gotOfN \o bytes
       /\ toServer' = Left(toServer, bytes)
       /\ \/ /\ Read(toServer, UINT_LEN - Len(gotOfN), bytes)
             /\ IF WholeUint(gotOfN')
                THEN serverN' \in ValuesOf(gotOfN') /\ serverPc' = "readData"
                ELSE UNCHANGED <<serverN, serverPc>>
          \/ /\ EndOfFile(toServer, ClientGone, bytes)
             /\ serverN' \in ValuesOf(gotOfN') /\ serverPc' = "readData"
  BY DEF ReadN
<1>2. /\ serverPc = "readN"
      /\ UNCHANGED <<clientVars, totalRead, totalPrintable, sentOfC, toClient, link, sent>>
  BY DEF ReadN
<1>. USE DEF clientVars
<1>3. PICK n \in 0 .. Len(toServer) :
        /\ bytes = SubSeq(toServer, 1, n) /\ toServer' = Left(toServer, bytes)
        /\ gotOfN' = gotOfN \o bytes
  BY <1>1
<1>4. /\ toServer \in Seq(Byte) /\ gotOfN \in Seq(Byte) /\ Len(toServer) \in Nat
      /\ Len(gotOfN) \in Nat /\ n \in Nat /\ Len(gotOfN) < UINT_LEN
      /\ totalRead = 0 /\ Received = Len(gotOfN) /\ N \in Uints
  BY <1>0, <1>2, <1>3, AsIntType DEF TypeOK, ServerInv, StreamInv, WholeUint, Received
<1>5. /\ bytes \in Seq(Byte) /\ Len(bytes) = n
      /\ \A i \in 1 .. n : bytes[i] = toServer[i]
      /\ toServer' \in Seq(Byte) /\ Len(toServer') = Len(toServer) - n
      /\ \A i \in 1 .. Len(toServer) - n : toServer'[i] = toServer[n + i]
  <2>1. bytes = SubSeq(toServer, 1, n) /\ toServer' = Left(toServer, SubSeq(toServer, 1, n))
    BY <1>3
  <2>2. toServer \in Seq(Byte)
    BY <1>4
  <2>. QED  BY <2>1, <2>2, ReadProps
<1>6. /\ gotOfN' \in Seq(Byte) /\ Len(gotOfN') = Len(gotOfN) + n
      /\ \A i \in 1 .. Len(gotOfN) : gotOfN'[i] = gotOfN[i]
      /\ \A i \in 1 .. n : gotOfN'[Len(gotOfN) + i] = bytes[i]
      /\ Received' = Len(gotOfN) + n
  <2>1. /\ gotOfN' \in Seq(Byte) /\ Len(gotOfN') = Len(gotOfN) + n
        /\ \A i \in 1 .. Len(gotOfN) : gotOfN'[i] = gotOfN[i]
        /\ \A i \in 1 .. n : gotOfN'[Len(gotOfN) + i] = bytes[i]
    BY <1>3, <1>4, <1>5, AppendProps
  <2>2. Received' = Len(gotOfN) + n
    BY <1>2, <1>4, <2>1 DEF Received
  <2>. QED  BY <2>1, <2>2
<1>7. Len(gotOfN') <= UINT_LEN
  <2>1. CASE Read(toServer, UINT_LEN - Len(gotOfN), bytes)
    <3>1. PICK m \in 1 .. UINT_LEN - Len(gotOfN) :
            m <= Len(toServer) /\ bytes = SubSeq(toServer, 1, m)
      BY <2>1 DEF Read
    <3>2. m \in 0 .. Len(toServer)
      BY <1>4, <3>1
    <3>3. Len(bytes) = m
      BY <1>4, <3>1, <3>2, ReadProps
    <3>. QED  BY <1>4, <1>5, <1>6, <3>1, <3>3
  <2>2. CASE EndOfFile(toServer, ClientGone, bytes)
    BY <1>4, <1>5, <1>6, <2>2 DEF EndOfFile
  <2>. QED  BY <1>1, <2>1, <2>2
<1>8. ASSUME NEW i \in 1 .. Len(gotOfN') PROVE gotOfN'[i] = UintByte(N, i)
  <2>1. CASE i <= Len(gotOfN)
    BY <1>0, <1>4, <1>6, <2>1 DEF StreamInv
  <2>2. CASE i > Len(gotOfN)
    <3>. DEFINE j == i - Len(gotOfN)
    <3>1. j \in 1 .. n /\ i = Len(gotOfN) + j /\ i <= UINT_LEN
      BY <1>4, <1>6, <1>7, <2>2
    <3>2. gotOfN'[i] = toServer[j]
      BY <1>5, <1>6, <3>1
    <3>3. j \in 1 .. Len(toServer)
      BY <1>3, <1>4, <3>1
    <3>4. toServer[j] = StreamByte(i)
      BY <1>0, <1>4, <3>1, <3>3 DEF StreamInv
    <3>. QED  BY <3>1, <3>2, <3>4 DEF StreamByte
  <2>. QED  BY <1>4, <1>6, <2>1, <2>2
\* What the thread then does: it reads on, or goes on to the data.
<1>9. \/ /\ ~WholeUint(gotOfN')
         /\ UNCHANGED <<serverN, serverPc>>
      \/ /\ serverPc' = "readData" /\ serverN' \in Uints
         /\ IF WholeUint(gotOfN') THEN serverN' = N
                                  ELSE clientPc = "died" /\ toServer' = << >>
  <2>1. CASE /\ Read(toServer, UINT_LEN - Len(gotOfN), bytes)
             /\ IF WholeUint(gotOfN')
                THEN serverN' \in ValuesOf(gotOfN') /\ serverPc' = "readData"
                ELSE UNCHANGED <<serverN, serverPc>>
    <3>1. CASE ~WholeUint(gotOfN')
      BY <2>1, <3>1
    <3>2. CASE WholeUint(gotOfN')
      <4>1. ValuesOf(gotOfN') = {N}
        BY <1>4, <1>6, <1>8, <3>2, ValueOfWhole DEF WholeUint
      <4>. QED  BY <1>4, <2>1, <3>2, <4>1
    <3>. QED  BY <3>1, <3>2
  <2>2. CASE /\ EndOfFile(toServer, ClientGone, bytes)
             /\ serverN' \in ValuesOf(gotOfN') /\ serverPc' = "readData"
    <3>1. Len(toServer') = 0 /\ Len(gotOfN') < UINT_LEN
      BY <1>4, <1>5, <1>6, <2>2 DEF EndOfFile
    <3>2. toServer' = << >> /\ ~WholeUint(gotOfN')
      BY <1>5, <3>1 DEF WholeUint
    <3>3. clientPc = "died"
      BY <1>0, <1>2, <2>2 DEF EndOfFile, ClientGone, AnswerInv, ServerGone
    <3>. QED  BY <2>2, <3>2, <3>3, ValuesType
  <2>. QED  BY <1>1, <2>1, <2>2
<1>10. TypeOK'
  BY <1>0, <1>2, <1>5, <1>6, <1>7, <1>9 DEF TypeOK
<1>11. ClientInv'
  BY <1>0, <1>2 DEF ClientInv, AsInt
<1>12. StreamInv'
  <2>1. ASSUME NEW i \in 1 .. Len(toServer')
        PROVE  toServer'[i] = StreamByte(Received + i)'
    <3>1. n + i \in 1 .. Len(toServer) /\ Received + (n + i) = Received' + i
      BY <1>3, <1>4, <1>5, <1>6
    <3>2. toServer'[i] = StreamByte(Received' + i)
      BY <1>0, <1>5, <3>1 DEF StreamInv
    <3>. QED  BY <1>2, <3>2 DEF StreamByte
  <2>2. Received' + Len(toServer') = Received + Len(toServer)
    BY <1>3, <1>4, <1>5, <1>6
  <2>. QED  BY <1>0, <1>2, <1>4, <1>8, <2>1, <2>2 DEF StreamInv
<1>13. ServerInv'
  BY <1>0, <1>2, <1>9 DEF ServerInv, AnsweredAfterAll, OrderlyClientSparesServer
<1>14. AnswerInv'
  BY <1>0, <1>2, <1>9 DEF AnswerInv, ClientGone, ServerGone, WholeUint, PrintedIsAnswer
<1>. QED  BY <1>10, <1>11, <1>12, <1>13, <1>14 DEF IInv

\* The thread takes the next bytes of the data and counts the printable ones.
LEMMA ReadDataInv ==
  ASSUME IInv, ReadData
  PROVE  IInv'
<1>0. TypeOK /\ ClientInv /\ StreamInv /\ ServerInv /\ AnswerInv
  BY DEF IInv
<1>1. PICK bytes \in {SubSeq(toServer, 1, n) : n \in 0 .. Len(toServer)} :
       /\ Read(toServer, BUFF_LEN, bytes) \/ EndOfFile(toServer, ClientGone, bytes)
       /\ toServer' = Left(toServer, bytes)
       /\ totalRead' = totalRead + Len(bytes)
       /\ totalPrintable' = totalPrintable + parsBuff(bytes)
       /\ serverPc' = IF MoreToRead(totalRead', Len(bytes)) THEN "readData" ELSE "sendC"
  BY DEF ReadData
<1>2. /\ serverPc = "readData"
      /\ UNCHANGED <<clientVars, gotOfN, serverN, sentOfC, toClient, link, sent>>
  BY DEF ReadData
<1>. USE DEF clientVars
<1>3. PICK n \in 0 .. Len(toServer) :
        bytes = SubSeq(toServer, 1, n) /\ toServer' = Left(toServer, bytes)
  BY <1>1
<1>4. /\ toServer \in Seq(Byte) /\ gotOfN \in Seq(Byte) /\ sent \in Seq(Byte)
      /\ Len(toServer) \in Nat /\ Len(gotOfN) \in Nat /\ Len(sent) \in Nat /\ n \in Nat
      /\ totalRead \in Nat /\ totalPrintable \in Nat /\ totalPrintable <= totalRead
      /\ N \in Uints /\ AsInt(N) \in Int /\ AsInt(N) <= IntMax
      /\ AsInt(N) > 0 => AsInt(N) = N
  BY <1>0, <1>3, AsIntType DEF TypeOK
<1>5. /\ bytes \in Seq(Byte) /\ Len(bytes) = n
      /\ \A i \in 1 .. n : bytes[i] = toServer[i]
      /\ toServer' \in Seq(Byte) /\ Len(toServer') = Len(toServer) - n
      /\ \A i \in 1 .. Len(toServer) - n : toServer'[i] = toServer[n + i]
  <2>1. bytes = SubSeq(toServer, 1, n) /\ toServer' = Left(toServer, SubSeq(toServer, 1, n))
    BY <1>3
  <2>2. toServer \in Seq(Byte)
    BY <1>4
  <2>. QED  BY <2>1, <2>2, ReadProps
<1>6. /\ totalRead' = totalRead + n /\ totalRead + n <= Len(sent)
      /\ \A i \in 1 .. n : bytes[i] = sent[totalRead + i]
  <2>1. CASE WholeUint(gotOfN)
    <3>1. Received = UINT_LEN + totalRead /\ totalRead + Len(toServer) = Len(sent)
      BY <1>0, <1>4, <2>1 DEF StreamInv, Received, WholeUint
    <3>2. ASSUME NEW i \in 1 .. n PROVE bytes[i] = sent[totalRead + i]
      <4>1. /\ i \in 1 .. Len(toServer) /\ totalRead + i \in Nat \ {0}
            /\ Received + i = UINT_LEN + (totalRead + i)
        BY <1>3, <1>4, <3>1
      <4>2. toServer[i] = StreamByte(Received + i)
        BY <1>0, <4>1 DEF StreamInv
      <4>3. StreamByte(UINT_LEN + (totalRead + i)) = sent[totalRead + i]
        BY <4>1, DataAfterN
      <4>4. toServer[i] = sent[totalRead + i]
        BY <4>1, <4>2, <4>3, Zenon
      <4>. QED  BY <1>5, <4>4
    <3>. QED  BY <1>1, <1>3, <1>4, <1>5, <3>1, <3>2
  <2>2. CASE ~WholeUint(gotOfN)
    <3>1. toServer = << >> /\ totalRead = 0
      BY <1>0, <1>2, <2>2 DEF ServerInv, StreamInv
    <3>2. n = 0
      BY <1>3, <3>1
    <3>. QED  BY <1>1, <1>4, <1>5, <3>1, <3>2
  <2>. QED  BY <2>1, <2>2
<1>7. /\ totalPrintable' = totalPrintable + Printables(bytes) /\ Printables(bytes) \in 0 .. n
      /\ totalPrintable' = Printables(SubSeq(sent, 1, totalRead'))
  <2>1. Printables(bytes) \in 0 .. n
    BY <1>5, PrintablesType
  <2>2. Printables(SubSeq(sent, 1, totalRead + n))
          = Printables(SubSeq(sent, 1, totalRead)) + Printables(bytes)
    BY <1>4, <1>5, <1>6, PrintablesOfPrefix
  <2>. QED  BY <1>0, <1>1, <1>6, <2>1, <2>2 DEF parsBuff, StreamInv
<1>8. totalRead' \in 0 .. IntMax /\ Len(sent) <= IF AsInt(N) > 0 THEN AsInt(N) ELSE 0
  BY <1>0, <1>4, <1>6 DEF ClientInv
<1>9. TypeOK'
  <2>1. totalPrintable' \in 0 .. totalRead'
    BY <1>4, <1>6, <1>7
  <2>2. serverPc' \in {"readData", "sendC"}
    BY <1>1
  <2>. QED  BY <1>0, <1>2, <1>5, <1>8, <2>1, <2>2 DEF TypeOK
<1>10. ClientInv'
  BY <1>0, <1>2 DEF ClientInv, AsInt
<1>11. Received' = Received + n /\ Received \in Nat
  BY <1>2, <1>4, <1>6 DEF Received
<1>12. StreamInv'
  <2>1. ASSUME NEW i \in 1 .. Len(toServer')
        PROVE  toServer'[i] = StreamByte(Received + i)'
    <3>1. /\ n \in 0 .. Len(toServer) /\ Len(toServer) \in Nat
          /\ Len(toServer') = Len(toServer) - n
      BY <1>4, <1>5
    <3>2. n + i \in 1 .. Len(toServer) /\ Received + (n + i) = Received' + i
      BY <1>11, <3>1
    <3>3. toServer'[i] = StreamByte(Received' + i)
      BY <1>0, <1>5, <3>1, <3>2 DEF StreamInv
    <3>. QED  BY <1>2, <3>3 DEF StreamByte
  <2>2. Received' + Len(toServer') = Received + Len(toServer)
    <3>1. n \in Nat /\ Len(toServer) \in Nat /\ Len(toServer') = Len(toServer) - n
      BY <1>4, <1>5
    <3>. QED  BY <1>11, <3>1
  <2>3. ~WholeUint(gotOfN') => totalRead' = 0
    <3>. SUFFICES ASSUME ~WholeUint(gotOfN) PROVE totalRead' = 0
      BY <1>2
    <3>1. toServer = << >> /\ totalRead = 0
      BY <1>0, <1>2 DEF ServerInv, StreamInv
    <3>. QED  BY <1>3, <1>6, <3>1
  <2>. QED  BY <1>0, <1>2, <1>7, <2>1, <2>2, <2>3 DEF StreamInv
\* The loop ends with a client that has not died only when all its bytes are read.
<1>13. ASSUME serverPc' = "sendC", clientPc # "died"
       PROVE  N > 0 /\ totalRead' = N /\ Len(sent) = N
  <2>1. serverN = N
    BY <1>0, <1>2, <1>13 DEF ServerInv
  <2>2. Read(toServer, BUFF_LEN, bytes)
    BY <1>0, <1>1, <1>2, <1>13 DEF EndOfFile, ClientGone, AnswerInv, ServerGone
  <2>3. n > 0
    <3>1. PICK m \in 1 .. BUFF_LEN : m <= Len(toServer) /\ bytes = SubSeq(toServer, 1, m)
      BY <2>2 DEF Read
    <3>2. m \in 0 .. Len(toServer)
      BY <1>4, <3>1
    <3>3. Len(bytes) = m
      BY <1>4, <3>1, <3>2, ReadProps
    <3>. QED  BY <1>5, <3>1, <3>3
  <2>4. ~(totalRead' < N)
    BY <1>1, <1>5, <1>13, <2>1, <2>3 DEF MoreToRead
  <2>. QED  BY <1>4, <1>6, <1>8, <2>3, <2>4 DEF Uints
<1>14. ServerInv'
  <2>1. ~WholeUint(gotOfN) => clientPc = "died" /\ toServer' = << >>
    <3>. SUFFICES ASSUME ~WholeUint(gotOfN) PROVE clientPc = "died" /\ toServer' = << >>
      OBVIOUS
    <3>1. clientPc = "died" /\ toServer = << >>
      BY <1>0, <1>2 DEF ServerInv
    <3>2. Len(toServer') = 0
      BY <1>3, <1>5, <3>1
    <3>. QED  BY <1>5, <3>1, <3>2
  <2>2. WholeUint(gotOfN) => serverN = N
    BY <1>0, <1>2 DEF ServerInv
  <2>3. serverPc' \in {"readData", "sendC"}
    BY <1>1
  <2>4. AnsweredAfterAll'
    BY <1>2, <1>13, <2>3 DEF AnsweredAfterAll
  <2>5. OrderlyClientSparesServer'
    BY <2>3 DEF OrderlyClientSparesServer
  <2>. QED  BY <1>2, <2>1, <2>2, <2>3, <2>4, <2>5 DEF ServerInv, WholeUint
<1>15. AnswerInv'
  <2>1. sentOfC = 0 /\ Len(gotOfC) = 0 /\ Len(toClient) = 0
    BY <1>0, <1>2 DEF AnswerInv, TypeOK
  <2>2. serverPc' \in {"readData", "sendC"} /\ clientPc # "done"
    BY <1>0, <1>1, <1>2 DEF AnswerInv, ServerGone
  <2>. QED
    BY <1>2, <2>1, <2>2 DEF AnswerInv, ClientGone, ServerGone, WholeUint, PrintedIsAnswer
<1>. QED  BY <1>9, <1>10, <1>12, <1>14, <1>15 DEF IInv

\* The thread sends the next bytes of its answer, and closes behind the last.
LEMMA SendCInv ==
  ASSUME IInv, SendC
  PROVE  IInv'
<1>0. TypeOK /\ ClientInv /\ StreamInv /\ ServerInv /\ AnswerInv
  BY DEF IInv
<1>1. PICK n \in 1 .. UINT_LEN - sentOfC :
        /\ toClient' = toClient \o Piece(UintBytes(totalPrintable), sentOfC, n)
        /\ sentOfC' = sentOfC + n
        /\ serverPc' = IF sentOfC + n = UINT_LEN THEN "closed" ELSE "sendC"
  BY DEF SendC
<1>2. /\ serverPc = "sendC"
      /\ UNCHANGED <<clientVars, gotOfN, serverN, totalRead, totalPrintable,
                     toServer, link, sent>>
  BY DEF SendC
<1>. USE DEF clientVars
<1>. DEFINE piece == Piece(UintBytes(totalPrintable), sentOfC, n)
<1>3. /\ sentOfC \in Nat /\ n \in Nat \ {0} /\ sentOfC + n <= UINT_LEN
      /\ totalPrintable \in Uints /\ toClient \in Seq(Byte)
      /\ Len(toClient) \in Nat /\ Len(gotOfC) \in Nat
      /\ sentOfC = Len(gotOfC) + Len(toClient)
  BY <1>0 DEF TypeOK, AnswerInv, Uints
<1>4. /\ piece \in Seq(Byte) /\ Len(piece) = n
      /\ \A i \in 1 .. n : piece[i] = UintByte(totalPrintable, sentOfC + i)
      /\ toClient' = toClient \o piece
  <2>. DEFINE all == UintBytes(totalPrintable)
  <2>1. /\ all \in Seq(Byte) /\ Len(all) = UINT_LEN
        /\ \A i \in 1 .. UINT_LEN : all[i] = UintByte(totalPrintable, i)
    BY <1>3, BytesType
  <2>2. \A i \in 1 .. n : sentOfC + i \in 1 .. UINT_LEN
    BY <1>3
  <2>3. /\ piece \in Seq(Byte) /\ Len(piece) = n
        /\ \A i \in 1 .. n : piece[i] = all[sentOfC + i]
    BY <1>3, <2>1, PieceProps
  <2>4. toClient' = toClient \o piece
    BY <1>1
  <2>. HIDE DEF piece, all
  <2>. QED  BY <2>1, <2>2, <2>3, <2>4
<1>. HIDE DEF piece
<1>5. /\ toClient' \in Seq(Byte) /\ Len(toClient') = Len(toClient) + n
      /\ \A i \in 1 .. Len(toClient) : toClient'[i] = toClient[i]
      /\ \A i \in 1 .. n : toClient'[Len(toClient) + i] = piece[i]
  BY <1>3, <1>4, AppendProps
<1>6. TypeOK'
  BY <1>0, <1>1, <1>2, <1>3, <1>5 DEF TypeOK
<1>7. ClientInv'
  BY <1>0, <1>2 DEF ClientInv, AsInt
<1>8. StreamInv'
  BY <1>0, <1>2 DEF StreamInv, StreamByte, Received, WholeUint
<1>9. ServerInv'
  BY <1>0, <1>1, <1>2 DEF ServerInv, AnsweredAfterAll, OrderlyClientSparesServer, WholeUint
<1>10. AnswerInv'
  <2>1. ASSUME NEW i \in 1 .. Len(toClient')
        PROVE  toClient'[i] = UintByte(totalPrintable, Len(gotOfC) + i)
    <3>1. CASE i <= Len(toClient)
      BY <1>0, <1>3, <1>5, <3>1 DEF AnswerInv
    <3>2. CASE i > Len(toClient)
      <4>. DEFINE j == i - Len(toClient)
      <4>1. j \in 1 .. n /\ i = Len(toClient) + j /\ sentOfC + j = Len(gotOfC) + i
        BY <1>3, <1>5, <3>2
      <4>. QED  BY <1>4, <1>5, <4>1
    <3>. QED  BY <1>3, <1>5, <3>1, <3>2
  <2>2. clientPc # "done"
    BY <1>0, <1>2 DEF AnswerInv, ServerGone
  <2>3. sentOfC' = Len(gotOfC') + Len(toClient')
    <3>1. Len(gotOfC') = Len(gotOfC) /\ sentOfC' = sentOfC + n
      BY <1>1, <1>2
    <3>2. Len(toClient') = Len(toClient) + n
      BY <1>5
    <3>. QED  BY <1>3, <3>1, <3>2
  <2>4. IF serverPc' = "closed" THEN sentOfC' = UINT_LEN ELSE serverPc' = "sendC" /\ sentOfC' < UINT_LEN
    BY <1>1, <1>3
  <2>. QED
    BY <1>0, <1>2, <2>1, <2>2, <2>3, <2>4
    DEF AnswerInv, ClientGone, ServerGone, WholeUint, PrintedIsAnswer
<1>. QED  BY <1>6, <1>7, <1>8, <1>9, <1>10 DEF IInv

----------------------------------------------------------------------------
(***************************************************************************)
(* The steps that change one program's place, or the link, and no data.    *)
(***************************************************************************)

\* The client ends by an error or is killed; what it sent stays under way.
LEMMA ClientDiesInv ==
  ASSUME IInv, ClientDies
  PROVE  IInv'
<1>0. TypeOK /\ ClientInv /\ StreamInv /\ ServerInv /\ AnswerInv
  BY DEF IInv
<1>1. /\ clientPc' = "died"
      /\ UNCHANGED <<N, buff, written, sentOfWrite, gotOfC, printed, serverVars,
                     toServer, toClient, link, sent>>
  BY DEF ClientDies
<1>. USE DEF serverVars
<1>2. TypeOK'
  BY <1>0, <1>1 DEF TypeOK
<1>3. ClientInv'
  BY <1>0, <1>1 DEF ClientInv, AsInt
<1>4. StreamInv'
  BY <1>0, <1>1 DEF StreamInv, StreamByte, Received, WholeUint
<1>5. ServerInv'
  BY <1>0, <1>1 DEF ServerInv, AnsweredAfterAll, OrderlyClientSparesServer, WholeUint
<1>6. AnswerInv'
  BY <1>0, <1>1 DEF AnswerInv, ClientGone, ServerGone, WholeUint, PrintedIsAnswer
<1>. QED  BY <1>2, <1>3, <1>4, <1>5, <1>6 DEF IInv

\* exit(-1) needs a client or a network that is gone; killed is what others do.
LEMMA ServerEndsInv ==
  ASSUME IInv, NEW how \in {"exited", "killed"}, ServerEnds(how), ~ServerGone,
         how = "exited" => Reset(ClientGone, toClient)
  PROVE  IInv'
<1>0. TypeOK /\ ClientInv /\ StreamInv /\ ServerInv /\ AnswerInv
  BY DEF IInv
<1>1. /\ serverPc' = how
      /\ UNCHANGED <<clientVars, gotOfN, serverN, totalRead, totalPrintable, sentOfC,
                     toServer, toClient, link, sent>>
  BY DEF ServerEnds
<1>. USE DEF clientVars
<1>2. TypeOK'
  BY <1>0, <1>1 DEF TypeOK
<1>3. ClientInv'
  BY <1>0, <1>1 DEF ClientInv, AsInt
<1>4. StreamInv'
  BY <1>0, <1>1 DEF StreamInv, StreamByte, Received, WholeUint
<1>5. ServerInv'
  <2>1. how = "exited" => link = "broken" \/ clientPc = "died"
    BY <1>0 DEF Reset, ClientGone, AnswerInv
  <2>. QED
    BY <1>0, <1>1, <2>1 DEF ServerInv, AnsweredAfterAll, OrderlyClientSparesServer, WholeUint
<1>6. AnswerInv'
  BY <1>0, <1>1 DEF AnswerInv, ClientGone, ServerGone, WholeUint, PrintedIsAnswer
<1>. QED  BY <1>2, <1>3, <1>4, <1>5, <1>6 DEF IInv

\* The network may end everything.
LEMMA BreakInv ==
  ASSUME IInv, Break
  PROVE  IInv'
<1>0. TypeOK /\ ClientInv /\ StreamInv /\ ServerInv /\ AnswerInv
  BY DEF IInv
<1>1. link' = "broken" /\ UNCHANGED <<clientVars, serverVars, toServer, toClient, sent>>
  BY DEF Break
<1>. USE DEF clientVars, serverVars
<1>2. TypeOK'
  BY <1>0, <1>1 DEF TypeOK
<1>3. ClientInv'
  BY <1>0, <1>1 DEF ClientInv, AsInt
<1>4. StreamInv'
  BY <1>0, <1>1 DEF StreamInv, StreamByte, Received, WholeUint
<1>5. ServerInv'
  BY <1>0, <1>1 DEF ServerInv, AnsweredAfterAll, OrderlyClientSparesServer, WholeUint
<1>6. AnswerInv'
  BY <1>0, <1>1 DEF AnswerInv, ClientGone, ServerGone, WholeUint, PrintedIsAnswer
<1>. QED  BY <1>2, <1>3, <1>4, <1>5, <1>6 DEF IInv

\* A step that changes nothing.
LEMMA StutterInv ==
  ASSUME IInv, UNCHANGED vars
  PROVE  IInv'
<1>0. TypeOK /\ ClientInv /\ StreamInv /\ ServerInv /\ AnswerInv
  BY DEF IInv
<1>. USE DEF vars, clientVars, serverVars
<1>2. TypeOK'
  BY <1>0 DEF TypeOK
<1>3. ClientInv'
  BY <1>0 DEF ClientInv, AsInt
<1>4. StreamInv'
  BY <1>0 DEF StreamInv, StreamByte, Received, WholeUint
<1>5. ServerInv'
  BY <1>0 DEF ServerInv, AnsweredAfterAll, OrderlyClientSparesServer, WholeUint
<1>6. AnswerInv'
  BY <1>0 DEF AnswerInv, ClientGone, ServerGone, WholeUint, PrintedIsAnswer
<1>. QED  BY <1>2, <1>3, <1>4, <1>5, <1>6 DEF IInv

----------------------------------------------------------------------------
(***************************************************************************)
(* The invariant, and the properties.                                      *)
(***************************************************************************)

\* A new connection has the inductive invariant.
LEMMA InitInv == Init => IInv
<1>. SUFFICES ASSUME Init PROVE IInv
  OBVIOUS
<1>. USE DEF Init
<1>1. << >> \in Seq(Byte) /\ Len(<< >>) = 0
  OBVIOUS
<1>2. TypeOK
  BY <1>1 DEF TypeOK, Uints
<1>3. ClientInv
  BY <1>1, <1>2, AsIntType DEF ClientInv
<1>4. StreamInv
  <2>1. SubSeq(sent, 1, totalRead) \in Seq(Byte) /\ Len(SubSeq(sent, 1, totalRead)) = 0
    BY <1>1, SubSeqProperties
  <2>2. Printables(SubSeq(sent, 1, totalRead)) = 0
    <3>1. Printables(SubSeq(sent, 1, totalRead)) \in 0 .. Len(SubSeq(sent, 1, totalRead))
      BY <2>1, PrintablesType
    <3>. QED  BY <2>1, <3>1
  <2>. QED  BY <1>1, <2>2 DEF StreamInv, Received, WholeUint
<1>5. ServerInv
  BY <1>1 DEF ServerInv, AnsweredAfterAll, OrderlyClientSparesServer, WholeUint
<1>6. AnswerInv
  BY <1>1 DEF AnswerInv, ClientGone, WholeUint, PrintedIsAnswer
<1>. QED  BY <1>2, <1>3, <1>4, <1>5, <1>6 DEF IInv

\* Every step of the two sides and of the network keeps the inductive invariant.
LEMMA StepInv == IInv /\ [Next]_vars => IInv'
<1>. SUFFICES ASSUME IInv, [Next]_vars PROVE IInv'
  OBVIOUS
<1>1. CASE ClientStep
  BY <1>1, SendNInv, FillInv, SendDataInv, ReadCInv DEF ClientStep
<1>2. CASE ClientFails \/ ClientKilled
  BY <1>2, ClientDiesInv DEF ClientFails, ClientKilled
<1>3. CASE ServerStep
  BY <1>3, ReadNInv, ReadDataInv, SendCInv DEF ServerStep
<1>4. CASE ServerFails
  BY <1>4, ServerEndsInv DEF ServerFails
<1>5. CASE ServerKilled
  BY <1>5, ServerEndsInv DEF ServerKilled
<1>6. CASE Break
  BY <1>6, BreakInv
<1>7. CASE UNCHANGED vars
  BY <1>7, StutterInv
<1>. QED  BY <1>1, <1>2, <1>3, <1>4, <1>5, <1>6, <1>7 DEF Next

\* However the reads and writes of the two programs cut the stream, and whoever dies
\* when, the invariant holds.
THEOREM Invariance == Spec => []IInv
<1>. QED  BY InitInv, StepInv, PTL DEF Spec

\* Every variable keeps its type: in particular the server's total, an int, never
\* overflows, because no client sends more than INT_MAX bytes.
THEOREM TypeCorrect == Spec => []TypeOK
<1>1. IInv => TypeOK
  BY DEF IInv
<1>. QED  BY <1>1, Invariance, PTL

\* The server takes the first bytes for N and the others for data, once and in
\* order, and counts exactly the printable ones among those it has read
\* (pcc_server.c, connectionMain; pcc_client.c, sendData).
THEOREM StreamCorrect == Spec => []StreamInOrder
<1>1. IInv => StreamInOrder
  <2>. SUFFICES ASSUME IInv PROVE StreamInOrder
    OBVIOUS
  <2>0. TypeOK /\ StreamInv
    BY DEF IInv
  <2>1. /\ toServer \in Seq(Byte) /\ gotOfN \in Seq(Byte) /\ sent \in Seq(Byte)
        /\ Len(toServer) \in Nat /\ Len(gotOfN) \in Nat /\ Len(sent) \in Nat
        /\ totalRead \in Nat /\ N \in Uints
    BY <2>0, AsIntType DEF TypeOK
  <2>2. totalRead <= Len(sent)
    BY <2>0, <2>1 DEF StreamInv, Received, WholeUint
  <2>3. ASSUME WholeUint(gotOfN)
        PROVE  /\ gotOfN = UintBytes(N)
               /\ toServer = SubSeq(sent, totalRead + 1, Len(sent))
    <3>1. gotOfN = UintBytes(N)
      BY <2>0, <2>1, <2>3, ValueOfWhole DEF StreamInv, WholeUint
    <3>2. Received = UINT_LEN + totalRead /\ Len(toServer) = Len(sent) - totalRead
      BY <2>0, <2>1, <2>3 DEF StreamInv, Received, WholeUint
    <3>. DEFINE rest == SubSeq(sent, totalRead + 1, Len(sent))
    <3>3. /\ rest \in Seq(Byte) /\ Len(rest) = Len(sent) - totalRead
          /\ \A i \in 1 .. Len(sent) - totalRead : rest[i] = sent[totalRead + i]
      BY <2>1, <2>2, SubSeqProperties
    <3>4. ASSUME NEW i \in 1 .. Len(toServer) PROVE toServer[i] = rest[i]
      <4>1. Received + i > UINT_LEN /\ Received + i - UINT_LEN = totalRead + i
        BY <2>1, <3>2
      <4>2. toServer[i] = StreamByte(Received + i)
        BY <2>0 DEF StreamInv
      <4>. QED  BY <3>2, <3>3, <4>1, <4>2 DEF StreamByte
    <3>. HIDE DEF rest
    <3>5. toServer = rest
      BY <2>1, <3>2, <3>3, <3>4, SeqEqual
    <3>. QED  BY <3>1, <3>5 DEF rest
  <2>. QED  BY <2>0, <2>2, <2>3 DEF StreamInOrder, StreamInv
<1>. QED  BY <1>1, Invariance, PTL

\* A client that has not died is answered only when the server has read all of its
\* N bytes, and at least one (the loop of connectionMain).
THEOREM AnsweredCorrect == Spec => []AnsweredAfterAll
<1>1. IInv => AnsweredAfterAll
  BY DEF IInv, ServerInv
<1>. QED  BY <1>1, Invariance, PTL

\* A client whose server answered prints the number of printable bytes of all it has
\* sent (pcc_client.c, main).
THEOREM PrintedCorrect == Spec => []PrintedIsAnswer
<1>1. IInv => PrintedIsAnswer
  BY DEF IInv, AnswerInv
<1>. QED  BY <1>1, Invariance, PTL

\* No write or read of the server fails because of a client that ends in order: its
\* process exits only when the client has died or the network has failed.
THEOREM OrderlyCorrect == Spec => []OrderlyClientSparesServer
<1>1. IInv => OrderlyClientSparesServer
  BY DEF IInv, ServerInv
<1>. QED  BY <1>1, Invariance, PTL
=============================================================================
