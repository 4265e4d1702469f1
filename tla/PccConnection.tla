---------------------------- MODULE PccConnection ----------------------------
(***************************************************************************)
(* ex5: one connection, byte by byte.  pcc_client.c sends N and then N     *)
(* bytes of /dev/urandom, and reads an answer; connectionMain in           *)
(* pcc_server.c reads N, reads bytes until it has N of them, and answers   *)
(* with the number of printable ones.  In PccServer all of this is the     *)
(* step Serve (or ServeFails).                                             *)
(*                                                                         *)
(* A read() takes some of the bytes that have arrived, a write() sends     *)
(* some of those it was given.  A byte is told by what the programs tell   *)
(* apart: which byte of which number it is, or whether it is printable.    *)
(***************************************************************************)
EXTENDS Integers, Sequences, FiniteSets

CONSTANTS
  UINT_LEN,   \* bytes of an unsigned int
  IntMax,     \* INT_MAX
  BUFF_LEN,   \* bytes of each side's buffer
  Arguments   \* what the client's third argument may say, as an unsigned int

VARIABLES
  N,             \* the client's N
  clientPc, buff, written, sentOfWrite, gotOfC, printed,
  serverPc, gotOfN, serverN, totalRead, totalPrintable, sentOfC,
  toServer, toClient,   \* the bytes under way in each direction
  link,                 \* "up", or "broken" by the network
  sent                  \* the bytes of the file sent so far

clientVars == <<N, clientPc, buff, written, sentOfWrite, gotOfC, printed>>
serverVars == <<serverPc, gotOfN, serverN, totalRead, totalPrintable, sentOfC>>
vars == <<clientVars, serverVars, toServer, toClient, link, sent>>

ASSUME UintLenAssumption == UINT_LEN \in Nat \ {0}
ASSUME IntMaxAssumption == IntMax \in Nat
ASSUME BuffLenAssumption == BUFF_LEN \in Nat \ {0}
ASSUME ArgumentsAssumption == Arguments \subseteq 0 .. 2 * IntMax + 1

Uints == 0 .. 2 * IntMax + 1

\* sendData takes its N as an int.
AsInt(n) == IF n > IntMax THEN n - 2 * (IntMax + 1) ELSE n

Byte == [uint : Uints, pos : 0 .. UINT_LEN, printable : BOOLEAN]
UintByte(n, k) == [uint |-> n, pos |-> k, printable |-> FALSE]
DataByte(p) == [uint |-> 0, pos |-> 0, printable |-> p]
UintBytes(n) == [k \in 1 .. UINT_LEN |-> UintByte(n, k)]

\* What an unsigned int holds whose bytes are those received: anything, when some
\* of them never came and were not initialised.
ValuesOf(bytes) == IF \E n \in Uints : bytes = UintBytes(n)
                   THEN {n \in Uints : bytes = UintBytes(n)} ELSE Uints

Printables(bytes) == Cardinality({k \in DOMAIN bytes : bytes[k].printable})

TypeOK ==
  /\ N \in Arguments
  /\ clientPc \in {"sendN", "fill", "sendData", "readC", "done", "died"}
  /\ buff \in Seq(Byte) /\ Len(buff) <= BUFF_LEN
  /\ written \in 0 .. IntMax
  /\ sentOfWrite \in 0 .. UINT_LEN + BUFF_LEN
  /\ gotOfC \in Seq(Byte) /\ Len(gotOfC) <= UINT_LEN
  /\ printed \in Uints \cup {-1}
  /\ serverPc \in {"readN", "readData", "sendC", "closed", "exited", "killed"}
  /\ gotOfN \in Seq(Byte) /\ Len(gotOfN) <= UINT_LEN
  /\ serverN \in Uints
  /\ totalRead \in 0 .. IntMax
  /\ totalPrintable \in 0 .. totalRead
  /\ sentOfC \in 0 .. UINT_LEN
  /\ toServer \in Seq(Byte) /\ toClient \in Seq(Byte) /\ sent \in Seq(Byte)
  /\ link \in {"up", "broken"}

Init ==
  /\ N \in Arguments
  /\ clientPc = "sendN" /\ buff = << >> /\ written = 0 /\ sentOfWrite = 0
  /\ gotOfC = << >> /\ printed = -1
  /\ serverPc = "readN" /\ gotOfN = << >> /\ serverN = 0
  /\ totalRead = 0 /\ totalPrintable = 0 /\ sentOfC = 0
  /\ toServer = << >> /\ toClient = << >> /\ link = "up" /\ sent = << >>

----------------------------------------------------------------------------
(***************************************************************************)
(* The socket.  read() returns some of the bytes that have arrived, or     *)
(* nothing once the other side has closed and they are all read.  Bytes    *)
(* that reach a closed socket are answered with a reset: a later write     *)
(* raises SIGPIPE and a later read fails.  Nothing passes a broken link.   *)
(***************************************************************************)

ClientGone == clientPc \in {"done", "died"}
ServerGone == serverPc \in {"closed", "exited", "killed"}

Read(stream, most, bytes) ==
  /\ link = "up"
  /\ \E n \in 1 .. most : n <= Len(stream) /\ bytes = SubSeq(stream, 1, n)

EndOfFile(stream, otherGone, bytes) ==
  link = "up" /\ stream = << >> /\ otherGone /\ bytes = << >>

Left(stream, bytes) == SubSeq(stream, Len(bytes) + 1, Len(stream))

FirstPiece(bytes, done, n) == SubSeq(bytes, 1, n)

\* The next n bytes of a write of `bytes`, `done` of them already sent.
Piece(bytes, done, n) == SubSeq(bytes, done + 1, done + n)

Reset(otherGone, unread) == link = "broken" \/ (otherGone /\ unread # << >>)

AnyUint(bytes) == bytes # << >>

\* An unsigned int is read until all its bytes are there, or read returned 0.
WholeUint(bytes) == Len(bytes) = UINT_LEN

Break ==
  /\ link = "up" /\ link' = "broken"
  /\ UNCHANGED <<clientVars, serverVars, toServer, toClient, sent>>

----------------------------------------------------------------------------
(***************************************************************************)
(* The client.                                                             *)
(***************************************************************************)

ClientDies ==
  /\ clientPc' = "died"
  /\ UNCHANGED <<N, buff, written, sentOfWrite, gotOfC, printed, serverVars,
                 toServer, toClient, link, sent>>

\* The loop condition of sendData.
AfterBlock(done) == IF done < AsInt(N) THEN "fill" ELSE "readC"

SendN ==
  /\ clientPc = "sendN" /\ link = "up"
  /\ \E n \in 1 .. UINT_LEN - sentOfWrite :
       /\ toServer' = toServer \o Piece(UintBytes(N), sentOfWrite, n)
       /\ IF sentOfWrite + n = UINT_LEN
          THEN clientPc' = AfterBlock(0) /\ sentOfWrite' = 0
          ELSE clientPc' = clientPc /\ sentOfWrite' = sentOfWrite + n
  /\ UNCHANGED <<N, buff, written, gotOfC, printed, serverVars, toClient, link, sent>>

ToRead == IF AsInt(N) - written < BUFF_LEN THEN AsInt(N) - written ELSE BUFF_LEN

Fill ==
  /\ clientPc = "fill"
  /\ \E p \in [1 .. ToRead -> BOOLEAN] : buff' = [k \in 1 .. ToRead |-> DataByte(p[k])]
  /\ clientPc' = "sendData"
  /\ UNCHANGED <<N, written, sentOfWrite, gotOfC, printed, serverVars,
                 toServer, toClient, link, sent>>

SendData ==
  /\ clientPc = "sendData" /\ link = "up"
  /\ \E n \in 1 .. Len(buff) - sentOfWrite :
       /\ toServer' = toServer \o Piece(buff, sentOfWrite, n)
       /\ sent' = sent \o Piece(buff, sentOfWrite, n)
       /\ IF sentOfWrite + n = Len(buff)
          THEN /\ written' = written + Len(buff) /\ sentOfWrite' = 0
               /\ clientPc' = AfterBlock(written + Len(buff))
          ELSE /\ sentOfWrite' = sentOfWrite + n
               /\ UNCHANGED <<clientPc, written>>
  /\ UNCHANGED <<N, buff, gotOfC, printed, serverVars, toClient, link>>

PrintC(bytes) ==
  /\ printed' \in ValuesOf(bytes)
  /\ clientPc' = "done"

ReadC ==
  /\ clientPc = "readC"
  /\ \E bytes \in {SubSeq(toClient, 1, n) : n \in 0 .. Len(toClient)} :
       /\ gotOfC' = gotOfC \o bytes
       /\ toClient' = Left(toClient, bytes)
       /\ \/ /\ Read(toClient, UINT_LEN - Len(gotOfC), bytes)
             /\ IF WholeUint(gotOfC') THEN PrintC(gotOfC')
                                      ELSE UNCHANGED <<clientPc, printed>>
          \/ /\ EndOfFile(toClient, ServerGone, bytes)
             /\ PrintC(gotOfC')
  /\ UNCHANGED <<N, buff, written, sentOfWrite, serverVars, toServer, link, sent>>

\* An error of read or write, or SIGPIPE.
ClientFails ==
  /\ clientPc \in {"sendN", "sendData", "readC"}
  /\ Reset(ServerGone, toServer)
  /\ ClientDies

ClientKilled == ~ClientGone /\ ClientDies

----------------------------------------------------------------------------
(***************************************************************************)
(* The thread of the connection.                                           *)
(***************************************************************************)

ReadN ==
  /\ serverPc = "readN"
  /\ \E bytes \in {SubSeq(toServer, 1, n) : n \in 0 .. Len(toServer)} :
       /\ gotOfN' = gotOfN \o bytes
       /\ toServer' = Left(toServer, bytes)
       /\ \/ /\ Read(toServer, UINT_LEN - Len(gotOfN), bytes)
             /\ IF WholeUint(gotOfN')
                THEN serverN' \in ValuesOf(gotOfN') /\ serverPc' = "readData"
                ELSE UNCHANGED <<serverN, serverPc>>
          \/ /\ EndOfFile(toServer, ClientGone, bytes)
             /\ serverN' \in ValuesOf(gotOfN') /\ serverPc' = "readData"
  /\ UNCHANGED <<clientVars, totalRead, totalPrintable, sentOfC, toClient, link, sent>>

MoreUntilLast(total, ret) == total + 1 < serverN /\ ret > 0
MoreThanAll(total, ret)   == total <= serverN /\ ret > 0
MoreAtEnd(total, ret)     == total < serverN

\* The condition of the do ... while, after a read that returned ret bytes.
MoreToRead(total, ret) == total < serverN /\ ret > 0

parsWholeBuff(bytes) == BUFF_LEN

parsBuff(bytes) == Printables(bytes)

ReadData ==
  /\ serverPc = "readData"
  /\ \E bytes \in {SubSeq(toServer, 1, n) : n \in 0 .. Len(toServer)} :
       /\ Read(toServer, BUFF_LEN, bytes) \/ EndOfFile(toServer, ClientGone, bytes)
       /\ toServer' = Left(toServer, bytes)
       /\ totalRead' = totalRead + Len(bytes)
       /\ totalPrintable' = totalPrintable + parsBuff(bytes)
       /\ serverPc' = IF MoreToRead(totalRead', Len(bytes)) THEN "readData" ELSE "sendC"
  /\ UNCHANGED <<clientVars, gotOfN, serverN, sentOfC, toClient, link, sent>>

SendC ==
  /\ serverPc = "sendC" /\ link = "up"
  /\ \E n \in 1 .. UINT_LEN - sentOfC :
       /\ toClient' = toClient \o Piece(UintBytes(totalPrintable), sentOfC, n)
       /\ sentOfC' = sentOfC + n
       /\ serverPc' = IF sentOfC + n = UINT_LEN THEN "closed" ELSE "sendC"
  /\ UNCHANGED <<clientVars, gotOfN, serverN, totalRead, totalPrintable,
                 toServer, link, sent>>

ServerEnds(how) ==
  /\ serverPc' = how
  /\ UNCHANGED <<clientVars, gotOfN, serverN, totalRead, totalPrintable, sentOfC,
                 toServer, toClient, link, sent>>

\* exit(-1) after an error, or SIGPIPE: the whole server ends.
ServerFails ==
  /\ ~ServerGone
  /\ Reset(ClientGone, toClient)
  /\ ServerEnds("exited")

\* The server ends for another connection's sake, or because its main returned.
ServerKilled == ~ServerGone /\ ServerEnds("killed")

----------------------------------------------------------------------------
ClientStep == SendN \/ Fill \/ SendData \/ ReadC
ServerStep == ReadN \/ ReadData \/ SendC
Next == \/ ClientStep \/ ClientFails \/ ClientKilled
        \/ ServerStep \/ ServerFails \/ ServerKilled
        \/ Break

\* Each program runs whenever it can; nothing fails because it must.
Fairness == WF_vars(ClientStep) /\ WF_vars(ServerStep)
Spec == Init /\ [][Next]_vars /\ Fairness

----------------------------------------------------------------------------
(***************************************************************************)
(* Properties.                                                             *)
(***************************************************************************)

\* However the bytes are cut into reads and writes, the server takes the first
\* UINT_LEN for N and every other for data, once and in order, and has counted
\* exactly the printable ones among those it has read.
StreamInOrder ==
  /\ WholeUint(gotOfN) =>
       /\ gotOfN = UintBytes(N)
       /\ toServer = SubSeq(sent, totalRead + 1, Len(sent))
  /\ ~WholeUint(gotOfN) => totalRead = 0
  /\ totalRead <= Len(sent)
  /\ totalPrintable = Printables(SubSeq(sent, 1, totalRead))

\* A client that has not died is answered only when the server has read all of
\* its N bytes, and at least one: a client that announces none, or so many that
\* sendData takes the number for a negative one, waits for ever with the server.
AnsweredAfterAll ==
  serverPc \in {"sendC", "closed"} /\ clientPc # "died" =>
    N > 0 /\ totalRead = N /\ Len(sent) = N

\* What a client prints is the number of printable bytes of all it has sent,
\* unless the server's process ended before it answered.
PrintedIsAnswer ==
  clientPc = "done" /\ serverPc = "closed" => printed = Printables(sent)

\* A connection ends the whole server only if its client died before it was
\* answered or the network failed; a client that ends in order never does.
OrderlyClientSparesServer ==
  serverPc = "exited" => link = "broken" \/ clientPc = "died"

\* With data to send, and a network, both programs end.
DataEnds ==
  AsInt(N) > 0 /\ [](link = "up") => <>(ClientGone /\ ServerGone)

\* Whatever N it announced and however much of it the server has read, a client
\* that dies does not keep its thread: the shutdown waits for that thread.
DeadClientFreesThread ==
  clientPc = "died" ~> ServerGone \/ link = "broken"
=============================================================================
