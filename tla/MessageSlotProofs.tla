-------------------------- MODULE MessageSlotProofs --------------------------
(***************************************************************************)
(* Proofs about MessageSlot.  IInv is inductive, and the safety properties *)
(* are among its conjuncts or follow from them.                            *)
(***************************************************************************)
EXTENDS MessageSlot, NumberLemmas, FiniteSetTheorems, SequenceTheorems, TLAPS

USE NullAssumption, MemoryAssumption, WidthAssumption, ParamsAssumption, LenAssumption

----------------------------------------------------------------------------
(***************************************************************************)
(* The inductive invariant.                                                *)
(***************************************************************************)

\* No node of minor m is in the list up to the place of node n.
NoneUpTo(n, m) ==
  \A j, k \in DOMAIN minors :
    minors[k] = n /\ j <= k => minorNode[minors[j]].minor # m

\* What a call knows of the node it works on, whatever ran since it looked: an open
\* that will hang its node behind another one keeps a list without its minor.
CallOK(p) ==
  /\ At(p, "open") => call[p].node = NULL
  /\ ~At(p, "open") => call[p].minor # NULL
  /\ At(p, "openAlloc") =>
       \/ call[p].node = NULL
       \/ call[p].node \in DOMAIN minorNode /\ NoneUpTo(call[p].node, call[p].minor)
  /\ call[p].pc \in {"ioctlAlloc", "io", "copyIn", "copyOut", "written", "read"} =>
       /\ call[p].node \in DOMAIN minorNode
       /\ minorNode[call[p].node].minor = call[p].minor
  /\ At(p, "copyIn") => call[p].i < call[p].len
  /\ At(p, "copyOut") => call[p].i < BUFFER_LENGTH

CallInv == \A p \in Processes : CallOK(p)

\* The list of a minor is its first channel alone; every other points to that one,
\* and the current one is one of them.
NodeOK(n) ==
  LET head == minorNode[n].channels  curr == Curr(n) IN
  /\ head # NULL => head \in DOMAIN channelNode /\ channelNode[head].next = NULL
  /\ curr # NULL =>
       /\ head # NULL /\ curr \in DOMAIN channelNode
       /\ curr = head \/ channelNode[curr].next = head

ChannelOK(c) ==
  LET next == channelNode[c].next IN
  next # NULL => next \in DOMAIN channelNode /\ channelNode[next].next = NULL

\* No two minors have the same first channel.
ChannelInv ==
  /\ \A n \in DOMAIN minorNode : NodeOK(n)
  /\ \A c \in DOMAIN channelNode : ChannelOK(c)
  /\ \A n1, n2 \in DOMAIN minorNode :
       minorNode[n1].channels = minorNode[n2].channels /\ minorNode[n1].channels # NULL
         => n1 = n2

\* A process that is alone at its minor: its node is in the list, the current channel
\* is the one it asked for, and holds, or has given it, the bytes copied so far.
AloneOK(p) ==
  LET n == call[p].node  c == Curr(n) IN
  alone[p] =>
    /\ call[p].pc \in {"io", "copyIn", "copyOut", "written", "read"}
    /\ Listed(n) /\ c # NULL
    /\ channelNode[c].id = AsInt(call[p].param)
    /\ At(p, "copyIn") => \A k \in 0 .. call[p].i-1 : channelNode[c].message[k] = p
    /\ At(p, "copyOut") =>
         \A k \in 0 .. call[p].i-1 : call[p].buff[k] = channelNode[c].message[k]
    /\ At(p, "read") => call[p].buff = channelNode[c].message
    /\ At(p, "written") =>
         /\ channelNode[c].length = call[p].len
         /\ \A k \in 0 .. call[p].len-1 : channelNode[c].message[k] = p

AloneInv == \A p \in Processes : AloneOK(p)

IInv ==
  /\ TypeOK
  /\ MinorsDistinct
  /\ CallInv
  /\ ChannelInv
  /\ AloneInv

----------------------------------------------------------------------------
(***************************************************************************)
(* Walking through the channels.                                           *)
(***************************************************************************)

K == Cardinality(Channels)

\* The bound of a search is a number.
LEMMA KType == K \in Nat
BY MemoryAssumption, FS_CardinalityType DEF K

\* The list that begins at c has ended after two channels.
EndsSoon(c) ==
  \/ c = NULL
  \/ channelNode[c].next = NULL
  \/ channelNode[channelNode[c].next].next = NULL

\* What the walk of such a list is.
ShortWalk(c) ==
  [k \in 0 .. K |-> IF k = 0 THEN c
                    ELSE IF k = 1 /\ c # NULL THEN channelNode[c].next ELSE NULL]

\* A search that ends soon is the recursive function of the model.
LEMMA WalkIsShort ==
  ASSUME NEW c, EndsSoon(c)
  PROVE  Walk(c) = ShortWalk(c)
<1>. DEFINE S == ShortWalk(c)
            Eq(g) == g = [k \in 0 .. K |->
                            IF k = 0 THEN c
                            ELSE IF g[k-1] = NULL THEN NULL ELSE channelNode[g[k-1]].next]
<1>1. Walk(c) = CHOOSE g : Eq(g)
  BY DEF Walk, K
<1>2. Eq(S)
  <2>. SUFFICES ASSUME NEW k \in 0 .. K
                PROVE  S[k] = IF k = 0 THEN c
                              ELSE IF S[k-1] = NULL THEN NULL ELSE channelNode[S[k-1]].next
    BY DEF ShortWalk
  <2>1. CASE k = 0
    BY <2>1 DEF ShortWalk
  <2>2. CASE k = 1
    <3>1. k-1 = 0 /\ k-1 \in 0 .. K
      BY <2>2, KType
    <3>2. S[k-1] = c
      BY <3>1 DEF ShortWalk
    <3>. QED  BY <2>2, <3>2 DEF ShortWalk
  <2>3. CASE k = 2
    <3>1. k-1 = 1 /\ k-1 \in 0 .. K
      BY <2>3, KType
    <3>2. S[k-1] = IF c # NULL THEN channelNode[c].next ELSE NULL
      BY <3>1 DEF ShortWalk
    <3>3. S[k] = NULL
      BY <2>3 DEF ShortWalk
    <3>. QED  BY <2>3, <3>2, <3>3 DEF EndsSoon
  <2>4. CASE k > 2
    <3>1. k-1 # 0 /\ k-1 # 1 /\ k-1 \in 0 .. K /\ k # 0 /\ k # 1
      BY <2>4, KType
    <3>2. S[k-1] = NULL /\ S[k] = NULL
      BY <3>1 DEF ShortWalk
    <3>. QED  BY <3>1, <3>2
  <2>. QED  BY KType, <2>1, <2>2, <2>3, <2>4
<1>3. ASSUME NEW g, Eq(g) PROVE g = S
  <2>. DEFINE T == {k \in 0 .. K : g[k] # S[k]}
  <2>1. T = {}
    <3>. SUFFICES ASSUME T # {} PROVE FALSE
      OBVIOUS
    <3>1. T \in SUBSET Nat
      BY KType
    <3>2. PICK x \in T : \A y \in T : x <= y
      BY <3>1, LeastElement
    <3>3. x \in 0 .. K /\ g[x] # S[x]
      BY <3>2
    <3>4. g[x] = IF x = 0 THEN c ELSE IF g[x-1] = NULL THEN NULL ELSE channelNode[g[x-1]].next
      BY <1>3, <3>3
    <3>5. S[x] = IF x = 0 THEN c ELSE IF S[x-1] = NULL THEN NULL ELSE channelNode[S[x-1]].next
      BY <1>2, <3>3
    <3>6. CASE x = 0
      BY <3>3, <3>4, <3>5, <3>6
    <3>7. CASE x # 0
      <4>1. x-1 \in 0 .. K /\ ~(x <= x-1)
        BY <3>3, <3>7, KType
      <4>2. g[x-1] = S[x-1]
        BY <3>2, <4>1
      <4>. QED  BY <3>3, <3>4, <3>5, <3>7, <4>2
    <3>. QED  BY <3>6, <3>7
  <2>2. \A k \in 0 .. K : g[k] = S[k]
    BY <2>1
  <2>3. /\ DOMAIN g = 0 .. K /\ g = [k \in 0 .. K |-> g[k]]
        /\ DOMAIN S = 0 .. K /\ S = [k \in 0 .. K |-> S[k]]
    BY <1>2, <1>3 DEF ShortWalk
  <2>. QED  BY <2>2, <2>3
<1>. HIDE DEF S, Eq
<1>4. Eq(Walk(c))
  BY <1>1, <1>2
<1>. QED  BY <1>3, <1>4 DEF S

\* A channel is only reached from the two channels at its front.
LEMMA ChainIsShort ==
  ASSUME NEW c, EndsSoon(c)
  PROVE  Chain(c) \subseteq {c, channelNode[c].next} \ {NULL} /\ (c = NULL => Chain(c) = {})
<1>1. Walk(c) = ShortWalk(c)
  BY WalkIsShort
<1>2. \A k \in 0 .. K : Walk(c)[k] \in {c, channelNode[c].next, NULL}
  BY <1>1 DEF ShortWalk
<1>3. c = NULL => \A k \in 0 .. K : Walk(c)[k] = NULL
  BY <1>1 DEF ShortWalk
<1>4. DOMAIN Walk(c) = 0 .. K
  BY <1>1 DEF ShortWalk
<1>. QED  BY <1>2, <1>3, <1>4 DEF Chain

\* In a list of one channel the search finds that one or none.
LEMMA FindChannelProps ==
  ASSUME NEW head, NEW param, head = NULL \/ channelNode[head].next = NULL,
         FindChannel(head, param) # NULL
  PROVE  FindChannel(head, param) = head /\ HasId(head, param)
<1>. DEFINE hits == {k \in DOMAIN Walk(head) : Walk(head)[k] # NULL /\ HasId(Walk(head)[k], param)}
<1>1. Walk(head) = ShortWalk(head)
  BY WalkIsShort DEF EndsSoon
<1>2. \A k \in 0 .. K : IF k = 0 THEN Walk(head)[k] = head ELSE Walk(head)[k] = NULL
  BY <1>1 DEF ShortWalk
<1>3. DOMAIN Walk(head) = 0 .. K
  BY <1>1 DEF ShortWalk
<1>4. hits \subseteq {0}
  BY <1>2, <1>3
<1>5. hits # {}
  BY DEF FindChannel
<1>6. hits = {0} /\ Walk(head)[0] = head /\ HasId(head, param)
  BY <1>2, <1>3, <1>4, <1>5
<1>7. FindChannel(head, param) = Walk(head)[CHOOSE k \in hits : \A j \in hits : k <= j]
  BY <1>5 DEF FindChannel
<1>8. (CHOOSE k \in hits : \A j \in hits : k <= j) = 0
  <2>. HIDE DEF hits
  <2>1. \E k \in hits : \A j \in hits : k <= j
    BY <1>6
  <2>. QED  BY <1>6, <2>1
<1>. QED  BY <1>6, <1>7, <1>8

----------------------------------------------------------------------------
(***************************************************************************)
(* The ids.                                                                *)
(***************************************************************************)

\* A value taken as an int is one.
LEMMA AsIntType == \A n \in Int : AsInt(n) \in -(IntMax + 1) .. IntMax
<1>. SUFFICES ASSUME NEW n \in Int PROVE AsInt(n) \in -(IntMax + 1) .. IntMax
  OBVIOUS
<1>. DEFINE w == 2 * (IntMax + 1)
            r == (n + IntMax + 1) % w
<1>1. w \in Nat \ {0} /\ n + IntMax + 1 \in Int
  OBVIOUS
<1>. HIDE DEF w
<1>2. r \in 0 .. w-1
  BY <1>1, Division
<1>3. AsInt(n) = r - (IntMax + 1)
  BY DEF AsInt, w
<1>. HIDE DEF r
<1>. QED  BY <1>2, <1>3 DEF w

\* An int that equals an unsigned long when it is converted to one is what that
\* unsigned long becomes as an int.
LEMMA AsIntOfAsUlong ==
  ASSUME NEW id \in -(IntMax + 1) .. IntMax
  PROVE  AsInt(AsUlong(id)) = id
<1>. DEFINE w == 2 * (IntMax + 1)
            r == id + IntMax + 1
            q == (UlongMax + 1) \div w
<1>1. w \in Nat \ {0} /\ r \in 0 .. w-1
  OBVIOUS
<1>2. UlongMax + 1 \in Int /\ (UlongMax + 1) % w = 0
  OBVIOUS
<1>. HIDE DEF w
<1>3. q \in Int /\ UlongMax + 1 = w * q
  <2>1. /\ (UlongMax + 1) \div w \in Int
        /\ UlongMax + 1 = w * ((UlongMax + 1) \div w) + ((UlongMax + 1) % w)
    BY <1>1, <1>2, Division
  <2>. QED  BY <1>1, <1>2, <2>1
<1>. HIDE DEF q, r
<1>4. r % w = r /\ (w * q + r) % w = r
  BY <1>1, <1>3, RemainderOfSmall
<1>5. AsUlong(id) + IntMax + 1 \in {r, w * q + r}
  BY <1>3 DEF AsUlong, r
<1>6. AsInt(AsUlong(id)) = r - (IntMax + 1)
  BY <1>4, <1>5 DEF AsInt, w
<1>. QED  BY <1>6 DEF r

----------------------------------------------------------------------------
(***************************************************************************)
(* The list of minors.                                                     *)
(***************************************************************************)

\* What the locals of a call are.
LEMMA CallType ==
  ASSUME TypeOK, NEW p \in Processes
  PROVE  /\ call[p] \in Calls /\ alone[p] \in BOOLEAN
         /\ call[p].minor \in Minors \cup {NULL} /\ call[p].node \in MinorNodes \cup {NULL}
         /\ call[p].param \in Params /\ call[p].param \in Int
         /\ call[p].len \in 0 .. MaxLen /\ call[p].i \in 0 .. BUFFER_LENGTH
         /\ call[p].buff \in [Cells -> Bytes]
<1>1. call[p] \in Calls /\ alone[p] \in BOOLEAN
  BY DEF TypeOK
<1>2. Params \subseteq Int
  OBVIOUS
<1>. QED  BY <1>1, <1>2 DEF Calls

\* What the list of minors is.
LEMMA ListType ==
  ASSUME TypeOK
  PROVE  /\ Len(minors) \in Nat /\ DOMAIN minors = 1 .. Len(minors)
         /\ \A k \in DOMAIN minors : minors[k] \in DOMAIN minorNode
         /\ \A n \in DOMAIN minorNode : n \in MinorNodes /\ n # NULL
BY DEF TypeOK

\* The search finds the node of the minor in the list, if there is one.
LEMMA FindMinorProps ==
  ASSUME TypeOK, NEW m
  PROVE  \/ /\ FindMinor(m) = NULL
            /\ \A k \in DOMAIN minors : minorNode[minors[k]].minor # m
         \/ /\ FindMinor(m) # NULL /\ FindMinor(m) \in DOMAIN minorNode
            /\ Listed(FindMinor(m)) /\ minorNode[FindMinor(m)].minor = m
<1>1. CASE Positions(m) = {}
  BY <1>1 DEF FindMinor, Positions
<1>2. CASE Positions(m) # {}
  <2>1. Positions(m) \in SUBSET Nat
    BY ListType DEF Positions
  <2>2. \E k \in Positions(m) : \A j \in Positions(m) : k <= j
    BY <1>2, <2>1, LeastElement
  <2>. DEFINE first == CHOOSE k \in Positions(m) : \A j \in Positions(m) : k <= j
  <2>3. first \in Positions(m)
    BY <2>2
  <2>4. FindMinor(m) = minors[first]
    BY <1>2 DEF FindMinor
  <2>. HIDE DEF first
  <2>. QED  BY <2>3, <2>4, ListType DEF Positions, Listed
<1>. QED  BY <1>1, <1>2

\* What is in the list under its minor is what the search finds.
LEMMA ListedIsFound ==
  ASSUME TypeOK, MinorsDistinct, NEW n, Listed(n)
  PROVE  FindMinor(minorNode[n].minor) = n
BY FindMinorProps DEF MinorsDistinct, Listed

\* The list up to prev, or nothing when there is no prev.
UpTo(head, prev) ==
  /\ head \in Seq(DOMAIN minorNode) /\ Len(head) <= Len(minors)
  /\ \A k \in 1 .. Len(head) : head[k] = minors[k]
  /\ Len(head) > 0 => prev # NULL /\ minors[Len(head)] = prev

\* After a tail was hung behind prev the list is what it was up to prev, and the tail;
\* or what it was, when prev is not in it any more.
LEMMA LinkProps ==
  ASSUME TypeOK, NEW prev, NEW S, NEW tail \in Seq(S), Link(prev, tail)
  PROVE  \/ minors' = minors
         \/ \E head : UpTo(head, prev) /\ minors' = head \o tail
<1>1. CASE prev = NULL
  <2>1. minors' = << >> \o tail
    BY <1>1, ConcatEmptySeq DEF Link
  <2>2. UpTo(<< >>, prev)
    BY ListType DEF UpTo
  <2>. QED  BY <2>1, <2>2
<1>2. CASE prev # NULL /\ Listed(prev)
  <2>. DEFINE cut == CHOOSE k \in DOMAIN minors : minors[k] = prev
              head == SubSeq(minors, 1, cut)
  <2>1. cut \in DOMAIN minors /\ minors[cut] = prev
    BY <1>2 DEF Listed
  <2>2. minors' = head \o tail
    BY <1>2 DEF Link
  <2>. HIDE DEF cut
  <2>3. cut \in 1 .. Len(minors) /\ cut \in Int
    BY <2>1, ListType
  <2>4. \A k \in 1 .. cut : minors[k] \in DOMAIN minorNode
    BY <2>3, ListType
  <2>5. /\ head \in Seq(DOMAIN minorNode) /\ Len(head) = cut
        /\ \A k \in 1 .. cut : head[k] = minors[k]
    <3>1. /\ head \in Seq(DOMAIN minorNode)
          /\ Len(head) = IF 1 <= cut THEN cut - 1 + 1 ELSE 0
          /\ \A k \in 1 .. cut - 1 + 1 : head[k] = minors[1 + k - 1]
      BY <2>3, <2>4, SubSeqProperties
    <3>2. cut - 1 + 1 = cut /\ 1 <= cut /\ \A k \in 1 .. cut : 1 + k - 1 = k
      BY <2>3
    <3>. QED  BY <3>1, <3>2
  <2>6. cut <= Len(minors)
    BY <2>3
  <2>7. UpTo(head, prev)
    BY <1>2, <2>1, <2>5, <2>6 DEF UpTo
  <2>. QED  BY <2>2, <2>7
<1>3. CASE prev # NULL /\ ~Listed(prev)
  BY <1>3 DEF Link
<1>. QED  BY <1>1, <1>2, <1>3

----------------------------------------------------------------------------
(***************************************************************************)
(* What a step leaves alone.                                               *)
(***************************************************************************)

\* A call that did not move keeps its node, as long as no node changes its minor.
LEMMA CallFrame ==
  ASSUME TypeOK, NEW q, CallOK(q), call'[q] = call[q], minors' = minors,
         \A n \in DOMAIN minorNode :
           n \in DOMAIN minorNode' /\ minorNode'[n].minor = minorNode[n].minor
  PROVE  CallOK(q)'
<1>1. \A n, m : NoneUpTo(n, m) => NoneUpTo(n, m)'
  BY ListType DEF NoneUpTo
<1>. QED  BY <1>1 DEF CallOK, At

\* A process stays alone with its channel when nobody changed its node or channel.
LEMMA AloneFrame ==
  ASSUME NEW q, AloneOK(q), call'[q] = call[q], NEW n, n = call[q].node, NEW c, c = Curr(n),
         alone'[q] => /\ alone[q]
                      /\ \E k \in DOMAIN minors' : minors'[k] = n
                      /\ minorNode'[n].curr = c
                      /\ channelNode'[c] = channelNode[c]
  PROVE  AloneOK(q)'
<1>. SUFFICES ASSUME alone'[q] PROVE AloneOK(q)'
  BY DEF AloneOK
<1>1. call'[q].node = n /\ minorNode'[n].curr = c /\ channelNode'[c] = channelNode[c]
  OBVIOUS
<1>2. Curr(call[q].node)' = c
  BY <1>1 DEF Curr
<1>3. Listed(call[q].node)'
  BY <1>1 DEF Listed
<1>4. AloneOK(q) /\ alone[q] /\ c = Curr(call[q].node)
  OBVIOUS
<1>. QED  BY <1>1, <1>2, <1>3, <1>4 DEF AloneOK, At

\* What it takes to be alone after a step, in terms of the call after it.
LEMMA AloneNext ==
  ASSUME NEW p, NEW x, call'[p] = x, NEW c, c = minorNode'[x.node].curr,
         alone'[p] =>
           /\ x.pc \in {"io", "copyIn", "copyOut", "written", "read"}
           /\ \E k \in DOMAIN minors' : minors'[k] = x.node
           /\ c # NULL /\ channelNode'[c].id = AsInt(x.param)
           /\ x.pc = "copyIn" => \A k \in 0 .. x.i-1 : channelNode'[c].message[k] = p
           /\ x.pc = "copyOut" => \A k \in 0 .. x.i-1 : x.buff[k] = channelNode'[c].message[k]
           /\ x.pc = "read" => x.buff = channelNode'[c].message
           /\ x.pc = "written" => /\ channelNode'[c].length = x.len
                                 /\ \A k \in 0 .. x.len-1 : channelNode'[c].message[k] = p
  PROVE  AloneOK(p)'
<1>1. Curr(call[p].node)' = c
  BY DEF Curr
<1>. QED  BY <1>1 DEF AloneOK, At, Listed

\* What an action has to show when it only moves the call of p.
LEMMA CallStep ==
  ASSUME IInv, NEW p \in Processes, NEW x \in Calls, call' = [call EXCEPT ![p] = x],
         alone' \in [Processes -> BOOLEAN],
         \A q \in Processes \ {p} : alone'[q] => alone[q],
         UNCHANGED deviceVars, CallOK(p)', AloneOK(p)'
  PROVE  IInv'
<1>1. TypeOK /\ MinorsDistinct /\ CallInv /\ ChannelInv /\ AloneInv
  BY DEF IInv
<1>2. \A q \in Processes \ {p} : call'[q] = call[q]
  BY <1>1 DEF TypeOK
<1>3. TypeOK'
  <2>1. call' \in [Processes -> Calls]
    BY <1>1 DEF TypeOK
  <2>. QED  BY <1>1, <2>1 DEF TypeOK, deviceVars
<1>4. MinorsDistinct'
  BY <1>1 DEF MinorsDistinct, deviceVars
<1>5. ChannelInv'
  BY <1>1 DEF ChannelInv, NodeOK, ChannelOK, Curr, deviceVars
<1>6. ASSUME NEW q \in Processes PROVE CallOK(q)'
  <2>1. CASE q = p
    BY <2>1
  <2>2. CASE q # p
    BY <1>1, <1>2, <2>2, CallFrame DEF CallInv, deviceVars
  <2>. QED  BY <2>1, <2>2
<1>7. ASSUME NEW q \in Processes PROVE AloneOK(q)'
  <2>1. CASE q = p
    BY <2>1
  <2>2. CASE q # p
    <3>1. call'[q] = call[q] /\ (alone'[q] => alone[q]) /\ AloneOK(q)
      BY <1>1, <1>2, <2>2 DEF AloneInv
    <3>2. alone'[q] =>
            /\ \E k \in DOMAIN minors' : minors'[k] = call[q].node
            /\ minorNode'[call[q].node].curr = Curr(call[q].node)
            /\ channelNode'[Curr(call[q].node)] = channelNode[Curr(call[q].node)]
      BY <3>1 DEF AloneOK, Listed, Curr, deviceVars
    <3>. QED  BY <3>1, <3>2, AloneFrame
  <2>. QED  BY <2>1, <2>2
<1>. QED  BY <1>3, <1>4, <1>5, <1>6, <1>7 DEF IInv, CallInv, AloneInv

\* Outside of read() and write() a process is not alone.
LEMMA NotAlone ==
  ASSUME IInv, NEW p \in Processes,
         call[p].pc \notin {"io", "copyIn", "copyOut", "written", "read"}
  PROVE  ~alone[p]
BY DEF IInv, AloneInv, AloneOK

\* A new channel's buffer.
LEMMA BufferProps ==
  /\ BUFFER_LENGTH \in Nat /\ BUFFER_LENGTH = MaxLen + 1
  /\ Cells = 0 .. MaxLen /\ NewText \in [Cells -> Bytes]
BY DEF BUFFER_LENGTH, Cells, NewText, Bytes

\* A program that is in no call has the locals of none.
LEMMA NoCallType == NoCall \in Calls
<1>1. NewText \in [Cells -> Bytes] /\ BUFFER_LENGTH \in Nat
  BY BufferProps
<1>. QED  BY <1>1 DEF NoCall, Calls

\* A program that ends, or gives up, leaves the device as it was.
LEMMA ExitStep ==
  ASSUME IInv, NEW p \in Processes, Exit(p), alone' \in [Processes -> BOOLEAN], ~alone'[p],
         \A q \in Processes \ {p} : alone'[q] => alone[q], UNCHANGED deviceVars
  PROVE  IInv'
<1>1. call' = [call EXCEPT ![p] = NoCall]
  BY DEF Exit
<1>2. call'[p] = NoCall
  BY <1>1 DEF IInv, TypeOK
<1>3. CallOK(p)'
  BY <1>2 DEF CallOK, At, NoCall
<1>4. AloneOK(p)'
  BY DEF AloneOK
<1>. QED  BY <1>1, <1>3, <1>4, NoCallType, CallStep

\* A program that leaves the device, at its end or after an error, disturbs nobody.
LEMMA LeaveStep ==
  ASSUME IInv, NEW p \in Processes, Leave(p), UNCHANGED deviceVars
  PROVE  IInv'
<1>1. /\ alone' \in [Processes -> BOOLEAN] /\ ~alone'[p]
      /\ \A q \in Processes \ {p} : alone'[q] => alone[q]
  BY DEF Leave, IInv, TypeOK
<1>. QED  BY <1>1, ExitStep DEF Leave

\* A program whose ioctl failed ends, or goes on to write() without a channel.
LEMMA ErrorCall ==
  ASSUME IInv, NEW p \in Processes, IoctlError(p), ~At(p, "open")
  PROVE  \E x \in Calls :
           /\ call' = [call EXCEPT ![p] = x] /\ x.pc \in {"open", "write"} /\ x.node = NULL
           /\ x.pc = "write" => x.minor # NULL
<1>1. CASE Exit(p)
  BY <1>1, NoCallType DEF Exit, NoCall
<1>2. CASE call' = [call EXCEPT ![p].pc = "write", ![p].node = NULL, ![p].param = 0]
  <2>. DEFINE x == [call[p] EXCEPT !.pc = "write", !.node = NULL, !.param = 0]
  <2>1. TypeOK /\ call[p].minor # NULL
    BY DEF IInv, CallInv, CallOK
  <2>2. x \in Calls
    BY <2>1, CallType DEF Calls
  <2>3. x.pc = "write" /\ x.node = NULL /\ x.minor = call[p].minor
    BY <2>1, CallType DEF Calls
  <2>4. call' = [call EXCEPT ![p] = x]
    BY <1>2
  <2>. HIDE DEF x
  <2>. QED  BY <2>1, <2>2, <2>3, <2>4
<1>. QED  BY <1>1, <1>2 DEF IoctlError

\* The steps of a program that leave the device as it is.
LEMMA OpenKnownStep ==
  ASSUME IInv, NEW p \in Processes, OpenKnown(p) PROVE IInv'
<1>1. PICK m \in Minors : call' = [call EXCEPT ![p] = [@ EXCEPT !.pc = "ioctl", !.minor = m]]
  BY DEF OpenKnown
<1>. DEFINE x == [call[p] EXCEPT !.pc = "ioctl", !.minor = m]
<1>2. TypeOK /\ At(p, "open")
  BY DEF IInv, OpenKnown
<1>3. x \in Calls /\ x.pc = "ioctl" /\ x.minor = m
  BY <1>2, CallType DEF Calls
<1>4. call' = [call EXCEPT ![p] = x] /\ call'[p] = x
  BY <1>1, <1>2 DEF TypeOK
<1>5. alone' = alone /\ ~alone[p] /\ UNCHANGED deviceVars
  BY <1>2, NotAlone DEF OpenKnown, At
<1>. HIDE DEF x
<1>6. CallOK(p)'
  BY <1>3, <1>4 DEF CallOK, At
<1>7. AloneOK(p)'
  BY <1>5 DEF AloneOK
<1>. QED  BY <1>2, <1>3, <1>4, <1>5, <1>6, <1>7, CallStep DEF TypeOK

\* An open that has not found the minor goes on to allocate and has changed nothing yet.
LEMMA OpenUnknownStep ==
  ASSUME IInv, NEW p \in Processes, OpenUnknown(p) PROVE IInv'
<1>1. TypeOK /\ At(p, "open")
  BY DEF IInv, OpenUnknown
<1>2. PICK m \in Minors, last \in MinorNodes \cup {NULL} :
        /\ FindMinor(m) = NULL
        /\ last = NULL \/ last \in DOMAIN minorNode
        /\ call' = [call EXCEPT ![p] =
                      [@ EXCEPT !.pc = "openAlloc", !.minor = m, !.node = last]]
  <2>1. minors = << >> \/ minors[Len(minors)] \in DOMAIN minorNode
    BY <1>1 DEF TypeOK
  <2>2. DOMAIN minorNode \subseteq MinorNodes
    BY <1>1 DEF TypeOK
  <2>. QED  BY <2>1, <2>2 DEF OpenUnknown
<1>. DEFINE x == [call[p] EXCEPT !.pc = "openAlloc", !.minor = m, !.node = last]
<1>3. call' = [call EXCEPT ![p] = x] /\ call'[p] = x
  BY <1>1, <1>2 DEF TypeOK
<1>4. x \in Calls /\ x.pc = "openAlloc" /\ x.minor = m /\ x.node = last
  BY <1>1, CallType DEF Calls
<1>5. alone' = alone /\ ~alone[p] /\ minors' = minors /\ minorNode' = minorNode
  BY <1>1, NotAlone DEF OpenUnknown, At, deviceVars
<1>. HIDE DEF x
<1>6. CallOK(p)'
  <2>1. NoneUpTo(last, m)
    BY <1>1, <1>2, FindMinorProps DEF NoneUpTo
  <2>2. NoneUpTo(last, m)'
    BY <1>5, <2>1 DEF NoneUpTo
  <2>3. /\ call'[p].pc = "openAlloc" /\ call'[p].minor = m /\ call'[p].node = last
        /\ minorNode' = minorNode /\ m # NULL
    BY <1>3, <1>4, <1>5
  <2>. QED  BY <1>2, <2>2, <2>3 DEF CallOK, At
<1>7. AloneOK(p)'
  BY <1>5 DEF AloneOK
<1>8. UNCHANGED deviceVars
  BY DEF OpenUnknown
<1>. QED  BY <1>1, <1>3, <1>4, <1>5, <1>6, <1>7, <1>8, CallStep DEF TypeOK

\* The sender does not choose a channel and goes on to its write.
LEMMA SenderGoesOnStep ==
  ASSUME IInv, NEW p \in Processes, SenderGoesOn(p) PROVE IInv'
<1>. DEFINE x == [call[p] EXCEPT !.pc = "write"]
<1>1. TypeOK /\ At(p, "ioctl") /\ call[p].minor # NULL
  BY DEF IInv, CallInv, CallOK, SenderGoesOn, At
<1>2. x \in Calls /\ x.pc = "write" /\ x.minor = call[p].minor
  BY <1>1, CallType DEF Calls
<1>3. call' = [call EXCEPT ![p] = x] /\ call'[p] = x
  BY <1>1 DEF SenderGoesOn, TypeOK
<1>4. alone' = alone /\ ~alone[p] /\ UNCHANGED deviceVars
  BY <1>1, NotAlone DEF SenderGoesOn, At
<1>. HIDE DEF x
<1>5. CallOK(p)'
  BY <1>1, <1>2, <1>3 DEF CallOK, At
<1>6. AloneOK(p)'
  BY <1>4 DEF AloneOK
<1>. QED  BY <1>1, <1>2, <1>3, <1>4, <1>5, <1>6, CallStep DEF TypeOK

\* The sender whose open failed ends.
LEMMA SenderGivesUpStep ==
  ASSUME IInv, NEW p \in Processes, SenderGivesUp(p) PROVE IInv'
<1>1. alone' = alone /\ ~alone[p] /\ UNCHANGED deviceVars /\ Exit(p)
  BY NotAlone DEF SenderGivesUp, At
<1>. QED  BY <1>1, ExitStep DEF IInv, TypeOK

\* An ioctl that finds no minor changes nothing; a process left alone has one.
LEMMA IoctlNoMinorStep ==
  ASSUME IInv, NEW p \in Processes, IoctlNoMinor(p) PROVE IInv'
<1>1. alone' = alone /\ ~alone[p] /\ UNCHANGED deviceVars /\ IoctlError(p) /\ ~At(p, "open")
  BY NotAlone DEF IoctlNoMinor, At
<1>2. PICK x \in Calls :
        /\ call' = [call EXCEPT ![p] = x] /\ x.pc \in {"open", "write"} /\ x.node = NULL
        /\ x.pc = "write" => x.minor # NULL
  BY <1>1, ErrorCall
<1>3. call'[p] = x
  BY <1>2 DEF IInv, TypeOK
<1>4. CallOK(p)'
  BY <1>2, <1>3 DEF CallOK, At
<1>5. AloneOK(p)'
  BY <1>1 DEF AloneOK
<1>. QED  BY <1>1, <1>2, <1>4, <1>5, CallStep DEF IInv, TypeOK

\* The node a minor's search finds, and its current channel.
LEMMA FoundNode ==
  ASSUME IInv, NEW m, FindMinor(m) # NULL
  PROVE  /\ FindMinor(m) \in DOMAIN minorNode /\ FindMinor(m) \in MinorNodes
         /\ minorNode[FindMinor(m)].minor = m /\ Listed(FindMinor(m)) /\ NodeOK(FindMinor(m))
BY FindMinorProps, ListType DEF IInv, ChannelInv

\* A channel's node, and the current channel of a minor's node.
LEMMA CurrType ==
  ASSUME IInv, NEW n \in DOMAIN minorNode, Curr(n) # NULL
  PROVE  /\ Curr(n) \in DOMAIN channelNode /\ channelNode[Curr(n)] \in ChannelNode
BY DEF IInv, TypeOK, ChannelInv, NodeOK

\* A channel that has the id as an unsigned long has it as an int.
LEMMA IdOfParam ==
  ASSUME IInv, NEW c \in DOMAIN channelNode, NEW param, HasId(c, param)
  PROVE  channelNode[c].id = AsInt(param)
<1>1. channelNode[c].id \in -(IntMax + 1) .. IntMax
  BY DEF IInv, TypeOK, ChannelNode
<1>. QED  BY <1>1, AsIntOfAsUlong DEF HasId

\* The channel asked for is the current one already.
LEMMA IoctlCurrentStep ==
  ASSUME IInv, NEW p \in Processes, IoctlCurrent(p) PROVE IInv'
<1>1. TypeOK /\ At(p, "ioctl") /\ call[p].minor # NULL
  BY DEF IInv, CallInv, CallOK, IoctlCurrent, At
<1>2. PICK param, n :
        /\ param \in Params /\ n = FindMinor(call[p].minor) /\ n # NULL /\ Curr(n) # NULL /\ HasId(Curr(n), param)
        /\ call' = [call EXCEPT ![p].pc = "io", ![p].node = n, ![p].param = param]
  BY DEF IoctlCurrent, IsCurrent
<1>. DEFINE x == [call[p] EXCEPT !.pc = "io", !.node = n, !.param = param]
<1>3. call' = [call EXCEPT ![p] = x] /\ call'[p] = x
  BY <1>1, <1>2 DEF TypeOK
<1>4. /\ n \in DOMAIN minorNode /\ n \in MinorNodes /\ minorNode[n].minor = call[p].minor
      /\ Listed(n)
  BY <1>2, FoundNode
<1>5. channelNode[Curr(n)].id = AsInt(param)
  BY <1>2, <1>4, CurrType, IdOfParam
<1>6. x \in Calls /\ x.pc = "io" /\ x.minor = call[p].minor /\ x.node = n /\ x.param = param
  <2>1. TypeOK /\ n \in MinorNodes /\ param \in Params
    BY <1>1, <1>2, <1>4
  <2>. QED  BY <2>1, CallType DEF Calls
<1>7. /\ alone' = [alone EXCEPT ![p] = TRUE] /\ UNCHANGED deviceVars
      /\ alone' \in [Processes -> BOOLEAN]
  BY <1>1 DEF IoctlCurrent, TypeOK
<1>. HIDE DEF x
<1>8. CallOK(p)'
  BY <1>1, <1>3, <1>4, <1>6, <1>7 DEF CallOK, At, deviceVars
<1>9. AloneOK(p)'
  BY <1>2, <1>3, <1>4, <1>5, <1>6, <1>7 DEF AloneOK, At, Listed, Curr, deviceVars
<1>. QED  BY <1>1, <1>3, <1>6, <1>7, <1>8, <1>9, CallStep DEF TypeOK

\* An ioctl that has not found the channel goes on to allocate.
LEMMA IoctlUnknownStep ==
  ASSUME IInv, NEW p \in Processes, IoctlUnknown(p) PROVE IInv'
<1>1. TypeOK /\ At(p, "ioctl") /\ call[p].minor # NULL
  BY DEF IInv, CallInv, CallOK, IoctlUnknown, At
<1>2. PICK param, n :
        /\ param \in Params /\ n = FindMinor(call[p].minor) /\ n # NULL
        /\ call' = [call EXCEPT ![p].pc = "ioctlAlloc", ![p].node = n, ![p].param = param]
  BY DEF IoctlUnknown
<1>. DEFINE x == [call[p] EXCEPT !.pc = "ioctlAlloc", !.node = n, !.param = param]
<1>3. call' = [call EXCEPT ![p] = x] /\ call'[p] = x
  BY <1>1, <1>2 DEF TypeOK
<1>4. n \in DOMAIN minorNode /\ n \in MinorNodes /\ minorNode[n].minor = call[p].minor
  BY <1>2, FoundNode
<1>5. x \in Calls /\ x.pc = "ioctlAlloc" /\ x.minor = call[p].minor /\ x.node = n
  <2>1. TypeOK /\ n \in MinorNodes /\ param \in Params
    BY <1>1, <1>2, <1>4
  <2>. QED  BY <2>1, CallType DEF Calls
<1>6. alone' = alone /\ ~alone[p] /\ UNCHANGED deviceVars
  BY <1>1, NotAlone DEF IoctlUnknown, At
<1>. HIDE DEF x
<1>7. CallOK(p)'
  BY <1>1, <1>3, <1>4, <1>5, <1>6 DEF CallOK, At, deviceVars
<1>8. AloneOK(p)'
  BY <1>6 DEF AloneOK
<1>. QED  BY <1>1, <1>3, <1>5, <1>6, <1>7, <1>8, CallStep DEF TypeOK

\* Whoever is alone has the node the search of its minor finds.
LEMMA AloneFinds ==
  ASSUME IInv, NEW p \in Processes, alone[p]
  PROVE  FindMinor(call[p].minor) = call[p].node
<1>1. /\ TypeOK /\ MinorsDistinct /\ Listed(call[p].node)
      /\ call[p].pc \in {"io", "copyIn", "copyOut", "written", "read"}
  BY DEF IInv, AloneInv, AloneOK
<1>2. minorNode[call[p].node].minor = call[p].minor
  BY <1>1 DEF IInv, CallInv, CallOK
<1>. QED  BY <1>1, <1>2, ListedIsFound

\* A write that begins: the channel of a process left alone is its own, with room for
\* the message.
LEMMA WriteStep ==
  ASSUME IInv, NEW p \in Processes, Write(p) PROVE IInv'
<1>1. TypeOK /\ Writes(p) /\ call[p].minor # NULL
  BY DEF IInv, CallInv, CallOK, Write, Writes, At
<1>2. PICK l, n :
        /\ l \in 1 .. MaxLen /\ n = FindMinor(call[p].minor) /\ n # NULL
        /\ call' = [call EXCEPT ![p].pc = "copyIn", ![p].len = l, ![p].i = 0, ![p].node = n]
  BY DEF Write, HasChannel
<1>. DEFINE x == [call[p] EXCEPT !.pc = "copyIn", !.len = l, !.i = 0, !.node = n]
<1>3. call' = [call EXCEPT ![p] = x] /\ call'[p] = x
  BY <1>1, <1>2 DEF TypeOK
<1>4. /\ n \in DOMAIN minorNode /\ n \in MinorNodes /\ minorNode[n].minor = call[p].minor
      /\ Listed(n)
  BY <1>2, FoundNode
<1>5. /\ x \in Calls /\ x.pc = "copyIn" /\ x.minor = call[p].minor /\ x.node = n
      /\ x.param = call[p].param /\ x.len = l /\ x.i = 0
  <2>1. l \in 0 .. MaxLen /\ 0 \in 0 .. BUFFER_LENGTH
    BY <1>2, BufferProps
  <2>. QED  BY <1>1, <1>4, <2>1, CallType DEF Calls
<1>6. alone' = alone /\ UNCHANGED deviceVars
  BY DEF Write
<1>. HIDE DEF x
<1>7. CallOK(p)'
  <2>1. 0 < l
    BY <1>2
  <2>. QED  BY <1>1, <1>3, <1>4, <1>5, <1>6, <2>1 DEF CallOK, At, deviceVars
<1>8. AloneOK(p)'
  <2>. SUFFICES ASSUME alone[p] PROVE AloneOK(p)'
    BY <1>6 DEF AloneOK
  <2>1. n = call[p].node /\ AloneOK(p)
    BY <1>2, AloneFinds DEF IInv, AloneInv
  <2>2. Listed(n) /\ Curr(n) # NULL /\ channelNode[Curr(n)].id = AsInt(call[p].param)
    BY <2>1 DEF AloneOK
  <2>. QED  BY <1>3, <1>5, <1>6, <2>2, AloneNext DEF Listed, Curr, deviceVars
<1>. QED  BY <1>1, <1>3, <1>5, <1>6, <1>7, <1>8, CallStep DEF TypeOK

\* A read that begins.
LEMMA ReadStep ==
  ASSUME IInv, NEW p \in Processes, Read(p) PROVE IInv'
<1>1. TypeOK /\ At(p, "io") /\ call[p].minor # NULL
  BY DEF IInv, CallInv, CallOK, Read, Reads, At
<1>2. PICK n :
        /\ n = FindMinor(call[p].minor) /\ n # NULL
        /\ call' = [call EXCEPT ![p].pc = "copyOut", ![p].i = 0, ![p].node = n]
  BY DEF Read, HasChannel
<1>. DEFINE x == [call[p] EXCEPT !.pc = "copyOut", !.i = 0, !.node = n]
<1>3. call' = [call EXCEPT ![p] = x] /\ call'[p] = x
  BY <1>1, <1>2 DEF TypeOK
<1>4. /\ n \in DOMAIN minorNode /\ n \in MinorNodes /\ minorNode[n].minor = call[p].minor
      /\ Listed(n)
  BY <1>2, FoundNode
<1>5. /\ x \in Calls /\ x.pc = "copyOut" /\ x.minor = call[p].minor /\ x.node = n
      /\ x.param = call[p].param /\ x.i = 0
  <2>1. 0 \in 0 .. BUFFER_LENGTH
    BY BufferProps
  <2>. QED  BY <1>1, <1>4, <2>1, CallType DEF Calls
<1>6. alone' = alone /\ UNCHANGED deviceVars
  BY DEF Read
<1>. HIDE DEF x
<1>7. CallOK(p)'
  BY <1>1, <1>3, <1>4, <1>5, <1>6, BufferProps DEF CallOK, At, deviceVars
<1>8. AloneOK(p)'
  <2>. SUFFICES ASSUME alone[p] PROVE AloneOK(p)'
    BY <1>6 DEF AloneOK
  <2>1. n = call[p].node /\ AloneOK(p)
    BY <1>2, AloneFinds DEF IInv, AloneInv
  <2>2. Listed(n) /\ Curr(n) # NULL /\ channelNode[Curr(n)].id = AsInt(call[p].param)
    BY <2>1 DEF AloneOK
  <2>. QED  BY <1>3, <1>5, <1>6, <2>2, AloneNext DEF Listed, Curr, deviceVars
<1>. QED  BY <1>1, <1>3, <1>5, <1>6, <1>7, <1>8, CallStep DEF TypeOK

\* The bytes copied out are the channel's, with one more when the call goes on.
LEMMA CopyOutStep ==
  ASSUME IInv, NEW p \in Processes, CopyOut(p) PROVE IInv'
<1>1. TypeOK /\ At(p, "copyOut") /\ call[p].minor # NULL
  BY DEF IInv, CallInv, CallOK, CopyOut, At
<1>2. PICK n, c, i :
        n = call[p].node /\ c = minorNode[n].curr /\ i = call[p].i
  OBVIOUS
<1>0. PICK pc : pc = IF i + 1 = BUFFER_LENGTH THEN "read" ELSE "copyOut"
  OBVIOUS
<1>3. /\ n \in DOMAIN minorNode /\ minorNode[n].minor = call[p].minor
      /\ i \in 0 .. MaxLen
  BY <1>1, <1>2, CallType, BufferProps DEF IInv, CallInv, CallOK, At
<1>4. channelNode[c] \in ChannelNode /\ channelNode[c].message \in [Cells -> Bytes]
  BY <1>2, <1>3, CurrType DEF ChannelNode, CopyOut, Curr
<1>5. PICK buff : buff = [call[p].buff EXCEPT ![i] = channelNode[c].message[i]]
  OBVIOUS
<1>6. /\ i \in Cells /\ buff \in [Cells -> Bytes] /\ buff[i] = channelNode[c].message[i]
      /\ \A k \in Cells : k # i => buff[k] = call[p].buff[k]
  BY <1>1, <1>3, <1>4, <1>5, CallType, BufferProps
<1>. DEFINE x == [call[p] EXCEPT !.i = i + 1, !.buff = buff, !.pc = pc]
<1>7. call' = [call EXCEPT ![p] = x] /\ call'[p] = x
  <2>1. call[p].pc = "copyOut" /\ call \in [Processes -> Calls]
    BY <1>1 DEF At, TypeOK
  <2>2. call' = [call EXCEPT ![p].i = i + 1, ![p].buff = buff, ![p].pc = pc]
    BY <1>0, <1>2, <1>5, <2>1 DEF CopyOut, Curr
  <2>. QED  BY <2>1, <2>2
<1>8. /\ x \in Calls /\ x.pc = pc /\ x.minor = call[p].minor /\ x.node = n
      /\ x.param = call[p].param /\ x.i = i + 1 /\ x.buff = buff
  <2>1. i + 1 \in 0 .. BUFFER_LENGTH
    BY <1>3, BufferProps
  <2>. QED  BY <1>0, <1>1, <1>2, <1>6, <2>1, CallType DEF Calls
<1>9. alone' = alone /\ UNCHANGED deviceVars
  BY DEF CopyOut
<1>. HIDE DEF x
<1>10. CallOK(p)'
  <2>1. pc = "copyOut" => i + 1 < BUFFER_LENGTH
    BY <1>0, <1>3, BufferProps
  <2>2. pc \in {"copyOut", "read"}
    BY <1>0
  <2>. QED  BY <1>1, <1>3, <1>7, <1>8, <1>9, <2>1, <2>2 DEF CallOK, At, deviceVars
<1>11. AloneOK(p)'
  <2>. SUFFICES ASSUME alone[p] PROVE AloneOK(p)'
    BY <1>9 DEF AloneOK
  <2>1. /\ Listed(n) /\ c # NULL /\ channelNode[c].id = AsInt(call[p].param)
        /\ \A k \in 0 .. i-1 : call[p].buff[k] = channelNode[c].message[k]
    BY <1>1, <1>2 DEF IInv, AloneInv, AloneOK, At, Curr
  <2>2. \A k \in 0 .. i : buff[k] = channelNode[c].message[k]
    <3>. SUFFICES ASSUME NEW k \in 0 .. i, k # i PROVE buff[k] = channelNode[c].message[k]
      BY <1>6
    <3>1. k \in 0 .. i-1 /\ k \in Cells
      BY <1>3, BufferProps
    <3>. QED  BY <1>6, <2>1, <3>1
  <2>3. pc = "read" => buff = channelNode[c].message
    <3>1. pc = "read" => Cells = 0 .. i
      BY <1>0, <1>3, BufferProps
    <3>. QED  BY <1>4, <1>6, <2>2, <3>1
  <2>4. pc \in {"copyOut", "read"}
    BY <1>0
  <2>5. /\ \E k \in DOMAIN minors' : minors'[k] = n
        /\ minorNode' = minorNode /\ channelNode' = channelNode
    BY <1>9, <2>1 DEF deviceVars, Listed
  <2>6. /\ x.pc \in {"copyOut", "read"} /\ channelNode'[c].id = AsInt(x.param)
        /\ \A k \in 0 .. x.i-1 : x.buff[k] = channelNode'[c].message[k]
        /\ x.pc = "read" => x.buff = channelNode'[c].message
    <3>1. /\ x.pc \in {"copyOut", "read"} /\ channelNode'[c].id = AsInt(x.param)
          /\ x.pc = "read" => x.buff = channelNode'[c].message
      BY <1>8, <2>1, <2>3, <2>4, <2>5
    <3>2. x.i-1 = i
      <4>1. x.i = i + 1 /\ i \in Int
        BY <1>3, <1>8
      <4>. QED  BY <4>1
    <3>3. \A k \in 0 .. i : x.buff[k] = channelNode'[c].message[k]
      BY <1>8, <2>2, <2>5
    <3>. QED  BY <3>1, <3>2, <3>3
  <2>7. c = minorNode'[x.node].curr /\ c # NULL /\ \E k \in DOMAIN minors' : minors'[k] = x.node
    BY <1>2, <1>8, <2>1, <2>5
  <2>8. call'[p] = x
    BY <1>7
  <2>. QED  BY <2>6, <2>7, <2>8, AloneNext
<1>. QED  BY <1>1, <1>7, <1>8, <1>9, <1>10, <1>11, CallStep DEF TypeOK

----------------------------------------------------------------------------
(***************************************************************************)
(* The steps that change a node or a channel.                              *)
(***************************************************************************)

\* Two nodes never have the same current channel.
LEMMA CurrApart ==
  ASSUME IInv, NEW n1 \in DOMAIN minorNode, NEW n2 \in DOMAIN minorNode, n1 # n2,
         Curr(n1) # NULL
  PROVE  Curr(n1) # Curr(n2)
<1>1. ChannelInv /\ NodeOK(n1) /\ NodeOK(n2)
  BY DEF IInv, ChannelInv
<1>. DEFINE h1 == minorNode[n1].channels
            h2 == minorNode[n2].channels
<1>. SUFFICES ASSUME Curr(n1) = Curr(n2) PROVE FALSE
  OBVIOUS
<1>2. h1 # NULL /\ h2 # NULL /\ channelNode[h1].next = NULL /\ channelNode[h2].next = NULL
  BY <1>1 DEF NodeOK
<1>3. h1 # h2
  BY <1>1, <1>2 DEF ChannelInv
<1>4. /\ Curr(n1) = h1 \/ channelNode[Curr(n1)].next = h1
      /\ Curr(n1) = h2 \/ channelNode[Curr(n1)].next = h2
  BY <1>1 DEF NodeOK
<1>. QED  BY <1>2, <1>3, <1>4

\* What an action has to show when it moves the call of p, and changes one node and
\* the channels that no other node has for its current one.
LEMMA DeviceStep ==
  ASSUME IInv, NEW p \in Processes, NEW x \in Calls, call' = [call EXCEPT ![p] = x],
         alone' \in [Processes -> BOOLEAN], minors' = minors, lost' = lost,
         DOMAIN minorNode' = DOMAIN minorNode,
         \A n \in DOMAIN minorNode :
           minorNode'[n] \in MinorNode /\ minorNode'[n].minor = minorNode[n].minor,
         DOMAIN channelNode' \subseteq Channels,
         \A c \in DOMAIN channelNode' : channelNode'[c] \in ChannelNode,
         NEW node,
         \A n \in DOMAIN minorNode \ {node} :
           /\ minorNode'[n].curr = Curr(n)
           /\ Curr(n) # NULL => channelNode'[Curr(n)] = channelNode[Curr(n)],
         \A q \in Processes \ {p} : alone'[q] => alone[q] /\ call[q].node # node,
         ChannelInv', CallOK(p)', AloneOK(p)'
  PROVE  IInv'
<1>1. TypeOK /\ MinorsDistinct /\ CallInv /\ AloneInv
  BY DEF IInv
<1>2. call' \in [Processes -> Calls] /\ \A q \in Processes \ {p} : call'[q] = call[q]
  BY <1>1 DEF TypeOK
<1>3. TypeOK'
  BY <1>1, <1>2 DEF TypeOK
<1>4. MinorsDistinct'
  BY <1>1, ListType DEF MinorsDistinct
<1>5. ASSUME NEW q \in Processes PROVE CallOK(q)'
  <2>1. CASE q = p
    BY <2>1
  <2>2. CASE q # p
    BY <1>1, <1>2, <2>2, CallFrame DEF CallInv
  <2>. QED  BY <2>1, <2>2
<1>6. ASSUME NEW q \in Processes PROVE AloneOK(q)'
  <2>1. CASE q = p
    BY <2>1
  <2>2. CASE q # p
    <3>1. PICK n, c : n = call[q].node /\ c = Curr(n)
      OBVIOUS
    <3>2. call'[q] = call[q] /\ AloneOK(q) /\ (alone'[q] => alone[q] /\ n # node)
      BY <1>1, <1>2, <2>2, <3>1 DEF AloneInv
    <3>3. alone[q] => Listed(n) /\ c # NULL
      BY <3>1, <3>2 DEF AloneOK
    <3>4. Listed(n) => n \in DOMAIN minorNode
      BY <1>1, ListType DEF Listed
    <3>5. alone'[q] => /\ alone[q]
                       /\ \E k \in DOMAIN minors' : minors'[k] = n
                       /\ minorNode'[n].curr = c
                       /\ channelNode'[c] = channelNode[c]
      BY <3>1, <3>2, <3>3, <3>4 DEF Listed
    <3>. QED  BY <3>1, <3>2, <3>5, AloneFrame
  <2>. QED  BY <2>1, <2>2
<1>. QED  BY <1>3, <1>4, <1>5, <1>6 DEF IInv, CallInv, AloneInv

\* The search through the channels has found one: the node's first.
LEMMA IoctlFoundStep ==
  ASSUME IInv, NEW p \in Processes, IoctlFound(p) PROVE IInv'
<1>1. TypeOK /\ At(p, "ioctl") /\ call[p].minor # NULL
  BY DEF IInv, CallInv, CallOK, IoctlFound, At
<1>2. PICK param, n, c :
        /\ param \in Params /\ n = FindMinor(call[p].minor) /\ n # NULL
        /\ c = FindChannel(minorNode[n].channels, param) /\ c # NULL
        /\ minorNode' = [minorNode EXCEPT ![n].curr = c]
        /\ Chosen(p, n, param)
  BY DEF IoctlFound
<1>. DEFINE x == [call[p] EXCEPT !.pc = "io", !.node = n, !.param = param]
<1>3. call' = [call EXCEPT ![p] = x] /\ call'[p] = x
  BY <1>1, <1>2 DEF TypeOK, Chosen
<1>4. /\ n \in DOMAIN minorNode /\ n \in MinorNodes /\ minorNode[n].minor = call[p].minor
      /\ Listed(n) /\ NodeOK(n) /\ minorNode[n] \in MinorNode
  BY <1>1, <1>2, FoundNode DEF TypeOK
<1>5. /\ x \in Calls /\ x.pc = "io" /\ x.minor = call[p].minor /\ x.node = n
      /\ x.param = param
  <2>1. TypeOK /\ n \in MinorNodes /\ param \in Params
    BY <1>1, <1>2, <1>4
  <2>. QED  BY <2>1, CallType DEF Calls
<1>. HIDE DEF x
<1>6. c = minorNode[n].channels /\ HasId(c, param) /\ c \in DOMAIN channelNode
  BY <1>2, <1>4, FindChannelProps DEF NodeOK
<1>7. channelNode[c].id = AsInt(param)
  BY <1>6, IdOfParam
<1>8. UNCHANGED <<minors, channelNode, lost>>
  BY DEF IoctlFound
<1>9. /\ alone' \in [Processes -> BOOLEAN]
      /\ \A q \in Processes \ {p} : alone'[q] => alone[q] /\ call[q].node # n
  BY <1>1, <1>2 DEF Chosen, TypeOK, Listed
<1>10. /\ DOMAIN minorNode' = DOMAIN minorNode
       /\ \A m \in DOMAIN minorNode \ {n} : minorNode'[m] = minorNode[m]
       /\ minorNode'[n] = [minorNode[n] EXCEPT !.curr = c]
  BY <1>2, <1>4
<1>11. minorNode'[n] \in MinorNode /\ minorNode'[n].minor = minorNode[n].minor
       /\ minorNode'[n].channels = c /\ minorNode'[n].curr = c
  <2>1. c \in Channels
    BY <1>1, <1>6 DEF TypeOK
  <2>. QED  BY <1>4, <1>6, <1>10, <2>1 DEF MinorNode
<1>12. \A m \in DOMAIN minorNode :
         minorNode'[m] \in MinorNode /\ minorNode'[m].minor = minorNode[m].minor
  BY <1>1, <1>10, <1>11 DEF TypeOK
<1>13. \A m \in DOMAIN minorNode : minorNode'[m].channels = minorNode[m].channels
  BY <1>6, <1>10, <1>11
<1>14. ChannelInv'
  <2>1. \A m \in DOMAIN minorNode : NodeOK(m)'
    <3>. SUFFICES ASSUME NEW m \in DOMAIN minorNode PROVE NodeOK(m)'
      OBVIOUS
    <3>1. NodeOK(m)
      BY DEF IInv, ChannelInv
    <3>2. CASE m = n
      BY <1>2, <1>4, <1>8, <1>11, <1>6, <3>2 DEF NodeOK, Curr
    <3>3. CASE m # n
      BY <1>8, <1>10, <3>1, <3>3 DEF NodeOK, Curr
    <3>. QED  BY <3>2, <3>3
  <2>. QED  BY <1>8, <1>10, <1>13, <2>1 DEF IInv, ChannelInv, ChannelOK
<1>15. CallOK(p)'
  BY <1>1, <1>3, <1>4, <1>5, <1>10, <1>11 DEF CallOK, At
<1>16. AloneOK(p)'
  BY <1>2, <1>3, <1>4, <1>5, <1>7, <1>8, <1>11, AloneNext DEF Listed
<1>17. \A m \in DOMAIN minorNode \ {n} :
         /\ minorNode'[m].curr = Curr(m)
         /\ Curr(m) # NULL => channelNode'[Curr(m)] = channelNode[Curr(m)]
  BY <1>8, <1>10 DEF Curr
<1>18. /\ DOMAIN channelNode' \subseteq Channels
       /\ \A ch \in DOMAIN channelNode' : channelNode'[ch] \in ChannelNode
  BY <1>1, <1>8 DEF TypeOK
<1>. QED  BY <1>3, <1>5, <1>8, <1>9, <1>10, <1>12, <1>14, <1>15, <1>16, <1>17, <1>18, DeviceStep

\* A new channel: the first of an empty list, or one that points to the first.
LEMMA IoctlAllocStep ==
  ASSUME IInv, NEW p \in Processes, IoctlAlloc(p) PROVE IInv'
<1>1. /\ TypeOK /\ At(p, "ioctlAlloc") /\ call[p].minor # NULL
      /\ call[p].node \in DOMAIN minorNode /\ minorNode[call[p].node].minor = call[p].minor
  BY DEF IInv, CallInv, CallOK, IoctlAlloc, At
<1>2. PICK n, param, head, c :
        /\ n = call[p].node /\ param = call[p].param /\ head = minorNode[n].channels
        /\ c \in Channels \ DOMAIN channelNode
        /\ NewChannel(n, c, param)
  BY DEF IoctlAlloc
<1>3. /\ Chosen(p, n, param) /\ UNCHANGED <<minors, lost>>
  BY <1>2 DEF IoctlAlloc
<1>. DEFINE x == [call[p] EXCEPT !.pc = "io", !.node = n, !.param = param]
<1>4. call' = [call EXCEPT ![p] = x] /\ call'[p] = x
  BY <1>1, <1>3 DEF TypeOK, Chosen
<1>5. /\ n \in DOMAIN minorNode /\ n \in MinorNodes /\ minorNode[n].minor = call[p].minor
      /\ NodeOK(n) /\ minorNode[n] \in MinorNode /\ param \in Params /\ param \in Int
  BY <1>1, <1>2, CallType, ListType DEF TypeOK, IInv, ChannelInv
<1>6. /\ x \in Calls /\ x.pc = "io" /\ x.minor = call[p].minor /\ x.node = n
      /\ x.param = param
  <2>1. TypeOK /\ n \in MinorNodes /\ param \in Params
    BY <1>1, <1>5
  <2>. QED  BY <2>1, CallType DEF Calls
<1>. HIDE DEF x
<1>7. PICK new : new = [id |-> AsInt(param), length |-> 0, message |-> NewText, next |-> head]
  OBVIOUS
<1>8. /\ channelNode' = [ch \in DOMAIN channelNode \cup {c} |->
                           IF ch = c THEN new ELSE channelNode[ch]]
      /\ minorNode' = [minorNode EXCEPT ![n].curr = c,
                                        ![n].channels = IF head = NULL THEN c ELSE head]
  BY <1>2, <1>7 DEF NewChannel
<1>9. /\ DOMAIN channelNode' = DOMAIN channelNode \cup {c} /\ channelNode'[c] = new
      /\ \A ch \in DOMAIN channelNode : channelNode'[ch] = channelNode[ch]
      /\ c # NULL
  BY <1>2, <1>8
<1>10. /\ DOMAIN minorNode' = DOMAIN minorNode
       /\ \A m \in DOMAIN minorNode \ {n} : minorNode'[m] = minorNode[m]
       /\ minorNode'[n] = [minorNode[n] EXCEPT !.curr = c,
                                               !.channels = IF head = NULL THEN c ELSE head]
  BY <1>5, <1>8
<1>11. /\ minorNode'[n] \in MinorNode /\ minorNode'[n].minor = minorNode[n].minor
       /\ minorNode'[n].curr = c /\ minorNode'[n].channels = IF head = NULL THEN c ELSE head
  <2>1. c \in Channels /\ head \in Channels \cup {NULL}
    BY <1>2, <1>5 DEF MinorNode
  <2>. QED  BY <1>5, <1>10, <2>1 DEF MinorNode
<1>12. /\ new \in ChannelNode /\ new.id = AsInt(param) /\ new.next = head
  <2>1. head \in Channels \cup {NULL}
    BY <1>2, <1>5 DEF MinorNode
  <2>2. AsInt(param) \in -(IntMax + 1) .. IntMax
    BY <1>5, AsIntType
  <2>3. NewText \in [Cells -> Bytes] /\ 0 \in 0 .. MaxLen
    BY BufferProps
  <2>. QED  BY <1>7, <2>1, <2>2, <2>3 DEF ChannelNode
<1>13. \A m \in DOMAIN minorNode :
         minorNode'[m] \in MinorNode /\ minorNode'[m].minor = minorNode[m].minor
  BY <1>1, <1>10, <1>11 DEF TypeOK
<1>14. /\ DOMAIN channelNode' \subseteq Channels
       /\ \A ch \in DOMAIN channelNode' : channelNode'[ch] \in ChannelNode
  BY <1>1, <1>2, <1>9, <1>12 DEF TypeOK
<1>15. ChannelInv'
  <2>1. ASSUME NEW m \in DOMAIN minorNode PROVE NodeOK(m)'
    <3>1. NodeOK(m)
      BY DEF IInv, ChannelInv
    <3>2. CASE m = n
      <4>1. CASE head = NULL
        BY <1>9, <1>11, <1>12, <3>2, <4>1 DEF NodeOK, Curr
      <4>2. CASE head # NULL
        <5>1. head \in DOMAIN channelNode /\ channelNode[head].next = NULL
          BY <1>2, <3>1, <3>2, <4>2 DEF NodeOK
        <5>. QED  BY <1>9, <1>11, <1>12, <3>2, <4>2, <5>1 DEF NodeOK, Curr
      <4>. QED  BY <4>1, <4>2
    <3>3. CASE m # n
      BY <1>9, <1>10, <3>1, <3>3 DEF NodeOK, Curr
    <3>. QED  BY <3>2, <3>3
  <2>2. ASSUME NEW ch \in DOMAIN channelNode' PROVE ChannelOK(ch)'
    <3>1. CASE ch = c
      BY <1>2, <1>5, <1>9, <1>12, <3>1 DEF ChannelOK, NodeOK
    <3>2. CASE ch # c
      <4>1. ch \in DOMAIN channelNode /\ ChannelOK(ch)
        BY <1>9, <3>2 DEF IInv, ChannelInv
      <4>. QED  BY <1>9, <4>1 DEF ChannelOK
    <3>. QED  BY <3>1, <3>2
  <2>3. ASSUME NEW n1 \in DOMAIN minorNode, NEW n2 \in DOMAIN minorNode,
               minorNode'[n1].channels = minorNode'[n2].channels, minorNode'[n1].channels # NULL
        PROVE  n1 = n2
    <3>1. \A m \in DOMAIN minorNode : minorNode[m].channels # c
      BY <1>2, <1>9 DEF IInv, ChannelInv, NodeOK
    <3>2. \A m \in DOMAIN minorNode :
            minorNode'[m].channels =
              IF m = n /\ head = NULL THEN c ELSE minorNode[m].channels
      BY <1>2, <1>10, <1>11
    <3>. QED  BY <2>3, <3>1, <3>2 DEF IInv, ChannelInv
  <2>. QED  BY <1>10, <2>1, <2>2, <2>3 DEF ChannelInv
<1>16. /\ alone' \in [Processes -> BOOLEAN]
       /\ \A q \in Processes \ {p} : alone'[q] => alone[q] /\ call[q].node # n
       /\ alone'[p] => Listed(n)
  BY <1>1, <1>3 DEF Chosen, TypeOK, Listed
<1>17. CallOK(p)'
  BY <1>1, <1>4, <1>5, <1>6, <1>10, <1>11 DEF CallOK, At
<1>18. AloneOK(p)'
  BY <1>3, <1>4, <1>6, <1>9, <1>11, <1>12, <1>16, AloneNext DEF Listed
<1>19. \A m \in DOMAIN minorNode \ {n} :
         /\ minorNode'[m].curr = Curr(m)
         /\ Curr(m) # NULL => channelNode'[Curr(m)] = channelNode[Curr(m)]
  BY <1>9, <1>10, CurrType DEF Curr
<1>. QED  BY <1>3, <1>4, <1>6, <1>10, <1>13, <1>14, <1>15, <1>16, <1>17, <1>18, <1>19, DeviceStep

\* The node has no current channel, and nobody is alone at it any more.
LEMMA IoctlNoMemoryStep ==
  ASSUME IInv, NEW p \in Processes, IoctlNoMemory(p) PROVE IInv'
<1>1. TypeOK /\ At(p, "ioctlAlloc") /\ call[p].node \in DOMAIN minorNode
  BY DEF IInv, CallInv, CallOK, IoctlNoMemory, At
<1>2. PICK x \in Calls :
        /\ call' = [call EXCEPT ![p] = x] /\ x.pc \in {"open", "write"} /\ x.node = NULL
        /\ x.pc = "write" => x.minor # NULL
  BY <1>1, ErrorCall DEF IoctlNoMemory, At
<1>3. call'[p] = x
  BY <1>1, <1>2 DEF TypeOK
<1>4. PICK n \in DOMAIN minorNode : n = call[p].node
  BY <1>1
<1>5. /\ minorNode' = [minorNode EXCEPT ![n].curr = NULL]
      /\ UNCHANGED <<minors, channelNode, lost>>
  BY <1>4 DEF IoctlNoMemory
<1>6. /\ alone' \in [Processes -> BOOLEAN] /\ ~alone'[p]
      /\ \A q \in Processes \ {p} : alone'[q] => alone[q] /\ call[q].node # n
  <2>1. ~alone[p]
    BY <1>1, NotAlone DEF At
  <2>. QED  BY <1>1, <1>4, <2>1 DEF IoctlNoMemory, AloneOff, TypeOK
<1>7. /\ DOMAIN minorNode' = DOMAIN minorNode
      /\ \A m \in DOMAIN minorNode \ {n} : minorNode'[m] = minorNode[m]
      /\ minorNode'[n] = [minorNode[n] EXCEPT !.curr = NULL]
  BY <1>5
<1>8. /\ minorNode'[n] \in MinorNode /\ minorNode'[n].minor = minorNode[n].minor
      /\ minorNode'[n].curr = NULL /\ minorNode'[n].channels = minorNode[n].channels
  <2>1. minorNode[n] \in MinorNode
    BY <1>1 DEF TypeOK
  <2>. QED  BY <1>7, <2>1 DEF MinorNode
<1>9. \A m \in DOMAIN minorNode :
        /\ minorNode'[m] \in MinorNode /\ minorNode'[m].minor = minorNode[m].minor
        /\ minorNode'[m].channels = minorNode[m].channels
  BY <1>1, <1>7, <1>8 DEF TypeOK
<1>10. ChannelInv'
  <2>1. ASSUME NEW m \in DOMAIN minorNode PROVE NodeOK(m)'
    <3>1. NodeOK(m)
      BY DEF IInv, ChannelInv
    <3>2. minorNode'[m].curr = NULL \/ minorNode'[m].curr = minorNode[m].curr
      BY <1>7, <1>8
    <3>. QED  BY <1>5, <1>9, <3>1, <3>2 DEF NodeOK, Curr
  <2>. QED  BY <1>5, <1>7, <1>9, <2>1 DEF IInv, ChannelInv, ChannelOK
<1>11. CallOK(p)'
  BY <1>2, <1>3 DEF CallOK, At
<1>12. AloneOK(p)'
  BY <1>6 DEF AloneOK
<1>13. \A m \in DOMAIN minorNode \ {n} :
         /\ minorNode'[m].curr = Curr(m)
         /\ Curr(m) # NULL => channelNode'[Curr(m)] = channelNode[Curr(m)]
  BY <1>5, <1>7 DEF Curr
<1>14. /\ DOMAIN channelNode' \subseteq Channels
       /\ \A ch \in DOMAIN channelNode' : channelNode'[ch] \in ChannelNode
  BY <1>1, <1>5 DEF TypeOK
<1>. QED  BY <1>2, <1>5, <1>6, <1>7, <1>9, <1>10, <1>11, <1>12, <1>13, <1>14, DeviceStep

\* A byte of the message goes to the channel that is current now.
LEMMA CopyInStep ==
  ASSUME IInv, NEW p \in Processes, CopyIn(p) PROVE IInv'
<1>1. /\ TypeOK /\ At(p, "copyIn") /\ call[p].minor # NULL
      /\ call[p].node \in DOMAIN minorNode /\ minorNode[call[p].node].minor = call[p].minor
      /\ call[p].i < call[p].len
  BY DEF IInv, CallInv, CallOK, CopyIn, At
<1>2. PICK n, c, i, l :
        n = call[p].node /\ c = Curr(n) /\ i = call[p].i /\ l = call[p].len
  OBVIOUS
<1>3. PICK pc : pc = IF i + 1 = l THEN "written" ELSE "copyIn"
  OBVIOUS
<1>4. /\ c # NULL /\ channelNode' = [channelNode EXCEPT ![c] = Stored(@, p, i, l)]
      /\ AloneOff(p, n) /\ UNCHANGED <<minors, minorNode, lost>>
  BY <1>2 DEF CopyIn
<1>. DEFINE x == [call[p] EXCEPT !.i = i + 1, !.pc = pc]
<1>5. call' = [call EXCEPT ![p] = x] /\ call'[p] = x
  <2>1. call[p].pc = "copyIn" /\ call \in [Processes -> Calls]
    BY <1>1 DEF At, TypeOK
  <2>2. call' = [call EXCEPT ![p].i = i + 1, ![p].pc = pc]
    BY <1>2, <1>3, <2>1 DEF CopyIn
  <2>. QED  BY <2>1, <2>2
<1>6. /\ i \in 0 .. MaxLen /\ i < l /\ l \in 0 .. MaxLen /\ i \in Int /\ l \in Int
  BY <1>1, <1>2, CallType, BufferProps
<1>7. /\ x \in Calls /\ x.pc = pc /\ x.minor = call[p].minor /\ x.node = n
      /\ x.param = call[p].param /\ x.i = i + 1 /\ x.len = l
  <2>1. i + 1 \in 0 .. BUFFER_LENGTH
    BY <1>6, BufferProps
  <2>2. TypeOK /\ pc \in {"written", "copyIn"}
    BY <1>1, <1>3
  <2>. QED  BY <1>2, <2>1, <2>2, CallType DEF Calls
<1>. HIDE DEF x
<1>8. /\ n \in DOMAIN minorNode /\ c \in DOMAIN channelNode /\ channelNode[c] \in ChannelNode
  BY <1>1, <1>2, <1>4, CurrType
<1>9. PICK ch : ch = Stored(channelNode[c], p, i, l)
  OBVIOUS
<1>10. /\ DOMAIN channelNode' = DOMAIN channelNode /\ channelNode'[c] = ch
       /\ \A d \in DOMAIN channelNode \ {c} : channelNode'[d] = channelNode[d]
  BY <1>4, <1>8, <1>9
<1>11. /\ ch \in ChannelNode /\ ch.id = channelNode[c].id /\ ch.next = channelNode[c].next
       /\ ch.message[i] = p /\ \A k \in Cells \ {i} : ch.message[k] = channelNode[c].message[k]
       /\ i + 1 = l => ch.length = l
  <2>1. PICK msg : msg = [channelNode[c].message EXCEPT ![i] = p]
    OBVIOUS
  <2>2. PICK len : len = IF i + 1 = l THEN l ELSE channelNode[c].length
    OBVIOUS
  <2>3. ch = [channelNode[c] EXCEPT !.message = msg, !.length = len]
    BY <1>9, <2>1, <2>2 DEF Stored
  <2>4. /\ msg \in [Cells -> Bytes] /\ msg[i] = p
        /\ \A k \in Cells \ {i} : msg[k] = channelNode[c].message[k]
    <3>1. channelNode[c].message \in [Cells -> Bytes] /\ p \in Bytes
      BY <1>8 DEF ChannelNode, Bytes
    <3>2. i \in Cells
      BY <1>6, BufferProps
    <3>. QED  BY <2>1, <3>1, <3>2
  <2>5. len \in 0 .. MaxLen
    BY <1>6, <1>8, <2>2 DEF ChannelNode
  <2>. QED  BY <1>8, <2>2, <2>3, <2>4, <2>5 DEF ChannelNode
<1>12. /\ DOMAIN channelNode' \subseteq Channels
       /\ \A d \in DOMAIN channelNode' : channelNode'[d] \in ChannelNode
  BY <1>1, <1>10, <1>11 DEF TypeOK
<1>13. ChannelInv'
  <2>1. \A d \in DOMAIN channelNode : channelNode'[d].next = channelNode[d].next
    BY <1>10, <1>11
  <2>2. ChannelInv /\ minorNode' = minorNode /\ DOMAIN channelNode' = DOMAIN channelNode
    BY <1>4, <1>10 DEF IInv
  <2>3. ASSUME NEW m \in DOMAIN minorNode PROVE NodeOK(m)'
    BY <2>1, <2>2 DEF ChannelInv, NodeOK, Curr
  <2>4. ASSUME NEW d \in DOMAIN channelNode PROVE ChannelOK(d)'
    BY <2>1, <2>2 DEF ChannelInv, ChannelOK
  <2>. QED  BY <2>2, <2>3, <2>4 DEF ChannelInv
<1>14. /\ alone' \in [Processes -> BOOLEAN] /\ (alone'[p] => alone[p])
       /\ \A q \in Processes \ {p} : alone'[q] => alone[q] /\ call[q].node # n
  BY <1>1, <1>4 DEF AloneOff, TypeOK
<1>15. CallOK(p)'
  <2>1. pc = "copyIn" => i + 1 < l
    BY <1>3, <1>6
  <2>2. pc \in {"written", "copyIn"}
    BY <1>3
  <2>. QED  BY <1>1, <1>2, <1>4, <1>5, <1>7, <2>1, <2>2 DEF CallOK, At
<1>16. AloneOK(p)'
  <2>. SUFFICES ASSUME alone[p] PROVE AloneOK(p)'
    BY <1>14 DEF AloneOK
  <2>1. /\ Listed(n) /\ channelNode[c].id = AsInt(call[p].param)
        /\ \A k \in 0 .. i-1 : channelNode[c].message[k] = p
    BY <1>1, <1>2 DEF IInv, AloneInv, AloneOK, At
  <2>2. \A k \in 0 .. i : ch.message[k] = p
    <3>. SUFFICES ASSUME NEW k \in 0 .. i, k # i PROVE ch.message[k] = p
      BY <1>11
    <3>1. k \in 0 .. i-1 /\ k \in Cells
      BY <1>6, BufferProps
    <3>. QED  BY <1>11, <2>1, <3>1
  <2>3. pc = "written" => ch.length = x.len /\ \A k \in 0 .. x.len-1 : ch.message[k] = p
    <3>. SUFFICES ASSUME pc = "written"
                  PROVE  ch.length = x.len /\ \A k \in 0 .. x.len-1 : ch.message[k] = p
      OBVIOUS
    <3>1. i + 1 = l /\ l - 1 = i
      BY <1>3, <1>6
    <3>. QED  BY <1>7, <1>11, <2>2, <3>1
  <2>4. x.i-1 = i
    <3>1. x.i = i + 1 /\ i \in Int
      BY <1>6, <1>7
    <3>. QED  BY <3>1
  <2>5. /\ c = minorNode'[x.node].curr /\ \E k \in DOMAIN minors' : minors'[k] = x.node
        /\ call'[p] = x /\ x.pc \in {"written", "copyIn"} /\ ch.id = AsInt(x.param)
    <3>1. c = minorNode'[n].curr /\ \E k \in DOMAIN minors' : minors'[k] = n
      BY <1>2, <1>4, <2>1 DEF Curr, Listed
    <3>2. pc \in {"written", "copyIn"} /\ ch.id = AsInt(call[p].param)
      BY <1>3, <1>11, <2>1
    <3>3. call'[p] = x /\ x.node = n /\ x.pc = pc /\ x.param = call[p].param
      BY <1>5, <1>7
    <3>. QED  BY <3>1, <3>2, <3>3
  <2>6. /\ x.pc = "copyIn" => \A k \in 0 .. x.i-1 : ch.message[k] = p
        /\ x.pc = "written" => ch.length = x.len /\ \A k \in 0 .. x.len-1 : ch.message[k] = p
    BY <1>7, <2>2, <2>3, <2>4
  <2>. QED  BY <1>4, <1>10, <2>5, <2>6, AloneNext
<1>17. \A m \in DOMAIN minorNode \ {n} :
         /\ minorNode'[m].curr = Curr(m)
         /\ Curr(m) # NULL => channelNode'[Curr(m)] = channelNode[Curr(m)]
  <2>. SUFFICES ASSUME NEW m \in DOMAIN minorNode \ {n}
                PROVE  /\ minorNode'[m].curr = Curr(m)
                       /\ Curr(m) # NULL => channelNode'[Curr(m)] = channelNode[Curr(m)]
    OBVIOUS
  <2>1. Curr(m) # NULL => Curr(m) \in DOMAIN channelNode /\ Curr(m) # c
    BY <1>2, <1>8, CurrApart, CurrType
  <2>. QED  BY <1>4, <1>10, <2>1 DEF Curr
<1>18. \A m \in DOMAIN minorNode :
         minorNode'[m] \in MinorNode /\ minorNode'[m].minor = minorNode[m].minor
  BY <1>1, <1>4 DEF TypeOK
<1>. QED  BY <1>4, <1>5, <1>7, <1>12, <1>13, <1>14, <1>15, <1>16, <1>17, <1>18, DeviceStep

----------------------------------------------------------------------------
(***************************************************************************)
(* The steps that change the list of minors.                               *)
(***************************************************************************)

\* What is in the list was there before, at the same place; but for node n, which is
\* then the last, behind prev.
AddsBehind(prev, n) ==
  \A k \in DOMAIN minors' :
    \/ k \in DOMAIN minors /\ minors'[k] = minors[k]
    \/ /\ minors'[k] = n
       /\ \A j \in DOMAIN minors' \ {k} :
            /\ ~(k <= j) /\ j \in DOMAIN minors /\ minors'[j] = minors[j]
            /\ prev # NULL /\ \E i \in DOMAIN minors : minors[i] = prev /\ j <= i

\* Appending a new node keeps the nodes up to prev and adds one behind it.
LEMMA LinkNew ==
  ASSUME TypeOK, NEW prev, NEW n, Link(prev, <<n>>)
  PROVE  minors' \in Seq(DOMAIN minorNode \cup {n}) /\ AddsBehind(prev, n)
<1>. DEFINE S == DOMAIN minorNode \cup {n}
<1>1. <<n>> \in Seq(S)
  OBVIOUS
<1>2. CASE minors' = minors
  BY <1>2 DEF TypeOK, AddsBehind
<1>3. ASSUME NEW head, UpTo(head, prev), minors' = head \o <<n>>
      PROVE  minors' \in Seq(S) /\ AddsBehind(prev, n)
  <2>. DEFINE len == Len(head)
  <2>1. head \in Seq(S) /\ len \in Nat
    BY <1>3 DEF UpTo
  <2>2. /\ minors' \in Seq(S) /\ DOMAIN minors' = 1 .. len + 1
        /\ \A k \in 1 .. len : minors'[k] = minors[k]
        /\ minors'[len + 1] = n
    <3>1. /\ head \o <<n>> \in Seq(S) /\ Len(head \o <<n>>) = len + 1
          /\ \A k \in 1 .. len + 1 :
               (head \o <<n>>)[k] = IF k <= len THEN head[k] ELSE <<n>>[k - len]
      BY <1>1, <2>1, ConcatProperties
    <3>2. \A k \in 1 .. len : k \in 1 .. len + 1 /\ k <= len
      BY <2>1
    <3>3. len + 1 \in 1 .. len + 1 /\ ~(len + 1 <= len) /\ len + 1 - len = 1
      BY <2>1
    <3>. QED  BY <1>3, <3>1, <3>2, <3>3 DEF UpTo
  <2>3. \A k \in 1 .. len : k \in DOMAIN minors
    BY <1>3, <2>1, ListType DEF UpTo
  <2>4. ASSUME NEW j \in 1 .. len
        PROVE  prev # NULL /\ \E i \in DOMAIN minors : minors[i] = prev /\ j <= i
    <3>1. len > 0 /\ len \in 1 .. len /\ j <= len
      BY <2>1
    <3>. QED  BY <1>3, <2>3, <3>1 DEF UpTo
  <2>. HIDE DEF len
  <2>5. \A k \in 1 .. len + 1 :
          k \in 1 .. len \/ (k = len + 1 /\ \A j \in (1 .. len + 1) \ {k} :
                                              j \in 1 .. len /\ ~(k <= j))
    BY <2>1
  <2>. QED  BY <2>2, <2>3, <2>4, <2>5 DEF AddsBehind
<1>4. minors' = minors \/ \E head : UpTo(head, prev) /\ minors' = head \o <<n>>
  BY <1>1, LinkProps
<1>. QED  BY <1>2, <1>3, <1>4

\* A failed allocation linked into the list only cuts what followed prev.
LEMMA LinkNothing ==
  ASSUME TypeOK, NEW prev, Link(prev, << >>)
  PROVE  /\ minors' \in Seq(DOMAIN minorNode)
         /\ \A k \in DOMAIN minors' : k \in DOMAIN minors /\ minors'[k] = minors[k]
<1>1. << >> \in Seq(DOMAIN minorNode)
  OBVIOUS
<1>2. CASE minors' = minors
  BY <1>2 DEF TypeOK
<1>3. ASSUME NEW head, UpTo(head, prev), minors' = head \o << >>
      PROVE  /\ minors' \in Seq(DOMAIN minorNode)
             /\ \A k \in DOMAIN minors' : k \in DOMAIN minors /\ minors'[k] = minors[k]
  <2>1. minors' = head /\ DOMAIN head = 1 .. Len(head) /\ Len(head) \in Nat
    BY <1>3, ConcatEmptySeq DEF UpTo
  <2>2. \A k \in 1 .. Len(head) : k \in DOMAIN minors
    BY <1>3, <2>1, ListType DEF UpTo
  <2>. QED  BY <1>3, <2>1, <2>2 DEF UpTo
<1>4. minors' = minors \/ \E head : UpTo(head, prev) /\ minors' = head \o << >>
  BY <1>1, LinkProps
<1>. QED  BY <1>2, <1>3, <1>4

\* What an action has to show when the open of p changes the list: the nodes there were
\* stay as they are, and so does what the other opens know of the list.
LEMMA OpenStep ==
  ASSUME IInv, NEW p \in Processes, At(p, "openAlloc"), AloneListed,
         NEW x \in Calls, call' = [call EXCEPT ![p] = x],
         minors' \in Seq(DOMAIN minorNode'), MinorsDistinct',
         DOMAIN minorNode' \subseteq MinorNodes,
         \A n \in DOMAIN minorNode' :
           \/ n \in DOMAIN minorNode /\ minorNode'[n] = minorNode[n]
           \/ /\ n \notin DOMAIN minorNode /\ minorNode'[n] \in MinorNode
              /\ minorNode'[n].channels = NULL /\ minorNode'[n].curr = NULL,
         \A n \in DOMAIN minorNode : n \in DOMAIN minorNode' /\ minorNode'[n] = minorNode[n],
         \A n \in DOMAIN minorNode : \A m : NoneUpTo(n, m) => NoneUpTo(n, m)',
         UNCHANGED <<channelNode, lost>>, CallOK(p)'
  PROVE  IInv'
<1>1. TypeOK /\ CallInv /\ ChannelInv /\ AloneInv /\ ~alone[p]
  BY NotAlone DEF IInv, At
<1>2. call' \in [Processes -> Calls] /\ \A q \in Processes \ {p} : call'[q] = call[q]
  BY <1>1 DEF TypeOK
<1>3. /\ alone' \in [Processes -> BOOLEAN] /\ ~alone'[p]
      /\ \A q \in Processes :
           alone'[q] => alone[q] /\ \E k \in DOMAIN minors' : minors'[k] = call[q].node
  BY <1>1 DEF AloneListed, TypeOK
<1>4. TypeOK'
  <2>1. \A n \in DOMAIN minorNode' : minorNode'[n] \in MinorNode
    BY <1>1 DEF TypeOK
  <2>. QED  BY <1>1, <1>2, <1>3, <2>1 DEF TypeOK
<1>5. ASSUME NEW q \in Processes PROVE CallOK(q)'
  <2>1. CASE q = p
    BY <2>1
  <2>2. CASE q # p
    <3>1. call'[q] = call[q] /\ CallOK(q)
      BY <1>1, <1>2, <2>2 DEF CallInv
    <3>2. PICK n, m : n = call[q].node /\ m = call[q].minor
      OBVIOUS
    <3>3. n \in DOMAIN minorNode => /\ n \in DOMAIN minorNode' /\ minorNode'[n] = minorNode[n]
                                    /\ NoneUpTo(n, m) => NoneUpTo(n, m)'
      OBVIOUS
    <3>. QED  BY <3>1, <3>2, <3>3 DEF CallOK, At
  <2>. QED  BY <2>1, <2>2
<1>6. ASSUME NEW q \in Processes PROVE AloneOK(q)'
  <2>1. CASE q = p
    BY <1>3, <2>1 DEF AloneOK
  <2>2. CASE q # p
    <3>1. PICK n, c : n = call[q].node /\ c = Curr(n)
      OBVIOUS
    <3>2. call'[q] = call[q] /\ AloneOK(q)
      BY <1>1, <1>2, <2>2 DEF AloneInv
    <3>3. alone[q] => n \in DOMAIN minorNode
      BY <1>1, <3>1, <3>2, ListType DEF AloneOK, Listed
    <3>4. alone'[q] => /\ alone[q]
                       /\ \E k \in DOMAIN minors' : minors'[k] = n
                       /\ minorNode'[n].curr = c
                       /\ channelNode'[c] = channelNode[c]
      BY <1>3, <3>1, <3>3 DEF Curr
    <3>. QED  BY <3>1, <3>2, <3>4, AloneFrame
  <2>. QED  BY <2>1, <2>2
<1>7. ChannelInv'
  <2>1. ASSUME NEW n \in DOMAIN minorNode' PROVE NodeOK(n)'
    <3>1. CASE n \in DOMAIN minorNode
      BY <1>1, <3>1 DEF ChannelInv, NodeOK, Curr
    <3>2. CASE n \notin DOMAIN minorNode
      BY <3>2 DEF NodeOK, Curr
    <3>. QED  BY <3>1, <3>2
  <2>2. ASSUME NEW n1 \in DOMAIN minorNode', NEW n2 \in DOMAIN minorNode',
               minorNode'[n1].channels = minorNode'[n2].channels, minorNode'[n1].channels # NULL
        PROVE  n1 = n2
    <3>1. /\ n1 \in DOMAIN minorNode /\ minorNode'[n1] = minorNode[n1]
          /\ n2 \in DOMAIN minorNode /\ minorNode'[n2] = minorNode[n2]
      BY <2>2
    <3>. QED  BY <1>1, <2>2, <3>1 DEF ChannelInv
  <2>. QED  BY <1>1, <2>1, <2>2 DEF ChannelInv, ChannelOK
<1>. QED  BY <1>4, <1>5, <1>6, <1>7 DEF IInv, CallInv, AloneInv

\* The node an open hung into the list is the only one of its minor: up to the node it
\* follows there was none when it looked, and nothing came to that part since.
LEMMA OpenAllocStep ==
  ASSUME IInv, NEW p \in Processes, OpenAlloc(p) PROVE IInv'
<1>1. TypeOK /\ At(p, "openAlloc") /\ MinorsDistinct /\ AloneListed /\ CallOK(p)
  BY DEF IInv, CallInv, OpenAlloc
<1>2. PICK n, m, prev :
        /\ n \in MinorNodes \ DOMAIN minorNode /\ m = call[p].minor /\ prev = call[p].node
        /\ minorNode' = [y \in DOMAIN minorNode \cup {n} |->
                           IF y = n THEN [minor |-> m, channels |-> NULL, curr |-> NULL]
                           ELSE minorNode[y]]
        /\ Link(prev, <<n>>)
  BY DEF OpenAlloc
<1>3. m \in Minors /\ (prev # NULL => prev \in DOMAIN minorNode /\ NoneUpTo(prev, m))
  BY <1>1, <1>2, CallType DEF CallOK, At
<1>. DEFINE x == [call[p] EXCEPT !.pc = "ioctl", !.node = NULL]
<1>4. call' = [call EXCEPT ![p] = x] /\ call'[p] = x
  BY <1>1 DEF OpenAlloc, TypeOK
<1>5. x \in Calls /\ x.pc = "ioctl" /\ x.minor = m
  BY <1>1, <1>2, CallType DEF Calls
<1>. HIDE DEF x
<1>6. /\ DOMAIN minorNode' = DOMAIN minorNode \cup {n}
      /\ minorNode'[n] = [minor |-> m, channels |-> NULL, curr |-> NULL]
      /\ \A y \in DOMAIN minorNode : minorNode'[y] = minorNode[y]
  BY <1>2
<1>7. minors' \in Seq(DOMAIN minorNode') /\ AddsBehind(prev, n)
  <2>1. minors' \in Seq(DOMAIN minorNode \cup {n}) /\ AddsBehind(prev, n)
    BY <1>1, <1>2, LinkNew
  <2>. QED  BY <1>6, <2>1
<1>8. \A k \in DOMAIN minors : minors[k] \in DOMAIN minorNode /\ minors[k] # n
  BY <1>1, <1>2, ListType
<1>9. MinorsDistinct'
  <2>. SUFFICES ASSUME NEW j \in DOMAIN minors', NEW k \in DOMAIN minors', j # k,
                       minorNode'[minors'[j]].minor = minorNode'[minors'[k]].minor
                PROVE  FALSE
    BY DEF MinorsDistinct
  <2>1. ASSUME NEW a \in DOMAIN minors', NEW b \in DOMAIN minors' \ {a}, minors'[a] = n
        PROVE  minorNode'[minors'[b]].minor # m
    <3>1. /\ b \in DOMAIN minors /\ minors'[b] = minors[b]
          /\ prev # NULL /\ \E i \in DOMAIN minors : minors[i] = prev /\ b <= i
      BY <1>7, <1>8, <2>1 DEF AddsBehind
    <3>2. minorNode[minors[b]].minor # m
      BY <1>3, <3>1 DEF NoneUpTo
    <3>. QED  BY <1>6, <1>8, <3>1, <3>2
  <2>2. CASE minors'[j] = n
    BY <1>6, <2>1, <2>2
  <2>3. CASE minors'[k] = n
    BY <1>6, <2>1, <2>3
  <2>4. CASE minors'[j] # n /\ minors'[k] # n
    <3>1. j \in DOMAIN minors /\ minors'[j] = minors[j] /\ k \in DOMAIN minors /\ minors'[k] = minors[k]
      BY <1>7, <2>4 DEF AddsBehind
    <3>. QED  BY <1>1, <1>6, <1>8, <3>1 DEF MinorsDistinct
  <2>. QED  BY <2>2, <2>3, <2>4
<1>10. \A y \in DOMAIN minorNode : \A mi : NoneUpTo(y, mi) => NoneUpTo(y, mi)'
  <2>. SUFFICES ASSUME NEW y \in DOMAIN minorNode, NEW mi, NoneUpTo(y, mi),
                       NEW j \in DOMAIN minors', NEW k \in DOMAIN minors',
                       minors'[k] = y, j <= k
                PROVE  minorNode'[minors'[j]].minor # mi
    BY DEF NoneUpTo
  <2>1. k \in DOMAIN minors /\ minors'[k] = minors[k]
    BY <1>2, <1>7 DEF AddsBehind
  <2>2. j \in DOMAIN minors /\ minors'[j] = minors[j]
    BY <1>2, <1>7 DEF AddsBehind
  <2>3. minorNode[minors[j]].minor # mi
    BY <2>1, <2>2 DEF NoneUpTo
  <2>. QED  BY <1>6, <1>8, <2>2, <2>3
<1>11. CallOK(p)'
  BY <1>3, <1>4, <1>5 DEF CallOK, At
<1>12. minorNode'[n] \in MinorNode /\ minorNode'[n].channels = NULL /\ minorNode'[n].curr = NULL
  BY <1>3, <1>6 DEF MinorNode
<1>13. DOMAIN minorNode' \subseteq MinorNodes
  BY <1>1, <1>2, <1>6 DEF TypeOK
<1>14. UNCHANGED <<channelNode, lost>>
  BY DEF OpenAlloc
<1>. QED  BY <1>1, <1>2, <1>4, <1>5, <1>6, <1>7, <1>9, <1>10, <1>11, <1>12, <1>13, <1>14, OpenStep

\* An open without memory may cut the list, but not before the node of a process left
\* alone.
LEMMA OpenNoMemoryStep ==
  ASSUME IInv, NEW p \in Processes, OpenNoMemory(p) PROVE IInv'
<1>1. TypeOK /\ At(p, "openAlloc") /\ MinorsDistinct /\ AloneListed
  BY DEF IInv, OpenNoMemory
<1>2. /\ call' = [call EXCEPT ![p] = NoCall] /\ call'[p] = NoCall
      /\ UNCHANGED <<minorNode, channelNode, lost>>
  BY <1>1 DEF OpenNoMemory, Exit, TypeOK
<1>3. /\ minors' \in Seq(DOMAIN minorNode')
      /\ \A k \in DOMAIN minors' : k \in DOMAIN minors /\ minors'[k] = minors[k]
  BY <1>1, <1>2, LinkNothing DEF OpenNoMemory
<1>4. MinorsDistinct'
  BY <1>1, <1>2, <1>3 DEF MinorsDistinct
<1>5. \A n \in DOMAIN minorNode : \A m : NoneUpTo(n, m) => NoneUpTo(n, m)'
  BY <1>2, <1>3 DEF NoneUpTo
<1>6. CallOK(p)'
  BY <1>2 DEF CallOK, At, NoCall
<1>7. DOMAIN minorNode' \subseteq MinorNodes
  BY <1>1, <1>2 DEF TypeOK
<1>. QED  BY <1>1, <1>2, <1>3, <1>4, <1>5, <1>6, <1>7, NoCallType, OpenStep

\* The module is loaded again: nobody has the device open, so nobody knows a node.
LEMMA ReloadStep ==
  ASSUME IInv, Reload PROVE IInv'
<1>1. /\ TypeOK /\ CallInv /\ AloneInv /\ minors' = << >>
      /\ DOMAIN minorNode' = {} /\ DOMAIN channelNode' = {}
      /\ lost' \subseteq lost \cup DOMAIN minorNode \cup DOMAIN channelNode
      /\ call' = call /\ alone' = alone /\ \A p \in Processes : At(p, "open")
  BY DEF IInv, Reload
<1>2. TypeOK'
  BY <1>1 DEF TypeOK
<1>3. MinorsDistinct'
  BY <1>1 DEF MinorsDistinct
<1>4. CallInv'
  BY <1>1 DEF CallInv, CallOK, At
<1>5. ChannelInv'
  BY <1>1 DEF ChannelInv
<1>6. AloneInv'
  <2>1. \A p \in Processes : ~alone[p]
    BY <1>1, NotAlone DEF At
  <2>. QED  BY <1>1, <2>1 DEF AloneInv, AloneOK
<1>. QED  BY <1>2, <1>3, <1>4, <1>5, <1>6 DEF IInv

----------------------------------------------------------------------------
(***************************************************************************)
(* The invariant, and what follows from it.                                *)
(***************************************************************************)

\* An unused device has the inductive invariant.
LEMMA InitInv == Init => IInv
<1>. SUFFICES ASSUME Init PROVE IInv
  OBVIOUS
<1>1. /\ minors = << >> /\ DOMAIN minorNode = {} /\ DOMAIN channelNode = {} /\ lost = {}
      /\ call = [p \in Processes |-> NoCall] /\ alone = [p \in Processes |-> FALSE]
  BY DEF Init
<1>2. TypeOK
  BY <1>1, NoCallType DEF TypeOK
<1>3. MinorsDistinct
  BY <1>1 DEF MinorsDistinct
<1>4. CallInv
  BY <1>1 DEF CallInv, CallOK, At, NoCall
<1>5. ChannelInv
  BY <1>1 DEF ChannelInv
<1>6. AloneInv
  BY <1>1 DEF AloneInv, AloneOK
<1>. QED  BY <1>2, <1>3, <1>4, <1>5, <1>6 DEF IInv

\* Every step of the device and its programs keeps the inductive invariant.
LEMMA StepInv == IInv /\ [Next]_vars => IInv'
<1>. SUFFICES ASSUME IInv, [Next]_vars PROVE IInv'
  OBVIOUS
<1>1. CASE UNCHANGED vars
  BY <1>1 DEF vars, deviceVars, IInv, TypeOK, MinorsDistinct, CallInv, CallOK, ChannelInv,
              NodeOK, ChannelOK, AloneInv, AloneOK, NoneUpTo, At, Curr, Listed
<1>2. CASE Reload
  BY <1>2, ReloadStep
<1>3. ASSUME NEW p \in Processes, OpenKnown(p) PROVE IInv'
  BY <1>3, OpenKnownStep
<1>4. ASSUME NEW p \in Processes, OpenUnknown(p) PROVE IInv'
  BY <1>4, OpenUnknownStep
<1>5. ASSUME NEW p \in Processes, OpenAlloc(p) PROVE IInv'
  BY <1>5, OpenAllocStep
<1>6. ASSUME NEW p \in Processes, OpenNoMemory(p) PROVE IInv'
  BY <1>6, OpenNoMemoryStep
<1>7. ASSUME NEW p \in Processes, SenderGoesOn(p) PROVE IInv'
  BY <1>7, SenderGoesOnStep
<1>8. ASSUME NEW p \in Processes, SenderGivesUp(p) PROVE IInv'
  BY <1>8, SenderGivesUpStep
<1>9. ASSUME NEW p \in Processes, IoctlNoMinor(p) PROVE IInv'
  BY <1>9, IoctlNoMinorStep
<1>10. ASSUME NEW p \in Processes, IoctlCurrent(p) PROVE IInv'
  BY <1>10, IoctlCurrentStep
<1>11. ASSUME NEW p \in Processes, IoctlFound(p) PROVE IInv'
  BY <1>11, IoctlFoundStep
<1>12. ASSUME NEW p \in Processes, IoctlUnknown(p) PROVE IInv'
  BY <1>12, IoctlUnknownStep
<1>13. ASSUME NEW p \in Processes, IoctlAlloc(p) PROVE IInv'
  BY <1>13, IoctlAllocStep
<1>14. ASSUME NEW p \in Processes, IoctlNoMemory(p) PROVE IInv'
  BY <1>14, IoctlNoMemoryStep
<1>15. ASSUME NEW p \in Processes, WriteInvalid(p) PROVE IInv'
  BY <1>15, LeaveStep DEF WriteInvalid
<1>16. ASSUME NEW p \in Processes, Write(p) PROVE IInv'
  BY <1>16, WriteStep
<1>17. ASSUME NEW p \in Processes, CopyIn(p) PROVE IInv'
  BY <1>17, CopyInStep
<1>18. ASSUME NEW p \in Processes, ReadRefused(p) PROVE IInv'
  BY <1>18, LeaveStep DEF ReadRefused
<1>19. ASSUME NEW p \in Processes, Read(p) PROVE IInv'
  BY <1>19, ReadStep
<1>20. ASSUME NEW p \in Processes, CopyOut(p) PROVE IInv'
  BY <1>20, CopyOutStep
<1>21. ASSUME NEW p \in Processes, Oops(p) PROVE IInv'
  BY <1>21, LeaveStep DEF Oops
<1>22. ASSUME NEW p \in Processes, Close(p) PROVE IInv'
  BY <1>22, LeaveStep DEF Close
<1>. QED
  BY <1>1, <1>2, <1>3, <1>4, <1>5, <1>6, <1>7, <1>8, <1>9, <1>10, <1>11, <1>12, <1>13,
     <1>14, <1>15, <1>16, <1>17, <1>18, <1>19, <1>20, <1>21, <1>22 DEF Next

\* The inductive invariant holds in every state, for any processes, minors, channels
\* and memory.
THEOREM Invariance == Spec => []IInv
BY InitInv, StepInv, PTL DEF Spec

\* The nodes, the calls and their locals have the types of the structs and variables.
THEOREM TypeCorrect == Spec => []TypeOK
<1>1. IInv => TypeOK
  BY DEF IInv
<1>. QED  BY <1>1, Invariance, PTL

\* Whatever opens overtake each other, no minor is in the list twice.
THEOREM DistinctCorrect == Spec => []MinorsDistinct
<1>1. IInv => MinorsDistinct
  BY DEF IInv
<1>. QED  BY <1>1, Invariance, PTL

\* A node leads to its first channel, and to the current one, which points to the first.
LEMMA ReachedIs ==
  ASSUME IInv, NEW n \in DOMAIN minorNode, NEW d \in Reached(n)
  PROVE  LET head == minorNode[n].channels IN
         /\ head # NULL /\ channelNode[head].next = NULL
         /\ d = head \/ channelNode[d].next = head
<1>. DEFINE head == minorNode[n].channels
            curr == Curr(n)
<1>1. NodeOK(n)
  BY DEF IInv, ChannelInv
<1>2. /\ head # NULL => channelNode[head].next = NULL
      /\ curr # NULL => /\ head # NULL
                        /\ curr = head \/ channelNode[curr].next = head
  BY <1>1 DEF NodeOK
<1>3. EndsSoon(head) /\ EndsSoon(curr)
  BY <1>2 DEF EndsSoon
<1>4. d \in Chain(head) \cup Chain(curr)
  BY DEF Reached
<1>. HIDE DEF head, curr
<1>5. Chain(head) \subseteq {head, channelNode[head].next} \ {NULL} /\ (head = NULL => Chain(head) = {})
  BY <1>3, ChainIsShort
<1>6. Chain(curr) \subseteq {curr, channelNode[curr].next} \ {NULL} /\ (curr = NULL => Chain(curr) = {})
  BY <1>3, ChainIsShort
<1>7. /\ head # NULL /\ channelNode[head].next = NULL
      /\ d = head \/ channelNode[d].next = head
  BY <1>2, <1>4, <1>5, <1>6
<1>. QED  BY <1>7 DEF head

\* What two nodes of the list lead to is apart: nothing written on one minor is read on
\* another.
THEOREM SeparateCorrect == Spec => []MinorsSeparate
<1>1. IInv => MinorsSeparate
  <2>. SUFFICES ASSUME IInv, NEW j \in DOMAIN minors, NEW k \in DOMAIN minors, j # k,
                       NEW d \in Reached(minors[j]), d \in Reached(minors[k])
                PROVE  FALSE
    BY DEF MinorsSeparate
  <2>1. PICK n1 \in DOMAIN minorNode, n2 \in DOMAIN minorNode : n1 = minors[j] /\ n2 = minors[k]
    BY ListType DEF IInv
  <2>2. n1 # n2
    BY <2>1 DEF IInv, MinorsDistinct
  <2>3. PICK h1, h2 : h1 = minorNode[n1].channels /\ h2 = minorNode[n2].channels
    OBVIOUS
  <2>4. h1 # NULL /\ channelNode[h1].next = NULL /\ (d = h1 \/ channelNode[d].next = h1)
    BY <2>1, <2>3, ReachedIs
  <2>5. h2 # NULL /\ channelNode[h2].next = NULL /\ (d = h2 \/ channelNode[d].next = h2)
    BY <2>1, <2>3, ReachedIs
  <2>6. h1 # h2
    BY <2>2, <2>3, <2>4 DEF IInv, ChannelInv
  <2>. QED  BY <2>4, <2>5, <2>6
<1>. QED  BY <1>1, Invariance, PTL

\* Every walk along next pointers ends within as many steps as there are channels.
THEOREM SearchCorrect == Spec => []SearchEnds
<1>1. IInv => SearchEnds
  <2>. SUFFICES ASSUME IInv, NEW c \in DOMAIN channelNode
                PROVE  Walk(c)[K] = NULL
    BY DEF SearchEnds, K
  <2>1. PICK next : next = channelNode[c].next
    OBVIOUS
  <2>2. /\ c \in Channels /\ c # NULL
        /\ next # NULL => /\ next \in DOMAIN channelNode /\ next \in Channels
                          /\ channelNode[next].next = NULL
    BY <2>1 DEF IInv, TypeOK, ChannelInv, ChannelOK
  <2>3. Walk(c) = ShortWalk(c)
    BY <2>1, <2>2, WalkIsShort DEF EndsSoon
  <2>4. K \in 0 .. K /\ K \in Nat
    BY KType
  <2>5. ShortWalk(c)[K] = IF K = 0 THEN c ELSE IF K = 1 THEN next ELSE NULL
    BY <2>1, <2>2, <2>4 DEF ShortWalk
  <2>6. 1 <= K
    <3>1. {c} \in SUBSET Channels /\ Cardinality({c}) = 1
      BY <2>2, FS_Singleton
    <3>. QED  BY <3>1, FS_Subset, MemoryAssumption DEF K
  <2>7. next # NULL => 2 <= K
    <3>. SUFFICES ASSUME next # NULL PROVE 2 <= K
      OBVIOUS
    <3>1. next # c
      BY <2>1, <2>2
    <3>2. IsFiniteSet({c}) /\ Cardinality({c}) = 1
      BY FS_Singleton
    <3>3. Cardinality({c} \cup {next}) = Cardinality({c}) + 1
      BY <3>1, <3>2, FS_AddElement
    <3>4. {c} \cup {next} \in SUBSET Channels
      BY <2>2
    <3>5. Cardinality({c} \cup {next}) <= K
      BY <3>4, FS_Subset, MemoryAssumption DEF K
    <3>. QED  BY <3>2, <3>3, <3>5
  <2>. QED  BY <2>3, <2>4, <2>5, <2>6, <2>7
<1>. QED  BY <1>1, Invariance, PTL

\* A process that is alone at its minor reads and writes the channel it asked for, and
\* never meets the NULL pointer.
THEOREM OwnChannelCorrect == Spec => []AloneUsesOwnChannel
<1>1. IInv => AloneUsesOwnChannel
  <2>. SUFFICES ASSUME IInv, NEW p \in Processes, alone[p]
                PROVE  /\ Curr(call[p].node) # NULL
                       /\ channelNode[Curr(call[p].node)].id = AsInt(call[p].param)
                       /\ At(p, "io") => FindMinor(call[p].minor) = call[p].node
    BY DEF AloneUsesOwnChannel
  <2>1. AloneOK(p)
    BY DEF IInv, AloneInv
  <2>. QED  BY <2>1, AloneFinds DEF AloneOK
<1>. QED  BY <1>1, Invariance, PTL

\* The message of a process that was alone is whole, although others ran between its
\* bytes.
THEOREM WholeCorrect == Spec => []AloneIsWhole
<1>1. IInv => AloneIsWhole
  BY DEF IInv, AloneInv, AloneOK, AloneIsWhole
<1>. QED  BY <1>1, Invariance, PTL
=============================================================================
