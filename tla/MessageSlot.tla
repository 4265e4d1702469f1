----------------------------- MODULE MessageSlot -----------------------------
(***************************************************************************)
(* hw3: the message slot device (message_slot.c) and the programs that use *)
(* it.  The device keeps a node for each minor that was opened, with a     *)
(* list of channel nodes and a pointer to the current channel, which every *)
(* process that has the minor open shares.  A program opens a minor,       *)
(* chooses a channel with ioctl() and then writes or reads once.           *)
(*                                                                         *)
(* Nothing in the device takes a lock.  A step goes from one place where a *)
(* call may sleep to the next: kmalloc(GFP_KERNEL), and the copy of each   *)
(* byte from or to the caller, which may have to page it in.  So processes *)
(* interleave as on one processor whose kernel is not preemptible; several *)
(* processors allow more.                                                  *)
(*                                                                         *)
(* The list of minors is the sequence of its nodes.  A message's bytes are *)
(* the process that wrote them.                                            *)
(***************************************************************************)
EXTENDS Integers, Sequences, FiniteSets

CONSTANTS
  NULL, Garbage,
  Processes,   \* each runs one program after another
  Minors,
  MinorNodes,  \* the memory there is for minors
  Channels,    \* and for channels
  Params,      \* the arguments of ioctl, unsigned longs
  IntMax,      \* INT_MAX
  UlongMax,    \* ULONG_MAX
  MaxLen       \* the longest message, 128; BUFFER_LENGTH is one more

VARIABLES
  minors,      \* the list of minors
  minorNode,   \* the MinorList nodes kmalloc gave out
  channelNode, \* the Channel nodes kmalloc gave out
  lost,        \* the nodes an earlier load of the module never freed
  call,        \* where each process is, and the locals of its call
  alone        \* is its channel its own choice, with nobody at it since?

deviceVars == <<minors, minorNode, channelNode, lost>>
vars == <<deviceVars, call, alone>>

ASSUME NullAssumption ==
  NULL \notin Minors \cup MinorNodes \cup Channels /\ Garbage \notin Processes
ASSUME MemoryAssumption == IsFiniteSet(MinorNodes) /\ IsFiniteSet(Channels)
ASSUME WidthAssumption ==
  /\ IntMax \in Nat /\ UlongMax \in Nat /\ UlongMax > 2 * IntMax + 1
  /\ (UlongMax + 1) % (2 * (IntMax + 1)) = 0   \* both are powers of two
ASSUME ParamsAssumption == Params \subseteq 0 .. UlongMax /\ 0 \in Params
ASSUME LenAssumption == MaxLen \in Nat \ {0}

BUFFER_LENGTH == MaxLen + 1
Cells == 0 .. BUFFER_LENGTH-1

\* An unsigned long stored in an int, and an int compared with an unsigned long.
AsInt(n)   == ((n + IntMax + 1) % (2 * (IntMax + 1))) - (IntMax + 1)
AsUlong(n) == IF n < 0 THEN UlongMax + 1 + n ELSE n

Bytes   == Processes \cup {Garbage}
NewText == [k \in Cells |-> Garbage]

MinorNode   == [minor : Minors, channels : Channels \cup {NULL}, curr : Channels \cup {NULL}]
ChannelNode == [id : -(IntMax + 1) .. IntMax, length : 0 .. MaxLen,
                message : [Cells -> Bytes], next : Channels \cup {NULL}]

\* Which of the three programs a process runs is told by the way it goes: "io" is
\* where the reader reads and the writer writes, "write" where only a write can come.
\* node is what the call works on: deviceOpen's prev, and after it the node of the
\* minor.
Calls == [pc : {"open", "openAlloc", "ioctl", "ioctlAlloc", "io", "write",
                "copyIn", "copyOut", "written", "read"},
          minor : Minors \cup {NULL}, node : MinorNodes \cup {NULL},
          param : Params, len : 0 .. MaxLen, i : 0 .. BUFFER_LENGTH, buff : [Cells -> Bytes]]

NoCall == [pc |-> "open", minor |-> NULL, node |-> NULL,
           param |-> 0, len |-> 0, i |-> 0, buff |-> NewText]

TypeOK ==
  /\ minors \in Seq(DOMAIN minorNode)
  /\ DOMAIN minorNode \subseteq MinorNodes
  /\ \A n \in DOMAIN minorNode : minorNode[n] \in MinorNode
  /\ DOMAIN channelNode \subseteq Channels
  /\ \A c \in DOMAIN channelNode : channelNode[c] \in ChannelNode
  /\ lost \subseteq MinorNodes \cup Channels
  /\ call \in [Processes -> Calls]
  /\ alone \in [Processes -> BOOLEAN]

Init ==
  /\ minors = << >>
  /\ minorNode = [n \in {} |-> NULL]
  /\ channelNode = [c \in {} |-> NULL]
  /\ lost = {}
  /\ call = [p \in Processes |-> NoCall]
  /\ alone = [p \in Processes |-> FALSE]

----------------------------------------------------------------------------
(***************************************************************************)
(* Looking things up.                                                      *)
(***************************************************************************)

At(p, pc) == call[p].pc = pc

Positions(m) == {k \in DOMAIN minors : minorNode[minors[k]].minor = m}

\* Mutant: the loop ends in front of the last node.
FindBeforeLast(m) ==
  IF Positions(m) \ {Len(minors)} = {} THEN NULL
  ELSE minors[CHOOSE k \in Positions(m) : \A j \in Positions(m) : k <= j]

\* The loop over the minors: the first node of m, or NULL.
FindMinor(m) ==
  IF Positions(m) = {} THEN NULL
  ELSE minors[CHOOSE k \in Positions(m) : \A j \in Positions(m) : k <= j]

\* The k-th channel after c, c itself for k = 0.
Walk(c) ==
  LET walk[k \in 0 .. Cardinality(Channels)] ==
        IF k = 0 THEN c
        ELSE IF walk[k-1] = NULL THEN NULL ELSE channelNode[walk[k-1]].next
  IN  walk

Chain(c) == {Walk(c)[k] : k \in DOMAIN Walk(c)} \ {NULL}

\* id == ioctl_param, an int against an unsigned long.
HasId(c, param) == AsUlong(channelNode[c].id) = param

\* The loop over a minor's channels.
FindChannel(head, param) ==
  LET hits == {k \in DOMAIN Walk(head) : Walk(head)[k] # NULL /\ HasId(Walk(head)[k], param)}
  IN  IF hits = {} THEN NULL
      ELSE Walk(head)[CHOOSE k \in hits : \A j \in hits : k <= j]

Curr(n) == minorNode[n].curr

Listed(n) == \E k \in DOMAIN minors : minors[k] = n

\* Everything a minor's node leads to.
Reached(n) == Chain(minorNode[n].channels) \cup Chain(Curr(n))

\* Node n is touched by p; the list of minors changes.
AloneOff(p, n) ==
  alone' = [q \in Processes |-> alone[q] /\ (q = p \/ call[q].node # n)]
AloneListed ==
  alone' = [q \in Processes |-> alone[q] /\ \E k \in DOMAIN minors' : minors'[k] = call[q].node]

----------------------------------------------------------------------------
(***************************************************************************)
(* open().                                                                 *)
(***************************************************************************)

Exit(p) == call' = [call EXCEPT ![p] = NoCall]

\* The program ends after its ioctl; its channel is no longer its own.
Leave(p) == Exit(p) /\ alone' = [alone EXCEPT ![p] = FALSE]

OpenKnown(p) ==
  /\ At(p, "open")
  /\ \E m \in Minors :
       /\ FindMinor(m) # NULL
       /\ call' = [call EXCEPT ![p] =
                     [@ EXCEPT !.pc = "ioctl", !.minor = m]]
  /\ UNCHANGED <<deviceVars, alone>>

\* The new node will follow the one that is last now.
OpenUnknown(p) ==
  /\ At(p, "open")
  /\ \E m \in Minors :
       /\ FindMinor(m) = NULL
       /\ call' = [call EXCEPT ![p] =
                     [@ EXCEPT !.pc = "openAlloc", !.minor = m,
                               !.node = IF minors = << >> THEN NULL
                                        ELSE minors[Len(minors)]]]
  /\ UNCHANGED <<deviceVars, alone>>

\* prev->next = tail, or minors = tail when there was no node: what followed prev
\* is dropped.  A prev that was itself dropped hangs the tail where no search goes.
Link(prev, tail) ==
  minors' = IF prev = NULL THEN tail
            ELSE IF Listed(prev)
                 THEN SubSeq(minors, 1, CHOOSE k \in DOMAIN minors : minors[k] = prev) \o tail
                 ELSE minors

OpenAlloc(p) ==
  /\ At(p, "openAlloc")
  /\ \E n \in MinorNodes \ (DOMAIN minorNode \cup lost) :
       /\ minorNode' = [x \in DOMAIN minorNode \cup {n} |->
                          IF x = n
                          THEN [minor |-> call[p].minor, channels |-> NULL, curr |-> NULL]
                          ELSE minorNode[x]]
       /\ Link(call[p].node, <<n>>)
  /\ call' = [call EXCEPT ![p].pc = "ioctl", ![p].node = NULL]
  /\ AloneListed
  /\ UNCHANGED <<channelNode, lost>>

OpenNoMemory(p) ==
  /\ At(p, "openAlloc")
  /\ Link(call[p].node, << >>)
  /\ Exit(p)
  /\ AloneListed
  /\ UNCHANGED <<minorNode, channelNode, lost>>

----------------------------------------------------------------------------
(***************************************************************************)
(* ioctl().                                                                *)
(***************************************************************************)

\* message_sender tests a ret_val it never set and does not call ioctl().
SenderGoesOn(p) ==
  /\ At(p, "ioctl")
  /\ call' = [call EXCEPT ![p].pc = "write"]
  /\ UNCHANGED <<deviceVars, alone>>

SenderGivesUp(p) ==
  /\ At(p, "ioctl")
  /\ Exit(p)
  /\ UNCHANGED <<deviceVars, alone>>

\* The channel is p's, and p is the last to have been at it; unless the node was lost
\* from the list meanwhile.
Chosen(p, n, param) ==
  /\ call' = [call EXCEPT ![p].pc = "io", ![p].node = n, ![p].param = param]
  /\ alone' = [q \in Processes |-> IF q = p THEN Listed(n) ELSE alone[q] /\ call[q].node # n]

\* message_reader stops on an error, message_writer goes on to write().
IoctlError(p) ==
  \/ Exit(p)
  \/ call' = [call EXCEPT ![p].pc = "write", ![p].node = NULL, ![p].param = 0]

IoctlNoMinor(p) ==
  /\ At(p, "ioctl")
  /\ FindMinor(call[p].minor) = NULL
  /\ IoctlError(p)
  /\ UNCHANGED <<deviceVars, alone>>

\* Mutant: any current channel will do.
AnyIsCurrent(n, param) == Curr(n) # NULL

IsCurrent(n, param) == Curr(n) # NULL /\ HasId(Curr(n), param)

IoctlCurrent(p) ==
  /\ At(p, "ioctl")
  /\ \E param \in Params : LET n == FindMinor(call[p].minor) IN
       /\ n # NULL
       /\ IsCurrent(n, param)
       /\ call' = [call EXCEPT ![p].pc = "io", ![p].node = n, ![p].param = param]
  /\ alone' = [alone EXCEPT ![p] = TRUE]
  /\ UNCHANGED deviceVars

IoctlFound(p) ==
  /\ At(p, "ioctl")
  /\ \E param \in Params : LET n == FindMinor(call[p].minor) IN
       /\ n # NULL
       /\ ~IsCurrent(n, param)
       /\ FindChannel(minorNode[n].channels, param) # NULL
       /\ minorNode' = [minorNode EXCEPT ![n].curr =
                          FindChannel(minorNode[n].channels, param)]
       /\ Chosen(p, n, param)
  /\ UNCHANGED <<minors, channelNode, lost>>

IoctlUnknown(p) ==
  /\ At(p, "ioctl")
  /\ \E param \in Params : LET n == FindMinor(call[p].minor) IN
       /\ n # NULL
       /\ ~IsCurrent(n, param)
       /\ FindChannel(minorNode[n].channels, param) = NULL
       /\ call' = [call EXCEPT ![p].pc = "ioctlAlloc", ![p].node = n, ![p].param = param]
  /\ UNCHANGED <<deviceVars, alone>>

\* Mutants: the head is set before it is copied; the head of the first minor is taken.
NewChannelHeadFirst(n, c, param) ==
  LET head == IF minorNode[n].channels = NULL THEN c ELSE minorNode[n].channels IN
  /\ channelNode' = [x \in DOMAIN channelNode \cup {c} |->
                       IF x = c
                       THEN [id |-> AsInt(param), length |-> 0, message |-> NewText, next |-> head]
                       ELSE channelNode[x]]
  /\ minorNode' = [minorNode EXCEPT ![n].curr = c, ![n].channels = head]
NewChannelFirstMinor(n, c, param) ==
  LET head == IF minors = << >> THEN NULL ELSE minorNode[minors[1]].channels IN
  /\ channelNode' = [x \in DOMAIN channelNode \cup {c} |->
                       IF x = c
                       THEN [id |-> AsInt(param), length |-> 0, message |-> NewText, next |-> head]
                       ELSE channelNode[x]]
  /\ minorNode' = [minorNode EXCEPT ![n].curr = c,
                                    ![n].channels = IF head = NULL THEN c ELSE head]

\* The new channel points to the head of the list, and becomes the head only of an
\* empty one.  kmalloc leaves its message as it finds it.
NewChannel(n, c, param) ==
  LET head == minorNode[n].channels IN
  /\ channelNode' = [x \in DOMAIN channelNode \cup {c} |->
                       IF x = c
                       THEN [id |-> AsInt(param), length |-> 0, message |-> NewText, next |-> head]
                       ELSE channelNode[x]]
  /\ minorNode' = [minorNode EXCEPT ![n].curr = c,
                                    ![n].channels = IF head = NULL THEN c ELSE head]

IoctlAlloc(p) ==
  /\ At(p, "ioctlAlloc")
  /\ \E c \in Channels \ (DOMAIN channelNode \cup lost) : NewChannel(call[p].node, c, call[p].param)
  /\ Chosen(p, call[p].node, call[p].param)
  /\ UNCHANGED <<minors, lost>>

\* The failed allocation has already replaced the current channel.
IoctlNoMemory(p) ==
  /\ At(p, "ioctlAlloc")
  /\ minorNode' = [minorNode EXCEPT ![call[p].node].curr = NULL]
  /\ IoctlError(p)
  /\ AloneOff(p, call[p].node)
  /\ UNCHANGED <<minors, channelNode, lost>>

----------------------------------------------------------------------------
(***************************************************************************)
(* write() and read().                                                     *)
(***************************************************************************)

Writes(p) == At(p, "io") \/ At(p, "write")
Reads(p)  == At(p, "io")

\* The minor has a node, and a channel was chosen on it.
HasChannel(m) == FindMinor(m) # NULL /\ Curr(FindMinor(m)) # NULL

\* An empty or too long message, or no channel: EINVAL.
WriteInvalid(p) ==
  /\ Writes(p)
  /\ Leave(p)
  /\ UNCHANGED deviceVars

Write(p) ==
  /\ Writes(p)
  /\ HasChannel(call[p].minor)
  /\ \E l \in 1 .. MaxLen :
       call' = [call EXCEPT ![p].pc = "copyIn", ![p].len = l, ![p].i = 0,
                            ![p].node = FindMinor(call[p].minor)]
  /\ UNCHANGED <<deviceVars, alone>>

\* Mutants: the length is that of the byte before, or one more.
StoredLong(ch, p, i, l) ==
  [ch EXCEPT !.message = [@ EXCEPT ![i] = p], !.length = IF i + 1 = l THEN l + 1 ELSE @]
StoredShort(ch, p, i, l) ==
  [ch EXCEPT !.message = [@ EXCEPT ![i] = p], !.length = IF i + 1 = l THEN i ELSE @]

\* What the channel holds after byte i of len: the last one sets the length.
Stored(ch, p, i, l) ==
  [ch EXCEPT !.message = [@ EXCEPT ![i] = p], !.length = IF i + 1 = l THEN l ELSE @]

\* currMinor->curr is read again for each byte.
CopyIn(p) ==
  LET c == Curr(call[p].node) IN
  /\ At(p, "copyIn")
  /\ c # NULL
  /\ channelNode' = [channelNode EXCEPT ![c] = Stored(@, p, call[p].i, call[p].len)]
  /\ call' = [call EXCEPT ![p].i = @ + 1,
                          ![p].pc = IF call[p].i + 1 = call[p].len THEN "written" ELSE @]
  /\ AloneOff(p, call[p].node)
  /\ UNCHANGED <<minors, minorNode, lost>>

\* No channel (EINVAL), or no message yet (EWOULDBLOCK).
ReadRefused(p) ==
  /\ Reads(p)
  /\ HasChannel(call[p].minor) => channelNode[Curr(FindMinor(call[p].minor))].length = 0
  /\ Leave(p)
  /\ UNCHANGED deviceVars

\* The caller's buffer is BUFFER_LENGTH long, so there is always space for the message.
Read(p) ==
  /\ Reads(p)
  /\ HasChannel(call[p].minor)
  /\ channelNode[Curr(FindMinor(call[p].minor))].length # 0
  /\ call' = [call EXCEPT ![p].pc = "copyOut", ![p].i = 0, ![p].node = FindMinor(call[p].minor)]
  /\ UNCHANGED <<deviceVars, alone>>

\* All of the channel's bytes are copied, whatever the length of the message.
CopyOut(p) ==
  LET c == Curr(call[p].node) IN
  /\ At(p, "copyOut")
  /\ c # NULL
  /\ call' = [call EXCEPT ![p].i = @ + 1,
                          ![p].buff[call[p].i] = channelNode[c].message[call[p].i],
                          ![p].pc = IF call[p].i + 1 = BUFFER_LENGTH THEN "read" ELSE @]
  /\ UNCHANGED <<deviceVars, alone>>

\* The channel the call has checked is gone: the kernel stops the process at the
\* NULL pointer.
Oops(p) ==
  /\ call[p].pc \in {"copyIn", "copyOut"}
  /\ Curr(call[p].node) = NULL
  /\ Leave(p)
  /\ UNCHANGED deviceVars

\* The program ends, and closes the device; deviceRelease does nothing.
Close(p) ==
  /\ At(p, "written") \/ At(p, "read")
  /\ Leave(p)
  /\ UNCHANGED deviceVars

----------------------------------------------------------------------------
(***************************************************************************)
(* rmmod and insmod, while no program has the device open.  Only what the  *)
(* lists hold is freed.                                                    *)
(***************************************************************************)
Reload ==
  LET listed == {minors[k] : k \in DOMAIN minors}
      freed  == listed \cup UNION {Chain(minorNode[n].channels) : n \in listed}
  IN
  /\ \A p \in Processes : At(p, "open")
  /\ DOMAIN minorNode # {}
  /\ minors' = << >>
  /\ minorNode' = [n \in {} |-> NULL] /\ channelNode' = [c \in {} |-> NULL]
  /\ lost' = lost \cup ((DOMAIN minorNode \cup DOMAIN channelNode) \ freed)
  /\ UNCHANGED <<call, alone>>

Next ==
  \/ Reload
  \/ \E p \in Processes :
       \/ OpenKnown(p) \/ OpenUnknown(p) \/ OpenAlloc(p) \/ OpenNoMemory(p)
       \/ SenderGoesOn(p) \/ SenderGivesUp(p)
       \/ IoctlNoMinor(p) \/ IoctlCurrent(p) \/ IoctlFound(p) \/ IoctlUnknown(p)
       \/ IoctlAlloc(p) \/ IoctlNoMemory(p)
       \/ WriteInvalid(p) \/ Write(p) \/ CopyIn(p)
       \/ ReadRefused(p) \/ Read(p) \/ CopyOut(p) \/ Oops(p) \/ Close(p)

Spec == Init /\ [][Next]_vars

----------------------------------------------------------------------------
(***************************************************************************)
(* Properties.                                                             *)
(***************************************************************************)

\* However opens overtake each other between the search and the new node, the list
\* never holds a minor twice: a node may be lost, but what is found is unambiguous.
MinorsDistinct ==
  \A j, k \in DOMAIN minors :
    minorNode[minors[j]].minor = minorNode[minors[k]].minor => j = k

\* The searches end and freeList frees nothing twice: no channel leads back to itself,
\* also when two processes create channels of one minor at the same time.
SearchEnds ==
  \A c \in DOMAIN channelNode : Walk(c)[Cardinality(Channels)] = NULL

\* What is written on one minor cannot be read on another: the nodes of two minors in
\* the list lead to no common channel.
MinorsSeparate ==
  \A j, k \in DOMAIN minors : j # k => Reached(minors[j]) \cap Reached(minors[k]) = {}

\* A process whose ioctl succeeded and who was alone at the minor since reads and
\* writes the channel it asked for: no other process's ioctl elsewhere, no open and no
\* lost node changes it, and it never meets the NULL pointer.
AloneUsesOwnChannel ==
  \A p \in Processes :
    alone[p] /\ call[p].pc \in {"io", "copyIn", "copyOut", "written", "read"} =>
      /\ Curr(call[p].node) # NULL
      /\ channelNode[Curr(call[p].node)].id = AsInt(call[p].param)
      /\ At(p, "io") => FindMinor(call[p].minor) = call[p].node

\* A process that was alone has written its whole message, or read the bytes the
\* channel holds, although other processes ran between the bytes.
AloneIsWhole ==
  \A p \in Processes :
    LET ch == channelNode[Curr(call[p].node)] IN
    alone[p] =>
      /\ At(p, "read") => call[p].buff = ch.message
      /\ At(p, "written") =>
           ch.length = call[p].len /\ \A k \in 0 .. call[p].len-1 : ch.message[k] = p

\* "no such minor, should have opened first" (message_slot.c:196): a process that has
\* opened a minor finds it.
OpenedMinorFound ==
  \A p \in Processes : call[p].pc \in {"ioctl", "io", "write"} => FindMinor(call[p].minor) # NULL

\* "search for the channel & create one if needed" (message_slot.c:205): a channel is
\* created only if the minor has none of that id.  A channel that points into the
\* minor's list was created on it.
ChannelFoundAgain ==
  \A p \in Processes :
    At(p, "ioctlAlloc") =>
      \A c \in DOMAIN channelNode :
        Chain(c) \cap Reached(call[p].node) # {} => ~HasId(c, call[p].param)
=============================================================================
