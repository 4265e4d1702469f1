-------------------------- MODULE FindReplaceProofs --------------------------
(***************************************************************************)
(* Proofs about FindReplace: what a successful run prints is the file with *)
(* every occurrence of the word replaced, for every file, every two words  *)
(* and every way of reading the file in pieces.                            *)
(***************************************************************************)
EXTENDS FindReplace, NumberLemmas, SequenceTheorems, TLAPS

USE MaxOutputAssumption, ByteAssumption

----------------------------------------------------------------------------
(***************************************************************************)
(* The reference, byte by byte.  Turn is one turn of its recursion, Walk   *)
(* the recursive function; that there is such a function has to be shown,  *)
(* and is not so when the word is empty.                                   *)
(***************************************************************************)

Occurs(text, f, p) == p + Len(f) - 1 <= Len(text) /\ SubSeq(text, p, p + Len(f) - 1) = f

\* No occurrence begins in what is before q.
Free(text, f, p, q) == \A x \in p .. q-1 : ~Occurs(text, f, x)

Turn(g, text, f, r, p) ==
  IF p > Len(text) THEN << >>
  ELSE IF Occurs(text, f, p) THEN r \o g[p + Len(f)] ELSE <<text[p]>> \o g[p + 1]

Places(text, f) == 1 .. Len(text) + Len(f) + 1

Walk(text, f, r) == CHOOSE g : g = [p \in Places(text, f) |-> Turn(g, text, f, r, p)]

\* The reference of FindReplace is this function at the first place.
LEMMA ReplacedFromIsWalk ==
  ASSUME NEW text, NEW f, NEW r
  PROVE  ReplacedFrom(text, f, r) = Walk(text, f, r)[1]
BY DEF ReplacedFrom, Walk, Turn, Occurs, Places

\* A turn looks only at what is further on.
LEMMA TurnLooksAhead ==
  ASSUME NEW S, NEW text \in Seq(S), NEW f \in Seq(S), f # << >>, NEW r,
         NEW p \in Places(text, f), NEW g, NEW h,
         \A q \in Places(text, f) : ~(q <= p) => g[q] = h[q]
  PROVE  Turn(g, text, f, r, p) = Turn(h, text, f, r, p)
<1>1. Len(text) \in Nat /\ Len(f) \in Nat /\ Len(f) > 0
  BY EmptySeq, LenProperties
<1>2. CASE p > Len(text)
  BY <1>2 DEF Turn
<1>3. CASE ~(p > Len(text)) /\ Occurs(text, f, p)
  <2>1. p + Len(f) \in Places(text, f) /\ ~(p + Len(f) <= p)
    BY <1>1, <1>3 DEF Places, Occurs
  <2>. QED  BY <1>3, <2>1 DEF Turn
<1>4. CASE ~(p > Len(text)) /\ ~Occurs(text, f, p)
  <2>1. p + 1 \in Places(text, f) /\ ~(p + 1 <= p)
    BY <1>1, <1>4 DEF Places
  <2>. QED  BY <1>4, <2>1 DEF Turn
<1>. QED  BY <1>2, <1>3, <1>4

\* From the last place to the first, there is a function for the places passed.
LEMMA WalkExists ==
  ASSUME NEW S, NEW text \in Seq(S), NEW f \in Seq(S), f # << >>, NEW r
  PROVE  Walk(text, f, r) =
           [p \in Places(text, f) |-> Turn(Walk(text, f, r), text, f, r, p)]
<1>. DEFINE M == Len(text) + Len(f) + 1
            Goes(g, n) == g = [p \in n .. M |-> Turn(g, text, f, r, p)]
            Bad == {d \in 0 .. M-1 : ~\E g : Goes(g, M - d)}
<1>1. Len(text) \in Nat /\ Len(f) \in Nat /\ Len(f) > 0 /\ M \in Nat \ {0}
  BY EmptySeq, LenProperties
<1>2. Places(text, f) = 1 .. M
  BY DEF Places
<1>. HIDE DEF M
<1>3. Bad = {}
  <2>. SUFFICES ASSUME Bad # {} PROVE FALSE
    OBVIOUS
  <2>1. Bad \in SUBSET Nat
    BY <1>1
  <2>2. PICK d \in Bad : \A e \in Bad : d <= e
    BY <2>1, LeastElement
  <2>3. d \in 0 .. M-1 /\ ~\E g : Goes(g, M - d)
    BY <2>2
  <2>. DEFINE n == M - d
  <2>4. n \in 1 .. M
    BY <1>1, <2>3
  <2>5. CASE d = 0
    <3>1. \A p \in n .. M : p = M /\ p > Len(text)
      BY <1>1, <2>4, <2>5 DEF M
    <3>. DEFINE g == [p \in n .. M |-> << >>]
    <3>2. \A p \in n .. M : Turn(g, text, f, r, p) = << >>
      BY <3>1 DEF Turn
    <3>3. Goes(g, n)
      BY <3>2
    <3>. QED  BY <2>3, <3>3
  <2>6. CASE d # 0
    <3>1. d - 1 \in 0 .. M-1 /\ ~(d <= d - 1) /\ M - (d - 1) = n + 1
      BY <1>1, <2>3, <2>6
    <3>2. PICK g : Goes(g, n + 1)
      BY <2>2, <3>1
    <3>. DEFINE h == [p \in n .. M |-> IF p = n THEN Turn(g, text, f, r, n) ELSE g[p]]
    <3>3. \A q \in 1 .. M : ~(q <= n) => h[q] = g[q] /\ g[q] = Turn(g, text, f, r, q)
      <4>. SUFFICES ASSUME NEW q \in 1 .. M, ~(q <= n)
                    PROVE  h[q] = g[q] /\ g[q] = Turn(g, text, f, r, q)
        OBVIOUS
      <4>1. q \in n .. M /\ q # n /\ q \in n + 1 .. M
        BY <1>1, <2>4
      <4>. QED  BY <3>2, <4>1
    <3>4. ASSUME NEW p \in n .. M PROVE h[p] = Turn(h, text, f, r, p)
      <4>. HIDE DEF h, n
      <4>1. p \in 1 .. M /\ \A q \in 1 .. M : ~(q <= p) => ~(q <= n)
        BY <1>1, <2>4
      <4>2. Turn(h, text, f, r, p) = Turn(g, text, f, r, p)
        <5>1. p \in Places(text, f) /\ \A q \in Places(text, f) : ~(q <= p) => h[q] = g[q]
          BY <1>2, <3>3, <4>1
        <5>. QED  BY <5>1, TurnLooksAhead
      <4>3. h[p] = IF p = n THEN Turn(g, text, f, r, n) ELSE g[p]
        BY DEF h
      <4>4. p # n => ~(p <= n)
        BY <1>1, <2>4
      <4>. QED  BY <3>3, <4>1, <4>2, <4>3, <4>4
    <3>5. Goes(h, n)
      BY <3>4
    <3>. QED  BY <2>3, <3>5
  <2>. QED  BY <2>5, <2>6
<1>4. \E g : Goes(g, 1)
  <2>1. M - 1 \in 0 .. M-1 /\ M - (M - 1) = 1
    BY <1>1
  <2>2. \E g : Goes(g, M - (M - 1))
    BY <1>3, <2>1
  <2>. QED  BY <2>1, <2>2
<1>. QED  BY <1>2, <1>4 DEF Walk

\* The function that Walk is, turn by turn.
LEMMA WalkTurn ==
  ASSUME NEW S, NEW text \in Seq(S), NEW f \in Seq(S), f # << >>, NEW r,
         NEW p \in Places(text, f)
  PROVE  Walk(text, f, r)[p] = Turn(Walk(text, f, r), text, f, r, p)
<1>. DEFINE w == Walk(text, f, r)
<1>1. w = [q \in Places(text, f) |-> Turn(w, text, f, r, q)]
  BY WalkExists
<1>. HIDE DEF w
<1>2. w[p] = Turn(w, text, f, r, p)
  BY <1>1
<1>. QED  BY <1>2 DEF w

\* What the reference gives is a text.
LEMMA WalkType ==
  ASSUME NEW S, NEW text \in Seq(S), NEW f \in Seq(S), f # << >>, NEW r \in Seq(S)
  PROVE  \A p \in Places(text, f) : Walk(text, f, r)[p] \in Seq(S)
<1>. DEFINE M == Len(text) + Len(f) + 1
            w == Walk(text, f, r)
            Bad == {d \in 0 .. M-1 : w[M - d] \notin Seq(S)}
<1>1. Len(text) \in Nat /\ Len(f) \in Nat /\ Len(f) > 0 /\ M \in Nat \ {0}
  BY EmptySeq, LenProperties
<1>2. Places(text, f) = 1 .. M
  BY DEF Places
<1>3. \A p \in 1 .. M : w[p] = Turn(w, text, f, r, p)
  BY <1>2, WalkTurn
<1>. HIDE DEF w
<1>4. Bad = {}
  <2>. SUFFICES ASSUME Bad # {} PROVE FALSE
    OBVIOUS
  <2>1. Bad \in SUBSET Nat
    BY <1>1
  <2>2. PICK d \in Bad : \A e \in Bad : d <= e
    BY <2>1, LeastElement
  <2>3. PICK p : p = M - d
    OBVIOUS
  <2>4. p \in 1 .. M /\ w[p] \notin Seq(S) /\ w[p] = Turn(w, text, f, r, p)
    BY <1>1, <1>3, <2>2, <2>3
  <2>5. \A q \in 1 .. M : ~(q <= p) => w[q] \in Seq(S)
    <3>. SUFFICES ASSUME NEW q \in 1 .. M, ~(q <= p), w[q] \notin Seq(S) PROVE FALSE
      OBVIOUS
    <3>1. M - q \in 0 .. M-1 /\ M - (M - q) = q /\ ~(d <= M - q)
      BY <1>1, <2>2, <2>3, <2>4
    <3>2. M - q \in Bad
      BY <3>1
    <3>. QED  BY <2>2, <3>1, <3>2
  <2>6. CASE p > Len(text)
    BY <2>4, <2>6 DEF Turn
  <2>7. CASE ~(p > Len(text)) /\ Occurs(text, f, p)
    <3>1. p + Len(f) \in 1 .. M /\ ~(p + Len(f) <= p)
      BY <1>1, <2>4, <2>7 DEF Occurs
    <3>2. w[p] = r \o w[p + Len(f)]
      BY <2>4, <2>7 DEF Turn
    <3>3. w[p + Len(f)] \in Seq(S)
      BY <2>5, <3>1
    <3>. QED  BY <2>4, <3>2, <3>3, ConcatProperties
  <2>8. CASE ~(p > Len(text)) /\ ~Occurs(text, f, p)
    <3>1. p + 1 \in 1 .. M /\ ~(p + 1 <= p) /\ p \in 1 .. Len(text)
      BY <1>1, <2>4, <2>8
    <3>2. w[p] = <<text[p]>> \o w[p + 1]
      BY <2>4, <2>8 DEF Turn
    <3>3. w[p + 1] \in Seq(S) /\ <<text[p]>> \in Seq(S)
      BY <2>5, <3>1, ElementOfSeq
    <3>. QED  BY <2>4, <3>2, <3>3, ConcatProperties
  <2>. QED  BY <2>6, <2>7, <2>8
<1>5. ASSUME NEW p \in 1 .. M PROVE w[p] \in Seq(S)
  <2>1. M - p \in 0 .. M-1 /\ M - (M - p) = p
    BY <1>1
  <2>. QED  BY <1>4, <2>1
<1>. QED  BY <1>2, <1>5 DEF w

\* A part of a sequence is one of its elements' kind.
LEMMA PartOfSeq ==
  ASSUME NEW S, NEW s \in Seq(S), NEW m \in 1 .. Len(s) + 1, NEW n \in m-1 .. Len(s)
  PROVE  SubSeq(s, m, n) \in Seq(S) /\ Len(SubSeq(s, m, n)) = n - m + 1
<1>1. Len(s) \in Nat
  BY LenProperties
<1>2. \A i \in m .. n : s[i] \in S
  BY <1>1, ElementOfSeq
<1>3. m \in Int /\ n \in Int /\ (m <= n \/ n - m + 1 = 0)
  BY <1>1
<1>. QED  BY <1>2, <1>3, SubSeqProperties

Assoc(a, b, c) == (a \o b) \o c = a \o (b \o c)

\* Concatenation, whatever the elements.
LEMMA Associates ==
  ASSUME NEW S
  PROVE  \A a, b, c \in Seq(S) : Assoc(a, b, c)
BY ConcatAssociative DEF Assoc

\* A text and what follows it, one byte at a time.
LEMMA CopyOne ==
  ASSUME NEW S, NEW text \in Seq(S), NEW x \in 1 .. Len(text), NEW y \in x .. Len(text),
         NEW tail \in Seq(S)
  PROVE  <<text[x]>> \o (SubSeq(text, x + 1, y) \o tail) = SubSeq(text, x, y) \o tail
<1>1. SubSeq(text, x, y) = <<text[x]>> \o SubSeq(text, x + 1, y)
  BY SubSeqRecursiveFirst
<1>2. x \in Nat /\ y \in Nat /\ Len(text) \in Nat
  BY LenProperties
<1>3. <<text[x]>> \in Seq(S)
  BY ElementOfSeq
<1>4. SubSeq(text, x + 1, y) \in Seq(S)
  <2>1. x + 1 \in 1 .. Len(text) + 1 /\ y \in (x + 1) - 1 .. Len(text)
    BY <1>2
  <2>. QED  BY <2>1, PartOfSeq
<1>5. Assoc(<<text[x]>>, SubSeq(text, x + 1, y), tail)
  BY <1>3, <1>4, Associates
<1>. QED  BY <1>1, <1>5 DEF Assoc

Copies(text, f, r, p, q) == Walk(text, f, r)[p] = SubSeq(text, p, q-1) \o Walk(text, f, r)[q]

\* Up to the next occurrence the text is copied.
LEMMA WalkSkips ==
  ASSUME NEW S, NEW text \in Seq(S), NEW f \in Seq(S), f # << >>, NEW r \in Seq(S),
         NEW p \in 1 .. Len(text) + 1, NEW q \in p .. Len(text) + 1,
         Free(text, f, p, q)
  PROVE  Copies(text, f, r, p, q)
<1>. DEFINE w == Walk(text, f, r)
            Bad == {d \in 0 .. q-p : w[q - d] # SubSeq(text, q - d, q-1) \o w[q]}
<1>1. Len(text) \in Nat /\ Len(f) \in Nat /\ Len(f) > 0 /\ p \in Nat /\ q \in Nat
  BY EmptySeq, LenProperties
<1>2. \A x \in 1 .. Len(text) + 1 : x \in Places(text, f)
  BY <1>1 DEF Places
<1>3. \A x \in 1 .. Len(text) + 1 : w[x] = Turn(w, text, f, r, x) /\ w[x] \in Seq(S)
  BY <1>2, WalkTurn, WalkType
<1>. HIDE DEF w
<1>4. Bad = {}
  <2>. SUFFICES ASSUME Bad # {} PROVE FALSE
    OBVIOUS
  <2>1. Bad \in SUBSET Nat
    BY <1>1
  <2>2. PICK d \in Bad : \A e \in Bad : d <= e
    BY <2>1, LeastElement
  <2>3. PICK x : x = q - d
    OBVIOUS
  <2>4. d \in 0 .. q-p /\ x \in p .. q /\ x \in 1 .. Len(text) + 1 /\ q \in 1 .. Len(text) + 1
    BY <1>1, <2>2, <2>3
  <2>5. w[x] # SubSeq(text, x, q-1) \o w[q]
    BY <2>2, <2>3
  <2>6. CASE d = 0
    <3>1. x = q /\ q-1 < x /\ x \in Int /\ q-1 \in Int
      BY <1>1, <2>3, <2>6
    <3>2. SubSeq(text, x, q-1) = << >>
      BY <3>1, SubSeqEmpty
    <3>3. << >> \o w[q] = w[q]
      BY <1>3, <2>4, ConcatEmptySeq
    <3>. QED  BY <2>5, <3>1, <3>2, <3>3
  <2>7. CASE d # 0
    <3>1. /\ d - 1 \in 0 .. q-p /\ ~(d <= d - 1) /\ q - (d - 1) = x + 1
          /\ x \in p .. q-1 /\ ~(x > Len(text)) /\ x \in 1 .. Len(text)
          /\ q-1 \in x .. Len(text) /\ x + 1 \in 1 .. Len(text) + 1
      BY <1>1, <2>3, <2>4, <2>7
    <3>2. w[x + 1] = SubSeq(text, x + 1, q-1) \o w[q]
      BY <2>2, <3>1
    <3>3. w[x] = <<text[x]>> \o w[x + 1]
      BY <1>3, <2>4, <3>1 DEF Turn, Free
    <3>5. PICK tail \in Seq(S) : tail = w[q]
      BY <1>3, <2>4
    <3>6. <<text[x]>> \o (SubSeq(text, x + 1, q-1) \o tail) = SubSeq(text, x, q-1) \o tail
      <4>. HIDE DEF Bad
      <4>1. x \in 1 .. Len(text) /\ q-1 \in x .. Len(text)
        BY <3>1
      <4>2. \A y \in x .. Len(text) :
              <<text[x]>> \o (SubSeq(text, x + 1, y) \o tail) = SubSeq(text, x, y) \o tail
        BY <4>1, CopyOne
      <4>. QED  BY <4>1, <4>2
    <3>. QED  BY <2>5, <3>2, <3>3, <3>5, <3>6
  <2>. QED  BY <2>6, <2>7
<1>5. q-p \in 0 .. q-p /\ q - (q-p) = p
  BY <1>1
<1>. QED  BY <1>4, <1>5 DEF w, Copies

\* Where the text has no further occurrence the rest of it is copied.
LEMMA WalkRest ==
  ASSUME NEW S, NEW text \in Seq(S), NEW f \in Seq(S), f # << >>, NEW r \in Seq(S),
         NEW p \in 1 .. Len(text) + 1, Free(text, f, p, Len(text) + 1)
  PROVE  Walk(text, f, r)[p] = SubSeq(text, p, Len(text))
<1>1. Len(text) \in Nat /\ Len(f) \in Nat /\ Len(f) > 0 /\ (Len(text) + 1) - 1 = Len(text)
  BY EmptySeq, LenProperties
<1>2. PICK q : q = Len(text) + 1
  OBVIOUS
<1>3. q \in p .. Len(text) + 1 /\ q \in Places(text, f) /\ q > Len(text) /\ q-1 = Len(text)
  BY <1>1, <1>2 DEF Places
<1>4. Walk(text, f, r)[q] = << >>
  BY <1>3, WalkTurn DEF Turn
<1>5. Copies(text, f, r, p, q)
  BY <1>2, <1>3, WalkSkips
<1>6. SubSeq(text, p, Len(text)) \in Seq(S)
  <2>1. Len(text) \in p-1 .. Len(text)
    BY <1>1
  <2>. QED  BY <2>1, PartOfSeq
<1>. QED  BY <1>3, <1>4, <1>5, <1>6, ConcatEmptySeq DEF Copies

Jumps(text, f, r, p) == Walk(text, f, r)[p] = r \o Walk(text, f, r)[p + Len(f)]

\* At an occurrence the walk gives the other word and goes on behind it.
LEMMA WalkReplaces ==
  ASSUME NEW S, NEW text \in Seq(S), NEW f \in Seq(S), f # << >>, NEW r,
         NEW p \in 1 .. Len(text) + 1, Occurs(text, f, p)
  PROVE  /\ p + Len(f) \in 1 .. Len(text) + 1
         /\ Jumps(text, f, r, p)
<1>1. Len(text) \in Nat /\ Len(f) \in Nat /\ Len(f) > 0
  BY EmptySeq, LenProperties
<1>2. p \in Places(text, f) /\ ~(p > Len(text)) /\ p + Len(f) \in 1 .. Len(text) + 1
  BY <1>1 DEF Places, Occurs
<1>. QED  BY <1>2, WalkTurn DEF Turn, Jumps

----------------------------------------------------------------------------
(***************************************************************************)
(* The C strings in the buffer: each ends where the one at its beginning   *)
(* ends, and strstr finds the first occurrence there is in it.             *)
(***************************************************************************)

\* A set of numbers that is not empty has the minimum that Min chooses.
LEMMA MinIsLeast ==
  ASSUME NEW A \in SUBSET Nat, A # {}
  PROVE  Min(A) \in A /\ \A y \in A : Min(A) <= y
<1>1. \E x \in A : \A y \in A : x <= y
  BY LeastElement
<1>. QED  BY <1>1 DEF Min

\* A place where the string that begins at p may end.
Ends(p) == {q \in p .. total : q = total \/ buffer[q + 1] = NUL}

\* The string at the beginning is the buffer up to its first end.
LEMMA StringEnds ==
  ASSUME buffer \in Seq(Bytes)
  PROVE  /\ StringAt(0) \in Seq(Bytes)
         /\ Len(StringAt(0)) \in 0 .. total
         /\ Len(StringAt(0)) = Min(Ends(0))
         /\ StringAt(0) = SubSeq(buffer, 1, Len(StringAt(0)))
<1>1. total \in Nat
  BY LenProperties DEF total
<1>2. Ends(0) \in SUBSET Nat /\ total \in Ends(0)
  BY <1>1 DEF Ends
<1>3. Min(Ends(0)) \in 0 .. total
  <2>1. Min(Ends(0)) \in Ends(0)
    BY <1>2, MinIsLeast
  <2>. QED  BY <2>1 DEF Ends
<1>4. StringAt(0) = SubSeq(buffer, 1, Min(Ends(0)))
  BY DEF StringAt, Ends
<1>5. PICK e \in 0 .. total : e = Min(Ends(0))
  BY <1>3
<1>6. /\ SubSeq(buffer, 1, e) \in Seq(Bytes)
      /\ Len(SubSeq(buffer, 1, e)) = e
  <2>1. \A i \in 1 .. e : buffer[i] \in Bytes
    BY <1>1, ElementOfSeq DEF total
  <2>2. 1 \in Int /\ e \in Int /\ e - 1 + 1 = e /\ (1 <= e \/ e = 0)
    BY <1>1
  <2>. QED  BY <2>1, <2>2, SubSeqProperties
<1>. QED  BY <1>4, <1>5, <1>6

\* A string that begins inside the first one is the rest of that.
LEMMA StringAtLater ==
  ASSUME buffer \in Seq(Bytes), NEW s \in 0 .. Len(StringAt(0))
  PROVE  StringAt(s) = SubSeq(StringAt(0), s + 1, Len(StringAt(0)))
<1>1. PICK e : e = Len(StringAt(0))
  OBVIOUS
<1>2. /\ e \in 0 .. total /\ e = Min(Ends(0)) /\ StringAt(0) = SubSeq(buffer, 1, e)
      /\ total \in Nat /\ s \in 0 .. e /\ StringAt(0) \in Seq(Bytes)
  BY <1>1, StringEnds, LenProperties DEF total
<1>3. Min(Ends(s)) = e
  <2>1. Ends(0) \in SUBSET Nat /\ total \in Ends(0) /\ Ends(s) \in SUBSET Nat
    BY <1>2 DEF Ends
  <2>2. e \in Ends(0) /\ \A y \in Ends(0) : e <= y
    BY <1>2, <2>1, MinIsLeast
  <2>3. e \in Ends(s) /\ Ends(s) \subseteq Ends(0)
    BY <1>2, <2>2 DEF Ends
  <2>4. Min(Ends(s)) \in Ends(s) /\ Min(Ends(s)) <= e
    BY <2>1, <2>3, MinIsLeast
  <2>5. e <= Min(Ends(s)) /\ Min(Ends(s)) \in Nat
    BY <2>1, <2>2, <2>3, <2>4
  <2>. QED  BY <1>2, <2>4, <2>5
<1>4. StringAt(s) = SubSeq(buffer, s + 1, e)
  BY <1>3 DEF StringAt, Ends
<1>5. CASE s = e
  BY <1>1, <1>2, <1>4, <1>5, SubSeqEmpty
<1>6. CASE s # e
  <2>1. /\ 1 \in 1 .. Len(buffer) /\ e \in 1 .. Len(buffer) /\ s + 1 \in 1 .. e - 1 + 1
        /\ e \in 1 .. e - 1 + 1 /\ 1 + (s + 1) - 1 = s + 1 /\ 1 + e - 1 = e
    BY <1>2, <1>6 DEF total
  <2>2. SubSeq(SubSeq(buffer, 1, e), s + 1, e) = SubSeq(buffer, 1 + (s + 1) - 1, 1 + e - 1)
    <3>1. \A m, n \in 1 .. e - 1 + 1 :
            SubSeq(SubSeq(buffer, 1, e), m, n) = SubSeq(buffer, 1 + m - 1, 1 + n - 1)
      BY <2>1, SubSeqOfSubSeq
    <3>. QED  BY <2>1, <3>1
  <2>. QED  BY <1>1, <1>2, <1>4, <2>1, <2>2
<1>. QED  BY <1>5, <1>6

\* Where strstr looks for word in the string at s, seen in the whole text.
LEMMA PlacesAreOccurrences ==
  ASSUME buffer \in Seq(Bytes), NEW word \in Seq(Bytes), NEW s \in 0 .. Len(StringAt(0)),
         NEW q \in 0 .. Len(StringAt(s)) - Len(word)
  PROVE  SubSeq(StringAt(s), q + 1, q + Len(word)) = word <=> Occurs(StringAt(0), word, s + q + 1)
<1>1. PICK text \in Seq(Bytes) : text = StringAt(0)
  BY StringEnds
<1>2. StringAt(s) = SubSeq(text, s + 1, Len(text))
  BY <1>1, StringAtLater
<1>3. PICK L \in Nat : L = Len(text)
  BY LenProperties
<1>4. PICK k \in Nat : k = Len(word)
  BY LenProperties
<1>5. s \in 0 .. L
  BY <1>1, <1>3
<1>6. Len(StringAt(s)) = L - s
  <2>1. \A i \in s + 1 .. L : text[i] \in Bytes
    BY <1>3, <1>5, ElementOfSeq
  <2>2. s + 1 \in Int /\ L \in Int /\ L - (s + 1) + 1 = L - s /\ (s + 1 <= L \/ L - s = 0)
    BY <1>5
  <2>3. Len(SubSeq(text, s + 1, L)) = IF s + 1 <= L THEN L - (s + 1) + 1 ELSE 0
    BY <2>1, <2>2, SubSeqProperties
  <2>. QED  BY <1>2, <1>3, <2>2, <2>3
<1>7. q \in 0 .. L - s - k /\ (s + q + 1) + k - 1 <= L
  BY <1>4, <1>5, <1>6
<1>8. SubSeq(StringAt(s), q + 1, q + k) = SubSeq(text, s + q + 1, (s + q + 1) + k - 1)
  <2>1. CASE k = 0
    <3>1. SubSeq(StringAt(s), q + 1, q + k) = << >>
      BY <1>7, <2>1, SubSeqEmpty
    <3>2. SubSeq(text, s + q + 1, (s + q + 1) + k - 1) = << >>
      BY <1>5, <1>7, <2>1, SubSeqEmpty
    <3>. QED  BY <3>1, <3>2
  <2>2. CASE k # 0
    <3>1. /\ s + 1 \in 1 .. Len(text) /\ L \in 1 .. Len(text)
          /\ q + 1 \in 1 .. L - (s + 1) + 1 /\ q + k \in 1 .. L - (s + 1) + 1
          /\ (s + 1) + (q + 1) - 1 = s + q + 1
          /\ (s + 1) + (q + k) - 1 = (s + q + 1) + k - 1
      BY <1>3, <1>4, <1>5, <1>7, <2>2
    <3>2. \A m, n \in 1 .. L - (s + 1) + 1 :
            SubSeq(SubSeq(text, s + 1, L), m, n) = SubSeq(text, (s + 1) + m - 1, (s + 1) + n - 1)
      BY <3>1, SubSeqOfSubSeq
    <3>3. SubSeq(SubSeq(text, s + 1, L), q + 1, q + k)
            = SubSeq(text, (s + 1) + (q + 1) - 1, (s + 1) + (q + k) - 1)
      BY <3>1, <3>2
    <3>. QED  BY <1>2, <1>3, <3>1, <3>3
  <2>. QED  BY <2>1, <2>2
<1>. QED  BY <1>1, <1>3, <1>4, <1>7, <1>8 DEF Occurs

\* strstr finds the first occurrence from s on, or there is none.
LEMMA StrstrFinds ==
  ASSUME buffer \in Seq(Bytes), NEW word \in Seq(Bytes), NEW s \in 0 .. Len(StringAt(0)),
         NEW w, w = strstr(s, word)
  PROVE  \/ /\ w = NULL
            /\ Free(StringAt(0), word, s + 1, Len(StringAt(0)) + 2)
         \/ /\ w \in s .. Len(StringAt(0))
            /\ Occurs(StringAt(0), word, w + 1)
            /\ Free(StringAt(0), word, s + 1, w + 1)
<1>. DEFINE text == StringAt(0)
            str == StringAt(s)
            places == {q \in 0 .. Len(str) - Len(word) :
                         SubSeq(str, q + 1, q + Len(word)) = word}
<1>1. Len(text) \in Nat /\ Len(word) \in Nat /\ s \in 0 .. Len(text) /\ text \in Seq(Bytes)
  BY StringEnds, LenProperties
<1>2. Len(str) = Len(text) - s
  <2>1. str = SubSeq(text, s + 1, Len(text))
    BY StringAtLater
  <2>2. \A i \in s + 1 .. Len(text) : text[i] \in Bytes
    BY <1>1, ElementOfSeq
  <2>3. s + 1 \in Int /\ Len(text) \in Int
    BY <1>1
  <2>. HIDE DEF text, str
  <2>4. Len(str) = IF s + 1 <= Len(text) THEN Len(text) - (s + 1) + 1 ELSE 0
    BY <2>1, <2>2, <2>3, SubSeqProperties
  <2>. QED  BY <1>1, <2>4
<1>3. \A q \in 0 .. Len(str) - Len(word) : q \in places <=> Occurs(text, word, s + q + 1)
  BY PlacesAreOccurrences
<1>4. w = IF places = {} THEN NULL ELSE s + Min(places)
  BY DEF strstr
<1>5. places \in SUBSET (0 .. Len(str) - Len(word))
  OBVIOUS
<1>. HIDE DEF text, str, places
<1>6. \A x \in s + 1 .. Len(text) + 1 : Occurs(text, word, x)
        => x - s - 1 \in places
  <2>. SUFFICES ASSUME NEW x \in s + 1 .. Len(text) + 1, Occurs(text, word, x)
                PROVE  x - s - 1 \in places
    OBVIOUS
  <2>1. x + Len(word) - 1 <= Len(text)
    BY DEF Occurs
  <2>2. x - s - 1 \in 0 .. Len(str) - Len(word) /\ s + (x - s - 1) + 1 = x
    BY <1>1, <1>2, <2>1
  <2>. QED  BY <1>3, <2>2
<1>7. CASE places = {}
  BY <1>1, <1>4, <1>6, <1>7 DEF text, Free
<1>8. CASE places # {}
  <2>1. places \in SUBSET Nat
    BY <1>1, <1>2, <1>5
  <2>2. Min(places) \in places /\ \A y \in places : Min(places) <= y
    BY <1>8, <2>1, MinIsLeast
  <2>3. PICK m \in places : m = Min(places) /\ \A y \in places : m <= y
    BY <2>2
  <2>4. w = s + m /\ m \in 0 .. Len(str) - Len(word) /\ Occurs(text, word, s + m + 1)
    BY <1>3, <1>4, <1>5, <1>8, <2>3
  <2>5. w \in s .. Len(text) /\ w + 1 = s + m + 1
    BY <1>1, <1>2, <2>4
  <2>6. ASSUME NEW x \in s + 1 .. w, Occurs(text, word, x) PROVE FALSE
    <3>1. x \in s + 1 .. Len(text) + 1 /\ ~(m <= x - s - 1)
      BY <1>1, <2>4, <2>5
    <3>. QED  BY <1>6, <2>3, <2>6, <3>1
  <2>7. \A x \in s + 1 .. (w + 1) - 1 : ~Occurs(text, word, x)
    BY <1>1, <2>5, <2>6
  <2>. QED  BY <2>4, <2>5, <2>7 DEF text, Free
<1>. QED  BY <1>7, <1>8

\* The bytes of the first string are those of the buffer.
LEMMA BufferHoldsText ==
  ASSUME buffer \in Seq(Bytes), NEW s \in 0 .. Len(StringAt(0)), NEW w \in s .. Len(StringAt(0))
  PROVE  SubSeq(buffer, s + 1, w) = SubSeq(StringAt(0), s + 1, w)
<1>1. PICK e : e = Len(StringAt(0))
  OBVIOUS
<1>2. /\ e \in 0 .. total /\ StringAt(0) = SubSeq(buffer, 1, e) /\ total \in Nat
      /\ s \in 0 .. e /\ w \in s .. e
  BY <1>1, StringEnds, LenProperties DEF total
<1>3. CASE s = w
  BY <1>2, <1>3, SubSeqEmpty
<1>4. CASE s # w
  <2>1. /\ 1 \in 1 .. Len(buffer) /\ e \in 1 .. Len(buffer) /\ s + 1 \in 1 .. e - 1 + 1
        /\ w \in 1 .. e - 1 + 1 /\ 1 + (s + 1) - 1 = s + 1 /\ 1 + w - 1 = w
    BY <1>2, <1>4 DEF total
  <2>2. \A m, n \in 1 .. e - 1 + 1 :
          SubSeq(SubSeq(buffer, 1, e), m, n) = SubSeq(buffer, 1 + m - 1, 1 + n - 1)
    BY <2>1, SubSeqOfSubSeq
  <2>. QED  BY <1>2, <2>1, <2>2
<1>. QED  BY <1>3, <1>4

----------------------------------------------------------------------------
(***************************************************************************)
(* The loop: what has been printed, and what the reference gives for the   *)
(* rest, is what the reference gives for the whole.                        *)
(***************************************************************************)

Printed(o, text, f, r, p) == o \o Walk(text, f, r)[p] = Walk(text, f, r)[1]

\* One turn of the loop prints the text up to the next occurrence and the other word.
LEMMA PrintsOne ==
  ASSUME NEW S, NEW text \in Seq(S), NEW f \in Seq(S), f # << >>, NEW r \in Seq(S),
         NEW o \in Seq(S), NEW s \in 0 .. Len(text), NEW w \in s .. Len(text),
         Free(text, f, s + 1, w + 1), Occurs(text, f, w + 1), Printed(o, text, f, r, s + 1)
  PROVE  /\ w + Len(f) \in 0 .. Len(text)
         /\ o \o SubSeq(text, s + 1, w) \o r \in Seq(S)
         /\ Printed(o \o SubSeq(text, s + 1, w) \o r, text, f, r, w + Len(f) + 1)
<1>1. Len(text) \in Nat /\ Len(f) \in Nat /\ Len(f) > 0 /\ (w + 1) - 1 = w
  BY EmptySeq, LenProperties
<1>2. PICK p \in 1 .. Len(text) + 1 : p = s + 1
  BY <1>1
<1>3. PICK q \in p .. Len(text) + 1 : q = w + 1
  BY <1>1, <1>2
<1>4. Free(text, f, p, q) /\ Occurs(text, f, q) /\ q \in 1 .. Len(text) + 1
  BY <1>1, <1>2, <1>3
<1>5. Copies(text, f, r, p, q)
  BY <1>4, WalkSkips
<1>6. PICK k \in 1 .. Len(text) + 1 :
        k = q + Len(f) /\ Walk(text, f, r)[q] = r \o Walk(text, f, r)[k]
  <2>1. q + Len(f) \in 1 .. Len(text) + 1 /\ Jumps(text, f, r, q)
    BY <1>4, WalkReplaces
  <2>. QED  BY <2>1 DEF Jumps
<1>7. k = w + Len(f) + 1 /\ w + Len(f) \in 0 .. Len(text) /\ q-1 = w
  BY <1>1, <1>3, <1>6
<1>8. PICK tail \in Seq(S) : tail = Walk(text, f, r)[k]
  <2>1. k \in Places(text, f)
    BY <1>1 DEF Places
  <2>. QED  BY <2>1, WalkType
<1>9. PICK a \in Seq(S) : a = SubSeq(text, s + 1, w)
  <2>1. w \in p-1 .. Len(text)
    BY <1>1, <1>2
  <2>2. SubSeq(text, p, w) \in Seq(S)
    BY <2>1, PartOfSeq
  <2>. QED  BY <1>2, <2>2
<1>10. Walk(text, f, r)[1] = o \o (a \o (r \o tail))
  BY <1>2, <1>5, <1>6, <1>7, <1>8, <1>9 DEF Printed, Copies
<1>11. PICK rest \in Seq(S) : rest = r \o tail
  BY ConcatProperties
<1>12. PICK oa \in Seq(S) : oa = o \o a
  BY ConcatProperties
<1>13. Assoc(o, a, rest) /\ Assoc(oa, r, tail)
  BY Associates
<1>14. (oa \o r) \o tail = o \o (a \o (r \o tail))
  BY <1>11, <1>12, <1>13 DEF Assoc
<1>15. oa \o r \in Seq(S)
  BY ConcatProperties
<1>. QED  BY <1>7, <1>8, <1>9, <1>10, <1>12, <1>14, <1>15 DEF Printed

\* After the last turn the rest of the text is missing.
LEMMA PrintsAll ==
  ASSUME NEW S, NEW text \in Seq(S), NEW f \in Seq(S), f # << >>, NEW r \in Seq(S),
         NEW o, NEW s \in 0 .. Len(text),
         Free(text, f, s + 1, Len(text) + 2), Printed(o, text, f, r, s + 1)
  PROVE  o \o SubSeq(text, s + 1, Len(text)) = Walk(text, f, r)[1]
<1>1. Len(text) \in Nat
  BY LenProperties
<1>2. PICK p \in 1 .. Len(text) + 1 : p = s + 1
  BY <1>1
<1>3. Free(text, f, p, Len(text) + 1)
  BY <1>1, <1>2 DEF Free
<1>4. Walk(text, f, r)[p] = SubSeq(text, p, Len(text))
  BY <1>3, WalkRest
<1>. QED  BY <1>2, <1>4 DEF Printed

----------------------------------------------------------------------------
(***************************************************************************)
(* The inductive invariant.                                                *)
(***************************************************************************)

Text == StringAt(0)
All  == Walk(Text, find, replace)[1]

ReplaceTypeOK ==
  /\ file \in Seq(Bytes) /\ buffer \in Seq(Bytes)
  /\ find \in Seq(Bytes) /\ replace \in Seq(Bytes)
  /\ st_size \in Nat
  /\ replacePc \in {"read", "replace", "main", "done"}

\* The file only becomes shorter, so what has been read fits.
ReadInv == replacePc = "read" =>
  /\ Len(file) <= st_size /\ total <= st_size
  /\ start = 0 /\ out = << >> /\ ret = 0

\* Everything before start has been printed as the reference has it, and nextWord is
\* the first occurrence that is not.
LoopInv == replacePc = "replace" =>
  /\ total = st_size /\ ret = 0 /\ out \in Seq(Bytes)
  /\ start \in 0 .. Len(Text) /\ nextWord = strstr(start, find)
  /\ find # << >> => Printed(out, Text, find, replace, start + 1)

ReturnInv == replacePc = "main" =>
  IF ret = 0
  THEN /\ total = st_size /\ find # << >>
       /\ out = All \o SubSeq(buffer, Len(Text) + 1, total)
  ELSE out \in {<< >>, <<Message>>}

IInv == ReplaceTypeOK /\ ReadInv /\ LoopInv /\ ReturnInv /\ PrintsReplaced

\* The texts keep their meaning as long as the buffer and the words do.
LEMMA SameTexts ==
  ASSUME buffer' = buffer, find' = find, replace' = replace
  PROVE  /\ total' = total /\ Text' = Text /\ All' = All
         /\ \A p, word : strstr(p, word)' = strstr(p, word)
<1>1. \A p : StringAt(p)' = StringAt(p)
  BY DEF StringAt, total
<1>2. Text' = Text
  BY <1>1 DEF Text
<1>. QED  BY <1>1, <1>2 DEF All, strstr, total

\* The first search: nothing is printed, and all is still to come.
LEMMA FirstWordInv ==
  ASSUME IInv, FirstWord
  PROVE  IInv'
<1>. USE DEF FirstWord, inputVars
<1>1. buffer' = buffer /\ find' = find /\ replace' = replace /\ start' = start /\ out' = out
  OBVIOUS
<1>2. /\ total' = total /\ Text' = Text
      /\ \A p, word : strstr(p, word)' = strstr(p, word)
  BY <1>1, SameTexts
<1>3. buffer \in Seq(Bytes) /\ start = 0 /\ out = << >> /\ ret = 0
  BY DEF IInv, ReplaceTypeOK, ReadInv
<1>4. Text \in Seq(Bytes) /\ Len(Text) \in Nat
  BY <1>3, StringEnds, LenProperties DEF Text
<1>5. find # << >> => Printed(out, Text, find, replace, start + 1)
  <2>. SUFFICES ASSUME find # << >> PROVE Printed(out, Text, find, replace, start + 1)
    OBVIOUS
  <2>1. find \in Seq(Bytes) /\ replace \in Seq(Bytes)
    BY DEF IInv, ReplaceTypeOK
  <2>2. 1 \in Places(Text, find)
    BY <1>4, <2>1, LenProperties DEF Places
  <2>3. Walk(Text, find, replace)[1] \in Seq(Bytes)
    BY <1>4, <2>1, <2>2, WalkType
  <2>. QED  BY <1>3, <2>3, ConcatEmptySeq DEF Printed
<1>6. start' \in 0 .. Len(Text) /\ nextWord' = strstr(start', find')
  BY <1>1, <1>3, <1>4
<1>7. out' \in Seq(Bytes)
  BY <1>1, <1>3, EmptySeq
<1>8. LoopInv'
  BY <1>1, <1>2, <1>3, <1>5, <1>6, <1>7 DEF LoopInv
<1>. QED  BY <1>1, <1>8 DEF IInv, ReplaceTypeOK, ReadInv, ReturnInv, PrintsReplaced

\* What strstr has found.
LEMMA NextWord ==
  ASSUME IInv, replacePc = "replace"
  PROVE  \/ /\ nextWord = NULL /\ find # << >>
            /\ Free(Text, find, start + 1, Len(Text) + 2)
         \/ /\ nextWord \in start .. Len(Text) /\ nextWord # NULL
            /\ Occurs(Text, find, nextWord + 1)
            /\ Free(Text, find, start + 1, nextWord + 1)
<1>1. /\ buffer \in Seq(Bytes) /\ find \in Seq(Bytes)
      /\ start \in 0 .. Len(Text) /\ nextWord = strstr(start, find)
  BY DEF IInv, ReplaceTypeOK, LoopInv
<1>2. Text \in Seq(Bytes) /\ Len(Text) \in Nat
  BY <1>1, StringEnds, LenProperties DEF Text
<1>3. \/ nextWord = NULL /\ Free(Text, find, start + 1, Len(Text) + 2)
      \/ /\ nextWord \in start .. Len(Text)
         /\ Occurs(Text, find, nextWord + 1)
         /\ Free(Text, find, start + 1, nextWord + 1)
  BY <1>1, StrstrFinds DEF Text
<1>4. CASE nextWord = NULL /\ Free(Text, find, start + 1, Len(Text) + 2)
  <2>1. ASSUME find = << >> PROVE FALSE
    <3>1. start + 1 \in start + 1 .. (Len(Text) + 2) - 1 /\ start \in Nat
      BY <1>1, <1>2
    <3>2. Len(find) = 0
      BY <2>1
    <3>3. SubSeq(Text, start + 1, start + 1 + Len(find) - 1) = << >>
      BY <3>1, <3>2, SubSeqEmpty
    <3>4. Occurs(Text, find, start + 1)
      BY <1>1, <1>2, <2>1, <3>1, <3>2, <3>3 DEF Occurs
    <3>. QED  BY <1>4, <3>1, <3>4 DEF Free
  <2>. QED  BY <1>4, <2>1
<1>5. CASE nextWord \in start .. Len(Text)
  BY <1>1, <1>2, <1>3, <1>5 DEF NULL
<1>. QED  BY <1>3, <1>4, <1>5

\* One word: what is in front of it and the other word are printed.
LEMMA ReplaceWordInv ==
  ASSUME IInv, ReplaceWord
  PROVE  IInv'
<1>1. /\ replacePc = "replace" /\ nextWord # NULL /\ replacePc' = replacePc
      /\ buffer' = buffer /\ find' = find /\ replace' = replace /\ file' = file
      /\ st_size' = st_size /\ ret' = ret
      /\ out' = out \o SubSeq(buffer, start + 1, nextWord) \o replace
      /\ start' = nextWord + Len(find)
      /\ nextWord' = strstr(nextWord + Len(find), find)
  BY DEF ReplaceWord, inputVars, Advance
<1>2. /\ total' = total /\ Text' = Text
      /\ \A p, word : strstr(p, word)' = strstr(p, word)
  BY <1>1, SameTexts
<1>3. /\ buffer \in Seq(Bytes) /\ find \in Seq(Bytes) /\ replace \in Seq(Bytes)
      /\ out \in Seq(Bytes) /\ start \in 0 .. Len(Text)
      /\ find # << >> => Printed(out, Text, find, replace, start + 1)
  BY <1>1 DEF IInv, ReplaceTypeOK, LoopInv
<1>4. Text \in Seq(Bytes) /\ Len(Text) \in Nat
  BY <1>3, StringEnds, LenProperties DEF Text
<1>5. /\ nextWord \in start .. Len(Text)
      /\ Occurs(Text, find, nextWord + 1) /\ Free(Text, find, start + 1, nextWord + 1)
  BY <1>1, NextWord
<1>6. SubSeq(buffer, start + 1, nextWord) = SubSeq(Text, start + 1, nextWord)
  BY <1>3, <1>5, BufferHoldsText DEF Text
<1>7. /\ start' \in 0 .. Len(Text) /\ out' \in Seq(Bytes)
      /\ find # << >> => Printed(out', Text, find, replace, start' + 1)
  <2>1. CASE find = << >>
    <3>1. start' = nextWord
      <4>1. Len(find) = 0 /\ nextWord \in Int
        BY <1>3, <1>4, <1>5, <2>1
      <4>. QED  BY <1>1, <4>1
    <3>2. SubSeq(Text, start + 1, nextWord) \in Seq(Bytes)
      <4>1. start + 1 \in 1 .. Len(Text) + 1 /\ nextWord \in (start + 1) - 1 .. Len(Text)
        BY <1>3, <1>4, <1>5
      <4>. QED  BY <1>4, <4>1, PartOfSeq
    <3>3. out \o SubSeq(Text, start + 1, nextWord) \o replace \in Seq(Bytes)
      BY <1>3, <3>2, ConcatProperties
    <3>. QED  BY <1>1, <1>3, <1>4, <1>5, <1>6, <2>1, <3>1, <3>3
  <2>2. CASE find # << >>
    <3>1. /\ nextWord + Len(find) \in 0 .. Len(Text)
          /\ out \o SubSeq(Text, start + 1, nextWord) \o replace \in Seq(Bytes)
          /\ Printed(out \o SubSeq(Text, start + 1, nextWord) \o replace,
                     Text, find, replace, nextWord + Len(find) + 1)
      BY <1>3, <1>4, <1>5, <2>2, PrintsOne
    <3>. QED  BY <1>1, <1>6, <3>1
  <2>. QED  BY <2>1, <2>2
<1>8. LoopInv'
  BY <1>1, <1>2, <1>7 DEF LoopInv, IInv
<1>. QED  BY <1>1, <1>8 DEF IInv, ReplaceTypeOK, ReadInv, ReturnInv, PrintsReplaced

\* The rest of the text, and what is behind its end.
LEMMA PrintRestInv ==
  ASSUME IInv, PrintRest
  PROVE  IInv'
<1>1. /\ replacePc = "replace" /\ nextWord = NULL /\ replacePc' = "main"
      /\ buffer' = buffer /\ find' = find /\ replace' = replace /\ file' = file
      /\ st_size' = st_size /\ ret' = 0
      /\ out' = out \o SubSeq(buffer, start + 1, st_size)
  BY DEF PrintRest, Returns, inputVars
<1>2. total' = total /\ Text' = Text /\ All' = All
  BY <1>1, SameTexts
<1>3. /\ buffer \in Seq(Bytes) /\ find \in Seq(Bytes) /\ replace \in Seq(Bytes)
      /\ out \in Seq(Bytes) /\ start \in 0 .. Len(Text) /\ total = st_size
      /\ find # << >> => Printed(out, Text, find, replace, start + 1)
  BY <1>1 DEF IInv, ReplaceTypeOK, LoopInv
<1>4. Text \in Seq(Bytes) /\ Len(Text) \in 0 .. total /\ total \in Nat
  BY <1>3, StringEnds, LenProperties DEF Text, total
<1>5. find # << >> /\ Free(Text, find, start + 1, Len(Text) + 2)
  BY <1>1, <1>4, NextWord DEF NULL
<1>6. out \o SubSeq(Text, start + 1, Len(Text)) = All
  BY <1>3, <1>4, <1>5, PrintsAll DEF All
<1>7. SubSeq(buffer, start + 1, Len(Text)) = SubSeq(Text, start + 1, Len(Text))
  BY <1>3, <1>4, BufferHoldsText DEF Text
<1>8. PICK a \in Seq(Bytes) : a = SubSeq(buffer, start + 1, Len(Text))
  <2>1. start + 1 \in 1 .. Len(buffer) + 1 /\ Len(Text) \in (start + 1) - 1 .. Len(buffer)
    BY <1>3, <1>4 DEF total
  <2>2. SubSeq(buffer, start + 1, Len(Text)) \in Seq(Bytes)
    BY <1>3, <2>1, PartOfSeq
  <2>. QED  BY <2>2
<1>9. PICK b \in Seq(Bytes) : b = SubSeq(buffer, Len(Text) + 1, total)
  <2>1. Len(Text) + 1 \in 1 .. Len(buffer) + 1 /\ total \in (Len(Text) + 1) - 1 .. Len(buffer)
    BY <1>4 DEF total
  <2>2. SubSeq(buffer, Len(Text) + 1, total) \in Seq(Bytes)
    BY <1>3, <2>1, PartOfSeq
  <2>. QED  BY <2>2
<1>10. a \o b = SubSeq(buffer, start + 1, total)
  <2>1. /\ start + 1 \in 1 .. Len(buffer) + 1 /\ Len(Text) \in (start + 1) - 1 .. Len(buffer)
        /\ total \in Len(Text) .. Len(buffer)
    BY <1>3, <1>4 DEF total
  <2>. QED  BY <1>3, <1>8, <1>9, <2>1, ConcatAdjacentSubSeq
<1>11. Assoc(out, a, b)
  BY <1>3, Associates
<1>12. out' = All \o SubSeq(buffer, Len(Text) + 1, total)
  BY <1>1, <1>3, <1>6, <1>7, <1>8, <1>9, <1>10, <1>11 DEF Assoc
<1>13. ReturnInv'
  BY <1>1, <1>2, <1>3, <1>5, <1>12 DEF ReturnInv
<1>. QED  BY <1>1, <1>13 DEF IInv, ReplaceTypeOK, ReadInv, LoopInv, PrintsReplaced

\* The message at the end.
LEMMA MainReturnsInv ==
  ASSUME IInv, MainReturns
  PROVE  IInv'
<1>1. /\ replacePc = "main" /\ replacePc' = "done"
      /\ buffer' = buffer /\ find' = find /\ replace' = replace /\ file' = file
      /\ st_size' = st_size /\ ret' = ret
      /\ out' = IF ret = 0 THEN Append(out, Message) ELSE out
  BY DEF MainReturns, inputVars
<1>2. total' = total /\ Text' = Text
  BY <1>1, SameTexts
<1>3. CASE ret = 0
  <2>1. /\ buffer \in Seq(Bytes) /\ find \in Seq(Bytes) /\ replace \in Seq(Bytes)
        /\ total = st_size /\ find # << >>
        /\ out = All \o SubSeq(buffer, Len(Text) + 1, total)
    BY <1>1, <1>3 DEF IInv, ReplaceTypeOK, ReturnInv
  <2>2. out \in Seq(Bytes)
    <3>1. Text \in Seq(Bytes) /\ Len(Text) \in 0 .. total /\ total \in Nat
      BY <2>1, StringEnds, LenProperties DEF Text, total
    <3>2. 1 \in Places(Text, find)
      BY <2>1, <3>1, LenProperties DEF Places
    <3>3. All \in Seq(Bytes)
      BY <2>1, <3>1, <3>2, WalkType DEF All
    <3>4. Len(Text) + 1 \in 1 .. Len(buffer) + 1 /\ total \in (Len(Text) + 1) - 1 .. Len(buffer)
      BY <3>1 DEF total
    <3>5. SubSeq(buffer, Len(Text) + 1, total) \in Seq(Bytes)
      BY <2>1, <3>4, PartOfSeq
    <3>. QED  BY <2>1, <3>3, <3>5, ConcatProperties
  <2>3. out' = out \o <<Message>>
    BY <1>1, <1>3, <2>2
  <2>4. All = ReplacedFrom(Text, find, replace)
    BY ReplacedFromIsWalk DEF All
  <2>5. PrintsReplaced'
    BY <1>1, <1>2, <1>3, <2>1, <2>3, <2>4 DEF PrintsReplaced, Text
  <2>. QED  BY <1>1, <2>5 DEF IInv, ReplaceTypeOK, ReadInv, LoopInv, ReturnInv
<1>4. CASE ret # 0
  BY <1>1, <1>4 DEF IInv, ReplaceTypeOK, ReadInv, LoopInv, ReturnInv, PrintsReplaced
<1>. QED  BY <1>3, <1>4

\* Reading, with a file that can become shorter and reads that can fail.
LEMMA ReadingInv ==
  ASSUME IInv, ReadSome \/ ReadsShort \/ ReadFails \/ Shrink
  PROVE  IInv'
<1>1. /\ replacePc = "read" /\ file \in Seq(Bytes) /\ buffer \in Seq(Bytes)
      /\ find \in Seq(Bytes) /\ replace \in Seq(Bytes) /\ st_size \in Nat
      /\ Len(file) <= st_size /\ total <= st_size
      /\ start = 0 /\ out = << >> /\ ret = 0
  BY DEF IInv, ReplaceTypeOK, ReadInv, ReadSome, ReadsShort, ReadFails, Shrink
<1>2. Len(file) \in Nat /\ total \in Nat
  BY <1>1, LenProperties DEF total
<1>3. CASE ReadSome
  <2>1. PICK n \in total + 1 .. Len(file) : buffer' = buffer \o SubSeq(file, total + 1, n)
    BY <1>3 DEF ReadSome
  <2>2. PICK part \in Seq(Bytes) : part = SubSeq(file, total + 1, n) /\ Len(part) = n - total
    <3>1. PICK m \in 1 .. Len(file) + 1 : m = total + 1
      BY <1>2, <2>1
    <3>2. n \in m-1 .. Len(file) /\ n - m + 1 = n - total
      BY <1>2, <2>1, <3>1
    <3>3. SubSeq(file, m, n) \in Seq(Bytes) /\ Len(SubSeq(file, m, n)) = n - m + 1
      BY <1>1, <3>2, PartOfSeq
    <3>. QED  BY <3>1, <3>2, <3>3
  <2>3. buffer' \in Seq(Bytes) /\ Len(buffer') = total + (n - total)
    BY <1>1, <2>1, <2>2, ConcatProperties DEF total
  <2>4. total' <= st_size
    BY <1>1, <1>2, <2>1, <2>3 DEF total
  <2>. QED  BY <1>1, <1>3, <2>3, <2>4
            DEF ReadSome, inputVars, IInv, ReplaceTypeOK, ReadInv, LoopInv, ReturnInv, PrintsReplaced
<1>4. CASE ReadsShort
  <2>1. Append(out, Message) = <<Message>>
    BY <1>1
  <2>. QED  BY <1>1, <1>4, <2>1
            DEF ReadsShort, Returns, inputVars, IInv, ReplaceTypeOK, ReadInv, LoopInv, ReturnInv,
                PrintsReplaced
<1>5. CASE ReadFails
  BY <1>1, <1>5 DEF ReadFails, Returns, inputVars, IInv, ReplaceTypeOK, ReadInv, LoopInv,
                    ReturnInv, PrintsReplaced
<1>6. CASE Shrink
  <2>1. PICK n \in 0 .. Len(file) - 1 : file' = SubSeq(file, 1, n)
    BY <1>6 DEF Shrink
  <2>2. file' \in Seq(Bytes) /\ Len(file') = n
    <3>1. 1 \in 1 .. Len(file) + 1 /\ n \in 1 - 1 .. Len(file) /\ n - 1 + 1 = n
      BY <1>2, <2>1
    <3>. QED  BY <1>1, <2>1, <3>1, PartOfSeq
  <2>3. Len(file') <= st_size
    BY <1>1, <1>2, <2>1, <2>2
  <2>4. total' = total
    BY <1>6 DEF Shrink, total
  <2>. QED  BY <1>1, <1>6, <2>2, <2>3, <2>4
            DEF Shrink, inputVars, IInv, ReplaceTypeOK, ReadInv, LoopInv, ReturnInv, PrintsReplaced
<1>. QED  BY <1>3, <1>4, <1>5, <1>6

----------------------------------------------------------------------------
(***************************************************************************)
(* The theorems.                                                           *)
(***************************************************************************)

\* Every step keeps the inductive invariant, and so every reachable state has it.
THEOREM ReplaceInvariance == ReplaceSpec => []IInv
<1>1. ReplaceInit => IInv
  <2>. SUFFICES ASSUME ReplaceInit PROVE IInv
    OBVIOUS
  <2>1. PICK contents \in Seq(Bytes), f \in Seq(Bytes \ {NUL}), r \in Seq(Bytes \ {NUL}) :
          ReplaceStarts(contents, f, r)
    BY DEF ReplaceInit
  <2>2. \A s \in Seq(Bytes \ {NUL}) : s \in Seq(Bytes)
    OBVIOUS
  <2>3. << >> \in Seq(Bytes) /\ Len(contents) \in Nat /\ total = 0
    BY <2>1, LenProperties DEF ReplaceStarts, total
  <2>. QED  BY <2>1, <2>2, <2>3
            DEF ReplaceStarts, IInv, ReplaceTypeOK, ReadInv, LoopInv, ReturnInv, PrintsReplaced
<1>2. IInv /\ [ReplaceNext]_replaceVars => IInv'
  <2>. SUFFICES ASSUME IInv, [ReplaceNext]_replaceVars PROVE IInv'
    OBVIOUS
  <2>1. CASE ReadSome \/ ReadsShort \/ ReadFails \/ Shrink
    BY <2>1, ReadingInv
  <2>2. CASE FirstWord
    BY <2>2, FirstWordInv
  <2>3. CASE ReplaceWord
    BY <2>3, ReplaceWordInv
  <2>4. CASE PrintRest
    BY <2>4, PrintRestInv
  <2>5. CASE MainReturns
    BY <2>5, MainReturnsInv
  <2>6. CASE UNCHANGED replaceVars
    <3>1. /\ file' = file /\ buffer' = buffer /\ find' = find /\ replace' = replace
          /\ st_size' = st_size /\ start' = start /\ nextWord' = nextWord /\ out' = out
          /\ replacePc' = replacePc /\ ret' = ret
      BY <2>6 DEF replaceVars, inputVars
    <3>2. /\ total' = total /\ Text' = Text /\ All' = All
          /\ \A p, word : strstr(p, word)' = strstr(p, word)
      BY <3>1, SameTexts
    <3>3. LoopInv'
      BY <3>1, <3>2 DEF IInv, LoopInv
    <3>4. ReturnInv' /\ PrintsReplaced'
      BY <3>1, <3>2 DEF IInv, ReturnInv, PrintsReplaced, Text
    <3>. QED  BY <3>1, <3>2, <3>3, <3>4 DEF IInv, ReplaceTypeOK, ReadInv
  <2>. QED  BY <2>1, <2>2, <2>3, <2>4, <2>5, <2>6 DEF ReplaceNext, ReplaceStep
<1>. QED  BY <1>1, <1>2, PTL DEF ReplaceSpec

\* Whatever is printed by a run that succeeds is the file with every occurrence of the
\* word replaced, as main and replaceWords2 are meant to do.
THEOREM ReplaceCorrect == ReplaceSpec => []PrintsReplaced
<1>1. IInv => PrintsReplaced
  BY DEF IInv
<1>. QED  BY <1>1, ReplaceInvariance, PTL
=============================================================================
