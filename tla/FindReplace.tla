----------------------------- MODULE FindReplace -----------------------------
(***************************************************************************)
(* hw1_subs: hw1_subs.c reads a file into memory and prints it with every  *)
(* occurrence of one word replaced by another.  A read may be short, and   *)
(* the file may become shorter while it is read.  A file that grows is     *)
(* left out: the loop would then write behind its buffer.                  *)
(*                                                                         *)
(* Positions count from 0 as in the code, so buffer[k] is buffer[k + 1]    *)
(* here.  NUL is the byte that ends a C string.                            *)
(***************************************************************************)
EXTENDS Integers, Sequences, FiniteSets, FiniteSetsExt

CONSTANTS
  Bytes,          \* what files and words are made of
  NUL, Message,   \* the zero byte; a text of strerror or of printf
  MaxOutput       \* bound on what is printed: an empty word is found for ever

VARIABLES
  file,            \* what is in the file now
  find, replace,   \* the two words
  st_size, buffer, start, nextWord,
  out,             \* what has been printed
  replacePc,
  ret              \* what replaceWords2 returns

inputVars   == <<find, replace>>
replaceVars == <<file, inputVars, st_size, buffer, start, nextWord, out, replacePc, ret>>

ASSUME MaxOutputAssumption == MaxOutput \in Nat
ASSUME ByteAssumption == NUL \in Bytes

NULL == -1
total == Len(buffer)

ReplaceStarts(contents, f, r) ==
  /\ file = contents /\ find = f /\ replace = r
  /\ st_size = Len(contents)
  /\ buffer = << >> /\ start = 0 /\ nextWord = NULL /\ out = << >>
  /\ replacePc = "read" /\ ret = 0

\* Any file; the words come from the command line, as C strings.
ReplaceInit ==
  \E contents \in Seq(Bytes), f, r \in Seq(Bytes \ {NUL}) : ReplaceStarts(contents, f, r)

----------------------------------------------------------------------------

\* The C string that begins at position p of the buffer: up to the first NUL, the
\* one behind the file's last byte if there is no other.
StringAt(p) ==
  LET ends == {q \in p .. total : q = total \/ buffer[q + 1] = NUL}
  IN SubSeq(buffer, p + 1, Min(ends))

\* The first place of word in the string at p, as a position of the buffer.
strstr(p, word) ==
  LET s == StringAt(p)
      places == {q \in 0 .. Len(s) - Len(word) : SubSeq(s, q + 1, q + Len(word)) = word}
  IN IF places = {} THEN NULL ELSE p + Min(places)

Returns(r) ==
  /\ ret' = r /\ replacePc' = "main"
  /\ UNCHANGED <<file, inputVars, st_size, buffer, start, nextWord>>

\* Another program cuts the file.
Shrink ==
  /\ replacePc = "read"
  /\ \E n \in 0 .. Len(file) - 1 : file' = SubSeq(file, 1, n)
  /\ UNCHANGED <<inputVars, st_size, buffer, start, nextWord, out, replacePc, ret>>

ReadSome ==
  /\ replacePc = "read" /\ total < st_size
  /\ \E n \in total + 1 .. Len(file) : buffer' = buffer \o SubSeq(file, total + 1, n)
  /\ UNCHANGED <<file, inputVars, st_size, start, nextWord, out, replacePc, ret>>

\* fstat(), calloc() or read() fails.
ReadFails ==
  /\ replacePc = "read" /\ (total = 0 \/ total < st_size)
  /\ UNCHANGED out
  /\ Returns(1)

ReadsAgain ==
  /\ replacePc = "read" /\ total < st_size
  /\ Len(file) <= total
  /\ UNCHANGED replaceVars

\* read() returns 0: the file is shorter than fstat() said.
ReadsShort ==
  /\ replacePc = "read" /\ total < st_size
  /\ Len(file) <= total
  /\ out' = Append(out, Message)
  /\ Returns(1)

FirstWord ==
  /\ replacePc = "read" /\ total = st_size
  /\ nextWord' = strstr(0, find)
  /\ replacePc' = "replace"
  /\ UNCHANGED <<file, inputVars, st_size, buffer, start, out, ret>>

\* Behind the word just replaced.
Advance(at) == at + Len(find)

ReplaceWord ==
  /\ replacePc = "replace" /\ nextWord # NULL
  /\ Len(out) < MaxOutput
  /\ out' = out \o SubSeq(buffer, start + 1, nextWord) \o replace
  /\ start' = Advance(nextWord)
  /\ nextWord' = strstr(Advance(nextWord), find)
  /\ UNCHANGED <<file, inputVars, st_size, buffer, replacePc, ret>>

PrintRestAsString ==
  /\ replacePc = "replace" /\ nextWord = NULL
  /\ out' = out \o StringAt(start)
  /\ Returns(0)

PrintRest ==
  /\ replacePc = "replace" /\ nextWord = NULL
  /\ out' = out \o SubSeq(buffer, start + 1, st_size)
  /\ Returns(0)

\* main reports errno when all went well, and returns.
MainReturns ==
  /\ replacePc = "main"
  /\ out' = IF ret = 0 THEN Append(out, Message) ELSE out
  /\ replacePc' = "done"
  /\ UNCHANGED <<file, inputVars, st_size, buffer, start, nextWord, ret>>

ReplaceStep == ReadSome \/ ReadsShort \/ FirstWord \/ ReplaceWord \/ PrintRest \/ MainReturns
ReplaceNext == ReplaceStep \/ ReadFails \/ Shrink

\* The program runs; nothing obliges read() to fail or the file to change.
ReplaceFairness == WF_replaceVars(ReplaceStep)

ReplaceSpec == ReplaceInit /\ [][ReplaceNext]_replaceVars /\ ReplaceFairness

----------------------------------------------------------------------------
(***************************************************************************)
(* Properties.                                                             *)
(***************************************************************************)

\* The text from position p on with each occurrence of find replaced, found by
\* walking through it one byte after the other.
ReplacedFrom(text, f, r) ==
  LET walk[p \in 1 .. Len(text) + Len(f) + 1] ==
        IF p > Len(text) THEN << >>
        ELSE IF p + Len(f) - 1 <= Len(text) /\ SubSeq(text, p, p + Len(f) - 1) = f
             THEN r \o walk[p + Len(f)] ELSE <<text[p]>> \o walk[p + 1]
  IN walk[1]

\* What a successful run prints is the file with every occurrence, from the left
\* and without overlaps, replaced up to the first zero byte, and unchanged from
\* there on, and then a message; a file that was cut meanwhile is not printed at all,
\* and an empty word never gets to the end.
PrintsReplaced ==
  replacePc = "done" =>
    IF ret = 0
    THEN /\ total = st_size /\ find # << >>
         /\ LET text == StringAt(0)
            IN out = ReplacedFrom(text, find, replace)
                       \o SubSeq(buffer, Len(text) + 1, total) \o <<Message>>
    ELSE out \in {<< >>, <<Message>>}

\* The program ends, unless the word it looks for is empty.
ReplaceEnds == find # << >> ~> replacePc = "done"
=============================================================================
