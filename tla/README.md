# Verification of the OShw programs

The repository holds the homework programs of an operating-systems course.
Each is small, and each is built on one thing that is hard to test: a barrier
made by hand between threads, a signal handler that runs a shutdown, a kernel
module without locks, a shell that collects its children, or an algorithm with
awkward boundaries.  This directory models them in TLA+, checks the models
with TLC and proves the most important properties with TLAPS.

`PROJECT.json` is the index: components, runs, the source lines each definition
stands for, mutants that show each property can fail, the hazards, the
disagreements with the code's comments that were found, and the theorems.

## 1. Inventory

### Parallel xor: `hw4/hw4.c`

* State: `numThreads`, `workersDone`, `lengthToWrite`, `level`, `total_size`,
  `outputBuffer` (shared, under `bufferLock`), the condition `levelDone`, the
  output file; per thread its buffer, `readBytes`, `current_level`, offset.
* Operations: `main` creates a thread per input file, joins them and prints the
  size.  A thread reads a block, waits until its level is the global one, xors
  the block into `outputBuffer`, counts itself; the last one of a level writes
  the buffer, clears it, raises `level` and broadcasts.  At the end of its file
  a thread waits for its level, lowers `numThreads` and, if the others had all
  contributed, closes their level for them.
* Hard: who is last is decided by two counters which both change while threads
  contribute and leave; `if` instead of `while` around `pthread_cond_wait`;
  short reads and writes; `exit(2)` from any thread; the creation loop is
  bounded by the very counter that the threads lower.
* Correct means: the file is a prefix of the xor of the inputs at all times and
  the whole of it at the end; the counters count what they stand for; no wakeup
  is lost; the program ends.

`hw4/main.c` is an earlier version of the same program, not modelled: hw4.c has
replaced it.  It joins threads in a loop bounded by the live `numThreads`, writes
a level with one `write()` and reports no size.

### Printable-characters server and client: `ex5/pcc_server.c`, `ex5/pcc_client.c`

* State: `counters`, `active_threads` with `activeThreadsLock` and
  `allDoneCond`, the listening socket, `sigint_happend`; a socket per thread.
* Operations: `main` accepts, counts the connection in and starts a thread; the
  thread reads N and N bytes, answers with the number of printable characters,
  adds its counters to the global ones and counts itself out.  SIGINT runs
  `cleanup()` inside the handler: it waits for `active_threads` to become 0,
  prints, destroys the locks and closes the socket.
* Hard: the handler interrupts any thread at any point, the one that holds the
  lock included; a second SIGINT; counters added after the answer; shutdown
  racing a connection that was accepted and not yet counted; the byte protocol
  (short reads, end of file inside a number, N = 0, an `unsigned` passed as an
  `int`); SIGPIPE and `exit(-1)`, by which one connection ends every other.
* Correct means: what is printed counts exactly the clients that were answered;
  nothing is destroyed while a thread still uses it; SIGINT ends the server; an
  answer is the count of all that was sent; a dead client does not keep its thread.

### Message slot device: `hw3/message_slot.c`, `hw3/message_{reader,writer,sender}.c`

* State: the list `minors`; per minor a list `channels` and the current channel
  `curr`, shared by every process; per channel an id, a message and its length.
* Operations: open (finds or makes the minor's node), ioctl (finds or makes the
  channel), write, read, release, unloading.  The three programs open, choose a
  channel (`message_sender` does not: the call is commented out) and do one
  write or read.
* Hard: no locks, and calls that sleep between a check and its use (`kmalloc`,
  and the copy of each byte); the channel belongs to the minor, not to the open
  file; an `int` compared with an `unsigned long`; failing allocations.
* Correct means: a process uses the channel it chose, messages are whole, minors
  do not mix, searches end, and what was opened or created is found again.

### Shell: `hw2/myshell.c` (main loop `myshell_main.c`, tester `tzur_tester_hw2.sh`)

* State: the processes, the dispositions of SIGINT and SIGCHLD, the pipe's
  descriptors, standard input and its offset, which children share.
* Operations: `process_arglist` runs a command, in the background with `&`, or
  two commands with `|`.
* Hard: SIGCHLD is ignored so `waitpid` may find no child; `&&` between the two
  waits; `|` together with `&`; SIGINT between `fork` and the child's
  `sigaction`; a failed `fork`; the reader of a pipe ends only when every copy
  of the write end is closed; a child that fails calls `exit()`, which flushes
  its copy of stdin.
* Correct means: the prompt returns when the foreground command has ended, and
  not before; SIGINT ends what is in the foreground and spares the rest; a
  pipe's reader ends; the lines are run in order.

### Algorithms: `hw1_subs/hw1_subs.c`, `hw1_subs/intervals.py`

Find-and-replace in a file, and the dynamic programme that picks the k
intervals with the least error.  Sequential.  Hard: an empty search string, a
file that changes between `stat` and `read`, zero bytes, ties and boundaries of
intervals.

### Not to be modelled

`hw1_subs/hw1.py` (random experiments, floating point, plots), build files,
`message_slot.mod.c` (generated), the shell's tester (read for what it expects).

### How they interact

The programs are independent of each other.  Inside each, the interaction is
shared memory under one mutex and one condition variable (xor, server), signals
(server, shell), system calls into a shared device (message slot), processes
and pipes (shell), and a byte protocol (server and client).

## 2. Modules

| module | models | state and actions |
| --- | --- | --- |
| `XorOutput` | what hw4 promises: the file grows as a prefix of the xor | `out`, `proc`; Extend, Deliver, Abort |
| `XorWorkers` | `hw4/hw4.c` | the shared variables under their C names, each thread's program counter and locals; one action per critical section, `read()`, `write()` and turn of main's loops |
| `XorSpurious` | the same with spurious returns of `pthread_cond_wait` | adds SpuriousWakeup |
| `PccStatistics` | what the server promises about its reports: main's, and that of a thread which a later SIGINT interrupts | the clients let in and answered, the lines each thread has printed; Accept, Answer, PrintLine, Finish, Abort |
| `PccServer` | `ex5/pcc_server.c`: main, threads, lock, SIGINT | the handler has a program counter per thread, on top of the thread's own; one action per call that takes, uses or gives up the lock |
| `MessageSlot` | `hw3/message_slot.c` and its three programs | the lists of nodes, and per process the call it is in |
| `PccConnection` | `ex5/pcc_client.c` and `connectionMain`: one connection | the two sides' locals, the bytes under way in each direction; one action per `read()` and `write()` |
| `MyShell` | `hw2/myshell.c` and its main loop | per child where it is, who ignores SIGINT, who holds the pipes' ends, stdin's offset; one action per system call |
| `FindReplace` | `hw1_subs/hw1_subs.c` | the file, the buffer, `start`, what is printed; one action per `read()` and turn of the loop |
| `BestIntervals` | `hw1_subs/intervals.py` | the tables E and P; one action per cell and per round of the extraction |
| `XorWorkersProofs`, `PccServerProofs`, `PccConnectionProofs`, `MyShellProofs`, `MessageSlotProofs`, `FindReplaceProofs`, `BestIntervalsProofs` | | the theorems about the module each is named for |
| `NumberLemmas` | | lemmas the proofs share: least elements, division, remainders |
| `MCXorWorkers`, `MCXorSpurious`, `MCPccServer`, `MCMessageSlot`, `MCPccConnection`, `MCMyShell`, `MCAlgorithms` | | instances for TLC; `MCAlgorithms` runs the two algorithms side by side |

Pieces of code and the actions that model them:

* `XorWorkers`: CreateThread, CreationDone, JoinThread, JoinUncreated and
  ReturnFromMain are `main`.  ReadSome and ReadEndOfFile are the read loop.
  WaitToXor, XorWithOutput, XorAndWrite, WriteSome, CleanBuffer, WaitToLeave
  and Leave are the thread's critical sections, in the code's order.
  ExitOnError is every `exit(2)` after a failed system call, at any moment.
* `PccServer`: Accept, RegisterLock, Register, RegisterUnlock and CreateThread are
  the loop of `main`.  Serve, AddCounter, DeregisterLock, Deregister, Broadcast,
  Unlock and ExitThread are `connectionMain`.  RegisterLock to RegisterUnlock and
  DeregisterLock to Unlock are the two uses of `updateActiveThreads`, with the
  change of the number, the broadcast and the unlock apart, since SIGINT may come
  between them.  Sigint and the Cleanup actions, PrintCounter, DestroyLocks,
  ReuseAddress and CloseListen are the handler.  The failing branches have actions
  of their own (AcceptFails, RegisterFails, CreateFails, ServeFails,
  CleanupLockFails, DestroyFails, ReuseFails).
* `MessageSlot`: OpenKnown and OpenUnknown with OpenAlloc or OpenNoMemory are
  `deviceOpen`.  IoctlNoMinor, IoctlCurrent, IoctlFound and IoctlUnknown with
  IoctlAlloc or IoctlNoMemory are `deviceIoctl`.  Write and CopyIn are
  `deviceWrite`; Read and CopyOut are `deviceRead`; Oops is their use of a NULL
  `curr`.  Close is the end of the program, Reload is `cleanup` and a new load.
* `PccConnection`: SendN, Fill and SendData, and ReadC are `sendUint`, `sendData`
  and `readUint` of the client; ReadN, ReadData and SendC are `connectionMain`
  up to `close`.  An end of file is a disjunct of ReadN, ReadData and ReadC.
  ClientFails and ServerFails are the error branches and SIGPIPE; ClientKilled,
  ServerKilled (another connection fails, or main returns) and Break (the
  network) come from outside.  All that is the step Serve or ServeFails of
  `PccServer`, where the counters are then added.
* `MyShell`: ReadLine and EndOfInput are `main`; Pipe, PipeFails, Fork1, Fork2,
  ClosePipe, Wait1 and Wait2 are `process_arglist` in the shell; Sigaction,
  SetPipe, SetPipeFails, Exec and ExecFails are a child's way through it and
  `execChild`.  Exit, in the two that fail, moves the input file's offset back if
  standard input is still that file (HasInputFile): the second process of a pipe
  has the pipe there once its `dup2` has succeeded.  ProgramEnds and Sigint come
  from outside.
* `FindReplace`: ReadSome, ReadFails, ReadsShort, FirstWord, ReplaceWord and
  PrintRest are `replaceWords2`; MainReturns is the end of `main`; Shrink is
  another program.  `BestIntervals`: FillCell, TablesFull, Extract,
  ExtractRaises and Sort follow `find_best_interval`.

Abstractions:

* A byte is symbolic.  In the xor, byte k of file f is the pair `<<f, k>>` and
  xor is symmetric difference, so a byte xored twice cancels and one at a wrong
  place shows.  In the server a counter is the set of clients added to it.  In
  the device a byte is the process that wrote it.
* A critical section of a mutex is one step, unless the code gives the mutex up
  inside it, makes a system call inside it that another thread's exit may cut
  off (xor), or can be interrupted by the handler inside it (server).
* Of glibc: locking a destroyed mutex answers EINVAL; destroying one answers EBUSY
  if it is held, or if a thread in `pthread_cond_wait` is to have it again.  Linux gives SIGINT to the main thread unless it is blocked there.
  `pthread_cond_wait` returns without reason only in `XorSpurious`.
* In a connection a byte is told by what the programs tell apart: which byte of
  which number it is, or whether it is printable.  Reading fewer bytes than a
  number has gives any number, for the rest of `charC` is uninitialised.  Reads
  of `/dev/urandom` are whole.
* SIGCHLD being ignored, the kernel removes a child that ends and `waitpid`
  blocks until the child is gone and then returns -1.  The first wait of a piped
  line is therefore never `== pid1`, and the second one is skipped, unless
  `fork` failed and `pid1` is itself -1.
* What a child of the shell does after `exec` is external.  Readers read to the
  end of their pipe, writers stop for a missing reader or a reader that takes what
  they write, foreground programs end; none reads the shell's standard input, and
  none changes what SIGINT does to it.
* A shell fed from a file has read ahead to its end (inputs are shorter than
  stdio's buffer).  glibc's `exit()` moves the offset, which a child shares with
  the shell, back over what the child's copy has not used; a terminal or a pipe
  has no offset, and there `lseek` fails.  The model counts it in lines of equal
  length, and keeps in `movedBy` who has moved it since the shell last read.
* `strstr` sees the string up to the first zero byte, `fwrite` the whole file.  A
  file that grows between `fstat` and `read` is left out.  Messages are one token.
* The device's steps go from one point where a call may sleep to the next.  That
  is what one processor with a non-preemptible kernel does.  On several
  processors each memory access would be a step, and nothing in the device is
  protected against that.
* The list of minors is a sequence: nodes are only appended, and an append
  behind a node that is no longer last cuts what followed it, as `prev->next =`
  does.  Memory that no list leads to and unloading did not free is `lost`.

## 3. Runs

| run | shows |
| --- | --- |
| `xor_levels` | pass: the output, the counters, the sleepers, leaving, the reported size, termination, the refinement of `XorOutput`, and the inductive invariant used in the proofs |
| `xor_empty_input` | violation of AllInputsStarted |
| `xor_spurious_wakeup` | violation of XorsAtOwnLevel |
| `server_sigint` | pass: the count of active threads, no skipped wakeup, nothing destroyed in use, a SIGINT in `accept()` ends the server unless a client holds its thread, refinement of `PccStatistics` |
| `server_sigint_stuck` | violation of CleanupWaitEnds |
| `slot_processes` | pass: a minor is never twice in the list, minors share no channel, searches end, a process left alone uses the channel it chose and whole messages |
| `slot_open_lost` | violation of OpenedMinorFound |
| `slot_channel_lost` | violation of ChannelFoundAgain |
| `connection` | pass: the stream is taken in order, an answer counts all that was sent, only the client's death or the network ends the server, both programs end when there is data, a dead client frees its thread |
| `shell` | pass: what the prompt waits for, who holds a pipe, whom SIGINT ends, which lines come again, the prompt returns, a pipe's reader ends |
| `shell_prompt_early` | violation of PromptAfterBoth |
| `algorithms` | pass: find-and-replace prints the replaced text and ends, the intervals are the best |

Bounds, and why they are enough:

* `xor_levels`: 3 files of 0 to 4 bytes, blocks of 2.  The lengths cover an
  empty file, part of a block, a block, a block and a part, two blocks.  With
  three threads one may leave, one may be a level ahead and one may be last at
  the same time.  `MaxInt = 1` makes the reported size wrap.
* `server_sigint`: 3 clients, 2 counters, 2 SIGINTs.  A report between the two
  counters of one client would show; the second SIGINT can land in a thread
  while main waits in the handler, at each step of its `updateActiveThreads`, and
  then there are two sleepers.
* `slot_processes`: 2 processes, 2 minors, 2 minor nodes (one for each minor, or two
  attempts at one), 2 channels, messages of 1 and 2 bytes, so that two writers can
  be interleaved inside a message; ints of 2 bits and longs of 4, so that 3 plays
  the part of an id above INT_MAX.
* `connection`: 3 bytes to a number, blocks of 2 bytes, every N of an unsigned int
  whose INT_MAX is 5.  So a number can be cut in one and in two places, the data
  is nothing, part of a block, whole blocks, or blocks and a part, and half of
  the numbers are negative as an int.
* `shell`: all inputs of two lines, and those of three that start in the
  background and end in the foreground; at most three lines are handled, so a
  line of a two-line input can come again; one SIGINT at any moment.  Two lines
  already have an earlier pipe's reader, or a background writer, beside a pipe.
  `shell_prompt_early` needs one pipe only.
* `algorithms`: files of up to 4 bytes over two letters and the zero byte, words
  of up to 2 letters (they can overlap themselves), replacements shorter and
  longer than the word; up to 5 points and 3 intervals, so that there may be
  fewer runs than intervals and more.  `MaxOutput` bounds only what an empty
  word prints: any other prints at most 8 bytes.

Symmetry (processes, minors, nodes, channels) is used only in `slot_processes`,
which checks invariants alone.

`CHECK_DEADLOCK FALSE` is set where the program can really stop: hw4 with an
empty input (see the finding), the server without clients or after a second
SIGINT, the xor and server violation runs, a connection without data, and the
shell and the algorithms, which end.  The device runs check deadlock.

Fairness: every thread of hw4, and main, runs again and again when it can
(weak fairness per thread); no failure is assumed to come.  In the server the
same holds of main when it has a connection in its hands or `accept()` fails
because the handler closed the socket, of each connection thread once its client
is answered, and of each running handler; clients need not connect and SIGINT
need not come.  A thread that reads from its client is not fair: it may stay in
`read()` for ever (finding 7).  SigintAtAcceptEnds and CleanupWaitEnds therefore
say what they assume of the clients (ClientsGoOn).  A mutex needs no fairness of its own: a thread that never gets it
while others pass is not excluded.  In a connection the client and the thread run when they
can, and neither failures nor the network's end must come: DataEnds assumes that
the network stays up, DeadClientFreesThread says so itself.  The shell runs when
it can, and each child until its `exec`; a program must end only where its pipe
makes it (or in the foreground), a background one need not, and SIGINT need not
come.  `hw1_subs` runs, and no read has to fail.  StartedTerminates,
SigintAtAcceptEnds, DataEnds, DeadClientFreesThread, PromptReturns, ReaderEnds and
ReplaceEnds hold under these assumptions.  The other properties are safety
properties and need none.

## 4. What was found

1. `hw4.c:257`.  The loop that creates the threads is bounded by `numThreads`,
   which the thread of an empty input may lower before the loop is done: the
   last inputs get no thread.  StartedUnlessEmpty shows that only an empty
   input can do this.
2. `hw4.c:178`.  The level is tested with `if` before `pthread_cond_wait`; a
   spurious return puts a block in the wrong level.
3. `pcc_server.c:238`.  SIGINT while main is inside `updateActiveThreads`, or
   before it creates the thread it has counted, makes the handler wait for
   ever, even when every client goes on to its end.  SigintAtAcceptEnds shows that
   a single SIGINT in `accept()` does end the server then.  It excludes a second
   one: that can reach the thread which counts itself out, between its lock and its
   unlock (`pcc_server.c:122-135`), where it waits for itself, and main for it.
4. `message_slot.c:78`.  An open that waited for memory replaces, in the list,
   the node of another open that came between; the other process then finds
   no minor, although it opened it.
5. `message_slot.c:227`.  The second channel of a minor is never linked: once
   another channel is chosen it cannot be found again nor freed.

6. `myshell.c:152`.  The comments say "Wait for two foreground children:" and
   "Waitpid for non BG children.", but the second process of a pipe is waited for
   only when the first could not be forked: the prompt comes back while it runs.
   PromptAfterForeground says what the shell does wait for.

Each of these six has a run that shows it.  The following are part of what the
passing runs state, as the behaviour of the code:

7. `pcc_server.c:154`, `pcc_client.c:89`.  With N = 0, or N above INT_MAX, no data
   is sent and the server reads before it answers: both wait until one is
   killed.  AnsweredAfterAll says that such a client is never answered, DataEnds
   that every other is.
8. `pcc_server.c:47`.  A client that dies before it has its answer can end the
   whole server, by SIGPIPE or `exit(-1)`.  OrderlyClientSparesServer says that
   only this, or the network, does.
9. `myshell.c:66`.  A command that cannot be run, in a shell whose input is a
   file, makes the lines after it come again, unless it is the second one of a pipe;
   with two such commands it may go on for ever.  LinesInOrder says from where the
   lines come again, and that otherwise none is skipped or repeated.
10. `myshell.c:97`.  After a failed `fork` of a foreground line `waitpid(-1)` waits
    for every child, those in the background too (PromptAfterForeground).
11. `hw1_subs.c:60`.  After a successful run `main` prints the message of `errno`
    behind the text (PrintsReplaced has it at the end of the output).
12. `intervals.py:41`.  A call without points and with k > 0 raises a TypeError.

## 5. Proofs

Every safety property of the passing runs is a theorem, for every value of the
constants and the inputs.  In each module `Invariance` proves
`Spec => []IInv`, where IInv is the inductive invariant; the other theorems follow
from it.

| module | theorem | property |
| --- | --- | --- |
| `XorWorkersProofs` | TypeCorrect, CountersCorrect, OutputCorrect, SleepersCorrect, StartedCorrect, DoneCorrect | TypeOK, CountersCount, OutputIsXorPrefix, SleepersAreAhead, StartedUnlessEmpty, DoneIsWhole |
| | LeavingCorrect | the action property LeavesAtOwnLevel |
| | SizeCorrect | SizeIsReported |
| | Refinement | ImplementsOutput: hw4 implements `XorOutput` |
| `PccServerProofs` | TypeCorrect, CountCorrect, SleepersCorrect, DestroyedCorrect | TypeOK, ActiveCountsRegistered, SleepersHaveSomebody, DestroyedWhenIdle |
| | Refinement | ImplementsStatistics: the server implements `PccStatistics` |
| `PccConnectionProofs` | TypeCorrect, StreamCorrect, AnsweredCorrect, PrintedCorrect, OrderlyCorrect | TypeOK, StreamInOrder, AnsweredAfterAll, PrintedIsAnswer, OrderlyClientSparesServer |
| `MyShellProofs` | TypeCorrect, PromptCorrect, PipeCorrect | TypeOK, PromptAfterForeground, PipeHeldByItsPrograms |
| | LinesCorrect, SigintCorrect | the action properties LinesInOrder, SigintEndsForeground |
| `MessageSlotProofs` | TypeCorrect, DistinctCorrect, SeparateCorrect, SearchCorrect, OwnChannelCorrect, WholeCorrect | TypeOK, MinorsDistinct, MinorsSeparate, SearchEnds, AloneUsesOwnChannel, AloneIsWhole |
| `FindReplaceProofs` | ReplaceCorrect (from ReplaceInvariance) | PrintsReplaced |
| `BestIntervalsProofs` | IntervalsCorrect (from IntervalsInvariance) | IntervalsAttainBest |

### Assumptions

Those the modules declare, and no others.  Numbers of files, blocks, the width of
a number and the length of a message are positive; connections, nodes and
channels are finite sets; names of different things differ; lengths, lines,
SIGINTs and the bounds of ints are natural numbers.  `MessageSlot` assumes that
an unsigned long is wider than an int and that the number of values of the one
is a multiple of the other's, as it is for two powers of two: without that the
comparison of an int with an unsigned long could find equal what is not.
`FindReplace` assumes that zero is a byte.

### The arguments

The invariants of the runs are not inductive.  What IInv adds in each module,
and why it must:

* `XorWorkers`.  That the next bytes are right depends on what is in the buffer,
  that on which threads have contributed, and that on each thread's place in its
  file.  WorkerInv: a thread's block is block `current_level` of its file, and
  that level is the current one or the next (without "or the next" the barrier
  could not be stated).  WriterInv: only a thread that writes holds the mutex
  between steps, and then every thread still enrolled has contributed; here the
  comparison of the two counters is used, through CountersCount.  BufferInv: the
  buffer holds exactly the blocks of the threads that xored them.  OutputInv: the
  levels before this one are in the file.  MainInv: until all threads exist, the
  first level cannot end, except by way of an empty input.  SizeCorrect needs
  SizeInv besides: at every step `total_size` is what has been written, as an
  int.  It is kept because adding before or after the wrap makes no difference
  (RemainderOfSum).
* `PccServer`.  InHand: which connection main has in its hands between `accept`
  and `pthread_create`, for that one is counted or not by main's place alone.
  LockInv: the lock is held by a thread inside `updateActiveThreads` or by one in
  the first lines of `cleanup`, never both, for a handler that interrupts the
  holder gets no further than its own attempt to take it; and it is free, with
  nobody to come back to it from a wait, when it is destroyed.  SleepersInv: who
  sleeps is in the wait, and who has still to broadcast has brought the number to
  0.  This is the step a second SIGINT can stop, so SleepersCorrect says that no
  wakeup is skipped, and not that it comes.  ShutDownInv: once a handler is past
  its wait nobody is active, for main, which alone could count another one in, is
  in a handler of its own, or behind one that has destroyed the locks.
  CountersInv: a client is in all counters once
  its thread has left the adding loop, which is before it counts itself out.
  With active_threads = 0 these give ReportInv: each line that main or another
  thread prints counts the clients answered, somebody's report is whole before the
  locks are destroyed, and main returns behind its own.  That is the refinement.
* `PccConnection`.  StreamInv: the bytes received, then those under way, are those
  sent, in order, N first; ClientInv bounds what is sent by N as an int, so N
  above INT_MAX sends nothing and `totalRead` cannot overflow.  ServerInv: the
  thread goes on without the whole of N only if its client died in the middle of
  it.  AnswerInv: the same stream in the other direction, and who may have ended.
* `MyShell`.  LineInv, ChildrenInv: which processes exist at each place of
  `process_arglist`.  WaitInv: after the first wait the first process is gone; the
  second wait comes only after a failed `fork`, and then waits for all.
  IgnoreInv: who ignores SIGINT is who has not reached its `sigaction`, and the
  background.  EndsInv: who can hold the ends of each line's pipe, the shell
  between `pipe` and the two `close` only.  InputInv: on a terminal the
  offset is behind the lines handled; in a file it is at the end as long as nobody
  has moved it (`movedBy`), behind the command of the one that has, and not beyond
  the first of several.  They are gone, so none moves it twice; from it LinesCorrect
  knows which line `getline()` takes next.
* `MessageSlot`.  CallInv: what a call knows of the node it works on after a sleep;
  above all, an open that will hang its node behind another one still has a list
  without its minor up to there, so MinorsDistinct survives opens that overtake
  each other.  ChannelInv: a minor's list is its first channel alone and every
  other channel points at that one, which is what the missing link (finding 5)
  leaves; so searches end after two channels, and minors share none.  AloneInv:
  the bytes copied so far by a process that nobody disturbed.
* `FindReplace`.  LoopInv: what has been printed, and what the reference gives from
  `start` on, make up what it gives for the whole.  Behind it are lemmas about
  the reference (up to the next occurrence it copies, at an occurrence it
  replaces), about the C strings in the buffer (each that begins in the text ends
  where the text ends) and about `strstr` (it finds the first occurrence).  Before
  that it has to be shown that the recursive function of the reference exists at
  all; with an empty word it does not, and the program does not end.
* `BestIntervals`.  TableInv: each cell filled so far, in the order of the two
  loops, holds the least number of errors (no labelling makes fewer, and one makes
  as many), and P has the interval it comes from.  CellLowerBound is why a cell is
  the least over its options: a labelling without ones costs what the option
  `(0, 0)` does, and any other has a last one, `u`, and before it a last zero, `l`;
  what it has up to `l` is a labelling with one run less, which the table knows.
  CellAttained is the converse: ones in the interval and zeros after it, put
  behind a labelling that the table's number belongs to, begin at most one run
  more.  ExtractInv: the errors that the intervals found so far make beyond what
  remains, and the cell for what remains, add up to the number returned; the
  intervals are found from the last to the first.  SortedApart: to sort them is to
  turn them round, but for empty intervals at the boundary where another one
  begins or ends.  The errors themselves are cardinalities, counted stretch by
  stretch (CountSplit, CountSame, CountComplement).

The induction theorems of the library cannot be used here, for they take an
operator as a parameter.  Where a proof needs induction it takes the least
counterexample instead (LeastElement, which follows from the library's theorem
that `<` is well-founded): the walk along the channels, the reference of
find-and-replace, the last run of a labelling and the first of a set of options.
The table needs none: IInv itself goes from cell to cell.

The inductive invariants of `XorWorkers` and SizeInv were model-checked before they
were proved (the former is in `xor_levels`), and so were those of the device, the
server, the connection, the shell and the intervals, by naming IInv as an
invariant next to the runs' own; they are not listed in the runs, since the
theorems say more.

### Only model-checked

Liveness alone, which is outside the prover: StartedTerminates, SigintAtAcceptEnds,
DataEnds, DeadClientFreesThread, PromptReturns, ReaderEnds, ReplaceEnds.

The runs that show a violation have no theorems: they are about what does not hold.

## 6. Not modelled, and the plan

Not modelled: the first version of the xor (`hw4/main.c`), superseded by hw4.c and
differing from it in the join loop, the single `write()` and the missing size; of
the device, the interleavings of several processors and unloading under an open
file; of the client, resolving the address and connecting; of the server, binding
the socket, spurious wakeups of the shutdown and the wrap of `totalRead`; a file
that grows under `hw1_subs`.  Left out for good: wording of messages, argument
counts, the experiment script, build files and generated code.

What is left, in this order:

1. `MessageSlot` on several processors, as a variant with smaller steps, in which
   the creation of two channels can overlap.
2. `hw4/main.c` as far as it differs from `XorWorkers`.
