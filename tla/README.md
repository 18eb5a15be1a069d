# Verification of low-latency-building-blocks

TLA+ models of the components of this repository, TLC configurations that check
them on small instances, and TLAPS proofs of the results that matter for every
size. Parse with `tlasany M.tla`, check with `tlc -config X.cfg M`, prove with
`tlapm M_proof.tla`.

## Inventory

The repository is a set of small C++ programs, each in a directory of its own,
around header-only building blocks. Some headers are copied between directories
(`lf_queue.h` and `thread_utils.h`: three and four copies that differ in comments
only; `logging.h`: two equal copies); one copy is modelled.

| component | state | operations | who calls whom | what is hard |
|---|---|---|---|---|
| `LFQueue` (lock-free-queue/lf_queue.h) | slots, two atomic indices, an atomic counter | getNextToWriteTo, updateNextToWriteTo, getNextToRead, updateReadIndex, size | one writer and one reader thread | an element is published in two atomics; no test for a full queue |
| queue program (lock-free-queue/program.cpp) | the two threads' locals | writeFunction, consumeFunction, main | LFQueue | the reader releases a slot before it reads it; untested pointer |
| `MemPool` (memory-pool/mem_pool.h) | blocks with an is_free_ flag, a cursor | allocate, deallocate, updateNextFreeIndex | one client thread | the end of the vector; frees behind the cursor |
| `Logger` (logger/logging.h) | LFQueue, ofstream, running_, a thread | log, pushValue, flushQueue, constructor, destructor | main thread pushes, logger thread pops and writes | shutdown handshake, flushing, a queue that overruns silently |
| `Logger::log` (logger/logging.h) | the rest of a format and of its values | two overloads that call each other | pushValue; FATAL exits the process | escapes across the two overloads |
| `createAndStartThread` (thread_utils.h) | running, failed, a closure over references | start, pin, poll | every program with threads | the thread may use arguments that are gone |
| `RingBuffer` (binary-logger-ring-buffer/ringBuffer.h) | slots, two indices, a counter | push_into, pop_next, move_read_index, move_write_index, is_full, size | its program | it overwrites when full; no test for empty |
| `BinaryLogger` (binaryLogger.h) | mapped file, descriptor, write position | constructor, log, destructor | its program | failures that do not stop it; restart over an old file |
| sockets program (sockets/program.cpp) | loop variables, five clients | main | one thread is the server and all its clients | unchecked connects, an answer read a round later |
| `TCPSocket`, `TCPServer` (sockets/) | two buffers and indices per socket; epoll set, four socket lists | connect, listen, poll, send, sendAndRecv, destroy | the server owns the sockets; callbacks into the program | partial and failing sends, lists that keep dead sockets |
| `createSocket` (sockets/socket_utils.cpp) | a descriptor, the address list | a dozen system calls in order | TCPSocket, TCPServer | which failures stop it, what they leave open |
| UDP programs (UDP_sockets/) | a descriptor, a buffer | set-up; polling, select and epoll receive loops, client, multicast sender and subscriber | the network | loss, repetition, reordering; a full buffer; text without a terminator; which failures end a loop |

Properties that make them correct:

- LFQueue and its program: elements come out whole, in order, each once; a slot is
  never written while it is being read; the ASSERT in updateReadIndex holds; the
  threads end.
- MemPool: a live block is never handed out or overwritten, double frees are caught,
  allocate never leaves the pool (it does, see below), freed blocks come back (they do
  not).
- Logger: what was pushed reaches the file in order, at the latest at destruction;
  the destructor returns.
- log: the text its format and values stand for, FATAL exactly on a mismatch.
- createAndStartThread: it returns, with null exactly for a thread that could not be
  pinned; whatever the thread refers to outlives its use (its arguments may not).
- RingBuffer: what is read was written, in order while nothing is overwritten unread.
- BinaryLogger: the file up to the write position is the framed messages of this run,
  wherever the process is killed; only its own descriptor is closed.
- TCPSocket, TCPServer: answers go out whole, in order and once; every connection is
  accepted, every request taken up, every dead connection dropped; one client cannot
  stop the others (it can, by breaking off or by not reading).
- createSocket: a returned descriptor is configured, in the right order (but for two
  options), and connected (it need not be).
- sockets program: nobody waits for a later turn; main() returns with every answer read
  (the last ones are not, and it may hang).
- UDP programs: each datagram that arrives is said once, in order, as it is; the queue is
  emptied again and again; nothing is written behind the buffer (a terminator is).

PROJECT.json lists every hazard at its line.

## Modules

| module | models | correspondence |
|---|---|---|
| `LFQueue` | the queue object | one action per access to shared memory: a word of an element, an index, the counter. The atomics are sequentially consistent in the code and each index is stored by one thread only, so the load and store of an index update are one step. |
| `Fifo` | what the queue promises | Put, Get, and Leave: the reader may stop while one element is still being counted in |
| `QueueProgram` | both threads of lock-free-queue/program.cpp | one action per statement, or per shared access where a statement makes several; `wpc` and `cpc` are the program counters |
| `MemPool` | the pool and its client | allocate is TakeBlock, then one ScanOn per turn of the while loop, then ScanFound. The flags behind the vector are part of the state and start with any contents. |
| `Logger` | the main thread's pushes and destructor, the logger thread | as in QueueProgram; composed from LFQueue. `stream` is the ofstream's buffer, `disk` the file. `released` and `overran` are history variables. |
| `LogFormat` | one call of log() | one action per turn of a loop; FATAL and return are its final states |
| `ThreadStart` | createAndStartThread, main() of multithreding.cpp | `InFrame` says when the creator's frame and the temporaries of its call exist; on return the arguments become garbage or stay legible. |
| `RingBuffer` | the ring between a writer and a reader thread | one action per access to an index, the counter or a slot |
| `BinaryLogger` | the logger, its file and its descriptor number | constructor in three actions, log() in two (length, bytes); the process is killed between any two, or while it copies, with any of the bytes stored. The length is a `uint32_t` (`Len32`), so a longer message is recorded cut (`Recorded`). |
| `LoggingProgram` | binary-logger-ring-buffer/program.cpp | runs the ring or the logger, as its two test functions do |
| `TCPSocket` | the accepted sockets and the kernel's end of their connections | recvmsg with the callback is one action, each ::send one more; `full` is a peer without room, which reads again (`Drain`) or never. Bytes of answers are numbered, so that a repeated, stale or uninitialised one shows. |
| `TCPServer` | poll(), sendAndRecv(), epoll, the clients; composed from TCPSocket | poll() up to the accept loop is one action, each accept and each turn of sendAndRecv() one more |
| `TCPProgram` | main() of sockets/program.cpp, or a program with any clients; composed from TCPServer | `mpc` is main()'s program counter: its calls of listen(), poll() and sendAndRecv() are the actions of TCPServer, its clients' connect(), recvmsg and each ::send an action each. connect() leaves a connection pending (`link`); `Settle` makes or refuses it later. |
| `Receiver` | what a program that receives datagrams promises | Arrive, Take, Discard, Stop |
| `UdpPrograms` | the programs of UDP_sockets and the network between them | `SetUp` is one call before the loop, then one action per system call with what follows it; `program` says which loop runs. A datagram is its number, as often as it is long. |
| `SocketPrograms` | | one call of createSocket(), or one of the UDP programs |
| `CreateSocket` | createSocket() | one action per call; `step` is the place in `Order` of the next call that the arguments ask for (`After`) |
| `MC*` | | instances for TLC |
| `*_proof` | | proofs about the module of that name |
| `Lemmas` | | facts about numbers, rings and sequences that the proofs share |

What `Logger` pushes is numbered elements: which ones a call of `log()` makes, and that
it may end in FATAL after any number of them, is what `LogFormat` shows. `Events`,
`Woken` and `Close` of TCPServer stand for the kernel: a descriptor enters epoll's ready
list when something happens to it, is reported once, and is judged by its state then.
`sockets_` and `send_sockets_` are left out because they are always empty: nothing is
put into the first, and EPOLLOUT, which fills the second, is never asked for.

Operators under "Plausible bugs" in a module are never used by it. Each stands for a
definition of the same module as a mistake would make it, and each property was seen to
fail with one of them in place.

## Runs

| run | question | instance | why it is enough |
|---|---|---|---|
| `queue` | is the queue with its two threads a FIFO, and does it end? | 3 slots, elements of 2 words, 6 elements, lead 2 | both indices go round the ring twice; the lead is the largest the proof allows; two words show torn copies |
| `mem_pool` | do the flags tell the truth, what happens at the end of the vector? | 4 blocks, 3 flags readable behind them with every content | the pool is exhausted, run over and faults, with every order of frees |
| `mem_pool_wrap` | does the scan go back to the beginning? | the same | expected to fail: finding below |
| `logger` | does everything pushed get into the file, does the destructor return? | 3 slots, up to 5 elements of 2 words | the main thread stays in the ring or laps the logger thread by one or two elements, at every point of both loops |
| `thread_start` | does the handshake hold, does main() end? | 3 calls, the last two pinned | a failure after a success, after a failure, and last |
| `thread_args` | does a thread see its arguments? | 2 calls | expected to fail |
| `tcp_server` | do answers arrive, is everybody served, how does main() end? | 2 clients; any clients: one asks twice; main(): 2 rounds; a 3-byte buffer; room that runs out at any send and comes back once or never | a second answer over a first, coalesced requests, partial sends, an edge for two connections, connections still pending at the poll() behind their connect() and at the next, clients that stop reading at any send, 0 to 2 descriptors left; a round whose answers are read and a last one, with every combination of refused clients |
| `send_stop` | does the send loop stop at an error? | the same | expected to fail |
| `socket_programs` | does each call come in time, is a returned descriptor prepared? is every datagram said? | every combination of arguments, 1 or 2 addresses, every failure; a buffer of 2, datagrams of 0 to 3 bytes, 2 sent, 3 arrivals, a queue of 2, two failed calls in the loop, every failure of the set-up | the arguments are all there are; datagrams that fit, fill and overrun the buffer, short after long, repeated and out of order, a queue that is full |
| `connect` | is a returned descriptor connected? | the same | expected to fail |
| `logging_program` | what does the ring lose, what is in the log file? | 3 slots, 7 pushes; 5 cells, 4 messages of 0 to 8 bytes with 6 for 2^32, any number of restarts among them | the ring is lapped twice over; messages that fit exactly, are dropped, are cut to nothing, to one and to two bytes, and are shorter than what lies under them; a kill after each store |
| `log_format` | is the pushed text the right one? | every format of up to 5 characters over one letter and %, up to 2 values of 0, 1 or 2 elements | runs of % of every parity, at the beginning, middle and end |

### What they show

`queue`: although the reader gives a slot back before it reads it, it prints every
element whole and in order, because one slot of the ring always separates the two
threads while the writer is less than a ring ahead (`NoSharedSlot`). The counter only
lags the indices, so the untested pointer is never null (`NeverDies`).
`ImplementsFifo` is the refinement to `Fifo`.

`mem_pool`: the flags never drift from what the client holds. The next block is always a
free one (`CursorFree`), and memory behind the pool is handed out only when every block of
its own has been (`OutsideOnlyWhenExhausted`). But the cursor only moves up, where the
code means it to go back to the beginning: frees behind it are lost, N allocations use the
pool up, and the Nth one scans beyond the vector (`mem_pool_wrap`).

`logger`: while the main thread never laps the logger thread, the file is a prefix of
what was pushed at all times, all of it after the destructor, and every element gets
there without the destructor (the flush whose comment asks why it is needed is what
gives this: without it `ReachesDisk` fails). When the main thread laps it by exactly the
ring and the logger thread holds no element, the indices are equal and the counter is
not zero: the destructor then waits for ever (`StuckStays`). The ASSERT holds even then.

`log_format`: in a run of % every second one stands for itself and the last one of an
odd run is a placeholder; both overloads agree on that, and a call dies exactly when
the number of values differs from the number of placeholders.

`thread_start`: the poll over `running` and `failed` keeps the frame as long as the
thread uses the flags, core_id and name. It does not cover the function and its
arguments.

`tcp_server`: while sends are complete, each client gets its answers whole. After a
partial send it gets bytes of the beginning of the same answer again, after a send without
room one byte too many; but never one of an earlier answer (`NeverStale`): the min()
before ::send is what limits it. One event per poll() is enough for everybody, since an
accepted socket is received from in every sendAndRecv(), event or none. Two clients stop
everybody: one that resets its connection while its answer is being sent, and one that
stays connected and does not read, so that there is no room for its answer. Either keeps
the server in the send loop for ever, and every other client waits. `Halts` says that
this, or the exit of the ASSERT, has come about; the liveness properties are all "or it
halts", and `Halts` holds of nothing less: from some time on the same loop runs, and its
::send fails again and again. A connection that is only closed is never noticed: EPOLLIN
is all it raises. No descriptor is ever closed, so accepting ends when they are used up.

Under main() of the demo, each request on an accepted connection has been taken up when
main() goes on to the next client (`NobodyWaits`). Connections may wait longer: no sleep
stands between connect() and the poll() behind it, so a connection may still be pending
there, and is accepted behind a later poll(). One that was pending at the last of these
polls may stay in the backlog until the second poll() of the first round, as the first may
take the event of the socket that has just sent; no sendAndRecv() of its turn has passed
by then. `MainOutcome` lists how it ends: it returns, with each client having read the
answers of all rounds but the last; or the server's ASSERT exits; or a client's connect()
was refused, which nobody noticed, and its first sendAndRecv() never returns. The same
happens to a client, or to the server, that finds no room and gets none. When listen() has
failed, which nobody notices either, its clients hang main() in the same way, unless
another program has the port.

`socket_programs`, `connect`: what the comments at socket_utils.cpp:120 and :139 order
comes in that order on every descriptor, and a listener is bound first (`PreparedInTime`).
sockets/README.md:131-136 asks for more, setsockopt before connect, bind and listen; the
code sets the TTL and SO_TIMESTAMP after them (lines 157-172), and the property says
nothing of when these two come. A refused connection is returned like a made one. A UDP
socket with a TTL is never returned, because the TTL is set at a level that UDP sockets
refuse. Descriptors of failed calls, and of all addresses but the last, stay open.

Each of the server's three loops implements `Receiver`: the terminator separates a
datagram from what was in the buffer, and stands behind the buffer after a datagram that
fills it. The subscriber has no terminator; its line holds, position by position, the
last byte received there (`StaleTail`), and an empty datagram or an error repeats the
line. All four empty the queue again and again, one datagram per reported level or
several; a single interrupted wait ends two of the server's loops, a single error of
recvfrom the third (`TakesAll`).

`logging_program`: once the writer has lapped the reader, the ring gives newer elements
before older ones and some twice, and size() exceeds the ring; never something not
written. The log is well framed up to the write position at every moment, whatever was in
the file (`Framed`). Killed while it copies a message, the process leaves that message's
length and any of its bytes; all the rest of the file is what the run found, so after a
restart older records follow without a mark. A message of 2^32 bytes or more keeps only as
many of its first bytes as the low 32 bits of its length say, and room is tested for
those. A failed constructor leaves a logger that crashes at the first message that fits,
and closes its descriptor number twice; nothing else does either
(`HarmsOnlyAfterFailure`).

### Findings

| run | where | what |
|---|---|---|
| `mem_pool_wrap` | mem_pool.h:67 | `next_free_index_ == 0;` compares where the comment says "back to beggining"; the demo program reaches it with its 50th allocation |
| `thread_args` | thread_utils.h:36 | func and args are used after `running = true` has let their temporaries go |
| `send_stop` | tcp_socket.cpp:99 | the loop goes on after the error of which line 89 says "we need to stop" |
| `connect` | socket_utils.cpp:134 | connect() is compared with 1, not -1 |

### Assumptions and bounds

- `Lead < Capacity` in QueueProgram: the program sleeps one second per element in each
  thread and lets the reader start late enough to be about five elements behind, in a
  ring of 20. Nothing in the code enforces it. Logger makes no such assumption.
- `SizeMod` stands for 2^64. It only has to be larger than the ring.
- `Items`, `MaxPushes` bound the elements; `Beyond` bounds the memory that can be read
  behind the pool before a fault. After the pool has run over, writes into its
  neighbour's memory are modelled only as far as the flags there.
- An element's words may be copied and read in any order. A read during a write gets the
  old or the new word.
- ThreadStart's garbage stands for any other value; whether it arises is up to the
  compiler's use of the stack. The functions the threads run end.
- TCPServer: a client's request byte is answered by a header byte and itself.
  `MaxRequests` and `MaxFds` bound the environment. Room may run out at any send, and
  failures then go on without bound; `MaxDrained` bounds only how often it comes back.
  `SendCap` cuts off n_send, which grows by one with each failure: at the cap a failure is
  a stutter, as nothing else changes. `Header + RcvLimit <= BufferSize` is the 64 MB
  buffer against the few MB a kernel holds back for a socket; it rules out answers that
  overrun send()'s buffer, which nothing in the code tests for.
- TCPProgram: main() sleeps half a second between a client's send and the server's turn,
  so what is sent over the loopback interface has arrived, and no connection is pending
  any more; at the polls behind connect(), where it does not sleep, any may be. A client's
  message is one unit, sent whole or not at all. `Rounds <= RcvLimit`: a few messages fit into the
  kernel's memory even if nobody reads them; to a connection that is never accepted a
  message goes out once, as nobody would see how often. A client that connects while the
  server is not watching its listener is refused or reaches somebody else.
- UdpPrograms: datagrams hold no zero bytes. The buffer starts with any contents; one byte
  behind it is modelled, and text without a terminator ends there. `MaxSent`,
  `MaxArrivals` and `MaxErrors` bound the environment.
- BinaryLogger: a crash is one of the process; the pages of its shared mapping survive.
  `LenMod` stands for 2^32, and the proofs hold for any. `MaxLen` and `MaxLogs` bound the
  messages. A length is one cell and is stored whole: its four bytes are not told apart.
- Deadlock is checked in `queue`, which ends in a state that may stutter. The other
  runs end in states where the process has exited, crashed, closed, or (logger) hangs.

### Fairness

Both threads of a program are running threads of the operating system, so each takes
its next step eventually: `WF(Writer)`, `WF(Consumer)`, `WF(LoggerThread)`. In Logger
the main thread is fair only inside a call (`InsideCall`): nothing makes a program log
again or destroy its logger. `ReachesDisk` needs the pushes to pause, which the bound
`MaxPushes` makes them do: a main thread that keeps the queue non-empty for ever keeps
the logger thread in its inner loop, and only the buffer's overflow moves data then.

ThreadStart: creator and threads run. TCPServer with any clients: its thread runs inside a
call (`WF` of `Inside`), and the program calls poll() and sendAndRecv() again and again,
as the demo's loop does; sendAndRecv() can begin whenever no call is running (`WF`),
poll() only now and then between two of its calls (`SF`). Nothing is assumed of those
clients: none has to read, to ask, or to stay. Under main() there is one thread, which
runs (`WF(main)`), and TCP ends each attempt to connect, made or refused (`WF` of
`Settle`); that room comes back is not assumed either. UdpPrograms: the receiving process
runs (`WF` of `SetUp` and `Loop`); nothing is assumed of senders and network.

## Proofs

All theorems hold for every value of the constants under the assumptions named in the
modules. Every safety invariant and every action property of the passing runs is proved,
and both refinements. None of the invariants is inductive as it
stands but for some of the type invariants; each strengthening below was checked as an
invariant by TLC, on the instance of its run, before it was proved.

| module | theorems | strengthening |
|---|---|---|
| `QueueProgram_proof` | `TypeOK`, `InOrder`, `NoSharedSlot`, `NeverDies`, `SizeImpliesItem`, `ImplementsFifo` | `Inv` |
| `MemPool_proof` | `TypeOK`, `FlagsTrackBlocks`, `CursorFree`, `OutsideOnlyWhenExhausted` | `PoolInv` |
| `ThreadStart_proof` | `TypeOK`, `FrameOutlivesUse`, `NullMeansOver` | `Inv` |
| `Logger_proof` | `TypeOK`, `WritesPrefix`, `ClosedComplete`, `AssertNeverFails`, `StuckStays`, `CallAsWritten` | `LogInv`, `CallInv` |
| `LoggingProgram_proof` | `TypeOK`, `LossyFifo`, `Framed`, `HarmsOnlyAfterFailure` | `RingInv`, `LogInv`, `FileFormat` |
| `TCPProgram_proof` | `TypeOK`, `StreamIntact`, `NeverStale`, `NobodyWaits` | `ServerInv`, `TurnInv` |
| `SocketPrograms_proof` | `TypeOK`, `PreparedInTime`, `StaleTail`, `ImplementsReceiver` | `CreateInv`, `UdpInv` |
| `Lemmas` | | |

`QueueProgram_proof`. `Inv` adds to the properties

- `Distance`: how many elements wait (`Waiting`, at most `Lead`), and that the reader goes
  on only when there is one;
- `Indices`: the two indices are exactly `Waiting` slots apart, the reader's pointer one
  slot behind the read index while it holds a released slot;
- `Counter`: the value of store_size at each point of the reader;
- `Stored`: what each waiting slot, the released slot and the two partial copies hold.

`Lead < Capacity` is used in one place per direction: the slot being written is then
none of the waiting ones and not the one just released. `SizeImpliesItem` (a counter that
is not zero means an item) is what `NeverDies` rests on; no run checks it on its own. For
`ImplementsFifo` the same invariant shows each step of the two threads to be a Put, a Get,
a Leave or nothing of `Fifo`.

`MemPool_proof`. `PoolInv` adds that the blocks handed out are exactly those below a
frontier (`HandedBelow`), and that a scan inside the vector stops at the next block
(`ScanShort`): everything above the frontier is still free.

`ThreadStart_proof`. `Inv` adds that a thread not yet started has no flag and no pointer
(`NotStarted`), that the flags say how far a thread has got (`Flags`), and that the
creator leaves its poll, and its call, only after a report (`Reports`). A thread that has
still to touch the frame has not reported, so its call is neither past nor to come.

`Logger_proof`. Nothing keeps this queue's writer behind its reader, so `LogInv` has two
halves. `Threads`, `Counter` and `Writing` hold however far the main thread gets ahead:
the counter shows the elements counted in and not out, modulo `SizeMod` (`Shows`), and the
logger thread writes one element for each it releases. `Ring` and `Output` hold until the
first overrun: the indices are `Waiting` slots apart, the slots between them hold the
waiting elements, and what is in the stream and the file is right. The ASSERT needs only
the first half and fewer pushes than a size_t has values (`AssertHolds`), or no overrun
(`AssertHoldsInTime`). `StuckStays` is an action property: a drained queue whose counter
is not zero has no step that changes either.

The module also extends LogFormat and proves `CallsAsWritten`. `CallInv` says that log()
has reached a place of the format that is not within a pair of %: what is left of the
format and of the values is what lies behind that place and behind its placeholders, and
what has been pushed is what the characters before it stand for (`At`). The text is a
`FlattenSeq`, which grows by one element at each place (`FirstIs`, by induction along
the sequence).

`LoggingProgram_proof`. `RingInv`: the slot of element n holds n or an element that came
whole rounds later (`RingContents`), and the indices know the elements by number although
they go round (`RingIndices`). That the element read k-th is k, or k plus whole rounds,
follows with `RoundApart`: two numbers that share a slot are at least a round apart.
`LogInv` follows the descriptor through the constructor's failures; `FileFormat` says that
what is kept of the messages lies one behind the other from the beginning of the file
(`Laid`, with the places where they start as a witness), that the length behind them, if
there is one, is that of the message being written (`LengthStored`), and that every other
cell is as the run found it or one of that message's. `Framed`, which reads the lengths as
a reader of the file would, follows by induction on the messages read (`LaidRead`). It is
proved for every `LenMod`: that the room tested for is the room the bytes take rests on
both using the cut length (`RecordedMessage`), and nowhere on messages being short.

`TCPProgram_proof`. `ServerInv` holds under both programs: no list has a socket twice
(`Lists`, `Once`), sendAndRecv() stays on its list (`Place`), a socket's buffer is empty
except in the turn that serves it, and holds then the last bytes of its answers
(`Buffers`), and while nothing failed, what went out ends where the buffer begins or the
whole answer is out (`Streams`). `NeverStale` is an action property from it. `TurnInv` is
about main() alone: its clients stay (`Peaceful`); when the server is in which call
(`Phases`); a connection in the backlog has its event in the ready list unless the
descriptors are used up (`Heard`), and what else may be ahead of it there: nothing while
no client has asked anything (`Early`), from then on at most the socket that is due
(`Later`); a request waits only until the next sendAndRecv() has passed its socket
(`TakesUp`). Connections settle anywhere in the connecting loop; that they are all settled
after it is the only use of main()'s sleeps.

`SocketPrograms_proof`. `CreateInv`: before a call, the descriptor in work has had exactly
those of the earlier calls that the arguments ask for, in their order (`Prepared`),
descriptors behind it have had none (`Opened`), and each left behind has had the calls up
to some place (`Begun`). Two calls of the order come in that order wherever both come
(`InOrder`), and the second only with the first if whatever asks for the second asks for
the first (`AskedToo`); a descriptor whose address is done has had all it asked for
(`DoneIsHad`). That is `PreparedInTime`. `UdpInv`: each place of the subscriber's buffer
and of the lines printed shows the byte last received there (`Overlaid`); since datagrams
hold no zero bytes, no terminator comes before such a place (`OverlaidText`). The server's
text ends at the terminator behind the datagram (`TakeIs`), which gives
`ImplementsReceiver` step by step.

`Lemmas` has what several proofs need: one addition modulo the ring is a conditional
subtraction (`WrapAdd`, `WrapInc`, ...), counters modulo `SizeMod` (`Shows`, `CountUp`,
`CountDown`), least elements, and induction stated with a set for the predicate
(`SetInduction`), which follows from < being well founded.

Only model-checked:

- liveness (`Terminates`, `DestructorReturns`, `ReachesDisk`, `MainEnds`, `Serves`,
  `DeadDropped`, `MainOutcome`, `TakesAll`): it rests on fairness and so on ENABLED, which
  the prover has no rules for;
- the four findings, each a counterexample of TLC's.

## Plan

1. Done: the modules above, their runs, and the proofs of all safety and action
   properties.
2. Abstract specifications of RingBuffer (a queue that forgets) and of TCPServer (a
   request and answer service), with the refinements.

## Not modelled

Time formatting (`time_utils.h`): pure conversions. `getIfaceIP`: a
lookup. Assembly and attribute notes, build files. Wording and layout of what the
programs print. Cache and timing effects, which are what the repository is about, but not
what these properties are about.
