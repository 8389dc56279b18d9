# TLA+ models of restful-server

`restful-server` is a collection of small C and C++ servers around one idea: a
single thread, one edge-triggered (`EPOLLET`) epoll instance, and a handler per
kind of event. Beside them stand experiments with the non-blocking MariaDB
client API, a growable buffer, callbacks for an HTTP parser, and tests of a
thread pool and of a lock-free queue.

This directory models the program's own logic in TLA+, checks it with TLC on
small instances, and proves all but one of the invariants of those runs with
TLAPS, most of them for every value of the constants, the rest under named
conditions. `PROJECT.json` says which lines each definition stands for.

To check one run: `tlc -workers 2 -config MCEcho.cfg MCEpollServer`.
To check the proofs: `tlapm EpollServerProofs.tla`, and the same for the other
modules whose names end in `Proofs`.

## 1. Inventory

Paths are relative to the root of the repository.

### The epoll echo server: `src/server-3.c`

* **State.** The epoll instance `efd`; `events[MAXEVENTS]`, the batch being
  handled; `client[]`, a global array indexed by descriptor, each element with
  a buffer `data` and the length `data_len` of the last request; the counters
  `read_cnt` and `write_cnt` of the handler that runs.
* **Operations.** `epoll_wait`; per event one of: `accept` and register for
  `EPOLLIN`; `recv_sock_data`, then re-arm for `EPOLLOUT` or close;
  `send_sock_data`, then re-arm for `EPOLLIN` or close.
* **Interaction.** With the kernel only. Requests and answers of one connection
  alternate through `client[fd]`.
* **Hard.** Clients write, read, shut down and reset between any two system
  calls; an edge of an `EPOLLET` descriptor is announced once; events of one
  batch grow stale while others are handled; descriptors are reused;
  `send` may take part of an answer or none of it.
* **Correct when** no readable or writable connection is left unattended, a
  client gets back its own bytes in order and without a gap, only connections
  that ended are closed and all of those are, the buffer holds every request,
  and no client makes the process exit.

### The echo server with a database query: `src/server-4.c`

The loop of `server-3.c` with two calls in front of every `recv_sock_data`: an
`accept` on the listening socket whose result is dropped, and `mysql_doit`,
which opens a connection, runs `SHOW STATUS` through the non-blocking MariaDB
API and waits for it with `poll`. Hard: the only thread waits for the database
between an event and the `recv` it announced; the second `accept` competes with
the one of the listening socket's event; every failure of the database ends
the process. Correct when the guarantees above survive both.

### Asynchronous MariaDB loops: `src/mysql.c`, `src/mysql_if_asyn.c`

`waiter[]`: per connection a state (`QUERY_CONT`, `RES_CONT`, `ROW`, ...), the
status the library waits for, a result set and a row. One epoll loop resumes
the waiter whose socket has an event. `mysql.c` puts the state machine into
`mysql_query_loop`, `mysql_if_asyn.c` has it inline. Hard: the order of events
of different waiters, operations that finish at once against operations that
wait, errors in the middle of the chain, results freed once and not used
afterwards, the signal handler `waiter_destroy`. Correct when every waiter's
query is finished, with its own connection and events, its result freed once.

### Sequential MariaDB clients: `src/async_example.c`, `src/mysql_while_asyn.c`, `src/mysql2.c`

The same start / wait / continue protocol run to its end by one caller;
`mysql_doit` of `server-4.c` is another of the kind. What matters is that a
continuation follows a pending operation only, what an interrupted `poll` is
taken for, and that results are freed once.

### The HTTP epoll servers: `src/server-2.c`, `src/bak/server-4.c`, `src/bak/server-5.c`

Earlier servers with the same loop, in which one buffer of `main` serves all
connections; the two in `bak` hand requests to an HTTP parser, and `server-5.c`
calls `accept` before every read and drops the result. Hard: what the buffer
holds when a second connection was read before the first is answered; lengths
taken with `strlen`; what remains to be sent after a partial send. Correct when
an answer is one client's request and not a mixture, a connection is closed
only when its client ended it, and no wakeup is lost.

### The callbacks of the HTTP parser: `dependencies/message.h`

`messages[]`, `num_messages`, per message a list of at most `MAX_HEADERS`
headers and the last callback that ran. Correct when header names and values
pair up however the input was cut and whoever's requests come in between. The parser itself (`http_parser.c`, `.h`)
is third-party code.

### The buffers: `include/buffer.hpp`, `src/buff_char.h`

An array of pointers to chunks (`arena`, `arena_cnt`, `arena_cur`); `append`
copies a chunk and grows the array when it is full, `data` concatenates,
`destroy` frees. Correct when the contents are what was appended, no slot
outside the array is touched, and nothing is used after it was freed.

### The blocking server and client: `src/server-1.c`, `src/client.c`

The server reads to the end of the connection before it answers; the client
sends a line and waits for the answer. Hard: each may wait for the other;
`strlen` of a buffer that is never cleared, filled with what clients send,
decides what the answer is.

### The queue test: `test/src/boost_queue_test.cpp`

Producer and consumer threads, a lock-free queue, two counters and a `done`
flag, which `main` sets between joining the producers and the consumers.
Hard: every interleaving. Correct when every item pushed is consumed once
before the program reports its counts, and it gets there.

### The demonstration of epoll: `epoll.c`

Binds the first address it can, accepts until the backlog is empty, reads each
readable connection until nothing is left and writes it to standard output.
Hard: what happens between the last call of a loop and the next `epoll_wait`.
Correct when everything the clients write is printed, in their order, and
connections are closed only after that.

### Smaller parts

`test/src/aio.c` (one asynchronous write), `test/src/threadpool.cpp` (a thread
pool), `src/hmac.c` (a call of a cryptographic library, no state). Files at the
root of the repository with the name of one above are older copies.

## 2. Modules

| module | models |
|---|---|
| `EpollKernel` | the environment of the epoll programs: clients, connections, kernel buffers, descriptors, the epoll instance (external) |
| `EpollServer` | `src/server-3.c`; EXTENDS `EpollKernel` |
| `EchoService` | the abstract specification: what an echo server promises its clients |
| `RestServer` | `src/server-4.c`; EXTENDS `EpollServer`, whose handlers it shares |
| `SharedBuffServer` | `src/server-2.c`; EXTENDS `EpollKernel` |
| `Messages` | the callbacks of `dependencies/message.h` |
| `WebServers` | `server-2.c`, `bak/server-4.c` and `bak/server-5.c`: `SharedBuffServer` with the parser's callbacks |
| `EpollLoop` | `epoll.c`; EXTENDS `EpollKernel` |
| `MysqlClient` | the non-blocking MariaDB interface and its sockets (external) |
| `MysqlLoop` | `src/mysql.c` |
| `MysqlIfAsyn` | `src/mysql_if_asyn.c` |
| `MysqlSequential` | `mysql_doit` of `server-4.c`, `async_example.c`, `mysql_while_asyn.c`, `mysql2.c` |
| `MysqlPrograms` | the three above, and their properties |
| `BlockingServer` | `src/server-1.c` and `src/client.c` |
| `CharBuffer` | `include/buffer.hpp`, `src/buff_char.h` |
| `QueueTest` | `test/src/boost_queue_test.cpp` |
| `AioTest` | `test/src/aio.c` |
| `SmallPrograms` | the four above |
| `EpollServerProofs` | theorems about `EpollServer`: edges, descriptors, amounts |
| `EchoServiceProofs` | the refinement of `EchoService` by `EpollServer`; EXTENDS the former |
| `RestServerProofs` | theorems about `RestServer`; EXTENDS `EchoServiceProofs` |
| `WebServersProofs` | theorems about `WebServers` |
| `EpollLoopProofs` | theorems about `EpollLoop` |
| `MysqlProofs` | theorems about `MysqlPrograms` |
| `CharBufferProofs` | theorems about `CharBuffer` |
| `SmallProofs` | theorems about `SmallPrograms`, `QueueTest` and `BlockingServer` |
| `MCEpollServer`, `MCRestServer`, `MCWebServers`, `MCEpollLoop`, `MCSmallPrograms` | model values, sets and symmetry for TLC |

`WebServers`, `MysqlPrograms` and `SmallPrograms` hold several programs side by
side. Their initial states choose one (`version`, `program`), and a behaviour
is one of that program; the programs share an environment or a library, never
a run.

### The epoll servers

`EpollKernel` is not code of the repository. It is what the servers can tell of
the kernel: `phase`, `wrote` and `drained` are the clients, `taken` and
`echoed` the bytes that passed `recv` and `send`, `backlog` and `peer` the
listening queue and the descriptor table, `interest` and `ready` the
registration masks and the ready list of epoll. `accept` returns the lowest
free descriptor. `epoll_wait` takes descriptors off the ready list;
they come back when an event happens that concerns their mask, or when
`epoll_ctl` finds them ready. A descriptor that is closed leaves the instance.

`EpollServer` has one action per system call, with the code up to the next one:

| code | actions |
|---|---|
| `epoll_wait` | `EpollWait`, `EpollWaitFails` |
| the branches of the loop over the batch | `HandleListen`, `HandleListenFails`, `HandleIn`, `HandleOut` |
| `recv_sock_data` | `RecvSome` (`recv` returned bytes), `RecvEnds` (EAGAIN, FIN, error) |
| `send_sock_data` | `SendSome` (`send` took bytes), `SendFails` (EAGAIN, error) |
| `epoll_ctl` after either, `close` | `RearmOut`, `RearmIn`, `CloseClient` |

`pc` is the place in the loop, `cur` and `cnt` the descriptor and the counter
of the running handler, `batch` what is left of `events[]`, `data` and
`data_len` the fields of `client[]`. Splitting at the system calls is as fine
as needed: between two of them the thread touches only its own memory.

`data` is a function of byte addresses; `At(i)` is the address of element `i`
of `client[fd].data`. In `server-3.c` the elements are pointers
(`void* data[BUFFLEN]`), in `server-4.c` bytes; `Stride` is the size of an
element. The runs use 2 for a pointer: any size other than 1 differs from a
byte in the same way.

`RestServer` puts `MysqlDoit` and the stray `accept` (`AcceptUnused`,
`AcceptNothing`) between `RestHandleIn` and `recv`. The steps inside
`mysql_doit` touch nothing the server shares and are one step here that ends,
fails or (without fairness) never ends; `MysqlSequential` has them one by one.

`SharedBuffServer` has the labels and actions of `EpollServer` and one buffer,
`buff`, which `EnterRead` clears (`memset`) and `RecvSome` fills. `data` is a
copy of `buff` that lives as long as one handler. `DataAt` is what is found
there and behind it: `buff` and `data` are neighbours on the stack of `main`
(lines 117 and 118), and it is up to the compiler whether `buff` comes next
(`BuffBehindData`) or memory of nobody's (`Foreign`). `HandleOut` takes `strlen`
of `data` (`Strlens`): up to a zero of the `memset`, to one that a client sent
(a client in `ZeroWriters`), or, when a request fills `data`, to one anywhere
behind it. `SendSome` sends `DataAt(cnt + k)` for the whole `send_len` each time,
because the code does not reduce it.

In `bak/server-4.c` and `bak/server-5.c` the way from an `EPOLLOUT` event to
`send` leads through the parser: `ParseThenSend`, then `ParseData` for every
piece of the buffer the parser accepts, then `ParseEnds`. `bak/server-5.c` also
has `AioSetUp` and `AcceptStray`. The parser is external. A request is two
pieces, cut inside the name of its header or inside the value, as `CutInName`
says for each client and server; either way one element is handed to its
callback in two parts (`ParseHead`, `ParseTail`). `Follows` says which piece may
come next, `Execute` calls the callbacks in the order in which a piece makes
them due. Each `EPOLLOUT` starts a fresh parser (`http_parser_init`,
`bak/server-4.c:257`), so the rest of a request that came with a later `recv` is
refused, never handed to a callback; two parts of an element follow each other
only within one buffer, with other requests before and after.

`EpollLoop` has one action per system call of `epoll.c`, with its loops around
`accept` and `read` as labels to which the actions return.

### The MariaDB programs

`MysqlClient` is the library as the programs use it. `Start(c, op)` and
`Cont(c, status)` are the possible outcomes of an `X_start` and an `X_cont`:
done, failed, or suspended with what to wait for. An operation waits at most
once for room to write and then once for the reply. `conn` is what library and
server know of a connection: the pending operation, what it waits for, whether
that has happened (`can`), whether the server dropped the connection (`gone`),
and what went wrong on it. `waiter` is the array of the programs.

In `MysqlLoop` the labels are those of `mysql_query_loop`; each `case` and each
`goto` label is an action, and `Return` is the return to whichever of the two
loops of `main` called. `AddEpoll` says whether `main` calls `add_epoll`: it
does not, and `{FALSE}` is the program as it stands; with `{TRUE, FALSE}` the
runs also reach what the state machine does once its descriptors are watched.
In `MysqlIfAsyn` the copies of the chain of calls share an action where they
do the same, and `AtStart` tells them apart where they do not. `slot` is the
index of an event in `waiter_event`, with which the program by mistake also
indexes the waiters. A sequential program is a list of stages, each an
operation, how the program goes on when it is suspended, and whether it looks
at its failure. `CallCont` continues at once, with the status the last call
returned; `WaitAndCont` and `WaitGivesUp` are `wait_for_mysql`, and the wait
inside the library of a blocking call, which gives up only when the connection
has a time-out.

### The small programs

`BlockingServer`: a step per system call of `server-1.c` and `client.c`; clients
outside `Interactive` write, shut down and reset as they like, and write `NUL`
bytes, too. `read` returns any part of what is there. `Lengths` is `strlen`,
which stops at the first `NUL`, or up to `Reach` bytes behind a buffer without
one. `CharBuffer`: a step per call of `append`, the constructor and `destroy`; a
slot of `arena` is a chunk, `NULL`, what `realloc` left there, or a pointer to
what was freed. `size` and `data` are folds over the slots, with the offsets and
the `memcpy` of the loops (`NextChunk`) into memory that `Malloc` leaves
unwritten. `QueueTest`: a step per atomic operation of a thread. `AioTest`: a
step per system call of `main`.

Operators commented `mutant` are not part of a specification. Each is a
plausible slip in the definition that follows it, and is there to show that
the properties would notice it.

### The abstract specification

`EchoService` knows neither descriptors nor events: a client is served, asks,
is answered with a prefix of what it wrote, and is let go once it ended. The
refinement mapping (`Service` in `EpollServer`) takes `served` to the
connections that have a descriptor, `asked` to `wrote`, `answer` to `echoed`.

### Abstractions

* A byte is a record of its writer and position, so that a byte which reaches
  the wrong client, twice or too late is told apart. Its value is immaterial,
  except that it may be zero where `strlen` looks (`BlockingServer`, and
  `ZeroWriters` of `SharedBuffServer`).
* For the HTTP servers a request is two bytes, cut inside the name of its
  header or inside its value: the least of which each element can be in parts.
* `EINTR` from `recv` and `send` is retried at once and changes nothing.
* The `write(1, ...)` of `epoll.c` takes all it is given: a short write, which
  the code does not look for, is left out.
* The events of a batch are handled in any order. `recv` returns all that is
  unread, up to the size it is given; `send` takes all there is room for.
* A reset may or may not discard what its client had written before.
* `exit` and `abort` stop a server; what the kernel then does to the
  connections is left out.
* Descriptors are below `MAXEVENTS`, the length of `client[]`. The code
  relies on the host's limit for this, and so does the model.
* The set-up of the listening socket of `server-3.c` and `server-4.c`, before
  the loop, is `KernelInit`, without its error paths.
* What is sent to a database, the contents of a row, and what is printed
  (except by `epoll.c`, where it is the purpose) are left out.
* Memory never runs out.

## 3. The runs

Deadlock is not checked in any run: clients are finitely many and may fall
silent, and a server with nothing to do waits in `epoll_wait` or `accept` for
ever; the other programs end.

| run | instance | shows |
|---|---|---|
| `echo` | 2 clients, 2 descriptors, 2 bytes each, kernel buffers that take every answer at once, `BUFFLEN` 3 | `server-3.c` implements `EchoService` with its progress: every byte of an accepted client is answered, every ended connection closed. It keeps every wakeup and never exits. |
| `echo_tight` | 2 clients, 1 descriptor, 3 bytes each, 1 byte of kernel buffer, `BUFFLEN` 2, one event per batch, failing calls | Requests as large as the buffer fit, only ended connections are closed, and, when clients read, all of these are. `IInv`, the invariant of the proofs, is checked here too. |
| `rest` | 2 clients, 2 descriptors, a failing database | `server-4.c`: no handler finds nothing to do, in spite of the query and the `accept` between event and `recv`; the safety part of `EchoService`; every byte of a registered connection is answered unless the process exits or the client resets. |
| `web` | 2 clients, 2 descriptors, 2 bytes each, `BUFFLEN` 2, `buff` behind `data` and 1 foreign byte behind that, requests cut in a name with `bak/server-4.c` and in a value with `bak/server-5.c`, failing calls, symmetric clients | The three servers with a shared buffer: no lost wakeup, an answer is never a mixture of two requests, and every header value is stored with its own name although all requests go into one message, cut, and some of them twice. |
| `epoll_loop` | 2 clients, 2 descriptors, 2 bytes each, a `buf` of 1 byte, 2 addresses, failing calls | `epoll.c`: no lost wakeup, not even of the backlog; what is printed of a client is what it wrote; connections are closed after they were read; everything is printed and every end is noticed. |
| `mysql` | 2 waiters, up to 2 rows, 1 round of the repeated queries, interrupted polls, time-outs | The six programs: continuations only of pending operations, no suspended operation unwatched, no crash but after an error nobody looked at, results freed once, every operation ends; with the exceptions each property names. |
| `small` | 2 clients of which 1 runs `client.c` and 1 writes `NUL` too, 3 bytes, a buffer of 2 with the next `NUL` up to 2 bytes behind it; arrays of 0 to 2 slots, 7 appends; 2 producers, 2 consumers, 2 iterations | The blocking server answers with the last read in front, up to its first `NUL`, and gets around to every ended client; the arena grows correctly and `data` copies out what was appended; the queue test loses nothing and ends; the asynchronous write is collected. |

Why these bounds. Two clients are enough for one to arrive while the other is
handled, for both to be in one batch, and, with one descriptor, for a
descriptor to be reused after another client's request. Bytes and buffers are
chosen so that a client can have two requests, a request that fills the
buffer, a request in two parts, and an answer that is sent in two parts. Two
waiters are what it takes to mix up the index of an event and of its waiter.
Seven appends make an array that begins with 0 slots grow twice, to 2 and to
6 slots, and fill it. With `BUFFLEN` 2 and requests of two bytes, the buffer of
`web` is full with every request that came at once, and `strlen` runs into its
copy; whether `buff` comes first or foreign memory is one more case of the same
constant, and the proofs have both. `ZeroWriters` is empty there: with zeros
among the bytes of clients the instance is too large for a run, and the proofs
alone cover them. In `Window` (what a client writes ahead of the echo) and
`SndBuf` (what the kernel holds for a client that does not read) the runs
state what a property needs: outside `echo`'s bounds the server is no echo
service (below).

### Disagreements between the code and what it says

Each of these runs has one property, taken from what the repository says of
itself, and TLC finds a behaviour of the code that violates it.

| run | property | what happens |
|---|---|---|
| `echo_stride` | `EchoIsPrefix` | `client[fd].data` is an array of pointers, so `data+write_cnt` is `write_cnt` pointers further on: the second part of an answer comes from the wrong place. |
| `echo_send_all` | `AllDataSend` | `send` takes a part of an answer, the next one returns `EAGAIN`, because the client makes no room. "we have send it all" (`server-3.c:118`), "all data send" (149): the connection is armed for the next request, and the rest is never sent. |
| `rest_crash` | `StaysUp` | The stray `accept` takes the connection that a listening event of the same batch announces; that event's `accept` then fails and the process exits. |
| `web_crossed` | `ClosesOnlyEnded` | Between a request and its answer another connection is read and the buffer cleared. The answer is empty, `send` returns 0, and the connection is closed as if "client has send FIN". (With `Clients = {c1}` the same instance shows a second way there: `send_len` is not reduced after a partial send, so the next one takes more than is left, which counts as an error.) |
| `small_waiting` | `EveryRecvReturns` | `server-1.c` answers after the end of the connection, `client.c` ends it after the answer. |

### Seen in the code, without a run

These are plain from the code, or from a bound above, and are left at a remark.

* Because of what `echo_send_all` shows, `echo` has `SndBuf = Window`: there
  every answer is taken at once.
* A request of exactly `BUFFLEN` bytes followed by a shutdown is closed without
  an answer, because the second `recv` returns 0 (`server-3.c:63` and `:88`).
  `echo` therefore has `Window < BUFFLEN`.
* Of two connections that arrive before one `epoll_wait` one is accepted; no
  event announces the other until a third arrives (`server-3.c:254`).
  `EchoService` speaks of accepted connections only.
* In `epoll.c:152` a failing `accept` for want of a descriptor ends the loop;
  nothing announces the rest of the backlog once a descriptor is free. The
  instance of `epoll_loop` has a descriptor for each client.
* The parsers of `bak/server-4.c` and `bak/server-5.c` are never freed, and
  `num_headers` is never reset nor compared with `MAX_HEADERS`: both count up
  over all requests of all clients.
* A request that fills `buff` is not terminated: `strlen` of the servers with a
  shared buffer counts on behind it (`server-2.c:211`). Where `buff` follows
  `data`, the request is sent, and parsed, a second time.
* A header name that was cut stays behind in the last header, and the next
  name, of whatever request, is joined to it (`message.h:107`). `HeadersPaired`
  says that the value that follows belongs to the last of them.
* The answer of `server-1.c` may go on with bytes of earlier requests behind
  what was read last; `AnswerHoldsLastRead` is about what comes first.
* `main` of `mysql.c` never calls `add_epoll`, and `EPOLL_CTL_MOD` of a
  descriptor that was not added fails (`mysql.c:157`): a query that is suspended
  is never continued, while it prints "epoll waiting for somebody."
* `wait_for_mysql` reports an interrupted `poll` as a time-out; "we should
  handle EINTR" says so beside it (`server-4.c:197`, `async_example.c:33`).
  `mysql.c:178` and the programs that spin hand the status of the last call to
  the next as what happened, a time-out included.
* A query that fails leaves no result, and `mysql.c` and `mysql_while_asyn.c` go
  on to fetch its rows; `mysql_if_asyn.c` continues a query on the connection
  numbered as its event (line 344) and may free results again (407 and 79).
  The properties of the run `mysql` name these as their exceptions.
* `buff_char_test.c:22` calls `data` after `destroy`.
* The last wait of `aio.c` (line 65) is for a callback that nothing calls.

## 4. Fairness

`FairSpec` of `EpollServer` and `EpollLoop` is weak fairness of the server as a
whole: one thread, never blocked for good except in `epoll_wait` with nothing
to report, where no server action is enabled either. A failure of `epoll_wait`
itself is not included: if it were, a server with nothing to do would have to
exit, and what it owes would be settled by that. Clients have no fairness:
nothing obliges them to do anything. Only `FairSpecWithReaders` adds that a
client reads what it is sent. `EveryEndNoticed` of `EpollServer` needs it: while
a descriptor is armed for `EPOLLOUT` a shutdown is not reported, so a client
that shuts down and never reads keeps its descriptor for ever.

`RestFairSpec` is the same for the process of `server-4.c`, and includes `MysqlDoit`: it
assumes that a query eventually ends. Without this nothing can be said, since
the only thread waits for it.

No fairness is assumed of one handler or one descriptor against another. That
each is served follows from the loop, which empties a batch before it asks for
the next. (In the runs that check progress of each client `MaxEvents` is at
least the number of descriptors, as 4096 is in practice.)

`FairSpec` of `MysqlPrograms` adds to the fairness of the program that the
database does what a pending operation waits for: a database that falls silent
keeps any client waiting. A poll that gives up is left out of the fairness, so
no operation ends merely because its time must run out. `EveryOperationEnds` is about the client's side,
that it takes notice. `FairSpec` of `SmallPrograms` is weak fairness of each
thread, as the operating system gives it, of the server, and of the kernel
that carries out a write; of `client.c` only the return from `recv` is fair,
since what it does next is up to its user. `EndedIsServed` assumes besides, in
the property, that each client ends its side at some time.

`web` has safety properties only and no fairness.

## 5. What is proved

Every invariant of the passing runs but `DataIsAppended` is a theorem, and so are the three safety
properties that are not invariants: `ClosesOnlyEnded`, `ClosesOnlyRead` and the
refinement `ServiceSafety`. The theorems put no bound on the constants: they
hold for any number of clients, descriptors, events, waiters, rows and threads,
any size of buffers, and failing system calls, under the named assumptions of
the modules and the conditions in the third column.

| module | theorem | states |
|---|---|---|
| `EpollServerProofs` | `Invariance` | `Spec => []IInv` |
| | `TypeCorrect` | `Spec => []TypeOK` |
| | `WakeupsAreKept` | `Spec => []NoLostWakeup` |
| | `RequestsFit` | `Spec => []BufferHoldsRequest` |
| | `HandlersAreNeeded` | `Spec => []NoIdleHandler` |
| | `OnlyEndedIsClosed` | `Spec => ClosesOnlyEnded` |
| `EchoServiceProofs` | `EchoInvariance` | `AnswersAreTaken /\ Spec => [](IInv /\ EchoInv)` |
| | `EchoIsExact` | `AnswersAreTaken /\ Spec => []EchoIsPrefix` |
| | `AnsweredBeforeEnd` | `AnswersAreTaken /\ RequestsAreShort /\ Spec => [](IInv /\ EchoInv /\ EndInv)` |
| | `ServesEcho` | `AnswersAreTaken /\ RequestsAreShort /\ Spec => ServiceSafety` |
| | `ServerStaysUp` | `Spec => []StaysUp`, without faults and with a descriptor for every client |
| `RestServerProofs` | `RestInvariance` | `RestSpec => []RestInv` |
| | `RestTypeCorrect` | `RestSpec => []RestTypeOK` |
| | `RestHandlersAreNeeded` | `RestSpec => []NoIdleHandler` |
| | `RestWakeupsAreKept` | `RestSpec => []NoLostWakeup` |
| | `RestServesEcho` | `AnswersAreTaken /\ RequestsAreShort /\ RestSpec => ServiceSafety` |
| `WebServersProofs` | `WebInvariance` | `WebSpec => []WebInv` |
| | `WebTypeCorrect` | `WebSpec => []WebTypeOK` |
| | `WebWakeupsAreKept` | `WebSpec => []NoLostWakeup` |
| | `BuffIsNeverMixed` | `WebSpec => []BuffIsOneRequest` |
| | `MessageInvariance` | `WebSpec => [](WebInv /\ OneRequest /\ MessageInv)` |
| | `ValuesHaveTheirNames` | `WebSpec => []HeadersPaired`, for an even `BUFFLEN` |
| `EpollLoopProofs` | `LoopInvariance` | `Spec => []LoopIInv` |
| | `LoopTypeCorrect` | `Spec => []TypeOK` |
| | `LoopWakeupsAreKept` | `Spec => []NoLostWakeup`, with a descriptor for every client |
| | `ReadBeforeClose` | `Spec => ClosesOnlyRead` |
| | `OutputIsInOrder` | `Spec => []PrintedInOrder` |
| `MysqlProofs` | `MysqlInvariance` | `Spec => []MysqlInv` |
| | `MysqlTypeCorrect` | `Spec => []MysqlTypeOK` |
| | `ContinuationsFit` | `Spec => []ContinuesPending` |
| | `PendingAreWatched` | `Spec => []PendingIsWatched` |
| | `CrashesFollowErrors` | `Spec => []CrashOnlyAfterError` |
| | `ResultsAreFreedOnce` | `Spec => []ResultFreedOnce` |
| `SmallProofs` | `QueueInvariant` | `QueueSpec => []QueueInv` |
| | `NothingIsLost` | `QueueSpec => []AllConsumed` |
| | `SmallInvariance` | `Spec => []SmallInv` |
| | `SmallTypeCorrect` | `Spec => []SmallTypeOK` |
| | `AnswerIsLastReadToNul` | `Spec => []AnswerHoldsLastRead` |
| `CharBufferProofs` | `BufferInvariant` | `BufferSpec => []BufferInv` |

In all of them each action has a lemma of its own, with one step per conjunct of
the invariant that the action can disturb. What an action leaves alone is
covered by lemmas on frames, what the clients may do at any time by one lemma
(`ClientFrame` and its like), and `PTL` closes the temporal theorems.

### The echo server: edges and amounts

The assumption that matters is `Window <= BUFFLEN`: no client has more bytes in
flight than the buffer holds, which the code assumes in a comment ("for now, we
assume buff no more than BUFFLEN"). The theorems of `EpollServerProofs` hold
with failing system calls, any room in the kernel and any `Stride`.

None of the properties is inductive by itself. `NoLostWakeup` needs to know
what each registration waits for and whose descriptor it is; `NoIdleHandler`
needs what an event that was read from `epoll_wait` some steps ago still
guarantees; both need that an answer is never empty, which is a count of
bytes. `IInv` adds:

* `RegistrationInv`: a registration is for `EPOLLIN` or for `EPOLLOUT` and
  never both, and of a descriptor that has a connection; no two descriptors
  share a connection; nobody is both connected and in the backlog.
* `LoopInv`: at each label, what the handler's descriptor is armed for; that a
  batch names a descriptor once, not the one being handled, and only registered
  ones; that an `EPOLLIN` event, however old, is about a descriptor that is
  still readable.
* `BytesInv`: bytes are written, then taken, then echoed; what a handler or
  a buffer holds is taken and not echoed yet; hence `Window` bounds it, and
  a buffer armed for `EPOLLOUT` is not empty.

`IInv` does not say that a connection with a descriptor is registered:
in `server-4.c`, which keeps it too, the stray `accept` makes some that are not.

### The echo server: the bytes themselves

`EchoServiceProofs` proves the refinement of `EchoService`, every step of
`EpollServer` to a step of the service or a stutter. Two conditions are needed,
both because of what the code does (section 3): `AnswersAreTaken`, that the
kernel buffer holds all that a client is ever sent, since a second `send` would
start at the wrong address and one that finds no room gives the answer up; and
`RequestsAreShort`, `Window < BUFFLEN`, since a request that fills the buffer
with the FIN behind it is closed without an answer. The run `echo` meets both;
`echo_stride` shows what happens without the first.

`EchoInv` says of bytes what `BytesInv` says of amounts: what a client was sent,
then what the buffer of its descriptor still holds for it, is what was read of
it, in order and without a gap. `EndInv` adds that a connection about to be
closed after a shutdown is settled. With them, `RecvSome` and `RearmOut`
stutter, `SendSome` is an answer, `CloseClient` lets a client go.

`ServerStaysUp` needs a descriptor for every client, as many as `Fds`, and no
faults: a counting argument (descriptors in use belong to different clients)
gives `accept` a free one, and `ListenInv` gives it a connection, because only
one `accept` belongs to each event of the listening socket.

### The server with the query

`RestInv` is `IInv` and `BeforeRecv`: while a handler is in `mysql_doit` or in the
stray `accept`, its descriptor is armed for reading and readable, so the `recv`
behind them finds what the event announced, however long the query takes. With
it the lemmas of the echo server apply to the steps the two programs share, and
the steps of their own touch nothing the refinement sees but a connection more.
`StaysUp` does not hold, as `rest_crash` shows.

### The servers with a shared buffer

One invariant per question. `WebInv` is about descriptors and edges, as
in the echo server, with a weaker claim about old events: here they may be stale
in every way but their registration, and the proof of `NoLostWakeup` does not
need more. `OneRequest` says that the buffer is empty when a first `recv` fills
it and that a second has no cell left to fill, so it never holds parts of two
requests. `MessageInv` is about the parser: what it keeps of every header, of the
one it goes on with, and of the place in a request the parser has reached. A
header without a value has a name of pieces that began a name and were cut; the
last header has no value exactly while `last_header_element` is `FIELD`; in the
middle of a request, the last header ends with the piece the parser has just
been through. `WebAssumption`, an even `BUFFLEN`, is needed because a request has
two pieces in the model: an odd buffer could be full within one, and what lies
behind it would be taken for the rest. `MaxBytes <= BUFFLEN` is the assumption of
the code's comment. The theorems hold for any `ZeroWriters`, any `Reach`, and
with `buff` behind `data` or not.

### epoll.c

`LoopIInv` is smaller than that of the servers, since a descriptor is
registered for `EPOLLIN` as long as it is open. The part of `NoLostWakeup` about
the backlog is `BacklogInv`, which needs a descriptor for every client: an
`accept` that fails for want of one ends the loop that should empty it.
`PrintedInOrder` is inductive together with `LoopIInv`, because between `read`
and `write` nothing but the bytes read is in `buf`.

### The MariaDB programs

One invariant, `MysqlInv`, for all six programs. It says that a program and
the library stay in step:

* `ControlInv`: which labels belong to which program, and where a batch of
  events may be left.
* `ConnInv`: the status the program keeps of a waiter is what the
  library waits for on its connection. For `mysql_if_asyn.c` this holds until it
  continues the query of the waiter whose number is that of the event
  (`crossed`).
* `HandlerInv`: what the next call relies on; a row is fetched from a live
  result set, or there was an error nobody looked at.
* `TypesInv`, `StartInv`: a waiter's type says whether an operation is pending;
  queries are started in the order of the waiters, so that none is started
  twice.
* `WatchInv`: a waiter with a pending operation is watched for what it waits
  for, and is ready or in the batch once that has come, except between the
  call that was suspended and the `epoll_ctl` behind it.
* `StageInv`: in the sequential programs, a stage that makes a result set follows
  one that has freed it, and a stage that uses it follows one that made it.

`ContinuationsFit` needs more, for the sake of `mysql_if_asyn.c`: `SyncInv` says
that, until a query is crossed, a waiter whose type says that an operation is
pending has one, and that waiters whose turn in the first loop is still to come
have the type they began with. So only the fetch of rows is left to come out of
its order.

The properties follow, with the exceptions each of them names.

### The queue test

`AllConsumed` is a matter of counting. `Conservation` says that every item that
was counted by a producer is counted by a consumer, in the queue, or in the
hands of one thread; each action moves one item from one place to the next,
which the lemmas on the cardinality of a set with one element more or less
turn into arithmetic. `OrderInv` says why nothing is left when `main` has
joined all threads: `done` is set after the last push, and a consumer ends
only when it has found the queue empty after that. The only assumptions are
finitely many threads and at least one consumer.

### The blocking server

`AnswerHoldsLastRead` is about a buffer that is never cleared and bytes that may
be `NUL`. The invariant adds that between the last `read` and `send` the buffer
begins with what was read, so that `strlen` finds the first `NUL` of that or, if
it has none, something behind it; and that each connection is served once, so
that an answer is not touched after it was sent. `SmallInv` puts the invariants
of the small programs side by side, since a behaviour of `SmallPrograms` is one
of one of them.

### The buffers

`ArenaInv` says that the array has as many slots as `arena_cnt` counts, that
those below `arena_cur` are chunks and all others `NULL`. It holds when the
array grows because the `memset` behind `realloc` clears `arena_cnt + 2` slots
from the old end, exactly what `2 * (arena_cnt + 1)` adds (lemma `GrownIs`),
for an array of 0 slots, too. `BufferInv` adds that the chunks are what was
appended, in order.

### Only model-checked

* Liveness, which is out of the prover's reach: `ServiceProgress`,
  `EveryEndNoticed`, `WatchedIsServed`, `EverythingPrinted`, `EveryOperationEnds`,
  `EndedIsServed`, `QueueTestEnds`, `WriteIsCollected`. The safety part of
  `ServiceProgress` is `ServesEcho`.
* The runs that show a disagreement: a counterexample needs no proof.
* `DataIsAppended`: the copying loop of `data` is a fold over the chunks, and what
  a fold computes takes an induction the prover cannot do. What is proved
  (`BufferInvariant`) is that the loop is given the right chunks.

Worth proving next: the conditions under which the properties of the violated
runs do hold (`ClosesOnlyEnded` of the shared buffer with one client at a time,
`EchoIsPrefix` with a `Stride` of 1 and any kernel buffer), and what the
sequential programs promise about the order of their stages.

## 6. Not modelled

* `dependencies/http_parser.c`, `.h`: third-party code, unchanged here. What it
  calls, and when, is in `Messages`.
* `test/src/threadpool.cpp`: it does not compile (line 46 copies a
  `std::thread`), so there is no behaviour to model.
* `src/hmac.c`: one call of a library and a print, no state.
* The code behind the last wait of `test/src/aio.c`, which is never reached.
* Dead code: the branch of `MYSQL_SOCK_QUERY_START` and `mysql_query_loop` in
  `mysql_if_asyn.c`, the continuation of `mysql_free_result` in `mysql.c`.
* The test programs of the buffers are particular sequences of the calls
  `CharBuffer` models, and have no module of their own.
