# A verification project for pvos

The repository is a set of operating-systems exercises: small C++ programs about
processes, signals, pipes, shared memory, semaphores, message queues and sockets.
Each directory is a system of its own; what they share is the kernel. This project
models those in which several processes or threads work on the same state, checks
the models with TLC on small instances, and proves some of the results with TLAPS
for every instance.

Modules are translated from the source. `PROJECT.json` names, for every definition
that models code, the lines it stands for.

## 1. The system

| Component | State | Operations | What is hard about it |
|---|---|---|---|
| POSIX crate: `semaphores-pr/crate.cpp`, `producer.cpp`, `consumer.cpp` | the crate (`state`, `capacity`, `data`) and three semaphores, both in shared memory | pack an item; wake a consumer when full; print all, give the places back | two waits one after the other; places given back while the crate is still read; processes killed inside |
| System V crate: `vcrate.cpp`, `vproducer.cpp` | the same crate; a set of three semaphores | the same, with `semop` on two semaphores at once | all-or-nothing waits; no undo for a killed process |
| Message-queue crate: `msgq/main.cpp` (POSIX), `v_msgq.cpp` (System V), `custom_queue.cpp` (own queue) | a queue of tokens, one of orders, one of items | pass the token from producer to producer, send an order when full, return the token | mutual exclusion by a message; queues that block; queues that outlive the programs; several `init` |
| Shared-memory queue: `MQueue` in `custom_queue.cpp` | a ring with `front` and `rear`, two counting semaphores and a mutex | `send`, `recv`, `init_queue` | four semaphore operations per call; slots reused; creation by two processes at once |
| Forking server: `socksrv/socket_srv.cpp` | listening socket, a process per client | accept, fork, serve, quit | inherited descriptors; one console for all processes; a child that falls back into the accept loop |
| Threaded server: `socket_srv_thread.cpp` | descriptors, a thread per client | accept, `client_comm`, quit | the descriptor is handed over through a shared variable; threads that cannot be created; one console for all threads |
| Multiplexing server: `socket_srv_mplex.cpp` | a vector of poll entries, a static buffer | one loop over everything | an uninitialised poll entry; order of service; a buffer shared by clients |
| Socket client: `socket_cl.cpp` | its socket | send numbers, show the verdict | message boundaries |
| Line reader: `readline/main.cpp` | an inner buffer that outlives the call | `readline_tout`, and a loop that prints what it returns | timeouts inside a line; lines as long as the buffer, and lines cut by the inner one |
| FIFO programs: `readline/producer.cpp` | a named pipe | producers write lines, a consumer reads them with `read_line_select` | several writers; timeouts; the end of the pipe, and producers that come after it |
| Process file reader: `pipe-threads-cv2/process_file_read.cpp` | a pipe with one byte, the baton | a child per file, printed when it has the baton | who holds which end; a child that fails keeps the baton; writing to a pipe without a reader |
| Thread file reader: `threads_file_read.cpp` | a buffer that grows | `read_file` in a thread per file | buffer sizes |
| Limits: `threads_max.cpp`, `procesy_max.cpp` | counters | create until refused | none: a loop each |
| Pipeline: `pipe-redirect-pr2/main.cpp` | a pipe | `ls \| tr` | the reader ends when all write ends are closed |
| Child pools: `cv1-fork/main.cpp`, `signals/child_party.cpp` | the number of running children | fork, collect | a handler that interrupts a read-modify-write; one signal for several children; forks that fail |
| Stop and continue: `signals/stopping.cpp` | a table of children | fork, stop, continue, kill all | the pid of a fork that failed |
| `signals/main.cpp`, `helicopter.cpp`, `print.cpp`, `exec_test.cpp` | the screen | alarm and read; animation; one `exec` | nothing that several actors share |

The components do not call each other, with three exceptions: the programs of
`semaphores-pr` share memory and semaphores; those of `msgq` share queues, and the
main program of `custom_queue.cpp` runs its protocol on three `MQueue`; `socket_cl`
talks to any of the servers.

### What makes each component correct

* A crate is packed in the order of the `items` array, handed over whole, printed
  once, and packed again only when the last item is out. No producer writes
  beyond the capacity or over an item that was not printed. A woken consumer finds
  a full crate. Batch follows batch as long as somebody runs on both sides.
* The queue is FIFO and bounded; its semaphores agree with its contents whoever is
  killed; no wake-up is lost.
* Tokens are neither made nor lost by the protocol; an order is sent only for items
  that are in the crate; the crate is never worked on by two.
* A server reads what its clients send, keeps each connection with the process or
  thread that serves it, gives descriptors and the port back, and ends on `quit`.
* A queue that was once created is found by later processes as the earlier ones left it,
  and no process uses what another has not finished creating.
* A line reader hands out each line as it was written, however the bytes arrive; what is
  cut by a timeout or by the buffer is cut only there, and it writes inside its buffers.
* The programs on a pipe end, all of them, and print everything they were to print, in turn.
* What a parent records of its children is true, and every child that ends is collected.

The hazards in `PROJECT.json`, each at its line, say what can go wrong with these, and
which property would notice.

## 2. Modules

| Module | Models | Depends on |
|---|---|---|
| `Crate` | abstract: what every crate program promises | |
| `CrateShm` | the crate in shared memory and the code both semaphore versions run on it; processes as program counters; kills | `Crate` (refinement) |
| `PosixCrate` | `crate.cpp`, `producer.cpp`, `consumer.cpp` | `CrateShm` |
| `SysVCrate` | `vcrate.cpp`, `vproducer.cpp` | `CrateShm` |
| `MsgqCrate` | the token protocol of all three programs of `msgq` | `Crate` (refinement) |
| `BoundedQueue` | abstract: a bounded FIFO queue | |
| `RingQueue` | `MQueue::send` and `MQueue::recv` | `BoundedQueue` (refinement) |
| `Sockets` | what reads and writes do at the server's end of a connection (kernel) | |
| `ForkServer` | `socket_srv.cpp` | `Sockets` |
| `ThreadServer` | `socket_srv_thread.cpp` | `Sockets` |
| `MplexServer` | `socket_srv_mplex.cpp` | `Sockets` |
| `Servers` | the forking and the multiplexing server, one at a time, for their safety | `ThreadServer` (extended), `ForkServer`, `MplexServer` |
| `QueueInit` | `init_queue` by processes that come at any time, and the calls that follow | `RingQueue` (extended), `BoundedQueue` (refinement) |
| `LineStream` | abstract: what a line reader makes of a stream of bytes | |
| `ReadLine` | `readline/main.cpp` | |
| `ReadLineSelect` | `readline/producer.cpp` | |
| `LineReaders` | the two readers, one at a time | `ReadLine`, `ReadLineSelect`, `LineStream` (refinement) |
| `Pipe` | a pipe and who has which end of it open (kernel) | |
| `Pipeline` | `pipe-redirect-pr2/main.cpp` | `Pipe` |
| `BatonPipe` | `process_file_read.cpp` | `Pipe` |
| `FileGrowth` | `read_file` of `threads_file_read.cpp` | |
| `Waiting` | children as the kernel keeps them, `fork` and `waitpid` | |
| `ForkPool` | `cv1-fork/main.cpp` | `Waiting` |
| `ChildParty` | `signals/child_party.cpp` | `Waiting` |
| `Stopping` | `signals/stopping.cpp` | `Waiting` |
| `Families`, `MCFamilies` | the six programs above, one at a time; sizes of files | `Pipeline`, `BatonPipe`, `FileGrowth`, `ForkPool`, `ChildParty`, `Stopping` |
| `CommonFacts` | lemmas on counting, queues, induction and sums that the proofs share | |
| `PosixCrateProofs`, `SysVCrateProofs`, `LineReadersProofs` | theorems about the module in the name | that module, `CommonFacts` |
| `MsgqCrateProofs` | theorems about `MsgqCrate`, and one about `Crate` | `MsgqCrate`, `CommonFacts` |
| `QueueProofs` | theorems about `RingQueue` and `QueueInit` | `QueueInit` (which extends `RingQueue`), `CommonFacts` |
| `ServerProofs` | theorems about the three servers | `Servers` (which extends `ThreadServer`), `CommonFacts` |
| `ChildrenProofs` | theorems about the programs of `Families` | `Families`, `CommonFacts` |
| `MCMsgqCrate` | `MsgqCrate` with the queue limits of the three programs | `MsgqCrate` |

`LineReaders`, `Families` and `Servers` do not compose programs that run together: each puts
programs of one kind side by side, a variable that never changes says which of
them runs, and one property is asked of several. `Servers` extends `ThreadServer`, whose
own specification stays what it was, so that the theorems on all three are in one module.

Operators under a comment that begins with "As if" are variants of the definition
that follows them: a dropped wait, a forgotten reset, a wrong order. They are used
nowhere in the specifications; each shows of one property that it would notice
that slip.

### State and actions

**`CrateShm`, `PosixCrate`, `SysVCrate`.** The shared memory is `state` and `data`; each
process has its program counter `pc`, a producer its `buf`, a consumer its loop variable
`i`. Every statement that touches a semaphore or shared memory is an action:
`WaitSlot`, `ProducerWaitMem`, `FormatItem`, `StoreItem`, `BumpState`, `CheckFull`,
`ProducerUnlock` for a producer, `WaitFull`, `ConsumerWaitMem`, `CopyItem`, `ResetState`,
`ConsumerUnlock` for a consumer. `vproducer.cpp` takes two semaphores in one `semop`, and
so `ProducerDown`, `ConsumerDown` and `ConsumerUp` are single actions. `out` is what has been
printed of the current batch; it is the only variable the code does not have. A process
is started at any time (`Attach`) and may be killed before any statement (`Kill`): it keeps
the semaphores it has taken. An item is the pair of its producer and its index in
`items`.

**`MsgqCrate`.** The token queue holds the `curidx` of each token, the order queue one message
per full crate, the crate queue the items. An action is one queue call with the
statements up to the next. A process that was started with `init` sends a token first.
The constant `Limits` has one record for each program: how many messages one queue
holds before a send blocks, and how many all three hold together. `limit` is chosen
from it in `Init` and never changes, so one run asks its question of all three programs.
`MCMsgqCrate` gives the values: twice the capacity for POSIX queues with default
attributes (10 messages, 5 places), `Capacity` for `custom_queue.cpp`, and for System V,
where one queue carries all three types, the least limit with which the protocol
does not get stuck.

**`RingQueue`.** A call of `send` is `SendWaitFull`, `SendLock`, `Insert`, `AdvanceRear`, `SendUnlock`,
`PostEmpty`; of `recv` `RecvWaitEmpty`, `RecvLock`, `CopyOut`, `AdvanceFront`, `RecvUnlock`,
`PostFull`. Any process makes any call; one may be killed between any two of them. The
buffer and the argument of a call are forgotten when it returns.
`MsgqCrate` uses queues atomically; `RingQueue` is what justifies that for
`custom_queue.cpp`, whose `send` and `recv` it shows to implement `BoundedQueue`.

**`ForkServer`, `ThreadServer`, `MplexServer`.** The console is a sequence of lines nobody has read,
the port a sequence of clients nobody has accepted. A client's input is a
sequence of messages; a read takes all of it and judges it as one message, as `read` does
with what TCP has put together. A message is `"numbers"` or `"close"`, a line is `"quit"`
or another one. In `MplexServer` a message can also be `"prefix"`, one to four letters with
which "close" begins: `read` does not terminate the static `l_buf`, and so it leaves a
"close" that is there as it is (`ReadsClose`); any other message changes the word. `poll` and the reads that follow it are separate actions, and a read
of the console waits when another process or thread has taken the line that `poll` saw.
In `ForkServer` each connection has the set of processes in which it is open
(`holders`), and so has the port (`listeners`); `Fork` copies the parent's. In `ThreadServer`
descriptors are numbers, the lowest free one is given out, and `Start` reads
`l_sock_client` whatever is there by then; a thread that `Accept` could not create is `"failed"`, and
`pthread_detach` of a handle nobody has set does nothing or ends the server. In `MplexServer` one turn of the loop is `Poll`,
`Console`, `Accept` and a `scan` that serves the first marked client; the mark of a client
accepted in that turn is a free choice, since its `revents` is never set. `overtaken` in
`ThreadServer` is the one variable the code does not have: an accept has overwritten
`l_sock_client` before the last thread had copied it. `Sockets` says
what becomes of an end of a connection: input that has arrived can always be
read; then a closed connection ends the input, a reset one fails once, and a write to
one that is broken raises SIGPIPE, which ends the process.

**`QueueInit`.** A process goes through `init_queue` one system call at a time:
`OpenMemory`, `CreateMemory`, `SizeMemory` and `Map`, then `OpenFull`, which decides whether
the semaphores are created (`CreateFull`, `SetFull` and so on: `sem_open` makes them with value 1
and a `sem_init` sets them) or opened (`OpenEmpty`, `OpenMutex`, whose results nobody
checks). Then it calls `send` and `recv`: `Call` takes the actions of `RingQueue`, which this
module extends; its own specification is `SpecFromStart`. `got` has the semaphores a process has really opened; a statement that needs
another one, or memory without its size, is a `Fault`, which ends the process. `raced` is
the one variable the code does not have: some process has been in `init_queue` while
another was creating, or after one was killed creating.

**`ReadLine`, `ReadLineSelect`.** A byte is its position in the input, so that a line handed out says
which bytes it is made of; `data` says only which of them are newlines. A `read` gives any
number of the bytes that are there, up to the size of the buffer. `ReadLine` keeps the
inner buffer as `readpos`, `read_bytes` and `offset`, with one action for each way through the loop of
`readline_tout`; what is copied is `out`, and `Terminator` where the 0 goes. In
`ReadLineSelect` a producer writes whole lines, the last producer may leave and
another come, and the consumer reads byte by byte. Both have `result`, what the call has
returned, which `LineStream` sees, and `Taken`, how much of the input was used up when the
call began.

**`Pipe`, `Pipeline`, `BatonPipe`, `FileGrowth`.** An end of a pipe is the set of descriptors open on it;
`fork` copies those of the parent, `dup2` and `close` move and remove one, and `exit` and death
remove all. A read waits for a byte or for the last writer to go, a write for room, and
it raises SIGPIPE when there is no reader. `Pipeline` has parent, `ls` and `tr`, each with its own
`pc`; `ls` writes any number of names up to `MaxNames`. In `BatonPipe` a file is up to
`MaxLines` lines and perhaps a rest without a newline. What a child prints stays in its stdio
buffer (`unflushed`) until it exits; when the output is a terminal each line leaves
the buffer at its end, and only the rest waits for the exit. `output` is the sequence of what
was written out, each piece a `Text` that says whose it is and up to where in the file; `turns` is the
order in which the baton went round, the one variable the code does not have.
`FileGrowth` is one thread: a turn of the loop is `Read`, `Grow` and `Copy`.

**`Waiting`, `ForkPool`, `ChildParty`, `Stopping`.** A child is running, stopped, a zombie or collected.
`ChildParty` splits `running_childs++` into `Load` and `Store`; `Interrupt` lets the handler in between any
two actions of `main`, and `pending` is one bit, as it is for the kernel. `failed` and `lost`
count forks that failed and decrements that a `Store` has overwritten; the code has
neither. In `Stopping` a signal sent to the pid of a failed fork, -1, reaches all
children.

## 3. Runs

Every run finishes within about three minutes with two workers. Deadlock is not
checked: all systems may stop legitimately, when everybody has been killed or
nobody types, connects or sends anything more. Whether they stop wrongly is what
their liveness properties ask.

| Run | Question | Instance |
|---|---|---|
| `posix` | exclusion, bounds, wake-ups, places; refinement of `Crate`; batch after batch | 3 producers, 2 consumers, capacity 3, 1 kill |
| `sysv` | places, refinement of `Crate`, batch after batch | the same |
| `msgq` | tokens, orders; refinement and progress for one `init` | 2 producers, 2 consumers, capacity 3, the limits of the three programs, up to 2 inits, 1 kill |
| `msgq_reinit` | violated: see findings | 2 producers, 1 consumer, capacity 3, limit 6, 3 inits |
| `ring` | semaphores agree with the contents, refinement of `BoundedQueue`, no lost wake-up | 3 processes, 2 messages, 2 slots, 1 kill |
| `fork` | connections and port released; clients accepted and read | 2 clients, 1 line, 1 message each |
| `threads` | own thread for every client unless overtaken or not created; what a late thread can pick up; `quit`; input read | 2 clients, 1 line, 1 message each |
| `mplex` | service in turn; `quit` | 2 users, 2 lines |
| `servers` | forking: no foreign connection; multiplexing: waits only for a new client, drops only on request or for first letters of "close" after another's | 2 clients, 2 lines, 1 message each |
| `qinit` | crashes and a broken queue only after a race in `init_queue`; refinement of `BoundedQueue` | 2 processes, 2 messages, 2 slots, 1 kill |
| `lines` | refinement of `LineStream`; place of the terminator; lines of the pipe whole; all input taken | every input of up to 7 bytes, buffers of 3 |
| `families` | those with a pipe or threads: everybody ends, nothing printed is lost, printed in turn; those with records: records are exact, every child that ends is collected | 3 names and a pipe of 2; 3 files of up to 2 lines and a rest; one file of each size near a boundary, up to 9255 bytes; 5 forks, `process_count` up to 2 |

**What the passing runs show.** In `posix`, a process killed in its critical section stops
the others but never lets one of them see or print a crate that is not whole
and in order; killed anywhere else it takes at most the place it had claimed or the
wake-up it had received. In
`sysv`, where a place is claimed together with the memory, `PlacesConserved` is stronger:
no place is ever lost outside the critical section. `msgq` shows that a token is as
good as a lock as long as there is one, and what survives a second one: tokens are still
neither made nor dropped and an order is still covered by items in the crate. `ring` shows
that two semaphores posted outside the mutex still count the same queue from both
ends. The server runs state what holds together with the ways in which it does
not: `OneThreadPerClient` and `InputIsRead` name the accept that overtakes a thread and the
thread that could not be created, `DroppedOnRequestOnly` the first letters of "close"
that leave another client's word as it was, `InputIsRead` and `Accepted` name a process that waits for a line another has
taken, `QuitHonoured` the turn in which `quit` is overwritten, `BlockedOnNewOnly` the
client whose mark was never set.

`qinit` separates what `init_queue` does well from what it does not: a process
that comes after the first has finished finds a queue with everything killed processes
left in it, and one that comes earlier may miss a semaphore. `lines` shows that
the two readers, one with a buffer of its own and one without, implement the same
stream of lines: a line is cut only after a timeout, by a full buffer or at the end of
the input, and what is handed out then is a part of it.
`FifoLinesWhole` is why the consumer of the pipe does not pay that price: it holds as
long as one `write` is one line. `families` names the only ways in which the programs on a
pipe hang (a lost baton), lose output (the last child of the baton) or print out of turn
(the rest of a file after its last newline), and accounts for every unit by which `running_childs` differs from the number of
children.

**Why the bounds are enough.** The crate programs treat processes of a role alike, so two
of each role give every pair that can interfere, and a third producer lets one wait at each of
the two semaphores while another is inside. Capacity 3 has a first, a middle
and a last item. One kill reaches every place at which a semaphore or a token can be
lost; the second would only find less left. In `msgq`, two inits are the least at which
there are two holders; 3 inits against a limit of twice the
capacity is the smallest case in which unfinished batches fill the crate, the proportion
of the code (5 and 10). Two slots make the ring wrap, three processes
fill both sides of it. Two clients are what it takes to share a descriptor, to
inherit one, to race for a line or to be passed over; one line is enough for two
readers to race for it and one message for a client to be read or passed over.

In `qinit` two processes are enough for one to create and one to come at any moment; the messages and slots of `ring` are kept. Inputs of
seven bytes and buffers of three have lines shorter than, as long as and longer than the
buffers, at every place of them, and more than two fills; both buffers are 128 bytes in the code,
and equal here. Three files have a first, a last and one between, two lines one that is not the last; three
names overfill a pipe of two. Files are read with the sizes of the code (512 and
1028), up to the third growth. Five forks, and at the bound `fork` is no longer
tried (`ChildParty`) or fails and moves no counter (`ForkPool`).
`MaxKills`, `MaxInits`, `MaxLines`, `MaxSends`, `MaxLen`, `MaxNames`, `Sizes`, `MaxForks` and
`MaxArgument` are the only bounds on behaviour; everything else, such as `Files`
and `Room`, is a size of the system. No symmetry is used:
it would not be sound for the temporal properties most runs check.

**Fairness.** Weak fairness of each running process, thread or, for `MplexServer`, of the
one thread: the kernel schedules what can run, and a wait on a semaphore or queue
that stays possible is granted. No strong fairness is assumed: when several wait on
one semaphore it may always favour the others, and the liveness properties only say that
somebody gets on. Starting or killing a process, typing, connecting, sending and closing
are never fair: nobody has to do them. In `lines` only the reader is fair, whose `select`
ends after two seconds whatever happens; in `families` a pending signal is
delivered, but no child has to end.

### Findings

* **`msgq_reinit`** (`msgq/main.cpp:57`). The queues persist and `O_TRUNC` (line 40) does
  not empty them, so each start with `init` adds a token. With three tokens the producers
  fill the crate queue with unfinished batches, block in `mq_send`, and no
  consumer is awakened, though there are more items than a batch.

More differences between what the programs say and what they do were met while modelling. They
have no run of their own; the property named has the case as its exception, so the
passing run shows that there is no other but those named with it.

* A line `quit` that is read in the same turn as a client's data is overwritten in `l_buf`
  before it is compared (`socket_srv_thread.cpp:311`, `QuitHonoured`), and one that a child of the
  forking server reads ends at most that child (`socket_srv.cpp:312`).
* A child whose connection is over says that it waits for a new client; it has closed the
  listening descriptor and turns round for ever (`socket_srv.cpp:283`, `Accepted`).
* `revents` of a new entry is never set; when it has `POLLIN`, the only thread reads from
  a client that has sent nothing (`socket_srv_mplex.cpp:219`, `BlockedOnNewOnly`).
* A client whose `pthread_create` fails stays connected and nobody ever reads it; the handle that
  is detached then was never set (`socket_srv_thread.cpp:219`, `OneThreadPerClient`, `InputIsRead`).
* A client of the multiplexing server that sends only "c" or "clo" after another's "close" is
  dropped as if it had sent the word: `read` does not terminate `l_buf`, which still holds it
  (`socket_srv_mplex.cpp:243` and `256`, `DroppedOnRequestOnly`).
* The headers of the servers say that only one client is served; all three serve any
  number at once.
* A process that enters `init_queue` while another creates the queue may use a semaphore
  that `sem_open` has not opened (`custom_queue.cpp:100`, `CrashOnlyIfRaced`).
* `readline_tout` writes its 0 one place past a buffer of 128 bytes when a line begins inside the
  inner buffer and ends at its last byte (`readline/main.cpp:124`, `TerminatorPlaced`), and a
  timeout drops what had arrived of a line (line 92, `ImplementsLines`).
* The last child of the file reader writes the baton into a pipe without a reader: SIGPIPE
  ends it, and its file is not printed when the output is a file or a pipe; on a terminal it
  loses what follows the last newline of its file (`process_file_read.cpp:46`, `NothingLost`).
* Any other child passes the baton on before its exit writes out what follows the last
  newline of its file: on a terminal that may come among the lines of a later child
  (`process_file_read.cpp:46` and `52`, `InTurn`).
* `read_file` puts its 0 two places behind the last byte and so outside its buffer for
  files of just the sizes that fill the buffer, or all but one place of it
  (`threads_file_read.cpp:32`, `NothingLost`).
* A fork that fails is counted as a running child for good (`child_party.cpp:79`,
  `cv1-fork/main.cpp:99`), and so is a child collected between load and store; in `stopping.cpp:53`
  its pid, -1, makes a signal reach every process (`RecordsExact`).

## 4. Proofs

Every result below holds for all values of the constants that satisfy the named assumption
of the module; TLC checks that assumption on each run. Every inductive invariant was
checked by TLC as an invariant of the run's instance before it was proved. All the
safety invariants and action properties of the runs, and all refinements, are proved.

| Theorem | Says | Assumes |
|---|---|---|
| `PosixCrateProofs`: `TypeCorrect`, `Exclusion`, `InBounds`, `WokenFull`, `Conservation` | `TypeOK`, `MutualExclusion`, `StoreInBounds`, `WokenOnlyWhenFull`, `PlacesConserved` | `CrateAssumption`: finite sets of producers and consumers, capacity 1 to 9 |
| `PosixCrateProofs`: `Refinement` | `ImplementsCrate` | the same |
| `SysVCrateProofs`: `Conservation`, `Refinement` | `PlacesConserved`, `ImplementsCrate` | the same |
| `MsgqCrateProofs`: `Conservation`, `Coverage`, `Refinement` | `TokensConserved`, `OrdersCovered`, `ImplementsCrate` | `MsgqAssumption`: finite sets of processes, positive capacity, positive queue limits |
| `MsgqCrateProofs`: `BatchInOrder`, `PrintedInOrder` | batches whole and in order: in the abstract crate, and in `MsgqCrate` for one `init` | the same |
| `QueueProofs`: `RingAgreement`, `RingRefinement` | `SemaphoresAgree`, `ImplementsQueue` of `RingQueue` | `RingAssumption`: finite set of processes, positive capacity |
| `QueueProofs`: `Crash`, `Refinement` | `CrashOnlyIfRaced`, `QueueFromStart` | the same |
| `ServerProofs`: `OwnClient`, `Order` | `OneThreadPerClient`, `ServesNoOlder` | `ThreadServerAssumption`: finitely many clients, with names of their own |
| `ServerProofs`: `ForkNoForeignConnection`, `MplexBlockedOnNewOnly`, `MplexDroppedOnRequestOnly` | `NoForeignConnection`, `BlockedOnNewOnly`, `DroppedOnRequestOnly` | `ServersAssumption`: no client is called what the parent, the console or the port is |
| `LineReadersProofs`: `Implementation`, `Termination`, `WholeLines` | `ImplementsLines`, `TerminatorPlaced`, `FifoLinesWhole` | `LineReadersAssumption`: buffers of positive sizes, the inner one not longer than the caller's |
| `ChildrenProofs`: `Records` | `RecordsExact` | `ChildrenAssumption`: any number of forks, a `process_count` not above it |
| `ChildrenProofs`: `Whole`, `Turns` | `NothingLost`, `InTurn` | `PipesAssumption`: positive sizes, a chunk not longer than the first buffer, files shorter than 27 of it |

The capacity of the semaphore crates is bounded by nine because `items` has nine names and
a larger crate reads past them. That the inner buffer is not longer than the caller's
(both have 128 bytes, `readline/main.cpp:36,132`) is what leaves room for a part copied earlier.
The chunk of `read_file` has 512 bytes and its first buffer 1028; were it the other way
round, one tripling could be too little. A file of 27 times the first buffer would make it grow once
more, by the same step. No theorem bounds the kills, the starts with `init`, the
lines typed or the messages sent.

Each proof has the same layout: a lemma for each action (`...Keeps`) with one step per
conjunct of the inductive invariant, `Inductive` that puts them together, `Invariance`
that states it of the specification, and then what follows from it. In a refinement
each action is matched with a step of the abstract module or with a stutter.

### Why the invariants are as they are

**`PosixCrate`.** That a producer inside finds room needs
that it has claimed a place; that claims are bounded needs that places are given back once;
that they are given back once needs that one consumer is woken per full crate; and that
needs exclusion around `state`. The inductive invariant is the conjunction of

* `Types`, `Roles`: the domains, and which statements a process of each role can be at;
* `Memory`: `mem_sem` is at most 1, and 1 only when nobody is inside; at most one is inside;
* `WakeUp`: a full crate has exactly one wake-up: in the semaphore, with one consumer, or
  still to be made by the producer that checks;
* `Draining`: the printed items belong to the one consumer that copies, as many as its
  loop variable says;
* `Places`: offered + claimed + filled = capacity + given back;
* `Packed`: the slots below `state` hold the items of this batch, in order.

In the refinement `BumpState` is `Put`, `CopyItem` is `Take` and `ResetState` is `Finish`.

**`SysVCrate`.** `PlacesConserved` speaks only of states in which nobody is inside. To get
from one such state to the next, `Accounts` says what the two semaphores offer at
each statement inside: a producer has taken its place with the memory, so one is missing
until `state` has grown, and the order to the consumers appears with the `semop` of the
producer that filled the last place. The process inside stands for all others, which is
`Exclusive`.

**`MsgqCrate`.** No lock protects the crate, and with several tokens nothing is exclusive. What
remains true with any number of tokens is an account: the crate holds `Capacity` items for
each order under way, what the consumers at work have left, and as many as each token
says, summed over the tokens in the queue and those in a producer's hands (`Items`).
`OrdersCovered` is a part of it. For the refinement, `OneBatch` says of one token that the
crate is just what it counts, wherever it is; it needs `Items` no more, but
`TokensConserved`, which leaves every other place where a token could be empty. `SendItem` is
`Put`, `TakeItem` is `Take`, and `ReturnToken` is `Finish`. The refinement is claimed only while `inits <= 1`; the finding shows that it
cannot be had for more.

**`QueueProofs`, the ring.** Each of the two counting semaphores is related to the contents by the
calls under way: slots claimed and not filled, filled and not announced, claimed and not
emptied, emptied and not announced. `SemaphoresAgree` is that relation; it is inductive
with `Indices` (from `front` the queue reaches to `rear`, where one of the two may be about
to move), `Exclusive` around the mutex, and `Hands` (who has a message in a buffer). A
slot is never overwritten because a sender inside is itself one of the claims that
the relation counts. `Insert` is the abstract `Send`, though `rear` has still to move,
`CopyOut` is `Recv`, though `front` has, and `PostFull` is `Return`.

**`QueueProofs`, the start.** `StartInv` is `Steady` as long as nobody has raced: at most one
process creates, and its statement says what exists, the memory (`MemoryStage`), the names
of semaphores (`NamesStage`) and their values (`ValuesStage`); what exists in part has
somebody who is still making it, dead or alive (`Makers`); and a process that runs has opened
what it needs (`GotStage`). The ring is `Fresh` until one process comes out of
`init_queue`; from then on `RingInv` holds and every step of a call is a step of the ring
(`Queues`). So the refinement uses the ring's lemmas and adds only that opening a
finished queue changes nothing. `raced` is never taken back, so nothing is to be shown
after a race.

**`ThreadServer`.** `HandOver` adds to `OneThreadPerClient` what holds between an accept and
the thread's first statement: a thread that has not started finds its own client's
descriptor in `l_sock_client`. An accept that would spoil this is the one that sets
`overtaken`. A thread that could not be created takes nothing from the others: its
client keeps its descriptor, which is why `OneThreadPerClient` has that exception and no more. That the accept finds a free descriptor is the pigeonhole principle (`DescriptorFree`):
there are as many numbers as clients, and a client that waits has none. `Table` says without
that condition that `l_sock_client` names the descriptor of the last client
accepted, or one that is closed; `Order` follows from it also for threads that were
overtaken, an action property proved from the invariant and one case per action.

**`Servers`, the forking server.** That no child has another client's connection is not inductive: a child gets
all its parent has. `Held` adds that the parent has a client's descriptor open only
from its `accept` to the `close` after the fork, and only that of the client accepted last.

**`Servers`, the multiplexing server.** `Marks`: while the loop scans, every mark is of a client whose descriptor can be
read without waiting, but for one accepted in this very turn, which is the last of the
vector. Nobody else reads, so a mark stays true until it is used. For the action property:
a client whose read fails, and for whom the word in the buffer is judged again, has
already left. For one that sends first letters of the word, `WordOfOneGone` says that it is not the word
of a client that is still there: as long as it is in the buffer some client has gone, the one that
was dropped when the word was judged, and who has gone does not come back.

**`LineReaders`.** `Used` is the position in the input up to which the inner buffer is used up, and
`ConsoleLine` says that the line so far, copied or not, is the `line_len` bytes before it, none of
them a newline. `ConsoleCalls` says where the line starts in the inner buffer, from which
the place of the terminator follows. In `FifoInv` what is written ends with a newline and
every newline comes within the size of the buffer, as the producers' lines do, so a
`select` that times out finds the reader at the beginning of a line.

**`Families`, the programs with a pipe or threads.** `PipesInv` has one invariant for each. `Numbered`: what is printed and what is in the pipe are together the numbers `ls`
has written. `Announced`: whoever has still to write, or to fork who will, has a write end
open, so the end of the pipe means that `ls` is over; it holds also when a fork or an
`exec` fails. For the baton, `Carriers` are the children that have it or have kept it from the
others, because they failed to open their file or were killed: there is at most one, then
nothing is in the pipe, and it is the last of `turns` (`BatonOnce`). What is written out
accounts for all that was printed and is not in a buffer, and is of children that have had
their turn; a line is printed by the one whose turn is the last. Whoever waits for
the baton has a read end (`BatonStart`), so that only the last child can be killed by
SIGPIPE. For `read_file`, `Needed`: the buffer has the size it began with or was tripled for
a file longer than a third of it; that gives both directions of the equivalence in
`NothingLost`.

**`Families`, the programs that keep records.** `RecordsInv` has one invariant for each. In `child_party` the
handler runs between the load and the store of the count, and the account is kept by
`register >= running_childs` while `main` is about to store: what the store overwrites is
the difference, never negative. In `cv1-fork` the parent leaves the first job without
waiting when it was asked for no child; that the pool still begins with none needs that there
is no child as long as `i` is 0. In `stopping` the loop of `q` leaves no child before
its index that runs or is stopped. After a failed fork a stopped child is taken for
running only while the place of that fork is taken for stopped: the signal to it has then reached all.

**`Crate`.** The inductive invariant adds
that a batch never outgrows the crate, without which `Finish` could leave items of the old batch
behind. With the three refinements `BatchInOrder` carries over to all crate programs, and to
those of `msgq` for one `init`, where `PrintedInOrder` states it. An action of `MsgqCrate` is
claimed to be one of `Crate` only while `inits <= 1`, so the invariant is carried
along under that condition.

**`CommonFacts`.** How a count of processes changes when one of them moves; what
`Append` and `Tail` do to the elements of a queue without repetition; sums over sets and over
sequences. What the library defines by recursion over sets, as sums are, is reached by
induction with a set in the place of a predicate: the subsets for which a fact holds are a
set, and a smallest one outside it leads to a contradiction.

### Only model-checked

* All liveness: `BatchesForever`, `NoLostWakeUp`, `InputIsRead`, `QuitHonoured`, `ServedInTurn`,
  `Accepted`, `DescriptorsReleased`, `FamilyEnds`, `AllTaken`, `AllCollected`. Fairness is
  beyond the prover.
* `FullCrateAwakensConsumer` is the property the finding refutes.

## 5. What is left out

* The bytes of items and messages: lengths of process ids, missing terminators, tails of
  older items, messages that arrive in parts. An item or message is a value.
* The layout of the mapped memory (`semptr + sizeof(sem_t)`).
* A second run of `crate` or `vcrate` while others work: memory is truncated under those
  who have mapped it and semaphores are initialised while others wait on them, which POSIX leaves
  undefined, so no property could depend on the code. The end of the console's input.
* The verdict on the numbers: that one is written is in the models, which one is not. It
  is a loop of `sscanf` with a sum; for a line without numbers it compares a value
  that was never set.
* In `ReadLine` and `ReadLineSelect`: a read that fails, a `select` that is
  interrupted, and the call with a null buffer, which nobody makes. Two consumers on
  one FIFO, which read byte by byte and tear each other's lines.
* In `BatonPipe`: a start without arguments, whose only process takes itself for a child and
  waits for a baton nobody writes; the bytes of a file. Lines of one chunk are printed one at a
  time. A file longer than the stdio buffer would be printed in part before the last child is killed.
* In `FileGrowth`: the loops of `main` that create and join the threads, which share nothing;
  a read that fails after others have succeeded.
* In `Stopping`: keys that are no child's number, and the end of the input; they index
  the arrays outside their bounds. In the child pools: what a child does before
  it ends.
* The socket client is one process with one socket: the clients of the server modules, which
  send, close and stay silent in any order, do all it can do. `threads_max.cpp` and
  `procesy_max.cpp` create until refused, `exec_test.cpp` is one call, `helicopter.cpp` and `print.cpp`
  animate; `signals/main.cpp` sets an alarm and reads, and the two race only when ten
  seconds pass between neighbouring calls.
* In the servers: a `poll`, an `accept` or a read of the console that fails, which ends the
  process. In `ThreadServer` and `ForkServer`, a line "close" typed at the console, which is in the
  `l_buf` of the reader as another client's word is in that of `MplexServer` and can be taken
  for its own client's in the same way; no property tells it from a client that asks to
  close. That `quit` can be overwritten in the `l_buf` of a child of `ForkServer` too: there it ends
  at most that child, and no property asks for it.
* In `ThreadServer`, a read that already waits on a descriptor goes on waiting on the old
  connection when the descriptor is closed and given out again; the model lets it see
  the new one. It matters only after the hand-over has gone wrong.
* A process killed inside `send` or `recv` is covered by `RingQueue`, not by `MsgqCrate`,
  where kills fall between calls.

## 6. What could follow

The programs in which several actors meet are modelled, and the safety the runs check is proved.
What is left is a closer look at data: the verdict on the numbers, which the three servers and the
FIFO consumer compute in the same way, and the loops of the thread reader's `main`.
