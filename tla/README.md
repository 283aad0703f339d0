# A verification development for SD_22_23

SD_22_23 is a key-value tree served over TCP, written in C. Clients send one
request at a time; the server answers writes with an operation number before it
executes them, and secondary threads execute them later. A client asks with
`verify` whether the write with a given number was executed.

This directory holds TLA+ modules for the parts of the program where order and
timing decide what is correct, TLC configurations that check them on small
instances, and TLAPS proofs that hold for every size.

## 1. Inventory

| component | source | state | operations | what is hard | what makes it correct |
|---|---|---|---|---|---|
| server skeleton | `source/tree_skel.c` | `queue_head`, `last_assigned`, `max_proc`, `in_progress`, `counter`, the tree, two condition variables | `invoke` (one branch per opcode), `verify`, `process_request`, `queue_add_request`, `queue_get_request`, `guard_start`, `guard_end` | N threads and the main thread share everything; requests point into messages that are freed; reads take no lock | every numbered write is executed once; the guard admits one; nobody sleeps for ever; `verify` tells the truth |
| network loop | `source/network_server.c`, `source/tree_server.c` | `desc_set` (4 poll slots), `nfds`, the socket of each client | accept, receive, invoke, send, close | clients come, go and stall at any point of a frame; one thread serves them all | each answer goes to who asked; a slot in use is polled; new clients are accepted; one client does not stop the others |
| message framing | `source/message-private.c` | bytes in flight | `recv_all`, `send_all` | short reads and writes, full buffers, end of file | a message arrives whole or not at all; the ends never wait for each other |
| client stub and network client | `source/client_stub.c`, `source/network_client.c` | `rtree` (socket), one outstanding request | `rtree_connect`, `rtree_disconnect`, one function per opcode, `network_send_receive` | the connection fails before, during or after a request | every call returns the server's answer or an error |
| interactive client | `source/tree_client.c` | `rtree`, the line being read | the command loop, `sig_handler` | end of input, empty lines, `quit`, a failed connect | each command ends in one printed result |
| tree | `object/tree.o` (object file only), `include/tree.h` | a binary search tree | `tree_put`, `tree_get`, `tree_del`, `tree_size`, `tree_height`, `tree_get_keys`, `tree_get_values` | not thread safe | a dictionary ordered by key |
| entries and data | `source/entry.c`, `source/data.c` | blocks of memory that point to each other | create, duplicate, replace, compare, destroy | aliasing of pointers, long sequences of calls | no block is freed while it is used, none is shared, none but replaced bytes is lost |
| serialization | `source/serialization.c` | none | `keyArray_to_buffer`, `buffer_to_keyArray` | no program calls it any more | - |
| protocol buffers | `sdmessage.proto`, `include/sdmessage.pb-c.*` | none | pack, unpack | generated code | - |

How they interact: the client stub packs a message and blocks in
`network_send_receive`. The server's main thread polls its sockets, receives one
message, calls `invoke`, sends the same message structure back as the response
and frees it. `invoke` hands writes to the secondary threads through the request
queue and reads the tree itself. The secondary threads touch the queue under
`queue_lock`, the tree inside the guard (`counter` under `process_lock`) and
`max_proc` under `ops_lock`; the main thread reads `max_proc` and the tree with
no lock.

PROJECT.json lists the hazards with their lines.

## 2. Plan

| step | module | what | state |
|---|---|---|---|
| 1 | `AsyncWrites` | abstract promise about writes: numbers, execution, certificate | done |
| 2 | `TreeSkel` | the whole of `tree_skel.c`, refines `AsyncWrites` | done |
| 3 | `TreeSkelProofs`, `AsyncWritesProofs` | inductive invariant, safety theorems, refinement | done |
| 4 | `NetworkServer` | `network_main_loop`: poll slots, `nfds`, accept, blocking receive, failing system calls, clients that come, stall in a request and go | done |
| 5 | `NetworkServerProofs` | inductive invariant of the loop and its safety theorems | done |
| 6 | `TreeClient` | `tree_client.c`, `client_stub.c` and `network_client.c`: connect, one call at a time, broken connections, `quit`, SIGINT | done |
| 7 | `Exchange`, `Framing` | a call over one connection, abstract and byte by byte | done |
| 8 | `RemoteTree` | clients, the network loop and a pool that keeps `AsyncWrites`, composed | done |
| 9 | `Blocks` | the heap behind `data.c` and `entry.c` | done |
| 10 | `TreeSkelWakeupProofs` | who sleeps and who is woken, the slots of `in_progress`, one thread tells the truth | done |
| 11 | `BlocksProofs`, `TreeClientProofs`, `FramingProofs` | the inductive invariants of these modules, their safety theorems, and that `Framing` implements `Exchange` | done |
| 12 | `RemoteTreeProofs` | the composed system keeps the rules of its parts, and what its users may rely on | done |

Who uses whom: `TreeSkel` implements `AsyncWrites`, `Framing` implements
`Exchange`. `RemoteTree` composes `NetworkServer`, by its own actions, with
`AsyncWrites` in place of `TreeSkel`, which the theorem `Implements` justifies,
and with whole messages in place of bytes, which `WholeMessages` justifies.

## 3. The modules

### AsyncWrites

What a client may rely on about writes, with no queue and no thread. `issued`
numbers were handed out; `executed` are the writes the tree has seen;
`certified` is what `verify` compares with. A write is executed once and may
overtake fewer than `Width` earlier ones. It follows (`OverclaimBounded`) that
a certificate vouches for fewer than `Width` writes that were not executed.

### TreeSkel

One action per critical section or unlocked step of `tree_skel.c`.

| model | code |
|---|---|
| `queue`, `last_assigned`, `max_proc`, `in_progress`, `counter`, `tree` | the globals of the same names (`queue_head`, `ops_info->...`, `server_side_tree`) |
| `pc[t]`, `req[t]` | where thread `t` is in `process_request`, and its local `req` (`NoRequest` when it holds none) |
| `mpc`, `msg`, `reply` | where the main thread is, and the message it reads and overwrites |
| `torn` | the tree calls of this request that overlapped with a write |
| `done` | history only: the numbers of the writes executed |
| `Receive`, `Sweep`, `QueueRequest`, `FinishInvokeWrite`, `InvokeOther`, `Send` | `network_main_loop` calling `invoke`, its sweep of `in_progress`, `create_request` with `queue_add_request`, the rest of the PUT and DEL branches, the branches that need no tree, `network_send` |
| `StartRead`, `FinishRead`, `FinishSize`, `StartList`, `FinishList`, `TornReadCrashes` | the tree calls of GET, SIZE, HEIGHT, GETKEYS, GETVALUES, each with a beginning and an end; `ListFails` is the error path of the lists |
| `QueueWait`, `QueueGet`, `GuardWait`, `GuardStart`, `FinishWrite`, `WriteCrashes`, `Record`, `GuardEnd`, `SpuriousWakeup` | `queue_get_request`, `guard_start`, `tree_put`/`tree_del`, the update of `max_proc`, `guard_end`, and `pthread_cond_wait` returning early |

Choices worth knowing:

* A body between lock and unlock of one mutex is one step, because nothing it
  touches is read or written without that mutex. `create_request` and
  `last_assigned++` are the main thread's own and join the neighbouring step.
* A write and a read of the tree both take time. If they overlap, the read may
  return anything of its type, or the process may die: `tree.o` links a node
  before it has an entry and frees nodes and entries in place.
* A request holds the message's own pointers (`BufferLive`). Once `network_send`
  has freed the message, the write works with whatever is there, any key and any
  data, or the process dies of it (`WriteCrashes`). Data and keys of the tree
  may therefore be `Junk`.
* A crash ends every thread. `crashed_slot` remembers one thing about it, that
  the request just queued was not counted in `last_assigned` yet.
* GETVALUES copies 8 bytes of each value (`LongValues` are longer); a list
  shorter than the size read before it means a NULL pointer, and the process
  dies while it reads or packs it.
* The tree is a dictionary. `tree_height` is any height a search tree of that
  size can have. The order in which keys are listed is not modelled: a list cut
  short may be any subset.
* Allocation failure is left out, except where `invoke` has a path for it: the
  tree returns NULL for a list only when `calloc` fails (of an empty tree it
  returns an array), and the client is then answered OP_ERROR (`ListFails`).
* Left out: `tree_skel_destroy` (the server never reaches
  it), memory leaks, `printf`, and requests that no client of the repository
  sends (a GET or DEL with no key, a PUT with no data). A PUT with no entry is
  in, for the error path of `invoke`.
* `verify` answers 1 for operation 0, which does not exist, as in the code.
* `NThreads = 0` is allowed by `tree_server.c`, and by the theorems; writes are
  then never executed. The runs have at least one thread.

### NetworkServer

The main thread of the server, its clients, and what the kernel keeps between
them.

| model | code |
|---|---|
| `fd`, `revents`, `nfds`, `slot` | `desc_set[i].fd`, POLLIN in `desc_set[i].revents`, `nfds`, the loop variable `i` |
| `pc`, `msg` | where `network_main_loop` is, and whose request it holds |
| `socket`, `backlog`, `input`, `answers` | the kernel: who is behind a descriptor, who waits for `accept`, bytes sent and not read on either side |
| `Poll`, `PollFails` | `poll()`; its failure, after which `main` calls `network_main_loop` again with a new `desc_set` |
| `Accept`, `NoAccept` | the loop over the slots that calls `accept` |
| `NextSlot`, `ReceiveLength`, `ReceiveBody`, `Drop` | the loop over the ready slots, `network_receive`, and what happens when it fails |
| `Invoke`, `Send`, `Exit` | `invoke` coming back, `network_send`, `network_server_close` or a crash |
| `Connect`, `SendLength`, `SendBody`, `ReadAnswer`, `Leave` | a client program's use of its connection |

Choices:

* A client is one connection; a program that is started again is another.
* `listen(sockfd, 0)` leaves room for one client in the queue.
* A new descriptor is the lowest free one, as POSIX says. So the second close of
  a socket (`network_receive` closes it after a missing length, the loop closes
  it again) is harmless: nothing opens a descriptor in between.
* `desc_set` is on the stack: `revents` starts with any value.
* `events` is POLLIN only, so the test for POLLHUP as the only event never
  succeeds, and a client that is gone shows as readable.
* `accept` follows a `poll` that saw a connection and does not block.
* A `poll` that times out is no step.
* Left out: requests that do not unpack, allocation failure, and creating and
  binding the listening socket.

### Exchange and Framing

`Exchange` is what a connection promises: a request arrives whole and once, its
answer too, or an end breaks and the call stays where it is. `Framing` is what
`message-private.c` and its callers do on one connection.

| model | code |
|---|---|
| `pc[e]`, `len[e]`, `buf[e]` | where an end is, and `len` and the buffer of the `send_all` or `recv_all` it is in |
| `said`, `size`, `got` | the message packed, the length read, the message unpacked |
| `wire[e]`, `open` | the kernel: bytes sent and not read, at most `Cap`; sockets not closed |
| `Call`, `Answer` | `network_send_receive` and `network_send` pack a message |
| `Write`, `Read` | one `write()` or `read()`, of any number of bytes that fits; the last one of a piece goes on to the next piece |
| `Poll` | `poll()`, for this client |
| `ReadFails`, `WriteFails`, `Close` | the error branches, and an end that goes away at any byte |

Each byte of a message is told apart from the others, so a byte lost, doubled or
taken for another shows. A client that fails closes; a server whose answer fails
goes on to `poll()` with the socket open, as `network_main_loop` ignores the
result of `network_send`, and finds the end of the stream there. Of what an end
sent before it closed, the other may still read any first part. `stage` is
history, for the refinement. A connection that is cut without either end
noticing is not in the model: neither program sets a timeout, both would wait.
`EINTR` does not occur, because no signal handler of either program returns.

### RemoteTree

The system as its users see it. Each action is one of `NetworkServer` joined
with what it carries.

| model | code |
|---|---|
| `ask`, `response`, `told` | a request on its way to `invoke`, the answer between `invoke` and `network_send`, the answer on its way back |
| `Ask`, `Learn` | `rtree_put` and `rtree_del`, `rtree_verify`, the functions that read |
| `ServeWrite`, `ServeVerify`, `ServeRead` | the branches of `invoke` |
| `PoolExecutes`, `PoolCertifies` | `process_request`, as `AsyncWrites` has it |
| `writer`, `mine`, `sure`, `floor` | history: who wrote, who was given which number, what anybody was told is executed, and what of that an `rtree_verify` is about when it begins |

A read is answered, and its answer says nothing here: an executed write may have
landed on another key, and a read may meet a writer. What a read can answer is in
TreeSkel; that the process may die of either is `Exit`. `poll` and `accept` do not fail. A client may
ask about any number, its own or not, handed out or not.

When the server ends, the tree and the numbers end with it: nothing is stored. A
server that is started again hands out 1 first, so a number from before stands
for another write; a client program would have to be started again to see it.

### Blocks

The heap as the program's callers of `data.c` and `entry.c` see it: `block`
says what each cell holds, `held` which cells the program is responsible for.
The callers keep to the comments of `data.h` and `entry.h`: what they pass to be
kept is no longer theirs. One action per function, and two for the program's own
`malloc` and `free`. What the bytes are is left out, and so are calls that only
return NULL, and `entry_compare`.

`data.h:33` and `entry.h:30` say of `data_replace` and `entry_replace` that they
must destroy the old content. They do not: the first frees nothing, the second
frees the old `data_t` and not its bytes. `OnlyBytesLeak` says that nothing else
is lost. Nobody calls either function.

### TreeClient

The client program, with any address, a connection that may break, a server
that may never answer, and a SIGINT that may come at any step. The module has no constants: TLC's check covers every behaviour of
the model.

| model | code |
|---|---|
| `argv` | what is wrong with the address: missing, longer than its 50 bytes, a leading colon, no port |
| `pc`, `line` | where `main` and the call it makes are, and the command |
| `rtree`, `linha`, `sock` | the two pointers (NULL, live, freed) and `rtree->sockfd` |
| `stdin`, `server`, `wire` | more input or none, the other end, what travels |
| `Start` to `BadAddress` | `main` up to `rtree_connect`, which succeeds, fails, or rejects the address |
| `Stub` and `Return` | the eight functions of `client_stub.c`: what each does without a handle, when `network_send_receive` returns NULL, with an answer of another kind, and with the one it asked for |
| `Command`, `NoCommand`, `EndOfInput` | a line of the command loop |
| `Sent`, `SendFails`, `AnswerRead`, `AnswerFails` | `network_send_receive` |
| `QuitClose`, `QuitFree`, `QuitDisconnect`, `QuitReturn`, `sig_handler` | `quit` in its steps, and SIGINT |
| `ServerAnswers`, `ServerLost` | the server |

What the model shows of the program, beyond its properties: `del` and `getkeys`
alone handle a NULL response, the other functions read through it (`put`,
`client_stub.h:25`, promises -1 instead); `main` looks into
the array of `getkeys` and `getvalues` without a test for NULL, which is what
the stub returns for an answer of another kind, OP_ERROR; a blank line reaches `strcmp` with
NULL, because `&` evaluates both sides; `quit` closes the socket before
`rtree_disconnect` closes it again, whose result is therefore -1; a failed
`connect` closes `rtree->sockfd`, which was never set, and so perhaps standard
input; at the end of the input the prompt is printed for ever; an answer longer
than 2048 bytes runs over the buffer, and an address longer than 49 over its
own; with an address that starts with a colon `rtree->ip` is no pointer of
`malloc`, and `rtree_disconnect` frees it. A process that survives an overrun is
taken to be unharmed. The stub has no timeout: a call waits for as long as the
server neither answers nor goes, which a server that has not accepted the client
may do for ever.

### MC modules

`MCTreeSkel` defines the sets of requests; `MCNetworkServer` and `MCRemoteTree`
the clients and their symmetry (used in `net_errors` and `remote`, which check
no liveness).

## 4. What the runs check

Runs that pass:

| run | instance | shows |
|---|---|---|
| `remote` | 2 clients, 2 slots, 2 writes, Width 2 | `OwnNumbers`: a client is given its own numbers; `OneWriteInDoubt`: a broken connection leaves one write unknown; `VerdictsAgree`: clients are not told opposite things; `FewToldWrong`: of all the numbers ever reported as executed fewer than Width are not; `OverclaimBounded` |
| `skel_writes` | 3 threads, 3 writes, one key | types, `GuardExclusive`, `EveryWriteOnce`, `OverclaimHeld`, `ExecutedIsCertified`, `VerdictStable`, `NoLostWakeup`, `GuardNotSlept`, `SlotsDistinct`, and `WriteContract`: TreeSkel implements AsyncWrites |
| `skel_live` | 2 threads, 3 writes, reads of a key that may meet them, fair | `EveryWriteCertified`, unless the process dies |
| `skel_reads` | 1 thread, 3 writes, 2 keys, all requests, fair | `QuietReadsAnswered`: a read that starts when every write has been executed is answered, whatever raced before; `VerifyTellsTruth`: with one thread `verify` is exact; `NeverStuck`: main is back in `poll` after every request, of any kind, unless the process dies |
| `net_errors` | 3 clients, 2 slots, 2 descriptors, `accept` and `poll` may fail | types, `SlotsOpen`, `ReadsReady`, `OneAnswerEach` |
| `net_live` | 2 clients, 2 slots, no failing call, fair | `EveryClientPolled`, `AskedIsAnswered`, `LeaverReleased` |
| `framing` | messages of 1 and 3 bytes, a length of 2, a buffer of 3, fair | `NothingSkipped`, `HalfDuplex`, `CallEnds`, and `WholeMessages`: Framing implements Exchange |
| `client_session` | the whole client, fair | types, `InStep`, `NoUseAfterFree`, and `CallReturns`: no call outlives its answer or its connection |
| `blocks` | 8 cells, at most 3 held | `NothingDangles`, `OneOwner`, `OnlyBytesLeak`, `DestroyTakesAll` |

Three threads are the smallest number at which one is inside the guard, one
waits for it and one sleeps on the queue; three writes let the last overtake two.
In `skel_reads` two writes are enough for a list to lose a key, to gain one, and
to be torn, and for a write to arrive while `in_progress` is full; the third lets
a quiet read follow; one thread is enough, because the guard lets one write
at a time meet the main thread's reads (`GuardIsExclusive`, proved).

In `remote` both clients may write and both may ask about both writes; Width 2
lets the second write be certified before the first is executed. In `framing`
the short message fits into the buffer with its length and the long one does
not, so writes block half way, and reads of up to 3 bytes could run from a
length of 2 into the body. In `blocks` a full entry takes four cells, so that
one and its duplicate fit, or one and the two replacements of its parts; cells
are reused at once, so a stale pointer would find another block.

In `net_errors` the third client takes over a slot and a descriptor, one of each
is short, and after failures slots are taken out of order. In `net_live` one
client leaves slot 1 while the other is in slot 2, so `nfds` and the slots in use
part, and each may starve the other. With `accept` failing, `AskedIsAnswered`
does not hold: the client may go into a slot that `nfds` does not reach, since
`network_server.c:100-106` tries the next slot after a failure but counts
clients. `EveryClientPolled` is stated, and proved, for `Failing = {}`.

Runs that find the code to differ from what its comments say (each is a finding
in PROJECT.json):

| run | the comment | what happens |
|---|---|---|
| `verify_overclaims` | `verify` tells whether operation op_n was executed | two threads: write 2 overtakes write 1, and 1 is reported as executed |
| `freed_request` | `key` is the key to remove or add | the message is freed first and another key changes |
| `clients_refused` | MAX_SOCKETS - 1 clients at a time | the number counts every client that ever came: after them none is accepted, though all have left |

Three more disagreements were met. They have no run of their own, but the model
takes these steps:

* `client_stub.h:48` promises a copy of all the keys. A put between `tree_size`
  and `tree_get_keys` (`tree_skel.c:331`, `:341`) makes the answer one key short,
  although no write overlaps with either call: `FinishSize`, `GuardStart`,
  `FinishWrite`, `StartList`, `ListOf`.
* `server_structs-private.h:6` says that `in_progress` registers the writes being
  served. A write is noted when it arrives, in the first free slot; if all are
  taken it is noted nowhere and later served (one thread and two writes are
  enough), and a write that `max_proc` has passed is swept out while it is served.
* `client_stub.h:25` and the comments like it promise -1 or NULL when there are
  problems. When the connection fails, every function but `rtree_del` and
  `rtree_get_keys` reads through a NULL response and the client dies
  (`SendFails`, `AnswerFails`).

`CHECK_DEADLOCK FALSE` is given where the process may have crashed (all runs of
the skeleton), for the network loop, the client and the connection, where the
processes end, and in `blocks`, where memory may be used up.

### Bounds

`MaxWrites` stops `Receive` from taking a write when the numbers are used up;
`MaxIssued` does the same in `AsyncWrites` and `RemoteTree`, where clients then
ask for no further write. `MaxCells` and `MaxHeld` bound the memory of `Blocks`. The int
overflow of `last_assigned` is therefore not seen. `MaxFd` is how many
descriptors clients may take; when they are used up `accept` fails. `Clients`
bounds how many connections are ever made.

### Fairness

`Fairness` is weak fairness of the main thread's steps inside `invoke` and of
each secondary thread: the operating system runs every thread that can run. It
is not assumed that clients send anything, nor that a mutex or condition
variable is fair. With finitely many writes a thread that loses the race for
the guard runs out of rivals; with writes arriving for ever it may lose every
time, and the runs say nothing about that.

In `NetworkServer` the main thread is scheduled, and a client that has sent the
length of a request goes on to send the body, its next statement
(`network_client.c:87-95`), or leaves. Without this one client can stop the
server: the reads block. In `TreeClient` the call in progress is scheduled.
Nothing is assumed of the server: as `clients_refused` shows, one that lives may
never accept the client.

In `Framing` each end goes on with the call it is in, the server polls, and
`invoke` returns. That an end closes, or that a client calls, is never assumed.
`RemoteTree` is checked for safety only: that every write is certified and every
request of a polled client answered are `EveryWriteCertified` and `AskedIsAnswered` of its parts.

## 5. What is proved

Every invariant and every action property that a passing run checks is a
theorem, and so are both refinements. Each holds for every value of the
constants under the assumption its module states, and each assumption only says
what the constants are.

| module | for any | under | theorems |
|---|---|---|---|
| `TreeSkelProofs` | threads, writes, keys, values, requests | `SkelAssumption` | `TypeCorrect`, `GuardIsExclusive`, `WritesHappenOnce`, `OverclaimIsHeld`, `ExecutedIsReported`, `VerdictIsStable`, `Implements` (TreeSkel implements AsyncWrites) |
| `TreeSkelWakeupProofs` | the same | `SkelAssumption` | `GuardIsNotSlept`, `NoWakeupIsLost`, `SlotsAreDistinct`; with a thread or more `OverclaimsAreFew`; with one thread `OneThreadTellsTruth` |
| `AsyncWritesProofs` | `Width`, writes | `WidthAssumption` | `OverclaimIsBounded` |
| `NetworkServerProofs` | clients, MAX_SOCKETS, descriptors, failing calls | `NetAssumption` | `TypeCorrect`, `SlotsStayOpen`, `ReadsNeverBlind`, `EachIsAnsweredOnce`; if no call fails `ClientsArePolled` |
| `RemoteTreeProofs` | clients, MAX_SOCKETS, `Width`, writes | `RemoteAssumption`, `WidthAssumption` | `PartsAreKept`, `NumbersAreOwn`, `OneInDoubt`, `VerdictsDoAgree`, `FewAreToldWrong` |
| `FramingProofs` | lengths, size of the length, buffers | `FramingAssumption` | `NothingIsSkipped`, `NeverBothWays`, `DeliversWhole` (Framing implements Exchange) |
| `BlocksProofs` | cells, blocks held | `BlocksAssumption` | `NothingEverDangles`, `OwnersAreUnique`, `LeaksAreBytes`, `DestroysAll` |
| `TreeClientProofs` | (no constants) | - | `TypeCorrect`, `CallsStayInStep`, `NothingFreedIsUsed` |

Each module also has the theorem that its inductive invariant holds
(`Invariance`, in RemoteTreeProofs `SystemInvariance`; TreeSkelWakeupProofs
takes that of TreeSkelProofs). What these invariants add, and why the properties
need it:

**The skeleton.** Nothing in the properties says where a number is between the
queue and the tree. `IInv` does. `QueueInv` says the queue
holds the numbers `Taken + 1 .. Created` in order; `HeldInv` says each number up
to `Taken` is held by one thread or executed; `ThreadInv` ties each control
state to the request held; `CertInv` says `max_proc` is an executed number that
only a held one exceeds; `GuardInv` ties `counter` to the threads inside;
`BoundInv` keeps the numbers within the bound while a write is on its way;
`ReadInv` types the key of a GET, and `CrashInv` says a crash ends every thread.
Steps of the main thread that leave the pool alone share `QuietMain`.

For the refinement, queueing a request issues its number, the end of the tree
call executes it, raising `max_proc` certifies it, and every other step
stutters. That an execution overtakes fewer than `NThreads` writes is a counting
argument (`FewOvertaken`): each is held by another thread, and by one only.
`OverclaimsAreFew` is what AsyncWrites promises, read back through the
refinement.

`NoLostWakeup` is its own invariant once the threads are counted: queueing a
request makes the queue and, if anybody sleeps, the set of threads in `get`
larger by one; a thread takes a request as it leaves `get`, or goes to sleep only when the
queue is empty. `SlotInv` adds to `SlotsDistinct` that every slot is below
`last_assigned`, so that the number about to be noted is in no slot yet.
`VerifyTellsTruth` needs `ReplyInv`: the verdict being sent is still right about
`max_proc`; with one thread nothing below `max_proc` is unexecuted.

**The network loop.** `SlotsOpen` needs `OwnerInv` (a client is behind one
descriptor at most, and one that waits for `accept` behind none) and `BacklogInv`;
`ReadsReady` needs `SlotInv`, which ties the slot being served to an open
descriptor, and `ReventsInv`: between `poll` and the end of the for loop a set
`revents` of a slot in use means that there is something to read, because only
the loop itself takes input away. `ClientsArePolled` rests on `AcceptPolled`: as
`nfds` is above every slot in use, the first free slot is at most `nfds`, and
accepting raises `nfds` past it. `OneAnswerEach` needs `CallsInv`: the server
holds a request exactly while it serves it, that of the client behind the slot,
and the input of each client is what its own state says it has sent.

**The whole system.** `NetStep` and `WriteStep` show that every step of
RemoteTree is a step, or a stutter, of the network loop and of AsyncWrites, so
their theorems hold of it (`PartsAreKept`). On top of both invariants comes
`CallsInv`, about what the requests carry: a number not handed out has no
writer, what anybody was told is executed is certified (`HistoryInv`); the
answers on their way are rightful and their clients wait for them (`AnswerInv`);
and a write whose number its client does not know is the one its call is about,
with the number on its way back or lost for good (`DoubtInv`). `FewToldWrong`
then is the bound of AsyncWrites: what anybody was told is certified, and of the
numbers certified fewer than `Width` are not executed.

**The connection.** `StageInv` goes by the stage of the call: one message flows
and the other direction is quiet. `FlowInv` says that the bytes read, the bytes
on the wire and the bytes not yet written are that message in order: with both
ends open nothing is missing between them, with one closed what is left is a
first part. Who has read as many bytes as were packed has therefore read them
all, and the writer has finished (`ReadMessage`). A call starts, arrives and
ends with steps of Exchange, a broken connection is its `Break`, and reads and
writes that complete no message stutter.

**The heap.** `IInv` says that the blocks in use form a forest: each points to
blocks of the right kind (`PointsInv`), and has one owner, another block or the
program, unless it is bytes that were lost (`OwnInv`). That the cells one step
allocates are free and differ comes first (`NewCells`): `malloc` takes the k-th
free cell, and the well-ordering of the numbers gives it.

**The client.** `PlaceInv` says what `main` has in its hands at each statement,
`WireInv` what the connection carries.

Only model-checked: what happens eventually, which the prover cannot reach
(`EveryWriteCertified`, `NeverStuck`, `QuietReadsAnswered`, `AskedIsAnswered`,
`LeaverReleased`, `CallEnds`, `CallReturns`).

## 6. Not modelled

`serialization.c` is dead code, left from an earlier phase: no program calls it,
and any call with a key writes through pointers that were never set.
`sdmessage.pb-c.*` is generated, and the makefile has no behaviour at run time.
The tree itself is delivered as an object file and modelled from its use. Not
modelled anywhere: allocation failure (but for `ListFails`), requests that do not unpack, setting up
the listening socket, what happens inside the C library when SIGINT interrupts
it, and a server that is started again (nothing is stored, see RemoteTree).
