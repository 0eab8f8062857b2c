# Verification of the Distributed System Manager

The program under `src/` runs on every machine of a local network. Each process is at
the same time a *node*, which answers discovery broadcasts, receives files and computes
over them, and a *console*, from which a user sends files or starts a distributed
computation: the train file is cut into one byte range per node, every node gets the
code and its range, runs the code over what it has received so far while the rest is
still arriving, and the exclusive or of all results is printed.

This directory holds TLA+ models of that system, TLC configurations that check them on
small instances, and TLAPS proofs of the main results for every value of the constants.
File names below are relative to `src/src/`.

At this commit the sources include headers under names (`serverService.hpp`,
`clientsCommand.hpp`, `shareFile.hpp`, `Status_codes.hpp`, `threadSafety.hpp`,
`connection.hpp`) that `headers/` has under other ones (`server_service.hpp`,
`clients_commands.hpp`, `share_file.hpp`, `status_codes.hpp`, `thread_safety.hpp`,
`connections.hpp`), and two files define the functions of the job handler. As it stands
it builds nowhere; the models are of the Linux build with the names put right and the
older of the two files left out.

## 1. Inventory

| part | source | state | operations | what makes it correct |
|---|---|---|---|---|
| latch | `threadSafety.cpp` | mutex, condition variable, `flag` | `wait`, `resume` | one raise lets one waiter past, nobody sleeps on a raised flag |
| division | `Clients Commands/distributedcomputing/linuxdistributivecomputing.cpp` 52-142 | `train_offset[]`, `train_chunk_size[]` | `divideFileIntoChunks`, `adjustToNextLine` | the ranges cover the file once, at line ends |
| receiver | `shareFileService/shareFileServer.cpp`, `server commands/receivefile.cpp` | `OPEN_RECEIVE_FILE_CONNECTION`, `shared_outpath`, `Shared_fileSize`, `processedBytes`, `received_files/` | `handle_share_file_server`, `receive_file`, the two gate commands | each file arrives whole under its own name; the progress it publishes is true |
| sender | `shareFileService/shareFileClient.cpp`, `Clients Commands/sending file.cpp` | its socket | `send_file` (two), `handle_send_file` | ends in every case |
| job handler | `server commands/distributivecomputing/linuxdistributivecomputing.cpp` | `/tmp/local_exec`, the once flag, `offset`, `remaining`, `final_result` | `handle_distributive_systems`, `compileCode`, `distributiveComputing` | the result covers every byte of the range exactly once, by the right program |
| coordinator, per node | `Clients Commands/.../linuxdistributivecomputing.cpp` 146-253 | its socket, three threads | `distributiveComputingOverNetwork`, `send_file_thread` | gets the result of its own job |
| coordinator, command | the same file, 255-523 | `ip_list`, futures | `handle_distributive_systems`, `distributiveComputingLocal` | combines exactly one result per range |
| discovery | `udpServer.cpp`, `Clients Commands/list connections.cpp` | `ip_list`, `ip_status` | `udp_discovery_responder`, `sendRequest` | a terminated list of live nodes |
| slices | both `linuxdistributivecomputing.cpp`: `distributiveComputing`, `distributiveComputingLocal` | two pipes and a child per slice | `pipe`, `fork`, `execl`, `write`, `read`, `waitpid` | a number is for exactly what was read; the slice returns; nothing stays open |
| listener | `tcpServer.cpp`, `serverService.cpp`, `connection.cpp`, `main.cpp` | the accepted `Socket`, dispatch table, `client_ip` | `server_listener_thread_tcp` | every command gets its thread and its answer |
| console | `clientsCommand.cpp` | standard input, the call it makes | `commands`, `find_closest_command`, `sendToServer` | runs or suggests the command that was typed, and returns from it |
| small commands | `Clients Commands/connect.cpp`, `handlestatus.cpp`, `exit.cpp`, `recievefile.cpp`, `server commands/...` | a copy of the `Socket`, what `sendToServer` returned | one request, one answer | a client reads the answer to its own command |
| sockets | `Sockets/linuxSockets.cpp`, `Sockets/windowsSockets.cpp` | descriptors | wrappers | nobody closes or uses somebody else's descriptor |
| Windows variants | `windowsdistributivecomputing.cpp` (two) | as for Linux | as for Linux | as for Linux |

How the parts interact: the listener starts one detached thread per accepted command.
The threads of one node share the globals of `threadSafety.cpp` and
`OPEN_RECEIVE_FILE_CONNECTION` without a lock, except that the two latches
`mesh_info_1` (a code file is complete) and `mesh_info_2` (a train file was opened) lead
from the receiver's threads to the job handlers. Nodes and consoles interact by TCP
connections that carry one command each, and by one UDP broadcast.

What is hard: the receivers of one job run concurrently and write the same globals; the
job handler computes over a file while it is written; jobs, interactive transfers and
gate commands of different users share one set of latches, counters and one gate; any
sender, coordinator or node process may end at any point; the division does
arithmetic that line lengths can push past the end of the file; handlers own copies of
objects whose destructors close numbers that may be somebody else's by then; and the
children of concurrent slices inherit each other's pipes. The list, with the line
at which each hazard bites, is in `PROJECT.json` under `hazards`.

## 2. Modules

| module | models | correspondence |
|---|---|---|
| `Latch` | what `wait` and `resume` promise | `Take` is a returning `wait`, `Raise` a `resume` that has taken effect |
| `SharedData` | `threadSafety.cpp` 10-27 | one step per point at which another thread can interleave: `Lock`, `Sleep` (releases the mutex and sleeps at once), `CheckPasses`, `Clear`; `LockGuard`, `Set`, `Unlock`, `NotifyOne` / `NotifyNobody`; `SpuriousWake` |
| `DivideFile` | `divideFileIntoChunks`, `adjustToNextLine` | one step per loop iteration; `adjusted_end`, `ideal_chunk`, `currWeight` are the code's locals; the file is the set of positions of its newlines |
| `Node` | the globals, files and connections of one node | the variables have the names of the code's globals; `server[t]`, `client[t]`, `compute[j]`, `caller[j]` are program counters of the threads |
| `ShareFileServer` | `shareFileServer.cpp` 48-326, `receivefile.cpp` | a step holds at most one access to a global, so `ReceiveMetadata` (sets `Shared_fileSize`), `ResetProgress`, `StartPath`, `EndPath`, `OpenOutput`, `SignalTrain`, `ReceiveBlock`, `PublishProgress`, `FinishReceive` are steps of their own |
| `ShareFileClient` | `shareFileClient.cpp` | the dialogue (`ReadAdmitted`, `ReadRefused`, `ReadAccepted`, `ReadRejected`), one `sendfile` call (`SendBlock`), failures |
| `ComputeServer` | `linuxdistributivecomputing.cpp` of the node | one step per statement that reads or writes shared state; `Feed` is one iteration of the pread loop; `CannotOpenTrain`, `PreadFails`, `SliceFails` are the calls that fail, `stderr[j]` says that one was reported |
| `ComputeClient` | `distributiveComputingOverNetwork` | |
| `ComputeJob` | all of these together | `Next`, the fairness, the properties of jobs |
| `Discovery` | `sendRequest` of `list connections.cpp`, `udpServer.cpp` | `step` is the line the console's thread is at; `ip_list` and its terminator have the code's names, `memory` is what the two pointers point to. `Respond` is one iteration of the responder; `ReceiveReply`, `Timeout` are the outcomes of `recvfrom`, `waiting` is collecting on a socket that refused its timeout |
| `Coordinator` | the commands `listConnections` and `runDistributiveSystems`, `distributiveComputingLocal`, and the calls as their callers see them | extends `Discovery`, instantiates `DivideFile` for the division. One step per loop iteration of the handler (`Launch`, `Get`); `future[k]` is where the thread of node `k` is; the local one (`CompileOnce` ... `ReadOutput`) step by step with every call that may fail or wait for good, a remote one as one step to its outcome |
| `Children` | `distributiveComputing` and `distributiveComputingLocal`, any number at once in one process | `at[s]` is the statement of a slice's function, `child[s]` its program, `holds` who has which end of which pipe open: `Fork` copies what the process has, `execl` keeps it. One unit of input stands for what a pipe takes at once |
| `Listener` | `tcpServer.cpp`, class `Socket` of `linuxSockets.cpp` | `descriptor` is the kernel's table, `fd` the number in the object of an end, so an object can have a number that refers to something else by now. One step per system call of the accept loop (`acceptConnection`, `BeginReceive`, `Dispatch` ... `Delete`) |
| `Handlers` | `server commands/connect.cpp`, `handlestatus.cpp`, `receivefile.cpp`, what the two long handlers do with their socket, the train file's number, the open flag and the terminal, and the clients: sessions of `Clients Commands/connect.cpp` and callers that send a file | `thread[c]` is where the handler of connection `c` is; the answer it is about to send names its place. `DeleteArgument` is the destructor of the copy, `Destroy` the one of the original; `ReadFlag`, `ReadChoice`, `ReceiveFile`, `Reply` are the transfer's conversation, `CloseSlice` and `CloseTrain` the two closes of a train file. `talk[c]` is the long command that the client has begun |
| `Suggestion` | `levenshtein`, `find_closest_command` | functions over words; `FairSuggestion` is the reference, by the definition of the edit distance |
| `Console` | `commands`, `sendToServer`, `status`, `receiveFile`, `exit` | the composition of a whole process: extends `Handlers` and `Suggestion`, adds the console's thread, whose calls go to the process's own listener, and the sockets of its broadcasts (`OpenRequest` ... `DestroyRequest`) and of its calls to other nodes (`BeginRemote` ... `DestroyRemote`) |

`MCSharedData`, `MCDivideFile`, `MCComputeJob`, `MCCoordinator`, `MCChildren` and
`MCConsole` give the constants their values for TLC; `SharedDataProofs`,
`DivideFileProofs`, `ComputeJobProofs`, `JobResultProofs`, `CoordinatorProofs`,
`ChildrenProofs`, `ConsoleProofs` and `AnswerProofs` hold the theorems.
Operators with a remark after `==` (`CheckUnlocked`, `KeepProgress`, ...) are faulty
variants of the definition after them; no specification uses them. They document which
slip each property is there to catch.

### Abstractions

* **Latches.** `Node` keeps each latch as one flag that `TakeCode`, `TakeTrain` take down
  and `FinishReceive`, `SignalTrain` raise in one step. `SharedData` refines exactly
  that (`ImplementsLatch`, theorem `LatchRefinement`).
* **Connections.** TCP keeps order, so a connection is the pair of its two program
  counters: `sent[t]` bytes were handed to TCP, `received[t]` were read. The metadata and
  the flag byte travel in one step (`sent[t]` becomes 0). Accepting a connection and
  starting its thread is part of the handler's first step.
* **File contents.** Byte `i` of transfer `t` is always written at position `i`, so a file
  is its length and, per position, the transfer that wrote it. `Holds` says that a file
  is exactly what a transfer sends.
* **`shared_outpath`** is written in two steps. A second thread that writes in between
  leaves its own path or a torn string; the folder names differ in length, so a torn or
  half-written path names no existing directory and the open fails.
* **The user's program** maps bytes to a number such that the results of two pieces
  combine, by exclusive or, into the result of both: without this the division of the
  work computes nothing. A result is then the set of (program, byte) pairs that were
  combined an odd number of times, with `Failed` in it for good once a number was combined
  that no run of the program printed.
* **Failing system calls of a job.** Pipe, fork, a write, the child or `stoll` may fail at
  any time (`SliceFails`): a -1, or the number in half an output, goes into the result, and
  a write that fails closes the train file as well. `open` may fail though the file exists
  (`CannotOpenTrain`). A `pread` that fails (`PreadFails`) leaves the loop, and what the
  program prints for the bytes so far is the number of the slice, which then counts as
  done: the report lacks bytes and no -1 shows it. In each of these cases the code prints a
  line on the node's own standard error and tells the coordinator nothing, so the
  properties about reports are about handlers that have printed none (`stderr`), which is
  the most that is true. `EmptyOutput` is what a run over no input contributes: nothing, or
  the -1, with its line of error, that `distributiveComputing` returns when `stoll` finds
  no number. The local computation has the same calls and the same rule.
* **Compilation** makes a program only of a whole, non-empty code file, and may fail for
  any reason, in which case the node's process ends (`exited`).
* **The answer and the result in one `recv`.** `sendData` keeps no message borders. A
  coordinator that reads its answer after the result was sent may get both in one string
  and gives up (`ReadOpenAndResult`).
* **Remote calls, seen by the coordinator.** What happens on a node during a call is the
  matter of `ComputeJob`. `Coordinator` assumes of a call what `ReportsJobsResult`
  guarantees, the result of its range (`CallReturns`), and admits everything else that
  the caller can see: -1 or a wrong number (`CallFails`), an exception of `stoi`
  (`CallThrows`), no end (`CallHangs`). A range that leaves the file returns no result: its
  sender fails, or tells the node a size that never arrives.
* **Numbers.** A result in `Coordinator` is the set of the bytes combined an odd number of
  times, with `Failed` for -1. The narrowing of `long long` to the `int result` of the
  handler, and of the remote results by `stoi`, is left out.
* **Dangling and unterminated lists.** `ip_list` survives the command that freed it, and
  with `MAX_IPS` entries it has no NULL. A walk over such a list (`WalkWildly`) ends the
  process or finds some end: of the allocation, one entry beyond it, or anywhere in freed
  memory. An entry that is no received address names no node, and the call to it fails.
* **Datagrams.** A broadcast reaches any subset of the nodes; a reply may be lost and may
  be received again. A request has a socket of its own, so a late reply reaches nobody.
* **The child** of a slice is one step in `Coordinator` and in `ComputeServer`: it reads
  its input, prints and ends, or the slice fails. What lies between, pipes that fill up
  and ends that other children inherited, is the matter of `Children`, whose
  `ComputesWhatWasRead` is what the two take for granted and whose `SlicesReturn` says
  when the step ends at all. In `Coordinator` the local thread may wait for its child for
  good (`LocalHangs`).
* **What a program prints** is a number for the units it has read. It prints at the end
  or while it reads (`chatty`); a crash may come at any time.
* **Numbers of a process.** `Fds` are the numbers that are left for connections, for the
  train files of jobs and for the sockets of broadcasts and remote calls; the listening
  socket, the files of transfers and pipes have theirs for good. A number is closed as
  often as the code closes it. A `recv` that has begun keeps its connection, whatever
  becomes of the number (`held`). Once a close has hit somebody else's number (`struck`),
  what goes through a number that belongs to a train file, a broadcast or a remote call by
  then fails; a slice that reads another file under its stale number is not followed.
* **A stream** holds nothing, one message, or more than one thing (`Mixed`), which no
  `strcmp` recognises. `File` and `Body` are a file with its flag byte and without it.
  Whoever reads a flag byte takes the first byte of what lies there: the `h` of a session's
  `hello` is a flag that is not zero, and its rest, if there is one, is metadata that
  recv is called again for, or that is refused.
* **Clients.** A session of `connect` sends a line and waits for an answer, again and again;
  it may also have sent `shareFile` or `distributiveComputing`. A caller asks, then sends
  its file and leaves. An empty line, which sends nothing and waits, is not modelled.
* **The name of a command** is its place in the dispatch table. In `Suggestion` words are
  sequences of letters, as short as shows every case of the distance; where the rest of
  `Console` is concerned a line is one of `Lines`.
* **A coordinator that kills itself.** `connect_socket` of a sending thread may fail
  unnoticed, and the `send` after it raises SIGPIPE: `CallKills` in `Coordinator`, part of
  `CoordinatorDies` in `ComputeClient`.
* **Consecutive commands.** `After[j]` are the jobs that the same console finished before
  it starts `j`.

## 3. Runs

| run | instance | what it shows |
|---|---|---|
| `latch` | 3 waiters, 2 resumers, 1 spurious wake-up, fair threads | `TypeOK`, `NoLostWakeup`, `ImplementsLatch`, `RaisedLatchIsTaken` |
| `divide` | files of 0..8 bytes with every layout of lines, files of 16, 20, 21 bytes with lines of one or two bytes, 0..5 nodes, scan window of 4 bytes | `TypeOK`, `ChunksTile`, `SkewBounded`, `CutsOnlyLongLines`, `ShortLinesStayInside` |
| `divide_last_node` | the same | violates `LastNodeGetsRemaining` |
| `job_faults` | one job with code and a two-byte train file, every sender and every call of the node may fail, the coordinator may die, the compilation and every slice may fail; fair threads | `TypeOK`, `ReportsJobsResult`, `NeverStarves`, `SendsEnd`, `JobCompletes` |
| `jobs_in_turn` | two jobs of train files of one and of two bytes, the second after the first, slices and calls that may fail, as long as the node's process runs (after it nothing of the node changes) | `ClosedWhenIdle`, `ReportsEveryByteOnce`, `ReadsBehindWriter`, `WaitsForWhatComes` |
| `jobs_at_once` | two jobs at once and an interactive sender that may fail, both gate commands at any time; constrained (`TwoAtOnce`) to states in which the files of one party travel, or the codes of both, or a code and an interactive file | `CodeTokens` |
| `v_code_awaited` | two jobs at once | violates `OwnCodeFinished` |
| `v_gate` | one job, one interactive sender | violates `OpenUntilResult` |
| `v_path` | one job with all three files | violates `OpensItsOwnPath` |
| `command` | 2 nodes, a list of 3 entries, files of 0 and 5 bytes without newlines, with one line, or with short lines, reads of 2 bytes, two commands, every call of the local thread may fail or wait for good; fair threads | `TypeOK`, `PrintsWholeFile`, `FreesNothingInUse`, `CommandEnds` |
| `slices` | a slice of the console and one of a job handler in one process, of 0, 3 or 4 units, pipes of one unit, reads of two; any step may fail, programs print at the end or while they read; fair threads and programs | `TypeOK`, `ComputesWhatWasRead`, `LeaksOnlyAtStart`, `DeadlockHasCause`, `SlicesReturn` |
| `node_process` | a process with two connections: two clients, a client and a call or broadcast of the console, or two of these; one other node; two descriptors, a backlog of one, four requests of which one is unknown, eleven lines to type; fair threads | `TypeOK`, `SocketsIntact`, `AnswersOwnCommand`, `AbortsOnlyOnFaults`, `FirstStrike`, `SuggestsFairly`, `ClientsServed`, `ConsoleReturns` |

**Bounds.** A train file of two bytes gives slices that are empty, partial and whole and
a second slice that starts in the middle of the file; buffer sizes of one and two bytes
make a pread return less than the slice or all of it. Three waiters and two resumers are
enough for a resume that meets two sleepers and for a raise that is lost on a raised
flag. Five nodes and eight bytes are enough for cuts that pile up past the end of the
file. Two nodes whose replies may be doubled fill a list of three and overflow it, and
give every division from none to three ranges (four when a walk leaves the list); five
bytes, cut for three, give ranges that are empty, cut a line, or leave the file, and more
than one read of two bytes. A second command starts with the list that the first one
freed. In `jobs_in_turn` the second job is longer than the first, so that progress left
behind would pass for its own. What `TwoAtOnce` cuts off from two jobs at once is covered
by the theorem `JobCodeTokens`; what jobs in turn report beside interactive transfers and
gate commands by `JobReportsEveryByteOnce` and `JobReportsResult`.

Slices of four units over pipes of one are the shortest whose program can fill both
(`InCap + OutCap + 1` is three), slices of three the longest that cannot, and two slices are
enough for children that hold each other's input. Two descriptors for two connections
let a closed number be given out while its second object still has it; a connection that
comes before the first one is accepted finds the backlog of one full. The first of
two clients begins with any request, also with the two long ones; what it types after
that is all the same to the process, which never looks at it as a command, so that it is
always `hello` (`Bounded`, an action constraint). The second client asks for `receiveFile`,
whose handler opens the node and has the copy that closes twice. The eleven lines are the
names of all commands but `connect`, the empty line, two that are near one name, one that
is near nothing, and a long one. All three ways out of `SlicesReturn` and all four faults of
`node_process` are reached. The largest runs are `command` (749,066 distinct states) and
`node_process` (148,353). The proofs below remove the bounds for most safety
properties.

**Deadlock** is not checked: every instance has final states in which all calls have
returned, and the division and the latch calls end by design.

**Fairness.** Every thread that can go on is scheduled: weak fairness of each
connection's handler on the node, of each sending thread, of each job handler and of the
coordinator once it has started. Nobody owes a job, an interactive transfer, a gate
command, a spurious wake-up or a failure. The threads are kernel threads without
priorities, and every step they wait for is either enabled for good (a latch nobody else
takes, a byte in a socket) or covered by another thread's progress; no strong fairness is
used. In `command` the console's thread, the local computation and each call are weakly
fair; a command need not be given and a reply need not come. The outcome of a call is
free, so fairness only says that it has one, and `hung` is one of them. What is fair of a
handler, of a receiver and of the local thread are their steps on a machine that does not
fail (`work`, `serve`, `localWork`): no failure is owed, and none is excluded. In `slices` each
parent and each program goes on when it can; nothing has to begin, fail or crash. In
`node_process` the accept loop, each handler as long as it does not wait (`handler`) and the
console's own steps are weakly fair, and an answer that has arrived is read; nobody has to
connect, to ask, to type, to send a file or to decide about one. What a handler waits for
(`awaits`: its user's decision, the latches, the program and the slices of a job) and what
the console waits for in a broadcast or a remote call (`broadcasts`) may never come. The
two liveness properties have a premise that is not fairness but a condition on users,
`NobodySilent`: without it they are false, because the accept loop waits for the command
of the connection that it has accepted (`tcpServer.cpp` 15-21). `ClientsServed` excepts a
client whose own handler is at something that it may wait for (`Await`), among them a
session that has typed `shareFile` and then a line which is too short for the metadata of
a file; nobody else is kept waiting by such a handler.

### What the properties of jobs say

`CodeTokens` holds for jobs at once as well: however many handlers share the first latch,
none gets past it on a code file that is not whole. The others are about jobs whose
handlers do not overlap. `ReadsBehindWriter` and `NeverStarves` keep the handler, which reads
the file while it grows, from bytes that are not there; `ReportsEveryByteOnce` and
`ReportsJobsResult` are the promise to the coordinator, as far as it goes: it is kept by a
handler that has printed no error, and the coordinator is not told which one that is.
`WaitsForWhatComes` is what a deadlock of a job would violate first: a handler at a latch
that is down has a transfer that will still raise it, and a handler that finds no new
progress has bytes, or a publication, still to come. The flags are the node's, so it is here that a flag which a
former job left up, or a handler takes down for somebody else, would be noticed.

### What the properties of a command say

`PrintsWholeFile` joins the parts: if the calls keep the promise that `ReportsJobsResult`
makes for each of them, and the local thread printed no error, the number printed covers
every byte of the file once, whoever answered the broadcast and wherever the lines end. It
is conditional, and has to be: a failed call contributes -1 without a message, the local
thread returns the number of half its range when a `pread` fails, and with no reply at all
a 0 is printed.
`FreesNothingInUse` says that the handler's pointers outlive the threads that use them;
`CommandEnds` lists what can hold the console for good: a node that never answers, a child
of the local computation that keeps its thread at a pipe or in `waitpid`, and a broadcast
whose socket took no timeout.

### What the properties of slices and of a process say

`ComputesWhatWasRead`: a number that a slice returns is for exactly the bytes read from
the file, although children inherit pipe ends and any step fails. `LeaksOnlyAtStart`: a
node that computes slice after slice does not run out of descriptors by those that have
begun to read. `SlicesReturn` lists every reason for which a slice may not return. Two are
in the code: the parent writes all input before it reads any output, and a fork copies
the write ends of all other slices into its child, so that two slices that are forked
between each other's `pipe` and `close` wait for each other for good. `DeadlockHasCause`
says the same of a state: when slices have begun and no function and no program of the
process can go on (`Deadlock`, with the conditions under which `write`, `read` and `waitpid`
block), one of the two is the reason. Every slice takes finitely many steps, so with
finitely many slices a process either returns from all of them or gets into such a state;
unlike the liveness property it can be proved.

`SocketsIntact`, `FirstStrike` and `AnswersOwnCommand` take the double closes of the program
apart. Something closes its number and keeps it, and closes it again later; when the
number was given out in between, the second close hits a stranger ("struck"). The code has
four kinds of these (`Spent`):

* the handlers of `status`, `connect`, `receiveFile` and `closeReceiveFile` copy their Socket
  object, and copy and original have a destructor each (`receivefile.cpp` 7 and its like);
* `sendRequest` closes its UDP socket on each of its returns (`list connections.cpp` 14, 38, 52,
  97) before the destructor does;
* `distributiveComputingOverNetwork` closes its socket when an answer or result did not come
  (191, 242) before the destructor does;
* a slice that cannot write to its program closes the train file (the node's
  `linuxdistributivecomputing.cpp` 95), whose number the handler closes at its end (241).

The other sockets and files, those of `sendToServer`, of the two long handlers, of transfers
and of the local computation among them, are closed once. Up to the first hit everything in
use has its own number (`SocketsIntact`), and a client or the console reads the answer to its
own command, or what the long command that it began on the connection says next: a session
that has typed `shareFile` to an open node and then `hello` reads the decision of the node's
user about a file that it never meant to send (`Due`). The first hit always comes from one of
the four and from none of the others (`FirstStrike`). `AbortsOnlyOnFaults`:
`handlestatus.cpp` 16 and `recievefile.cpp` 28 free what `sendToServer` returned, which is a
constant when the connection was lost; a process ends that way only after a hit or when
the machine has no descriptor, thread or place in the backlog left. `SuggestsFairly`: what
is offered for an unknown line is a name that contains the line or, if there is none, a
nearest one by the definition of the edit distance, and nothing is offered only when
nothing is near.

### What the violated properties say

* `LastNodeGetsRemaining`: the cuts move forward to line ends and are never clipped to the
  file; what "remains" for the last node can be negative.
* `OwnCodeFinished`: the first latch belongs to the node, not to a job.
* `OpenUntilResult`: the gate belongs to the node, not to a session; the end of an
  interactive transfer closes it for a job. Two more ways lead there, with no other party at
  all: a handler sends its result before it closes the gate, and the next job of the same
  coordinator may have been told in between that the node is open (instance of
  `jobs_in_turn`); and nobody waits for the reducer, so a job's own handler may have closed
  the gate before the reducer's connection is served (instance of `v_path`). What is left
  is true: theorem `JobOpenUntilResult`.
* `OpensItsOwnPath`: the three receivers of one job race on `shared_outpath`. This needs
  only one job and no failure. The properties that speak about file contents therefore
  assume `NoCollision`, and `JobCompletes` has the collision as a way out.

More observations about the code, for which no run is kept. `ip_list` has no terminator
when `MAX_IPS` nodes reply, and its users read past its end (`WalkWildly`, with
`list connections.cpp` 100). Forked children inherit the sockets of the process as well:
a connection that its handler has closed stays open until the last child ends. The
second latch is
raised before a byte of the train file is there, so the loop starts with empty slices,
one child process each; a sending thread that fails before the node knows of it leaves
the job handler waiting forever and the node open; and every job after the first one is
computed by the first one's binary (`compileCode` runs once per process), which is why
`ReportsEveryByteOnce` names the installed program and not the job's (theorem
`JobReportsFirstProgram`).

## 4. Proofs

All theorems hold for every value of the constants that satisfies the assumptions named
in the modules (file sizes are naturals, a job sends at least code and train, finitely
many jobs, buffer size positive).

* `SharedDataProofs`: `LatchTypes`, `LatchLosesNoWakeup`, `LatchRefinement`. The inductive
  invariant adds to the types that exactly the owner of the mutex is inside a critical
  section, and that a waiter in `clearing` has seen the flag, so nobody took it down.
* `DivideFileProofs`: `DivideTypes`, `DivideTiles`, `DivideSkewBounded`,
  `DivideShortLines`, `DivideCutsOnlyLongLines`. `DivideShortLines` bounds how far each cut
  can have drifted: after `k` nodes the offset is at most the ideal one plus `k` lines.
  `DivideCutsOnlyLongLines` follows one iteration (`CutOk`): the scan ends at a line's end
  or has seen its whole window without one, and the safeguard drops the found end only
  when it is a whole share away.
* `ComputeJobProofs`: `JobTypes` needs the bounds that the types rest on (nobody receives
  more than was sent, a slice ends at a published progress). `JobCodeTokens` counts: a
  step either finishes a code transfer and may raise the latch, or takes it down and lets
  one handler past. `JobClosesNode` assumes that the node's user never gives the command
  `receiveFile`; its invariant is that an open gate has a job on the node that will close
  it, and that nobody but a job opens it.
* `JobResultProofs`: what a node promises for jobs in turn, in any number and of every
  size, with every number of interactive transfers, gate commands, failing senders and
  slices and failing calls. The hypothesis is `InTurn`: of any two jobs the coordinator of one has its result
  before the other starts, and is none of those that may die before it. With jobs at once
  the promise is false, which is what `v_code_awaited` shows; after a coordinator that died
  the node may still be at its job when the next one starts, which is the same thing. A
  single job is in turn whatever becomes of its coordinator.
  The invariant grows in layers, each of which uses the ones before it:
  `OneAtATime`, a job is called when the handlers of the earlier ones have reported, so
  that one handler at most is at work (`Current`);
  `Stages` and `Latched`, a raised latch was raised for the handler that will take it, and a
  handler past a latch got there by its own transfer (`JobOwnCodeFinished`);
  `Progress`, the offset and slice of the current job lie behind the published progress and
  that behind the bytes received, from the moment its train transfer has set the node's
  counters anew, and of the transfer of a reported job nothing is left to disturb them
  (`JobReadsBehindWriter`);
  `Kept`, what was raised stays raised until it is taken, and what was received is published
  before the handler can find nothing new for good (`JobWaitsForWhatComes`);
  `Open`, for a single job of code and train with nobody else to close the node
  (`Undisturbed`): the gate is open while the handler works, and it cannot have reported
  before both files were admitted (`JobOpenUntilResult`);
  `FilesWhole`, the train file of the current job holds what its transfer has received,
  unless paths collided, although the next job truncates the same path
  (`SameTrainName`: the chunks of all jobs have one name);
  `Prepared`, an open descriptor is one of that file (`JobNeverStarves`);
  `Work`, as long as the handler has printed no error, the result so far is the installed
  program over exactly the bytes before the offset (`JobReportsEveryByteOnce`, under `TrainNamed`: the file has the name under which
  the handler looks for it). `JobReportsFirstProgram` adds whose program it is
  (`FirstProgram`): whoever compiles finds the first job's code, because the code of
  another one arrives only after the first has reported, and it reported by a program. So
  every later job gets its chunk computed by the first one's code; for a single job that
  is its own (`JobReportsResult`). For a program that prints nothing over an empty slice
  (`EmptyOutput = {Failed}`) these three speak of the reports without such slices only, since
  each of those is an error that is printed.

* `CoordinatorProofs`: `CommandTypes`, `CommandPrintsWholeFile`,
  `CommandFreesNothingInUse`, for every file, layout of lines, list of nodes and number of
  commands. The module takes `DivideFileProofs` by `INSTANCE`, so that `NextIInv` speaks of
  the division inside the command (`SameNext`) and its invariant holds of the ranges. On it
  stand three more layers:
  `Control`, which threads can exist at which line of the handler; `LocalInv`, what the
  local computation has read so far, unless it has printed an error; and `ResultInv`, that after `m` joins of calls that
  kept their promise the result is the bytes before the end of range `m` - 1.
* `ChildrenProofs`: `SliceTypes`, `SliceComputesWhatWasRead`, `SliceLeaksOnlyAtStart`,
  `SliceDeadlockHasCause`, for any number of slices of any length in one process. Two facts
  carry the first three: what was read
  is what lies in the buffer, in the pipe and in the child together (`Counted`), and a
  slice holds in the process exactly the ends that its place in the function says
  (`Held`), so its child cannot see the end of its input while the parent still writes. The fourth
  adds the ends that the programs hold (`Wired`: a program that lives has its own two, which
  its parent has closed, and never the one that feeds it) and what they have printed
  (`Printed`). In a process that has stopped, a full output then belongs to a program that
  prints too much (`FullOutput`); if there is none, every program waits for the end of its
  input, and whoever holds that open is another living program or a slice that returned
  without closing it (`AllHostages`).
* `ConsoleProofs`: `ProcessTypes`, `ProcessSocketsIntact`, `ProcessFirstStrike`, for any
  clients, calls, remote nodes, descriptors and backlog. `SocketsIntact` is not inductive: an
  object that is destroyed must not be counted among those in use a moment later. The
  invariant adds that a connection is waiting, accepted or handed to a thread, and never
  two of these (`OneAtATime`), and at which stage of its handler or command each train file
  and UDP socket is open, closed or gone (`Staged`, with `Typed` for which steps belong to
  which command). Three lemmas then cover every step: one that leaves the numbers alone
  (`IntactFrame`), one that closes a number (`IntactClose`), one that takes a free one
  (`IntactOpen`). What closes its number for the first time hits itself, because it is in
  use until then (`OwnClose`); what closes it again is one of the four kinds above
  (`StrikesOnlySpent`).
* `AnswerProofs`: `ProcessAnswersOwnCommand`, `ProcessAbortsOnlyOnFaults`, on top of the
  invariant of `ConsoleProofs`. A connection runs through these states: nothing was said on
  it (`Unsaid`); one command was said (`Said`: in the stream, at the listener, in the handler
  or as an answer in the other stream it is always that command, and never in two of these
  places); then the answer was read, and nothing else comes (`Over`), or the decision about
  a file (`Sharing`), or the result of a job (`Computing`). Whoever reads reads its own
  connection (`ReadersOwn`). Every step of every thread keeps each of these on every
  connection (`Keeps`), and the steps of its own client or of the console lead from one to
  the next (`Own`). The second theorem adds, as long as nothing went wrong (`Answered`), that
  the console's socket has a number (`CallNumbered`) and that the console never waits for an
  answer that is not on its way (`Answerable`, `Coming`); so nothing it is given is a
  constant (`Met`).

Only model-checked: liveness (`RaisedLatchIsTaken`, `SendsEnd`, `JobCompletes`,
`CommandEnds`, `SlicesReturn`, `ClientsServed`, `ConsoleReturns`), which is outside the
prover's reach (`JobWaitsForWhatComes` proves the half of `JobCompletes` that is not: every
wait of a handler is for a step that can still come; `SliceDeadlockHasCause` that of
`SlicesReturn`); and `SuggestsFairly`, which is about
a recursive definition.

## 5. Not modelled

* **The Windows variants** (`windowsdistributivecomputing.cpp`, two files, and
  `windowsSockets.cpp`). The coordinator's file calls `distributiveComputingOverNetwork`
  (line 957) without a declaration that is in scope, and cannot be built with the names of
  its headers put right either, so no behaviour of it can be checked. The job handler opens the train file while its receiver has it
  open for writing, which the sharing modes of both refuse; what it does after that is a
  return that leaves the gate open. `sendFile` of the Windows sockets sends the whole file
  whatever the range.
* **The older job handler** (`server commands/distributive computing.cpp`) is a copy of
  the one in `ComputeServer` and `Children` that defines the same functions.
* **The coordinator and a job handler of one process** both compile into
  `/tmp/local_exec`, each under a once flag of its own. Their models are composed only in
  their pipes and children (`Children`); together with the files of a node the state is
  too large to check.
* **Numbers across modules.** `Console` gives numbers to sockets and train files, `Children`
  has pipe ends without numbers, `ComputeServer` a train file that is open or not. That a
  number which is closed twice is a pipe, that a slice reads another file under a stale
  number, and that children inherit sockets, falls between the three.
* **A signal at the end of a job**: `sendData` of a result to a coordinator that has gone
  may raise SIGPIPE.
* Paths longer than `shared_outpath`, a flag byte or metadata that arrive in pieces, an empty
  line in a `connect` session, the torn lines of a terminal that prompt and command loop
  share, the wording of the prompt (which names the last accepted client), and a UDP
  responder that cannot bind.

## 6. Plan

1. *(done)* latch, division, one node with its jobs and transfers; proofs of their safety.
2. *(done)* `Discovery` and `Coordinator`: the end-to-end promise that the printed result
   covers the whole file; the result of a single job proved for every size.
3. *(done)* `Listener`, `Handlers`, `Console`: a whole process with its descriptors, and
   `Suggestion`; `Children`: pipes that fill up and children that inherit them. Proofs of
   both.
4. *(done)* `CoordinatorProofs`: the printed result for every file, list and number of nodes;
   `AnswerProofs`: who reads which answer in a process with any number of connections.
5. One table of numbers for `Console`, `Children` and the slices of `ComputeServer`.
6. *(done)* `DeadlockHasCause` for any number of slices; `ReportsEveryByteOnce` and `WaitsForWhatComes` for any number of jobs in turn.
