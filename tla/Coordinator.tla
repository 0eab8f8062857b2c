---------------------------- MODULE Coordinator ----------------------------
(***************************************************************************)
(* The commands listConnections and runDistributiveSystems of a console:   *)
(* handle_list_connections, and handle_distributive_systems with           *)
(* distributiveComputingLocal (src/Clients Commands/distributedcomputing/  *)
(* linuxdistributivecomputing.cpp).  The latter discovers the nodes,       *)
(* divides the train file among them, computes the first range itself and  *)
(* the others on the nodes, each in a thread of its own, and combines what *)
(* the threads return.                                                     *)
(*                                                                         *)
(* What one call does on its node is module ComputeJob; here it returns    *)
(* the range's result, as ReportsJobsResult promises, or it returns        *)
(* something else, throws, hangs, or takes the process with it.  A result  *)
(* is the set of the bytes that were combined an odd number of times.      *)
(* Which programs keep the local thread from returning is module Children; *)
(* here it may wait for its child for good at every pipe.                  *)
(***************************************************************************)
EXTENDS Discovery, Integers

CONSTANTS
  FileSizes, ConnectionCounts, Layouts(_), ScanWindow, Garbage,  \* of DivideFile
  LocalBuffer,   \* BUF_SIZE of distributiveComputingLocal
  Failed,        \* the -1 that stands for a failed call
  MaxCommands    \* bounds the commands of one run of the program

ASSUME LocalBufferAssumption == LocalBuffer \in Nat \ {0}
ASSUME CommandsAssumption == MaxCommands \in Nat
ASSUME DivisionAssumption ==
  /\ FileSizes \subseteq Nat /\ ConnectionCounts \subseteq Nat
  /\ \A n \in FileSizes : Layouts(n) \subseteq SUBSET (0 .. n - 1)
  /\ ScanWindow \in Nat \ {0} /\ Garbage \notin Int
\* A walk over ip_list may count one entry too many (WalkWildly).
ASSUME ListsAreCounted == 0 .. MAX_IPS + 1 \subseteq ConnectionCounts

VARIABLES
  fileSize, totalConnections, newlines, readable,   \* of DivideFile
  pc, i, totalWeight, offset, train_offset, train_chunk_size,
  command, issued,   \* the current command, and how many there were
  compiled,          \* the once flag of distributiveComputingLocal
  next,              \* the loop variable of the handler
  future, value,     \* the threads started by std::async and what they return
  fed,               \* bytes given to the local child
  stderr,            \* the local thread of this command has printed an error
  result

Division == INSTANCE DivideFile

division == <<fileSize, totalConnections, newlines, readable, pc, i, totalWeight,
              offset, train_offset, train_chunk_size>>
discovery == <<datagrams, list>>
calls == <<compiled, future, value, fed, stderr>>
handler == <<command, issued, next, result>>
vars == <<step, ended, discovery, division, calls, handler>>

Nodes == 0 .. totalConnections - 1
Bytes == 0 .. fileSize - 1
MinusOne == {Failed}
xor(a, b) == (a \ b) \cup (b \ a)

\* The bytes of the file between two positions, and in the range of node k.
Within(from, to) == {b \in Bytes : from <= b /\ b < to}
RangeOf(k) ==
  IF fileSize = 0 THEN {}
  ELSE Within(train_offset[k], train_offset[k] + train_chunk_size[k])

\* A walk from ip_list to the NULL stays in the list.
Walkable == memory = "live" /\ terminated

Init ==
  /\ DiscoveryInit
  /\ Division!Init /\ totalConnections = 0
  /\ command = "none" /\ issued = 0 /\ next = 0 /\ result = {}
  /\ compiled = FALSE
  /\ future = <<>> /\ value = <<>> /\ fed = 0 /\ stderr = FALSE

-----------------------------------------------------------------------------
(* The console's thread *)

StartCommand(c) ==
  /\ Running
  /\ issued < MaxCommands
  /\ goes("idle", "asking")
  /\ command' = c /\ issued' = issued + 1
  /\ UNCHANGED <<ended, discovery, division, calls, next, result>>

\* handle_list_connections: nothing to print, or print and free every entry.
FindNoList ==
  /\ Running
  /\ command = "listConnections"
  /\ memory = "null"
  /\ goes("answered", "idle")
  /\ UNCHANGED <<ended, discovery, division, calls, handler>>

PrintList ==
  /\ Running
  /\ command = "listConnections"
  /\ Walkable
  /\ goes("answered", "idle")
  /\ memory' = "freed"
  /\ UNCHANGED <<ended, datagrams, ip_list, terminated, division, calls, handler>>

\* findTotalConnections found n entries; the two arrays are allocated and
\* divideFileIntoChunks is called.
CallDivision(n) ==
  /\ goes("answered", "dividing")
  /\ totalConnections' = n
  /\ pc' = "open" /\ i' = 0 /\ totalWeight' = 0 /\ offset' = 0
  /\ train_offset' = [k \in 0 .. n - 1 |-> Garbage]
  /\ train_chunk_size' = [k \in 0 .. n - 1 |-> Garbage]
  /\ UNCHANGED <<fileSize, newlines, readable>>

CountConnections ==
  /\ Running
  /\ command = "runDistributiveSystems"
  /\ Walkable
  /\ CallDivision(Len(ip_list))
  /\ UNCHANGED <<ended, discovery, calls, handler>>

\* A walk over a list that is gone or has no end: the process dies of it, or it
\* finds a NULL somewhere.
WalkWildly ==
  /\ Running
  /\ step = "answered"
  /\ ~Walkable
  /\ \/ /\ command = "runDistributiveSystems" \/ memory # "null"
        /\ ended' = TRUE
        /\ UNCHANGED <<step, memory, division>>
     \/ /\ command = "listConnections"
        /\ memory = "live"
        /\ goes("answered", "idle")
        /\ memory' = "freed"
        /\ UNCHANGED <<ended, division>>
     \/ /\ command = "runDistributiveSystems"
        /\ \/ memory = "live" /\ CallDivision(MAX_IPS)
           \/ memory = "live" /\ CallDivision(MAX_IPS + 1)
           \/ memory = "freed" /\ \E n \in 0 .. MAX_IPS : CallDivision(n)
        /\ UNCHANGED <<ended, memory>>
  /\ UNCHANGED <<datagrams, ip_list, terminated, calls, handler>>

Divide ==
  /\ Running
  /\ step = "dividing"
  /\ Division!Next
  /\ UNCHANGED <<step, ended, discovery, calls, handler>>

\* The arrays of futures and results are set up.
BeginCalls ==
  /\ Running
  /\ pc = "returned"
  /\ goes("dividing", "launching")
  /\ next' = 0 /\ result' = {} /\ fed' = 0 /\ stderr' = FALSE
  /\ future' = [k \in Nodes |-> "none"]
  /\ value' = [k \in Nodes |-> {}]
  /\ UNCHANGED <<ended, discovery, division, compiled, command, issued>>

\* One iteration of the loop that starts the threads.
Launch ==
  /\ Running
  /\ next < totalConnections
  /\ goes("launching", "launching")
  /\ future' = [future EXCEPT ![next] = IF next = 0 THEN "compile" ELSE "connect"]
  /\ next' = next + 1
  /\ UNCHANGED <<ended, discovery, division, compiled, value, fed, stderr, command,
                 issued, result>>

BeginJoins ==
  /\ Running
  /\ next = totalConnections
  /\ goes("launching", "joining")
  /\ next' = 0
  /\ UNCHANGED <<ended, discovery, division, calls, command, issued, result>>

GetUntilFailure ==   \* gives up at the first call that failed
  /\ Running
  /\ step = "joining"
  /\ next < totalConnections
  /\ \/ /\ future[next] = "returned"
        /\ step' = IF value[next] = MinusOne THEN "freeing" ELSE "joining"
        /\ result' = xor(result, value[next])
        /\ next' = next + 1
        /\ UNCHANGED ended
     \/ /\ future[next] = "thrown"
        /\ ended' = TRUE
        /\ UNCHANGED <<step, next, result>>
  /\ UNCHANGED <<discovery, division, calls, command, issued>>

\* futures[i].get() waits for the thread; an exception of the thread is thrown
\* here, and nobody catches it.
Get ==
  /\ Running
  /\ step = "joining"
  /\ next < totalConnections
  /\ \/ /\ future[next] = "returned"
        /\ result' = xor(result, value[next])
        /\ next' = next + 1
        /\ UNCHANGED ended
     \/ /\ future[next] = "thrown"
        /\ ended' = TRUE
        /\ UNCHANGED <<next, result>>
  /\ UNCHANGED <<step, discovery, division, calls, command, issued>>

PrintResult ==
  /\ Running
  /\ next = totalConnections
  /\ goes("joining", "freeing")
  /\ UNCHANGED <<ended, discovery, division, calls, handler>>

\* freeMemory walks the list again; what is no list cannot be freed.
freeMemory ==
  /\ Running
  /\ step = "freeing"
  /\ \/ memory = "live" /\ goes("freeing", "idle") /\ memory' = "freed" /\ UNCHANGED ended
     \/ ~Walkable /\ ended' = TRUE /\ UNCHANGED <<step, memory>>
  /\ UNCHANGED <<datagrams, ip_list, terminated, division, calls, handler>>

handle_list_connections == FindNoList \/ PrintList

handle_distributive_systems ==
  CountConnections \/ Divide \/ BeginCalls \/ Launch \/ BeginJoins \/ Get
    \/ PrintResult \/ freeMemory

-----------------------------------------------------------------------------
(* distributiveComputingLocal *)

Local == 0

\* The thread of node k goes from one point to another, or returns v.
Moves(k, from, to) ==
  /\ Running
  /\ k \in DOMAIN future /\ future[k] = from
  /\ future' = [future EXCEPT ![k] = to]
  /\ UNCHANGED <<step, discovery, division, handler>>
returns(k, v) == value' = [value EXCEPT ![k] = v]

\* call_once: a compilation that fails ends the process.
CompileOnce ==
  /\ Moves(Local, "compile", "spawn")
  /\ compiled' = TRUE
  /\ ended' \in {FALSE, ~compiled}
  /\ UNCHANGED <<value, fed, stderr>>

\* pipe, fork and the open of the train file.
Spawn ==
  /\ readable
  /\ Moves(Local, "spawn", "feed")
  /\ UNCHANGED <<ended, compiled, value, fed, stderr>>

SpawnFails ==
  /\ Moves(Local, "spawn", "returned")
  /\ returns(Local, MinusOne)
  /\ stderr' = TRUE
  /\ UNCHANGED <<ended, compiled, fed>>

Smallest(S) == CHOOSE m \in S : \A x \in S : m <= x

\* What is left of the range, and how many bytes the next pread finds.  An empty
\* file has no range: then remaining is what was in the array before.
Remaining == train_chunk_size[Local] - fed
Ahead ==
  IF fileSize = 0 THEN 0
  ELSE Smallest({LocalBuffer, Remaining, fileSize - (train_offset[Local] + fed)})

FeedLocalBuffer ==   \* remaining counts buffers, not bytes
  /\ Moves(Local, "feed", "feed")
  /\ Ahead > 0
  /\ fed' = fed + LocalBuffer
  /\ UNCHANGED <<ended, compiled, value, stderr>>

\* One iteration of the loop: pread and the writes to the child.
FeedLocal ==
  /\ Moves(Local, "feed", "feed")
  /\ Ahead > 0
  /\ fed' = fed + Ahead
  /\ UNCHANGED <<ended, compiled, value, stderr>>

\* The child is gone: write fails, or its signal ends the process.
FeedLocalFails ==
  /\ Moves(Local, "feed", "returned")
  /\ Ahead > 0
  /\ returns(Local, MinusOne)
  /\ ended' \in BOOLEAN
  /\ stderr' = TRUE
  /\ UNCHANGED <<compiled, fed>>

\* pread fails, or returns 0 because the file ends before the range does: the loop
\* is left, and what the child prints for the bytes so far is the range's number.
PreadFails ==
  /\ Moves(Local, "feed", "read")
  /\ fileSize > 0 => Remaining > 0
  /\ stderr' = TRUE
  /\ UNCHANGED <<ended, compiled, value, fed>>

EndInputOpen ==   \* the child waits for more, and its parent for the child
  /\ Moves(Local, "feed", "blocked")
  /\ fileSize > 0 => Remaining <= 0
  /\ UNCHANGED <<ended, compiled, value, fed, stderr>>

EndInput ==
  /\ Moves(Local, "feed", "read")
  /\ fileSize > 0 => Remaining <= 0
  /\ UNCHANGED <<ended, compiled, value, fed, stderr>>

\* The child's output to the end.
ReadOutput ==
  /\ Moves(Local, "read", "returned")
  /\ returns(Local, IF fed = 0 THEN {}
                    ELSE Within(train_offset[Local], train_offset[Local] + fed))
  /\ UNCHANGED <<ended, compiled, fed, stderr>>

\* -1 if the child crashed or printed no number; and some number, here none of its
\* bytes, if a read failed before the end of the output.
ReadOutputFails ==
  /\ Moves(Local, "read", "returned")
  /\ returns(Local, MinusOne) \/ returns(Local, {})
  /\ stderr' = TRUE
  /\ UNCHANGED <<ended, compiled, fed>>

\* A write, a read or waitpid that waits for the child for good.
LocalHangs ==
  /\ Moves(Local, "feed", "hung") \/ Moves(Local, "read", "hung")
  /\ UNCHANGED <<ended, compiled, value, fed, stderr>>

\* The steps of the thread on a machine that does not fail, beside a child that ends.
localWork ==
  \/ CompileOnce \/ Spawn \/ FeedLocal \/ EndInput \/ ReadOutput
  \/ SpawnFails /\ ~readable
  \/ PreadFails /\ Ahead <= 0

distributiveComputingLocal ==
  \/ localWork \/ SpawnFails \/ FeedLocalFails \/ PreadFails \/ ReadOutputFails
  \/ LocalHangs

-----------------------------------------------------------------------------
(* distributiveComputingOverNetwork, seen from its caller *)

\* ip_list[k] as the thread reads it: nothing else than an address that was
\* received names a node.
NamesNode(k) == memory = "live" /\ k < Len(ip_list)

\* The whole range is in the file: otherwise its sender fails half-way, or tells the
\* node a size that never arrives, and the node computes forever.
Sendable(k) == readable /\ (fileSize > 0 => Division!InsideFile(k))

CallReturns(k) ==
  /\ Moves(k, "connect", "returned")
  /\ NamesNode(k) /\ Sendable(k)
  /\ returns(k, RangeOf(k))
  /\ UNCHANGED <<ended, compiled, fed, stderr>>

\* No connection, or it is lost: -1.  Two mixed-up files: anything, here nothing.
CallFails(k) ==
  /\ Moves(k, "connect", "returned")
  /\ \/ returns(k, MinusOne)
     \/ NamesNode(k) /\ Sendable(k) /\ returns(k, {})
  /\ UNCHANGED <<ended, compiled, fed, stderr>>

\* stoi throws on what is no int.
CallThrows(k) ==
  /\ Moves(k, "connect", "thrown")
  /\ NamesNode(k) /\ Sendable(k)
  /\ UNCHANGED <<ended, compiled, value, fed, stderr>>

\* The result never comes.
CallHangs(k) ==
  /\ Moves(k, "connect", "hung")
  /\ NamesNode(k)
  /\ UNCHANGED <<ended, compiled, value, fed, stderr>>

\* A sending thread does not ask whether it could connect: its send raises SIGPIPE.
CallKills(k) ==
  /\ Moves(k, "connect", "connect")
  /\ NamesNode(k)
  /\ ended' = TRUE
  /\ UNCHANGED <<compiled, value, fed, stderr>>

distributiveComputingOverNetwork(k) ==
  CallReturns(k) \/ CallFails(k) \/ CallThrows(k) \/ CallHangs(k) \/ CallKills(k)

-----------------------------------------------------------------------------
Discover == sendRequest /\ UNCHANGED <<division, calls, handler>>

Answer == udp_discovery_responder /\ UNCHANGED <<division, calls, handler>>

Console == Discover \/ handle_list_connections \/ handle_distributive_systems \/ WalkWildly

Next ==
  \/ \E c \in {"listConnections", "runDistributiveSystems"} : StartCommand(c)
  \/ Console
  \/ Answer
  \/ distributiveComputingLocal
  \/ \E k \in Nodes : distributiveComputingOverNetwork(k)

Spec == Init /\ [][Next]_vars

\* The console's thread and the threads it starts are scheduled; nobody owes a
\* command, a reply or a failure.
Fairness ==
  /\ WF_vars(Console)
  /\ WF_vars(localWork)
  /\ \A k \in 0 .. MAX_IPS : WF_vars(distributiveComputingOverNetwork(k))

FairSpec == Spec /\ Fairness

-----------------------------------------------------------------------------
(* Properties *)

FutureSteps ==
  {"none", "compile", "spawn", "feed", "read", "connect", "hung", "thrown", "returned"}

\* Every variable stays in its type; no reply is written past the end of ip_list.
TypeOK ==
  /\ Division!TypeOK
  /\ step \in {"idle", "asking", "collecting", "waiting", "closing", "answered",
               "dividing", "launching", "joining", "freeing"}
  /\ ended \in BOOLEAN /\ compiled \in BOOLEAN /\ terminated \in BOOLEAN
  /\ stderr \in BOOLEAN
  /\ heard \subseteq Hosts /\ replies \subseteq Hosts
  /\ memory \in {"null", "live", "freed"}
  /\ ip_list \in Seq(Hosts) /\ Len(ip_list) <= MAX_IPS
  /\ command \in {"none", "listConnections", "runDistributiveSystems"}
  /\ issued \in 0 .. MaxCommands
  /\ next \in Nat /\ fed \in Nat
  /\ result \subseteq Bytes \cup MinusOne
  /\ \A k \in DOMAIN future :
       future[k] \in FutureSteps /\ value[k] \subseteq Bytes \cup MinusOne

\* If every node of the list returned what its range asked for and the local thread
\* printed no error, the printed result combines every byte of the train file
\* exactly once: division, threads and joins neither lose nor repeat one, wherever
\* the lines end and whoever answered.
PrintsWholeFile ==
  /\ step = "freeing" /\ totalConnections > 0 /\ readable
  /\ \A k \in Nodes \ {Local} : value[k] = RangeOf(k)
  /\ ~stderr
  => result = Bytes

Busy(k) == future[k] \notin {"none", "returned", "thrown"}

\* Neither the addresses nor the handler's buffers go away while a thread that was
\* given pointers to them is still at work: no handler returns before its calls.
FreesNothingInUse ==
  [][(memory = "live" /\ memory' = "freed") \/ (step # "idle" /\ step' = "idle")
       => \A k \in DOMAIN future : ~Busy(k)]_vars

\* A command ends, unless a node never answers it, the local child keeps its thread
\* waiting, the socket took no timeout or the process ends: the list is finite
\* however many replies come, and every thread that fails returns.
CommandEnds ==
  step = "asking" ~>
    \/ step = "idle" \/ ended
    \/ step = "waiting"
    \/ \E k \in DOMAIN future : future[k] = "hung"
=============================================================================
