-------------------------- MODULE CoordinatorProofs --------------------------
(***************************************************************************)
(* What the run of the commands checks for small files and lists, for      *)
(* every file, list of nodes and number of commands.  The division's       *)
(* invariant comes from DivideFileProofs.                                  *)
(***************************************************************************)
EXTENDS Coordinator, TLAPS

D == INSTANCE DivideFileProofs

-----------------------------------------------------------------------------
(* The division inside the command is the division of DivideFile *)

LEMMA SameEnd ==
  \A k : /\ Division!adjusted_end(k) = D!adjusted_end(k)
         /\ Division!currWeight(k) = D!currWeight(k)
<1>1. \A k : Division!currWeight(k) = D!currWeight(k)
  BY DEF Division!currWeight, D!currWeight
<1>2. \A k : Division!ideal_chunk(k) = D!ideal_chunk(k)
  BY <1>1 DEF Division!ideal_chunk, D!ideal_chunk
<1>3. \A p : Division!NewlinesAhead(p) = D!NewlinesAhead(p)
  BY DEF Division!NewlinesAhead, D!NewlinesAhead
<1>4. ASSUME NEW p PROVE Division!adjustToNextLine(p) = D!adjustToNextLine(p)
  <2>1. Division!Min(D!NewlinesAhead(p)) = D!Min(D!NewlinesAhead(p))
    BY DEF Division!Min, D!Min
  <2> QED
    BY <1>3, <2>1 DEF Division!adjustToNextLine, D!adjustToNextLine
<1>5. Division!Last = D!Last
  BY DEF Division!Last, D!Last
<1> QED
  BY <1>1, <1>2, <1>4, <1>5 DEF Division!adjusted_end, D!adjusted_end

LEMMA SameNext == Division!Next => D!Next
<1>1. Division!OpenFails => D!OpenFails
  BY DEF Division!OpenFails, D!OpenFails, Division!arguments, D!arguments
<1>2. Division!OpenSucceeds => D!OpenSucceeds
  BY DEF Division!OpenSucceeds, D!OpenSucceeds, Division!arguments, D!arguments
<1>3. Division!Weigh => D!Weigh
  BY SameEnd DEF Division!Weigh, D!Weigh, Division!arguments, D!arguments
<1>4. Division!Divide => D!Divide
  BY SameEnd DEF Division!Divide, D!Divide, Division!arguments, D!arguments
<1>5. Division!Return => D!Return
  BY DEF Division!Return, D!Return, Division!arguments, D!arguments
<1> QED
  BY <1>1, <1>2, <1>3, <1>4, <1>5 DEF Division!Next, D!Next

LEMMA SameInit == Division!Init => D!Init
BY DEF Division!Init, D!Init, Division!Nodes, D!Nodes

LEMMA SameNodes == Nodes = D!Nodes
BY DEF Nodes, D!Nodes

-----------------------------------------------------------------------------
(* The console and its list *)

\* Where the console's thread is; the threads it starts run during the first two.
Calling == {"launching", "joining"}
Computing == Calling \cup {"freeing"}
Steps ==
  Computing \cup {"idle", "asking", "collecting", "waiting", "closing", "answered", "dividing"}

ConsoleTypes ==
  /\ step \in Steps
  /\ ended \in BOOLEAN /\ compiled \in BOOLEAN /\ terminated \in BOOLEAN
  /\ stderr \in BOOLEAN
  /\ heard \subseteq Hosts /\ replies \subseteq Hosts
  /\ memory \in {"null", "live", "freed"}
  /\ ip_list \in Seq(Hosts) /\ Len(ip_list) <= MAX_IPS
  /\ command \in {"none", "listConnections", "runDistributiveSystems"}
  /\ issued \in 0 .. MaxCommands
  /\ next \in Nat

\* The steps of the console and the responders that concern no computation.
Elsewhere ==
  /\ UNCHANGED <<division, calls, next, result>>
  /\ step' = step \/ (step \notin Calling /\ step' \notin Computing)

Recount(n) == CallDivision(n) /\ UNCHANGED <<calls, next, result>>

Compute ==
  \/ Divide \/ BeginCalls \/ Launch \/ BeginJoins \/ Get \/ PrintResult

Thread == distributiveComputingLocal \/ \E k \in D!Nodes : distributiveComputingOverNetwork(k)

\* What a step of the program can be for the computation.
LEMMA StepKinds ==
  ASSUME ConsoleTypes, [Next]_vars
  PROVE  Elsewhere \/ (\E n \in 0 .. MAX_IPS + 1 : Recount(n)) \/ Compute \/ Thread
<1>1. ASSUME NEW c, StartCommand(c) PROVE Elsewhere
  BY <1>1 DEF StartCommand, goes, Elsewhere, Calling, Computing
<1>2. CASE Discover
  BY <1>2 DEF Discover, sendRequest, RequestFails, AllocationFails, Broadcast,
     ReceiveReply, NoMemory, Receiving, Timeout, EndRequest, goes, handler, Elsewhere,
     Calling, Computing
<1>3. CASE handle_list_connections
  BY <1>3 DEF handle_list_connections, FindNoList, PrintList, goes, handler,
     Elsewhere, Calling, Computing
<1>4. CASE freeMemory
  BY <1>4 DEF freeMemory, goes, handler, Elsewhere, Calling, Computing
<1>5. CASE CountConnections
  <2>1. Len(ip_list) \in 0 .. MAX_IPS + 1
    BY LimitAssumption DEF ConsoleTypes
  <2>2. Recount(Len(ip_list))
    BY <1>5 DEF CountConnections, handler, Recount
  <2> QED
    BY <2>1, <2>2
<1>6. CASE WalkWildly
  <2>1. UNCHANGED <<calls, next, result>>
    BY <1>6 DEF WalkWildly, handler
  <2>2. CASE UNCHANGED <<step, division>>
    BY <2>1, <2>2 DEF Elsewhere
  <2>3. CASE goes("answered", "idle") /\ UNCHANGED division
    BY <2>1, <2>3 DEF Elsewhere, goes, Calling, Computing
  <2>4. CASE CallDivision(MAX_IPS) \/ CallDivision(MAX_IPS + 1)
             \/ \E n \in 0 .. MAX_IPS : CallDivision(n)
    <3>1. MAX_IPS \in 0 .. MAX_IPS + 1 /\ MAX_IPS + 1 \in 0 .. MAX_IPS + 1
          /\ \A n \in 0 .. MAX_IPS : n \in 0 .. MAX_IPS + 1
      BY LimitAssumption
    <3> QED
      BY <2>1, <2>4, <3>1 DEF Recount
  <2> QED
    BY <1>6, <2>2, <2>3, <2>4 DEF WalkWildly
<1>7. CASE Answer
  BY <1>7 DEF Answer, udp_discovery_responder, Respond, LoseReply, handler, Elsewhere
<1>8. CASE UNCHANGED vars
  BY <1>8 DEF vars, handler, Elsewhere
<1>9. CASE handle_distributive_systems
  BY <1>4, <1>5, <1>9 DEF handle_distributive_systems, Compute
<1> QED
  BY <1>1, <1>2, <1>3, <1>6, <1>7, <1>8, <1>9, SameNodes
     DEF Next, Console, Thread

\* A thread moves from one point of its function to another; one that returns
\* leaves its value.
ThreadStep(k) ==
  /\ k \in DOMAIN future
  /\ future[k] \notin {"none", "returned", "thrown"}
  /\ \E to \in FutureSteps \ {"none", "compile"} :
       future' = [future EXCEPT ![k] = to]
  /\ \/ value' = value
     \/ \E v \in SUBSET (Bytes \cup MinusOne) : value' = [value EXCEPT ![k] = v]
  /\ ended' \in BOOLEAN /\ compiled' \in BOOLEAN /\ stderr' \in BOOLEAN
  /\ UNCHANGED <<step, discovery, division, handler>>

LEMMA WithinBytes == \A a, b : Within(a, b) \subseteq Bytes
BY DEF Within

LEMMA ThreadSteps ==
  ASSUME ConsoleTypes, Thread
  PROVE  \E k \in DOMAIN future : ThreadStep(k)
<1>1. CASE distributiveComputingLocal
  <2>1. Local \in DOMAIN future
    BY <1>1 DEF distributiveComputingLocal, localWork, CompileOnce, Spawn, SpawnFails,
       FeedLocal, FeedLocalFails, PreadFails, EndInput, ReadOutput, ReadOutputFails,
       LocalHangs, Moves
  <2>2. ThreadStep(Local)
    <3>1. CASE CompileOnce
      BY <3>1 DEF CompileOnce, Moves, ThreadStep, FutureSteps, ConsoleTypes
    <3>2. CASE Spawn
      BY <3>2 DEF Spawn, Moves, ThreadStep, FutureSteps, ConsoleTypes
    <3>3. CASE SpawnFails
      BY <3>3 DEF SpawnFails, Moves, returns, ThreadStep, FutureSteps, ConsoleTypes
    <3>4. CASE FeedLocal
      BY <3>4 DEF FeedLocal, Moves, ThreadStep, FutureSteps, ConsoleTypes
    <3>5. CASE FeedLocalFails
      BY <3>5 DEF FeedLocalFails, Moves, returns, ThreadStep, FutureSteps, ConsoleTypes
    <3>6. CASE EndInput
      BY <3>6 DEF EndInput, Moves, ThreadStep, FutureSteps, ConsoleTypes
    <3>7. CASE ReadOutput
      BY <3>7, WithinBytes
         DEF ReadOutput, Moves, returns, ThreadStep, FutureSteps, ConsoleTypes
    <3>8. CASE PreadFails
      BY <3>8 DEF PreadFails, Moves, ThreadStep, FutureSteps, ConsoleTypes
    <3>9. CASE ReadOutputFails
      <4>1. MinusOne \in SUBSET (Bytes \cup MinusOne) /\ {} \in SUBSET (Bytes \cup MinusOne)
        OBVIOUS
      <4>2. \E v \in SUBSET (Bytes \cup MinusOne) : value' = [value EXCEPT ![Local] = v]
        BY <3>9, <4>1 DEF ReadOutputFails, returns
      <4> QED
        BY <3>9, <4>2 DEF ReadOutputFails, Moves, ThreadStep, FutureSteps, ConsoleTypes
    <3>10. CASE LocalHangs
      BY <3>10 DEF LocalHangs, Moves, ThreadStep, FutureSteps, ConsoleTypes
    <3> QED
      BY <1>1, <3>1, <3>2, <3>3, <3>4, <3>5, <3>6, <3>7, <3>8, <3>9, <3>10
         DEF distributiveComputingLocal, localWork
  <2> QED
    BY <2>1, <2>2
<1>2. ASSUME NEW k \in D!Nodes, distributiveComputingOverNetwork(k)
      PROVE  k \in DOMAIN future /\ ThreadStep(k)
  <2>0. RangeOf(k) \subseteq Bytes
    BY WithinBytes DEF RangeOf
  <2>1. CASE CallReturns(k)
    BY <2>0, <2>1 DEF CallReturns, Moves, returns, ThreadStep, FutureSteps, ConsoleTypes
  <2>2. CASE CallFails(k)
    BY <2>2 DEF CallFails, Moves, returns, ThreadStep, FutureSteps, ConsoleTypes
  <2>3. CASE CallThrows(k)
    BY <2>3 DEF CallThrows, Moves, ThreadStep, FutureSteps, ConsoleTypes
  <2>4. CASE CallHangs(k)
    BY <2>4 DEF CallHangs, Moves, ThreadStep, FutureSteps, ConsoleTypes
  <2>5. CASE CallKills(k)
    BY <2>5 DEF CallKills, Moves, ThreadStep, FutureSteps, ConsoleTypes
  <2> QED
    BY <1>2, <2>1, <2>2, <2>3, <2>4, <2>5 DEF distributiveComputingOverNetwork
<1> QED
  BY <1>1, <1>2 DEF Thread

LEMMA ConsoleTypesInit == Init => ConsoleTypes
<1> SUFFICES ASSUME Init PROVE ConsoleTypes
  OBVIOUS
<1>1. ip_list = <<>> /\ <<>> \in Seq(Hosts) /\ Len(<<>>) = 0
  BY DEF Init, DiscoveryInit
<1>2. issued \in 0 .. MaxCommands /\ Len(ip_list) <= MAX_IPS
  BY CommandsAssumption, LimitAssumption, <1>1 DEF Init
<1> QED
  BY <1>1, <1>2 DEF Init, DiscoveryInit, ConsoleTypes, Steps, Computing, Calling

LEMMA ConsoleTypesNext ==
  ASSUME ConsoleTypes, [Next]_vars
  PROVE  ConsoleTypes'
<1> USE DEF goes, Steps, Computing, Calling
<1>1. ASSUME NEW c \in {"listConnections", "runDistributiveSystems"}, StartCommand(c)
      PROVE  ConsoleTypes'
  BY CommandsAssumption, <1>1 DEF StartCommand, discovery, datagrams, list, calls, ConsoleTypes
<1>2. CASE Discover
  <2> USE DEF calls, handler, datagrams, list
  <2>1. CASE RequestFails \/ AllocationFails \/ Broadcast
    <3>1. <<>> \in Seq(Hosts) /\ Len(<<>>) = 0 /\ 0 <= MAX_IPS
      BY LimitAssumption
    <3>2. ip_list' \in Seq(Hosts) /\ Len(ip_list') <= MAX_IPS
      BY <2>1, <3>1 DEF RequestFails, AllocationFails, Broadcast, ConsoleTypes
    <3>3. step' \in Steps /\ memory' \in {"null", "live", "freed"} /\ terminated' \in BOOLEAN
      BY <2>1 DEF RequestFails, AllocationFails, Broadcast, ConsoleTypes
    <3> QED
      BY <1>2, <2>1, <3>2, <3>3 DEF Discover, RequestFails, AllocationFails, Broadcast,
         ConsoleTypes
  <2>2. ASSUME NEW h \in Hosts, ReceiveReply(h) PROVE ConsoleTypes'
    <3>1. ip_list' \in Seq(Hosts) /\ Len(ip_list') <= MAX_IPS
      BY LimitAssumption, <2>2 DEF ReceiveReply, ConsoleTypes
    <3> QED
      BY <1>2, <2>2, <3>1 DEF Discover, ReceiveReply, ConsoleTypes
  <2>3. CASE Timeout \/ EndRequest
    <3>1. CASE Timeout
      BY <1>2, <2>3, <3>1 DEF Discover, Timeout, ConsoleTypes
    <3>2. CASE EndRequest
      <4>1. terminated' = (Len(ip_list) < MAX_IPS)
        BY <3>2 DEF EndRequest
      <4>2. terminated' \in BOOLEAN
        BY <4>1
      <4> QED
        BY <1>2, <3>2, <4>2 DEF Discover, EndRequest, ConsoleTypes
    <3> QED
      BY <2>3, <3>1, <3>2
  <2>4. ASSUME NEW h \in Hosts, NoMemory(h) PROVE ConsoleTypes'
    BY <1>2, <2>4 DEF Discover, NoMemory, ConsoleTypes
  <2> QED
    BY <1>2, <2>1, <2>2, <2>3, <2>4 DEF Discover, sendRequest
<1>3. CASE handle_list_connections
  BY <1>3 DEF handle_list_connections, FindNoList, PrintList, discovery, datagrams,
     list, calls, handler, ConsoleTypes
<1>4. CASE freeMemory
  BY <1>4 DEF freeMemory, datagrams, calls, handler, ConsoleTypes
<1>5. CASE CountConnections
  BY <1>5 DEF CountConnections, CallDivision, discovery, datagrams, list, calls,
     handler, ConsoleTypes
<1>6. CASE WalkWildly
  BY <1>6 DEF WalkWildly, CallDivision, datagrams, calls, handler, ConsoleTypes
<1>7. CASE Answer
  BY <1>7 DEF Answer, udp_discovery_responder, Respond, LoseReply, list, calls,
     handler, ConsoleTypes
<1>8. CASE UNCHANGED vars
  BY <1>8 DEF vars, discovery, datagrams, list, calls, handler, ConsoleTypes
<1>9. CASE Divide \/ BeginCalls \/ Launch \/ BeginJoins \/ Get \/ PrintResult
  <2> USE DEF discovery, datagrams, list, calls, handler
  <2>1. CASE Divide
    BY <2>1 DEF Divide, ConsoleTypes
  <2>2. CASE BeginCalls
    BY <2>2 DEF BeginCalls, ConsoleTypes
  <2>3. CASE Launch
    BY <2>3 DEF Launch, ConsoleTypes
  <2>4. CASE BeginJoins
    BY <2>4 DEF BeginJoins, ConsoleTypes
  <2>5. CASE Get
    <3>1. (next' = next + 1 /\ ended' = ended) \/ (next' = next /\ ended' = TRUE)
      BY <2>5 DEF Get
    <3>2. next' \in Nat
      BY <3>1, SMT DEF ConsoleTypes
    <3>3. ended' \in BOOLEAN
      BY <3>1, Zenon DEF ConsoleTypes
    <3> QED
      BY <2>5, <3>2, <3>3 DEF Get, ConsoleTypes
  <2>6. CASE PrintResult
    BY <2>6 DEF PrintResult, ConsoleTypes
  <2> QED
    BY <1>9, <2>1, <2>2, <2>3, <2>4, <2>5, <2>6
<1>10. CASE Thread
  <2>1. PICK k \in DOMAIN future : ThreadStep(k)
    BY <1>10, ThreadSteps
  <2> QED
    BY <2>1 DEF ThreadStep, discovery, datagrams, list, handler, ConsoleTypes
<1> QED
  BY <1>1, <1>2, <1>3, <1>4, <1>5, <1>6, <1>7, <1>8, <1>9, <1>10, SameNodes
     DEF Next, Console, handle_distributive_systems, Thread

-----------------------------------------------------------------------------
(* The division *)

LEMMA DivisionInit == Init => D!IInv
BY SameInit, D!InitIInv, DivisionAssumption DEF Init

LEMMA DivisionNext ==
  ASSUME ConsoleTypes, D!IInv, [Next]_vars
  PROVE  D!IInv'
<1>1. CASE UNCHANGED division
  <2>1. UNCHANGED D!vars
    BY <1>1 DEF division, D!vars, D!arguments
  <2> QED
    BY <2>1, D!NextIInv, DivisionAssumption
<1>2. ASSUME NEW n \in 0 .. MAX_IPS + 1, Recount(n) PROVE D!IInv'
  <2>1. n \in ConnectionCounts /\ n \in Nat
    BY ListsAreCounted, DivisionAssumption
  <2>2. /\ totalConnections' = n /\ pc' = "open" /\ i' = 0 /\ totalWeight' = 0 /\ offset' = 0
        /\ train_offset' = [k \in 0 .. n - 1 |-> Garbage]
        /\ train_chunk_size' = [k \in 0 .. n - 1 |-> Garbage]
        /\ fileSize' = fileSize /\ newlines' = newlines /\ readable' = readable
    BY <1>2 DEF Recount, CallDivision
  <2>3. D!TypeOK'
    BY <2>1, <2>2 DEF D!IInv, D!TypeOK, D!Nodes
  <2> QED
    BY <2>1, <2>2, <2>3 DEF D!IInv, D!Weights, D!Filled, D!ChunksTile, D!SkewBounded, D!Divided
<1>3. CASE Divide
  BY <1>3, SameNext, D!NextIInv, DivisionAssumption DEF Divide
<1>4. CASE Compute
  <2>1. Divide \/ UNCHANGED division
    BY <1>4 DEF Compute, BeginCalls, Launch, BeginJoins, Get, PrintResult
  <2> QED
    BY <1>1, <1>3, <2>1
<1>5. CASE Thread
  <2>1. PICK k \in DOMAIN future : ThreadStep(k)
    BY <1>5, ThreadSteps
  <2> QED
    BY <1>1, <2>1 DEF ThreadStep
<1>6. CASE Elsewhere
  BY <1>1, <1>6 DEF Elsewhere
<1> QED
  BY <1>2, <1>4, <1>5, <1>6, StepKinds

-----------------------------------------------------------------------------
(* The threads *)

Values == SUBSET (Bytes \cup MinusOne)

\* The arrays belong to the nodes of the division while they are in use, no thread
\* runs outside Calling, and those behind the loop variable have been joined.
Control ==
  /\ future \in [DOMAIN future -> FutureSteps]
  /\ value \in [DOMAIN future -> Values]
  /\ result \in Values
  /\ step \in Computing => pc = "returned" /\ DOMAIN future = D!Nodes
  /\ step \notin Calling => \A k \in DOMAIN future : ~Busy(k)
  /\ step = "launching" => \A k \in D!Nodes : k >= next => future[k] = "none"
  /\ step = "joining" => \A k \in D!Nodes : k < next => future[k] = "returned"
  /\ step = "freeing" => next = totalConnections /\ \A k \in D!Nodes : future[k] = "returned"

LEMMA ControlInit == Init => Control
<1>1. ASSUME Init PROVE DOMAIN future = {} /\ future = <<>> /\ value = <<>>
  BY <1>1 DEF Init
<1>2. ASSUME NEW S PROVE <<>> \in [{} -> S]
  OBVIOUS
<1>3. ASSUME Init PROVE Control
  <2>1. future \in [DOMAIN future -> FutureSteps] /\ value \in [DOMAIN future -> Values]
    BY <1>1, <1>2, <1>3
  <2> QED
    BY <1>1, <1>3, <2>1 DEF Init, DiscoveryInit, Control, Values, Computing, Calling
<1> QED
  BY <1>3

LEMMA ControlNext ==
  ASSUME ConsoleTypes, D!IInv, Control, [Next]_vars
  PROVE  Control'
<1>n. totalConnections \in Nat /\ next \in Nat
  BY DivisionAssumption DEF D!IInv, D!TypeOK, ConsoleTypes
<1>1. CASE Elsewhere
  <2>1. /\ UNCHANGED <<future, value, result, next, totalConnections, fileSize, pc>>
        /\ step' = step \/ (step \notin Calling /\ step' \notin Computing)
        /\ D!Nodes' = D!Nodes /\ Values' = Values
    BY <1>1 DEF Elsewhere, calls, division, D!Nodes, Values, Bytes, MinusOne
  <2>2. \A k : Busy(k)' <=> Busy(k)
    BY <2>1 DEF Busy
  <2> QED
    BY <2>1, <2>2 DEF Control, Computing, Calling
<1>2. ASSUME NEW n \in 0 .. MAX_IPS + 1, Recount(n) PROVE Control'
  <2>1. /\ UNCHANGED <<future, value, result, next, fileSize>>
        /\ step = "answered" /\ step' = "dividing" /\ Values' = Values
    BY <1>2 DEF Recount, CallDivision, goes, calls, Values, Bytes, MinusOne
  <2>2. \A k : Busy(k)' <=> Busy(k)
    BY <2>1 DEF Busy
  <2> QED
    BY <2>1, <2>2 DEF Control, Computing, Calling
<1>3. CASE Divide
  <2>1. /\ UNCHANGED <<future, value, result, next>>
        /\ step = "dividing" /\ step' = "dividing"
    BY <1>3 DEF Divide, calls, handler
  <2>2. D!Next /\ fileSize' = fileSize
    BY <1>3, SameNext
       DEF Divide, D!Next, D!OpenFails, D!OpenSucceeds, D!Weigh, D!Divide, D!Return, D!arguments
  <2>3. \A k : Busy(k)' <=> Busy(k)
    BY <2>1 DEF Busy
  <2>4. Values' = Values
    BY <2>2 DEF Values, Bytes, MinusOne
  <2> QED
    BY <2>1, <2>3, <2>4 DEF Control, Computing, Calling
<1>4. CASE BeginCalls
  <2>1. /\ step = "dividing" /\ step' = "launching" /\ pc' = "returned" /\ next' = 0
        /\ future' = [k \in D!Nodes |-> "none"] /\ value' = [k \in D!Nodes |-> {}]
        /\ result' = {} /\ D!Nodes' = D!Nodes /\ Values' = Values
    BY <1>4, SameNodes DEF BeginCalls, goes, division, D!Nodes, Values, Bytes, MinusOne
  <2>2. {} \in Values /\ "none" \in FutureSteps
    BY DEF Values, FutureSteps
  <2> QED
    BY <2>1, <2>2 DEF Control, Computing, Calling
<1>5. CASE Launch
  <2>1. /\ step = "launching" /\ step' = "launching" /\ next' = next + 1 /\ next < totalConnections
        /\ future' = [future EXCEPT ![next] = IF next = 0 THEN "compile" ELSE "connect"]
        /\ UNCHANGED <<value, result, pc>> /\ D!Nodes' = D!Nodes /\ Values' = Values
    BY <1>5 DEF Launch, goes, division, D!Nodes, Values, Bytes, MinusOne
  <2>2. DOMAIN future' = DOMAIN future /\ future' \in [DOMAIN future -> FutureSteps]
    BY <2>1 DEF Control, FutureSteps
  <2>3. \A k \in D!Nodes : k >= next + 1 => future'[k] = "none"
    BY <1>n, <2>1 DEF Control, Computing, Calling, D!Nodes
  <2> QED
    BY <2>1, <2>2, <2>3 DEF Control, Computing, Calling
<1>6. CASE BeginJoins
  <2>1. /\ step = "launching" /\ step' = "joining" /\ next' = 0
        /\ UNCHANGED <<future, value, result, pc>> /\ D!Nodes' = D!Nodes /\ Values' = Values
    BY <1>6 DEF BeginJoins, goes, division, calls, D!Nodes, Values, Bytes, MinusOne
  <2> QED
    BY <1>n, <2>1 DEF Control, Computing, Calling, D!Nodes
<1>7. CASE Get
  <2>1. /\ step = "joining" /\ step' = "joining" /\ next < totalConnections
        /\ UNCHANGED <<future, value, pc>> /\ D!Nodes' = D!Nodes /\ Values' = Values
    BY <1>7 DEF Get, division, calls, D!Nodes, Values, Bytes, MinusOne
  <2>2. next \in D!Nodes
    BY <1>n, <2>1 DEF D!Nodes
  <2>3. result' \in Values
    <3>1. value[next] \in Values
      BY <2>1, <2>2 DEF Control, Computing, Calling
    <3> QED
      BY <1>7, <3>1 DEF Get, xor, Control, Values
  <2>4. \A k \in D!Nodes : k < next' => future[k] = "returned"
    <3>1. CASE next' = next
      BY <2>1, <3>1 DEF Control
    <3>2. CASE next' = next + 1 /\ future[next] = "returned"
      BY <1>n, <2>1, <3>2 DEF Control, D!Nodes
    <3> QED
      BY <1>7, <3>1, <3>2 DEF Get
  <2> QED
    BY <2>1, <2>3, <2>4 DEF Control, Computing, Calling
<1>8. CASE PrintResult
  <2>1. /\ step = "joining" /\ step' = "freeing" /\ next = totalConnections /\ next' = next
        /\ UNCHANGED <<future, value, result, pc, totalConnections>>
        /\ D!Nodes' = D!Nodes /\ Values' = Values
    BY <1>8 DEF PrintResult, goes, division, calls, handler, D!Nodes, Values,
       Bytes, MinusOne
  <2>2. \A k \in D!Nodes : future[k] = "returned"
    BY <1>n, <2>1 DEF Control, D!Nodes
  <2> QED
    BY <2>1, <2>2 DEF Control, Computing, Calling, Busy
<1>9. CASE Thread
  <2>1. PICK k \in DOMAIN future : ThreadStep(k)
    BY <1>9, ThreadSteps
  <2>2. PICK to \in FutureSteps \ {"none", "compile"} : future' = [future EXCEPT ![k] = to]
    BY <2>1 DEF ThreadStep
  <2>3. /\ future[k] \notin {"none", "returned", "thrown"}
        /\ UNCHANGED <<step, pc, totalConnections, next, result, fileSize>>
        /\ D!Nodes' = D!Nodes /\ Values' = Values
    BY <2>1 DEF ThreadStep, division, handler, D!Nodes, Values, Bytes, MinusOne
  <2>4. step \in Calling
    BY <2>3 DEF Control, Busy
  <2>5. DOMAIN future' = DOMAIN future /\ future' \in [DOMAIN future -> FutureSteps]
    BY <2>2 DEF Control
  <2>6. value' \in [DOMAIN future -> Values]
    BY <2>1 DEF ThreadStep, Control, Values
  <2>7. \A j \in DOMAIN future : future[j] \in {"none", "returned"} => future'[j] = future[j]
    BY <2>2, <2>3 DEF Control
  <2>8. step = "launching" => \A j \in D!Nodes : j >= next => future'[j] = "none"
    BY <2>7 DEF Control, Computing, Calling
  <2>9. step = "joining" => \A j \in D!Nodes : j < next => future'[j] = "returned"
    BY <2>7 DEF Control, Computing, Calling
  <2> QED
    BY <2>3, <2>4, <2>5, <2>6, <2>8, <2>9 DEF Control, Computing, Calling
<1> QED
  BY <1>1, <1>2, <1>3, <1>4, <1>5, <1>6, <1>7, <1>8, <1>9, StepKinds DEF Compute

-----------------------------------------------------------------------------
(* The range computed here *)

\* Once the division has returned, the ranges of a file with bytes are numbers.
LEMMA RangesAreNumbers ==
  ASSUME D!IInv, pc = "returned", readable, fileSize > 0, NEW k \in D!Nodes
  PROVE  /\ train_offset[k] \in Nat /\ train_chunk_size[k] \in Int
         /\ i = totalConnections /\ totalConnections \in Nat /\ fileSize \in Nat /\ k \in Nat
<1>1. i = totalConnections /\ totalConnections \in Nat /\ fileSize \in Nat
  BY DivisionAssumption DEF D!IInv, D!TypeOK, D!Divided
<1> QED
  BY <1>1 DEF D!IInv, D!Filled, D!Nodes

LEMMA SmallestOf ==
  ASSUME NEW a \in Int, NEW b \in Int, NEW c \in Int
  PROVE  /\ Smallest({a, b, c}) \in {a, b, c}
         /\ \A x \in {a, b, c} : Smallest({a, b, c}) <= x
<1>1. \E m \in {a, b, c} : \A x \in {a, b, c} : m <= x
  OBVIOUS
<1> QED
  BY <1>1 DEF Smallest

\* What is fed stays within the range, and the input ends when nothing is left of the
\* range; so what a thread without an error returns is its range's result.
LocalInv ==
  /\ fed \in Nat
  /\ step \in Computing /\ 0 \in D!Nodes =>
       /\ future[0] \in {"none", "compile", "spawn", "feed", "read", "hung", "returned"}
       /\ future[0] \in {"none", "compile", "spawn"} => fed = 0
       /\ future[0] \in {"feed", "read"} =>
            /\ readable
            /\ fed = 0 \/ (fileSize > 0 /\ fed <= train_chunk_size[0])
       /\ future[0] = "read" /\ fileSize > 0 /\ ~stderr => fed >= train_chunk_size[0]
       /\ future[0] = "returned" /\ ~stderr => value[0] = RangeOf(0)

\* What the next pread finds.
LEMMA AheadBounds ==
  ASSUME D!IInv, Control, LocalInv, step \in Computing, 0 \in D!Nodes, future[0] = "feed"
  PROVE  /\ Ahead \in Int
         /\ Ahead > 0 => fileSize > 0 /\ fed + Ahead <= train_chunk_size[0]
<1>1. pc = "returned" /\ readable /\ fed \in Nat
  BY DEF Control, LocalInv
<1>2. fileSize \in Nat
  BY DivisionAssumption DEF D!IInv, D!TypeOK
<1>3. CASE fileSize = 0
  <2>1. Ahead = 0
    BY <1>3 DEF Ahead
  <2> QED
    BY <1>3, <2>1
<1>4. CASE fileSize > 0
  <2> DEFINE a == LocalBuffer
             b == train_chunk_size[0] - fed
             c == fileSize - (train_offset[0] + fed)
  <2>1. train_offset[0] \in Nat /\ train_chunk_size[0] \in Int
    BY <1>1, <1>4, RangesAreNumbers
  <2>2. a \in Int /\ b \in Int /\ c \in Int /\ a > 0
    BY LocalBufferAssumption, <1>1, <1>2, <2>1
  <2>3. Ahead = Smallest({a, b, c})
    BY <1>4 DEF Ahead, Remaining, Local
  <2>4. Ahead \in {a, b, c} /\ \A x \in {a, b, c} : Ahead <= x
    <3> HIDE DEF a, b, c
    <3>1. a \in Int /\ b \in Int /\ c \in Int
      BY <2>2
    <3>2. /\ Smallest({a, b, c}) \in {a, b, c}
          /\ \A x \in {a, b, c} : Smallest({a, b, c}) <= x
      BY <3>1, SmallestOf, Zenon
    <3> QED
      BY <2>3, <3>2, Zenon
  <2>5. Ahead \in Int
    BY <2>2, <2>4
  <2>6. Ahead <= b
    BY <2>4
  <2> QED
    BY <1>1, <1>2, <1>4, <2>1, <2>5, <2>6
<1> QED
  BY <1>2, <1>3, <1>4

LEMMA LocalValue ==
  ASSUME D!IInv, Control, LocalInv, step \in Computing, 0 \in D!Nodes, future[0] = "read",
         ~stderr
  PROVE  /\ fed = 0 => RangeOf(0) = {}
         /\ fed > 0 => RangeOf(0) = Within(train_offset[0], train_offset[0] + fed)
<1>1. pc = "returned" /\ readable /\ fed \in Nat
  BY DEF Control, LocalInv
<1>2. fileSize \in Nat
  BY DivisionAssumption DEF D!IInv, D!TypeOK
<1>3. CASE fileSize = 0
  <2>1. fed = 0
    BY <1>1, <1>3 DEF LocalInv
  <2> QED
    BY <1>3, <2>1 DEF RangeOf
<1>4. CASE fileSize > 0
  <2>1. train_offset[0] \in Nat /\ train_chunk_size[0] \in Int
    BY <1>1, <1>4, RangesAreNumbers
  <2>2. /\ fed >= train_chunk_size[0]
        /\ fed = 0 \/ fed <= train_chunk_size[0]
    BY <1>4 DEF LocalInv
  <2>3. RangeOf(0) = Within(train_offset[0], train_offset[0] + train_chunk_size[0])
    BY <1>4 DEF RangeOf
  <2>4. CASE fed = 0
    BY <1>1, <1>2, <2>1, <2>2, <2>3, <2>4 DEF Within, Bytes
  <2>5. CASE fed > 0
    BY <1>1, <1>2, <2>1, <2>2, <2>3, <2>5 DEF Within, Bytes
  <2> QED
    BY <1>1, <2>4, <2>5
<1> QED
  BY <1>2, <1>3, <1>4

LEMMA LocalInvInit == Init => LocalInv
BY DEF Init, DiscoveryInit, LocalInv, Computing, Calling

\* The ranges stay what they are while the division rests.
LEMMA SameRanges ==
  ASSUME UNCHANGED division
  PROVE  /\ UNCHANGED <<fileSize, totalConnections, newlines, readable, pc, i, totalWeight,
                        offset, train_offset, train_chunk_size>>
         /\ D!Nodes' = D!Nodes /\ Bytes' = Bytes /\ MinusOne' = MinusOne
         /\ \A k \in D!Nodes : RangeOf(k)' = RangeOf(k)
<1>1. UNCHANGED <<fileSize, totalConnections, newlines, readable, pc, i, totalWeight,
                  offset, train_offset, train_chunk_size>>
  BY DEF division
<1>2. D!Nodes' = D!Nodes /\ Bytes' = Bytes /\ MinusOne' = MinusOne
  BY <1>1 DEF D!Nodes, Bytes, MinusOne
<1>3. ASSUME NEW k \in D!Nodes PROVE RangeOf(k)' = RangeOf(k)
  BY <1>1, <1>2 DEF RangeOf, Within
<1> QED
  BY <1>1, <1>2, <1>3

LEMMA LocalStep ==
  ASSUME ConsoleTypes, D!IInv, Control, LocalInv, distributiveComputingLocal
  PROVE  LocalInv'
<1>1. /\ 0 \in DOMAIN future
      /\ future[0] \notin {"none", "returned", "thrown"}
      /\ UNCHANGED <<step, division>>
  BY DEF distributiveComputingLocal, localWork, CompileOnce, Spawn, SpawnFails,
     FeedLocal, FeedLocalFails, PreadFails, EndInput, ReadOutput, ReadOutputFails,
     LocalHangs, Moves, Local
<1>2. step \in Computing /\ DOMAIN future = D!Nodes /\ 0 \in D!Nodes /\ fed \in Nat
  BY <1>1 DEF Control, Busy, Computing, LocalInv
<1>3. /\ future \in [D!Nodes -> FutureSteps] /\ value \in [D!Nodes -> Values]
  BY <1>2 DEF Control
<1>4. /\ D!Nodes' = D!Nodes /\ step' = step /\ readable' = readable /\ fileSize' = fileSize
      /\ train_offset' = train_offset /\ train_chunk_size' = train_chunk_size
      /\ RangeOf(0)' = RangeOf(0) /\ MinusOne' = MinusOne
  BY <1>1, <1>2, SameRanges
<1>5. CASE CompileOnce
  <2>1. future[0] = "compile" /\ future'[0] = "spawn" /\ fed' = fed
    BY <1>2, <1>3, <1>5 DEF CompileOnce, Moves, Local
  <2> QED
    BY <1>2, <1>4, <2>1 DEF LocalInv
<1>6. CASE Spawn
  <2>1. future[0] = "spawn" /\ future'[0] = "feed" /\ fed' = fed /\ readable
    BY <1>2, <1>3, <1>6 DEF Spawn, Moves, Local
  <2> QED
    BY <1>2, <1>4, <2>1 DEF LocalInv
<1>7. CASE SpawnFails \/ FeedLocalFails \/ ReadOutputFails
  <2>1. future'[0] = "returned" /\ stderr' = TRUE /\ fed' = fed
    BY <1>2, <1>3, <1>7 DEF SpawnFails, FeedLocalFails, ReadOutputFails, Moves, Local
  <2> QED
    BY <1>2, <1>4, <2>1 DEF LocalInv
<1>8. CASE FeedLocal
  <2>1. future[0] = "feed" /\ future'[0] = "feed" /\ fed' = fed + Ahead /\ Ahead > 0
    BY <1>2, <1>3, <1>8 DEF FeedLocal, Moves, Local
  <2>2. Ahead \in Int /\ fileSize > 0 /\ fed + Ahead <= train_chunk_size[0]
    BY <1>2, <2>1, AheadBounds
  <2>3. fed' \in Nat /\ fed' <= train_chunk_size[0]
    BY <1>2, <2>1, <2>2
  <2> QED
    BY <1>2, <1>4, <2>1, <2>2, <2>3 DEF LocalInv
<1>9. CASE EndInput
  <2>1. /\ future[0] = "feed" /\ future'[0] = "read" /\ fed' = fed
        /\ fileSize > 0 => Remaining <= 0
    BY <1>2, <1>3, <1>9 DEF EndInput, Moves, Local
  <2>2. fileSize > 0 => fed >= train_chunk_size[0]
    <3>1. CASE fileSize > 0
      <4>1. pc = "returned" /\ readable
        BY <1>2, <2>1 DEF Control, LocalInv
      <4>2. train_chunk_size[0] \in Int
        BY <1>2, <3>1, <4>1, RangesAreNumbers
      <4> QED
        BY <1>2, <2>1, <3>1, <4>2 DEF Remaining, Local
    <3> QED
      BY <3>1
  <2> QED
    BY <1>2, <1>4, <2>1, <2>2 DEF LocalInv
<1>10. CASE ReadOutput
  <2>1. future[0] = "read" /\ future'[0] = "returned" /\ fed' = fed /\ stderr' = stderr
    BY <1>2, <1>3, <1>10 DEF ReadOutput, Moves, Local
  <2>2. \/ fed = 0 /\ value'[0] = {}
        \/ fed > 0 /\ value'[0] = Within(train_offset[0], train_offset[0] + fed)
    BY <1>2, <1>3, <1>10 DEF ReadOutput, returns, Local
  <2>3. ~stderr => value'[0] = RangeOf(0)
    BY <1>2, <2>1, <2>2, LocalValue
  <2> QED
    BY <1>2, <1>4, <2>1, <2>3 DEF LocalInv
<1>11. CASE PreadFails
  <2>1. future[0] = "feed" /\ future'[0] = "read" /\ fed' = fed /\ stderr' = TRUE
    BY <1>2, <1>3, <1>11 DEF PreadFails, Moves, Local
  <2> QED
    BY <1>2, <1>4, <2>1 DEF LocalInv
<1>12. CASE LocalHangs
  <2>1. future'[0] = "hung" /\ fed' = fed
    BY <1>2, <1>3, <1>12 DEF LocalHangs, Moves, Local
  <2> QED
    BY <1>2, <1>4, <2>1 DEF LocalInv
<1> QED
  BY <1>5, <1>6, <1>7, <1>8, <1>9, <1>10, <1>11, <1>12
     DEF distributiveComputingLocal, localWork

LEMMA LocalInvNext ==
  ASSUME ConsoleTypes, D!IInv, Control, LocalInv, [Next]_vars
  PROVE  LocalInv'
<1>n. totalConnections \in Nat /\ next \in Nat /\ fed \in Nat
  BY DivisionAssumption DEF D!IInv, D!TypeOK, ConsoleTypes, LocalInv
<1>1. ASSUME UNCHANGED <<division, future, value, fed, stderr>>,
             step' \in Computing => step \in Computing
      PROVE  LocalInv'
  <2>1. /\ D!Nodes' = D!Nodes /\ readable' = readable /\ fileSize' = fileSize
        /\ train_offset' = train_offset /\ train_chunk_size' = train_chunk_size
        /\ MinusOne' = MinusOne /\ \A k \in D!Nodes : RangeOf(k)' = RangeOf(k)
    BY <1>1, SameRanges
  <2> QED
    BY <1>1, <2>1 DEF LocalInv
<1>2. CASE Elsewhere
  BY <1>1, <1>2 DEF Elsewhere, calls
<1>3. ASSUME NEW n \in 0 .. MAX_IPS + 1, Recount(n) PROVE LocalInv'
  BY <1>3 DEF Recount, CallDivision, goes, calls, LocalInv, Computing, Calling
<1>4. CASE Divide
  BY <1>4 DEF Divide, calls, LocalInv, Computing, Calling
<1>5. CASE BeginCalls
  <2>1. fed' = 0 /\ future' = [k \in D!Nodes |-> "none"] /\ D!Nodes' = D!Nodes
    BY <1>5, SameNodes DEF BeginCalls, division, D!Nodes
  <2> QED
    BY <2>1 DEF LocalInv
<1>6. CASE Launch
  <2>1. /\ step = "launching" /\ step' = "launching" /\ next < totalConnections
        /\ future' = [future EXCEPT ![next] = IF next = 0 THEN "compile" ELSE "connect"]
        /\ UNCHANGED <<division, value, fed, stderr>>
    BY <1>6 DEF Launch, goes
  <2>2. CASE next = 0
    <3>1. 0 \in D!Nodes /\ future[0] = "none" /\ future'[0] = "compile"
      BY <1>n, <2>1, <2>2 DEF Control, Computing, Calling, D!Nodes
    <3>2. fed' = 0
      BY <2>1, <3>1 DEF LocalInv, Computing, Calling
    <3> QED
      BY <3>1, <3>2 DEF LocalInv
  <2>3. CASE next # 0
    <3>1. 0 \in D!Nodes => future'[0] = future[0]
      BY <2>1, <2>3 DEF Control, Computing, Calling
    <3>2. /\ D!Nodes' = D!Nodes /\ readable' = readable /\ fileSize' = fileSize
          /\ train_offset' = train_offset /\ train_chunk_size' = train_chunk_size
          /\ MinusOne' = MinusOne /\ \A k \in D!Nodes : RangeOf(k)' = RangeOf(k)
      BY <2>1, SameRanges
    <3> QED
      BY <2>1, <3>1, <3>2 DEF LocalInv, Computing, Calling
  <2> QED
    BY <2>2, <2>3
<1>7. CASE BeginJoins \/ Get \/ PrintResult
  BY <1>1, <1>7 DEF BeginJoins, Get, PrintResult, goes, calls, Computing, Calling
<1>8. ASSUME NEW k \in D!Nodes, distributiveComputingOverNetwork(k) PROVE LocalInv'
  <2>1. /\ k \in DOMAIN future /\ future[k] = "connect"
        /\ UNCHANGED <<step, division, fed, stderr>>
        /\ \E to : future' = [future EXCEPT ![k] = to]
        /\ value' = value \/ \E v : value' = [value EXCEPT ![k] = v]
    BY <1>8 DEF distributiveComputingOverNetwork, CallReturns, CallFails, CallThrows,
       CallHangs, CallKills, Moves, returns
  <2>2. step \in Computing /\ DOMAIN future = D!Nodes /\ DOMAIN value = D!Nodes
    BY <2>1 DEF Control, Busy, Computing
  <2>3. 0 \in D!Nodes => k # 0
    BY <2>1, <2>2 DEF LocalInv
  <2>4. 0 \in D!Nodes => future'[0] = future[0] /\ value'[0] = value[0]
    BY <2>1, <2>2, <2>3 DEF Control
  <2>5. /\ D!Nodes' = D!Nodes /\ readable' = readable /\ fileSize' = fileSize
        /\ train_offset' = train_offset /\ train_chunk_size' = train_chunk_size
        /\ MinusOne' = MinusOne /\ \A m \in D!Nodes : RangeOf(m)' = RangeOf(m)
    BY <2>1, SameRanges
  <2> QED
    BY <2>1, <2>2, <2>4, <2>5 DEF LocalInv
<1> QED
  BY <1>2, <1>3, <1>4, <1>5, <1>6, <1>7, <1>8, LocalStep, StepKinds DEF Compute, Thread

-----------------------------------------------------------------------------
(* What is combined *)

\* The first m nodes kept the promise of a job.
Promised(m) ==
  /\ readable
  /\ \A k \in D!Nodes : k < m => value[k] = RangeOf(k)

\* The bytes before the end of the range of node m - 1.
Covered(m) == IF m = 0 THEN {} ELSE Within(0, D!EndOf(m - 1))

ResultInv ==
  /\ step = "launching" => result = {}
  /\ step \in {"joining", "freeing"} /\ Promised(next) => result = Covered(next)

\* One more range: it starts where the last one ended, and one that ends before it
\* starts is the last one and begins at the end of the file or behind it.
LEMMA CoveredStep ==
  ASSUME D!IInv, pc = "returned", readable, NEW m \in D!Nodes
  PROVE  xor(Covered(m), RangeOf(m)) = Covered(m + 1)
<1>1. fileSize \in Nat /\ totalConnections \in Nat /\ m \in Nat /\ m + 1 # 0 /\ (m + 1) - 1 = m
  BY DivisionAssumption DEF D!IInv, D!TypeOK, D!Nodes
<1>2. CASE fileSize = 0
  <2>1. Bytes = {}
    BY <1>2 DEF Bytes
  <2>2. Covered(m) = {} /\ Covered(m + 1) = {} /\ RangeOf(m) = {}
    BY <1>2, <2>1 DEF Covered, Within, RangeOf
  <2> QED
    BY <2>2 DEF xor
<1>3. CASE fileSize > 0
  <2>1. /\ train_offset[m] \in Nat /\ train_chunk_size[m] \in Int
        /\ i = totalConnections
    BY <1>3, RangesAreNumbers
  <2>2. /\ RangeOf(m) = Within(train_offset[m], D!EndOf(m))
        /\ Covered(m + 1) = Within(0, D!EndOf(m))
        /\ D!EndOf(m) \in Int
    BY <1>1, <1>3, <2>1 DEF RangeOf, D!EndOf, Covered
  <2>3. CASE m = 0
    <3>1. train_offset[m] = 0
      BY <1>1, <1>3, <2>1, <2>3 DEF D!IInv, D!ChunksTile, D!Nodes
    <3> QED
      BY <2>2, <2>3, <3>1 DEF Covered, xor
  <2>4. CASE m # 0
    <3>1. train_offset[m] = D!EndOf(m - 1) /\ Covered(m) = Within(0, train_offset[m])
      BY <1>1, <1>3, <2>1, <2>4 DEF D!IInv, D!ChunksTile, D!EndOf, Covered, D!Nodes
    <3>2. CASE train_chunk_size[m] >= 0
      <4>1. train_offset[m] <= D!EndOf(m)
        BY <2>1, <3>2 DEF D!EndOf
      <4> QED
        BY <1>1, <2>1, <2>2, <3>1, <4>1 DEF Within, Bytes, xor
    <3>3. CASE train_chunk_size[m] < 0
      <4>1. m = D!Last
        BY <1>1, <2>1, <3>3 DEF D!IInv, D!SkewBounded, D!Nodes
      <4>2. D!EndOf(m) = fileSize
        BY <1>1, <1>3, <2>1, <4>1 DEF D!IInv, D!ChunksTile, D!Divided, D!EndOf, D!Last
      <4>3. train_offset[m] > fileSize
        BY <1>1, <2>1, <3>3, <4>2 DEF D!EndOf
      <4> QED
        BY <1>1, <2>1, <2>2, <3>1, <4>2, <4>3 DEF Within, Bytes, xor
    <3> QED
      BY <2>1, <3>2, <3>3
  <2> QED
    BY <2>3, <2>4
<1> QED
  BY <1>1, <1>2, <1>3

\* All ranges together are the file.
LEMMA CoveredAll ==
  ASSUME D!IInv, pc = "returned", readable, totalConnections > 0
  PROVE  Covered(totalConnections) = Bytes
<1>1. fileSize \in Nat /\ totalConnections \in Nat
  BY DivisionAssumption DEF D!IInv, D!TypeOK
<1>2. CASE fileSize = 0
  BY <1>1, <1>2 DEF Covered, Within, Bytes
<1>3. CASE fileSize > 0
  <2>1. D!EndOf(totalConnections - 1) = fileSize
    BY <1>1, <1>3 DEF D!IInv, D!ChunksTile, D!Divided, D!EndOf
  <2>2. Covered(totalConnections) = Within(0, fileSize)
    BY <1>1, <2>1 DEF Covered
  <2>3. Within(0, fileSize) = Bytes
    BY <1>1 DEF Within, Bytes
  <2> QED
    BY <2>2, <2>3
<1> QED
  BY <1>1, <1>2, <1>3

LEMMA ResultInvNext ==
  ASSUME ConsoleTypes, D!IInv, Control, LocalInv, ResultInv, [Next]_vars
  PROVE  ResultInv'
<1>n. totalConnections \in Nat /\ next \in Nat
  BY DivisionAssumption DEF D!IInv, D!TypeOK, ConsoleTypes
<1>1. ASSUME UNCHANGED <<division, result, next>>,
             step' = step \/ (step = "joining" /\ step' = "freeing") \/ step' \notin Computing,
             step' \in {"joining", "freeing"} =>
               \A k \in D!Nodes : k < next => value'[k] = value[k]
      PROVE  ResultInv'
  <2>1. /\ D!Nodes' = D!Nodes /\ readable' = readable
        /\ MinusOne' = MinusOne /\ \A k \in D!Nodes : RangeOf(k)' = RangeOf(k)
    BY <1>1, SameRanges
  <2>2. Covered(next)' = Covered(next)
    BY <1>1, SameRanges DEF Covered, Within, D!EndOf
  <2>3. step' \in {"joining", "freeing"} => (Promised(next)' => Promised(next))
    BY <1>1, <2>1 DEF Promised
  <2> QED
    BY <1>1, <2>2, <2>3 DEF ResultInv, Computing, Calling
<1>2. CASE Elsewhere
  BY <1>1, <1>2 DEF Elsewhere, calls
<1>3. ASSUME NEW n \in 0 .. MAX_IPS + 1, Recount(n) PROVE ResultInv'
  BY <1>3 DEF Recount, CallDivision, goes, ResultInv
<1>4. CASE Divide
  BY <1>4 DEF Divide, ResultInv
<1>5. CASE BeginCalls
  BY <1>5 DEF BeginCalls, goes, ResultInv
<1>6. CASE Launch
  BY <1>6 DEF Launch, goes, ResultInv
<1>7. CASE BeginJoins
  BY <1>7 DEF BeginJoins, goes, ResultInv, Covered
<1>8. CASE PrintResult
  BY <1>1, <1>8 DEF PrintResult, goes, calls, handler
<1>9. CASE Get
  <2>1. CASE next' = next /\ result' = result
    BY <1>1, <1>9, <2>1 DEF Get, calls
  <2>2. CASE /\ future[next] = "returned" /\ next' = next + 1
             /\ result' = xor(result, value[next])
    <3>1. /\ step = "joining" /\ step' = step /\ next \in D!Nodes
          /\ UNCHANGED <<division, value>>
      BY <1>9, <1>n DEF Get, calls, D!Nodes
    <3>2. /\ D!Nodes' = D!Nodes /\ readable' = readable
          /\ MinusOne' = MinusOne /\ \A k \in D!Nodes : RangeOf(k)' = RangeOf(k)
      BY <3>1, SameRanges
    <3>3. ASSUME NEW m \in Nat, m = next + 1, Promised(m)' PROVE result' = Covered(m)'
      <4>1. Promised(next)
        <5>1. ASSUME NEW k \in D!Nodes, k < next
              PROVE  value[k] = RangeOf(k)
          <6>0. k < m
            BY <1>n, <3>3, <5>1 DEF D!Nodes
          <6>1. k \in D!Nodes' /\ k < m
            BY <3>2, <5>1, <6>0
          <6>2. value'[k] = RangeOf(k)'
            BY <3>3, <6>1 DEF Promised
          <6> QED
            BY <3>1, <3>2, <5>1, <6>2
        <5> QED
          BY <3>2, <3>3, <5>1 DEF Promised
      <4>2. value[next] = RangeOf(next)
        BY <1>n, <3>1, <3>2, <3>3 DEF Promised
      <4>3. result' = xor(Covered(next), RangeOf(next))
        BY <2>2, <3>1, <4>1, <4>2 DEF ResultInv
      <4>4. result' = Covered(m)
        BY <3>1, <3>3, <4>1, <4>3, CoveredStep DEF Control, Promised, Computing, Calling
      <4>5. Covered(m)' = Covered(m)
        BY <3>1, SameRanges DEF Covered, Within, D!EndOf
      <4> QED
        BY <4>4, <4>5
    <3>4. next' \in Nat /\ next' = next + 1
      BY <1>n, <2>2
    <3>5. Promised(next)' => result' = Covered(next)'
      BY <3>3, <3>4 DEF Promised, Covered
    <3> QED
      BY <3>1, <3>5 DEF ResultInv
  <2> QED
    BY <1>9, <2>1, <2>2 DEF Get
<1>10. CASE Thread
  <2>1. PICK k \in DOMAIN future : ThreadStep(k)
    BY <1>10, ThreadSteps
  <2>2. /\ future[k] # "returned"
        /\ UNCHANGED <<step, division, result, next>>
        /\ value' = value \/ \E v : value' = [value EXCEPT ![k] = v]
    BY <2>1 DEF ThreadStep, handler
  <2>3. step \in {"joining", "freeing"} => \A j \in D!Nodes : j < next => value'[j] = value[j]
    <3>1. step \in Calling
      BY <2>1, <2>2 DEF Control, Busy, ThreadStep
    <3> QED
      BY <2>2, <3>1 DEF Control, Computing, Calling
  <2> QED
    BY <1>1, <2>2, <2>3
<1> QED
  BY <1>2, <1>3, <1>4, <1>5, <1>6, <1>7, <1>8, <1>9, <1>10, StepKinds DEF Compute

-----------------------------------------------------------------------------
(* Every reachable state *)

CommandInv == ConsoleTypes /\ D!IInv /\ Control /\ LocalInv /\ ResultInv

LEMMA CommandInvariance == Spec => []CommandInv
<1>1. Init => CommandInv
  <2>1. Init => ResultInv
    BY DEF Init, DiscoveryInit, ResultInv
  <2> QED
    BY <2>1, ConsoleTypesInit, DivisionInit, ControlInit, LocalInvInit DEF CommandInv
<1>2. CommandInv /\ [Next]_vars => CommandInv'
  BY ConsoleTypesNext, DivisionNext, ControlNext, LocalInvNext, ResultInvNext DEF CommandInv
<1> QED
  BY <1>1, <1>2, PTL DEF Spec

\* Types of a console that runs any number of commands over any file, lists and
\* nodes: no reply is written past the end of ip_list, and every thread is at a place
\* of its function.
THEOREM CommandTypes == Spec => []TypeOK
<1>1. CommandInv => TypeOK
  <2> SUFFICES ASSUME CommandInv PROVE TypeOK
    OBVIOUS
  <2>1. Division!TypeOK
    BY DEF CommandInv, D!IInv, D!TypeOK, Division!TypeOK, Division!Nodes, D!Nodes
  <2>2. \A k \in DOMAIN future :
          future[k] \in FutureSteps /\ value[k] \subseteq Bytes \cup MinusOne
    BY DEF CommandInv, Control, Values
  <2>3. result \subseteq Bytes \cup MinusOne /\ fed \in Nat
    BY DEF CommandInv, Control, Values, LocalInv
  <2> QED
    BY <2>1, <2>2, <2>3
       DEF CommandInv, ConsoleTypes, Steps, Computing, Calling, TypeOK
<1> QED
  BY <1>1, CommandInvariance, PTL

\* For every file, layout of lines and list of nodes: when all calls kept their
\* promise and the local thread printed no error, the printed number is the one over every byte of the file
\* (handle_distributive_systems with divideFileIntoChunks).
THEOREM CommandPrintsWholeFile == Spec => []PrintsWholeFile
<1>1. CommandInv => PrintsWholeFile
  <2> SUFFICES ASSUME CommandInv, step = "freeing", totalConnections > 0, readable,
                      \A k \in D!Nodes \ {0} : value[k] = RangeOf(k),
                      ~stderr
               PROVE  result = Bytes
    BY SameNodes DEF PrintsWholeFile, Local
  <2>1. next = totalConnections /\ pc = "returned"
    BY DEF CommandInv, Control, Computing
  <2>2. Promised(next)
    <3>1. 0 \in D!Nodes => value[0] = RangeOf(0)
      BY DEF CommandInv, Control, LocalInv, Computing
    <3> QED
      BY <3>1 DEF Promised
  <2>3. result = Covered(totalConnections)
    BY <2>1, <2>2 DEF CommandInv, ResultInv
  <2> QED
    BY <2>1, <2>3, CoveredAll DEF CommandInv
<1> QED
  BY <1>1, CommandInvariance, PTL

\* However the calls end, the list and the handler outlive the threads that were
\* given pointers into them: freeMemory and the return come after the last get.
THEOREM CommandFreesNothingInUse == Spec => FreesNothingInUse
<1> DEFINE Frees == (memory = "live" /\ memory' = "freed") \/ (step # "idle" /\ step' = "idle")
<1>1. ASSUME CommandInv, [Next]_vars
      PROVE  [Frees => \A k \in DOMAIN future : ~Busy(k)]_vars
  <2> SUFFICES ASSUME Frees PROVE step \notin Calling
    BY <1>1 DEF CommandInv, Control
  <2>1. CASE Compute
    BY <2>1 DEF Compute, Divide, BeginCalls, Launch, BeginJoins, Get,
       PrintResult, goes, discovery, list, Calling
  <2>2. CASE Thread
    <3>1. UNCHANGED <<step, memory>>
      BY <1>1, <2>2, ThreadSteps DEF CommandInv, ThreadStep, discovery, list
    <3> QED
      BY <3>1
  <2>3. CASE Answer \/ UNCHANGED vars
    BY <2>3 DEF Answer, udp_discovery_responder, Respond, LoseReply, vars,
       discovery, list
  <2>4. ASSUME NEW c, StartCommand(c) PROVE step \notin Calling
    BY <2>4 DEF StartCommand, goes, Calling
  <2>5. CASE Discover
    BY <2>5 DEF Discover, sendRequest, RequestFails, AllocationFails, Broadcast,
       ReceiveReply, NoMemory, Receiving, Timeout, EndRequest, goes, Calling
  <2>6. CASE handle_list_connections \/ WalkWildly \/ freeMemory \/ CountConnections
    BY <2>6 DEF handle_list_connections, FindNoList, PrintList, WalkWildly,
       freeMemory, CountConnections, CallDivision, goes, Calling
  <2> QED
    BY <1>1, <2>1, <2>2, <2>3, <2>4, <2>5, <2>6, SameNodes
       DEF Next, Console, handle_distributive_systems, Compute, Thread
<1> QED
  BY <1>1, CommandInvariance, PTL DEF Spec, FreesNothingInUse
=============================================================================
