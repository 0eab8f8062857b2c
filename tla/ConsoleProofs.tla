---------------------------- MODULE ConsoleProofs ----------------------------
(***************************************************************************)
(* What run node_process checks on two connections, for any clients, calls *)
(* of the console, descriptors and backlog: the types, and who closes      *)
(* whose number.                                                           *)
(***************************************************************************)
EXTENDS Console, WellFoundedInduction, TLAPS

Calling == {"open", "connect", "send", "receive", "reading", "return"}

Asking == {"request", "replies", "requested", "remote"}

\* The types, in parts, and what the steps rely on to keep them.
SocketTypes ==
  /\ ended \in {"no", "exit", "abort"}
  /\ descriptor \in [Fds -> Objects \cup {Nothing}]
  /\ fd \in [Objects -> Fds \cup {NoFd}]
  /\ held \in [Readers -> Ends \cup {Nothing}]
  /\ inbox \in [Ends -> Messages \cup {Nothing}]
  /\ faults \subseteq {"struck", "no descriptor", "no thread", "backlog full"}

QueueTypes == queue \in Seq(Conns) /\ Len(queue) <= Backlog

LoopTypes ==
  /\ listener \in {"accept", "receive", "reading", "refuse", "delete"}
  /\ serving \in Conns \cup {Nothing}
  /\ listener # "accept" => serving \in Conns
  /\ listener = "reading" => held["listener"] \in Ends

ThreadSteps == {"none", "destroy", "done"} \cup Serving
ShareSteps == {"flag", "reading flag", "prompt", "file", "reading file", "reply"}
JobSteps == {"job", "compute", "broken", "close"}

\* A handler is at the steps of its command.
Placed(c) ==
  /\ thread[c] \notin {"none", "done"} => asked[c] \in Dispatched
  /\ thread[c] = "destroy" => asked[c] \in Copying
  /\ thread[c] \in ShareSteps => asked[c] = "shareFile"
  /\ thread[c] \in JobSteps => asked[c] = "distributiveComputing"

ThreadTypes ==
  /\ thread \in [Conns -> ThreadSteps]
  /\ asked \in [Conns -> Dispatched \cup {Nothing}]
  /\ askclientShareFile \in [Conns -> BOOLEAN]
  /\ OPEN_RECEIVE_FILE_CONNECTION \in {0, 1}
  /\ \A c \in Conns : Placed(c)

PeerTypes ==
  /\ peer \in [Clients -> PeerSteps \cup Requests]
  /\ talk \in [Clients -> {Nothing, "shareFile", "accepted", "distributiveComputing"}]

LifeTypes == life \in [Private -> {"none", "open", "closed", "gone"}]

HereTypes ==
  /\ console \in Steps
  /\ command \in Local \cup Broadcast \cup {Nothing}
  /\ call \in Calls \cup {Nothing} /\ left \subseteq Calls
  /\ result \in Messages \cup {Nothing}
  /\ console \in Calling => call \in Calls \ left /\ command \in Local
  /\ console \in Asking => call \in Calls \ left
  /\ console = "reading" => held["console"] \in Ends

Typed ==
  /\ SocketTypes /\ QueueTypes /\ LoopTypes /\ ThreadTypes /\ PeerTypes /\ LifeTypes
  /\ HereTypes

\* A connection that nobody has established yet.
NewCall(c) == c \in left \/ (c = call /\ console = "open")
Fresh(c) ==
  \/ c \in Clients /\ peer[c] = "idle"
  \/ c \in left
  \/ c = call /\ console \in {"open", "connect"}
Queued(c) == \E k \in 1 .. Len(queue) : queue[k] = c

\* A connection is established, accepted and handed to a thread once each.
OneAtATime ==
  /\ \A c \in Conns : Fresh(c) => thread[c] = "none" /\ ~Queued(c) /\ serving # c
  /\ \A c \in Conns : Queued(c) => thread[c] = "none" /\ serving # c
  /\ serving \in Conns => thread[serving] = "none"
  /\ \A k, l \in 1 .. Len(queue) : queue[k] = queue[l] => k = l
  /\ \A c \in Calls : NewCall(c) => fd[far(c)] = NoFd

\* What SocketsIntact is about beside private objects: a connection that is served, and
\* the console's call.
Busy(c) == serving = c \/ thread[c] \in Serving
Talking == console \in {"connect", "send", "receive", "reading", "return"}

\* What was not opened has no number, what is served has one.
Unopened == \A o \in Private : life[o] = "none" => fd[o] = NoFd
Numbered == \A c \in Conns : Busy(c) => fd[node(c)] # NoFd

\* The train file of a handler and the UDP socket of a command, step by step.
Early == {"none", "begin", "job"} \cup Answers
Computes(c) ==
  \/ thread[c] \in {"compute", "broken", "close"}
  \/ thread[c] = "closing" /\ asked[c] = "distributiveComputing"
TrainStages ==
  \A c \in Conns :
    /\ thread[c] \in Early => life[train(c)] = "none"
    /\ Computes(c) => life[train(c)] \in {"open", "closed"}

UdpStages ==
  /\ \A c \in left : life[udp(c)] = "none"
  /\ console = "request" => life[udp(call)] = "none"
  /\ console = "replies" => life[udp(call)] = "open"
  /\ console = "requested" => life[udp(call)] = "closed"

Staged == Unopened /\ Numbered /\ TrainStages /\ UdpStages

IInv == Typed /\ OneAtATime /\ Staged /\ SocketsIntact

-----------------------------------------------------------------------------
(* Operators *)

\* A nonempty set of numbers has a least one.
LEMMA LeastExists ==
  ASSUME NEW S \in SUBSET Nat, S # {}
  PROVE  \E d \in S : \A x \in S : d <= x
<1>1. PICK d \in S : \A x \in S : <<x, d>> \notin OpToRel(<, Nat)
  BY NatLessThanWellFounded, WFMin
<1>2. \A x \in S : ~(x < d)
  BY <1>1 DEF OpToRel
<1> QED
  BY <1>2

\* The kernel gives out a number that is free.
LEMMA LowestIsFree == Free # {} => Lowest \in Free
<1>1. Free \in SUBSET Nat
  BY FdsAssumption DEF Free
<1> QED
  BY <1>1, LeastExists DEF Lowest

\* The two ends of a connection, and of different connections, are different.
LEMMA EndsDiffer ==
  /\ Ends \subseteq Objects /\ Private \subseteq Objects /\ Ends \cap Private = {}
  /\ \A c \in Conns : node(c) \in Ends /\ far(c) \in Ends
  /\ \A c, d \in Conns : node(c) # far(d)
  /\ \A c, d \in Conns : node(c) = node(d) => c = d
  /\ \A c, d \in Conns : far(c) = far(d) => c = d
  /\ \A e \in Ends : Other(e) \in Ends
  /\ Nothing \notin Objects /\ Nothing \notin Ends /\ Nothing \notin Conns
<1>1. Ends \cap Private = {}
  BY ConnsAssumption DEF Ends, Private
<1> QED
  BY <1>1, ConnsAssumption DEF node, far, Ends, Objects, Other

\* The train files, UDP sockets and sockets of remote calls.
LEMMA PrivateDiffer ==
  /\ \A c \in Conns : train(c) \in Private /\ udp(c) \in Private
  /\ \A c \in Conns, r \in Remotes : remote(c, r) \in Private
  /\ \A c, d \in Conns : train(c) # udp(d)
  /\ \A c, d \in Conns : train(c) = train(d) => c = d
  /\ \A c, d \in Conns : udp(c) = udp(d) => c = d
  /\ \A c, d \in Conns, r \in Remotes : remote(c, r) # train(d) /\ remote(c, r) # udp(d)
BY ConnsAssumption DEF train, udp, remote, Private

\* Who reads.
LEMMA ReadersDiffer ==
  /\ "listener" \in Readers /\ "console" \in Readers /\ Conns \subseteq Readers
  /\ \A c \in Conns : c # "listener" /\ c # "console"
BY ConnsAssumption DEF Readers

\* What a number refers to is an end or a private object, if anything, and its stream an
\* end.
LEMMA AtTyped ==
  SocketTypes => \A d : At(d) \in Objects \cup {Nothing} /\ Stream(d) \in Ends \cup {Nothing}
BY DEF SocketTypes, At, Stream

\* What is sent to an end is a message.
LEMMA SentTyped ==
  ASSUME SocketTypes, NEW d, NEW m \in Messages
  PROVE  Sent(d, m) \in [Ends -> Messages \cup {Nothing}]
BY AtTyped, EndsDiffer DEF SocketTypes, Sent, Joined, Messages, Later

\* A reader takes a message from its stream.
LEMMA TakeTyped ==
  ASSUME SocketTypes, NEW r, Take(r)
  PROVE  /\ held' \in [Readers -> Ends \cup {Nothing}]
         /\ inbox' \in [Ends -> Messages \cup {Nothing}]
BY DEF SocketTypes, Take

\* A close keeps the types of the descriptors.
LEMMA CloseTyped ==
  ASSUME SocketTypes, NEW e \in Objects, Close(e)
  PROVE  /\ descriptor' \in [Fds -> Objects \cup {Nothing}]
         /\ faults' \subseteq {"struck", "no descriptor", "no thread", "backlog full"}
BY DEF SocketTypes, Close

LEMMA ForgetTyped ==
  ASSUME SocketTypes, NEW e \in Objects, Forget(e)
  PROVE  fd' \in [Objects -> Fds \cup {NoFd}]
BY DEF SocketTypes, Forget

\* So does an open.
LEMMA NumberTyped ==
  ASSUME SocketTypes, NEW o \in Objects, Free # {}, Number(o)
  PROVE  /\ descriptor' \in [Fds -> Objects \cup {Nothing}]
         /\ fd' \in [Objects -> Fds \cup {NoFd}]
<1>1. Lowest \in Fds
  BY LowestIsFree DEF Free
<1> QED
  BY <1>1 DEF SocketTypes, Number

\* The messages.
LEMMA Words ==
  /\ Answers \subseteq Messages /\ Dispatched \subseteq Messages /\ Requests \subseteq Messages
  /\ Later \subseteq Messages /\ Local \subseteq Messages
  /\ SUCCESS \in Messages /\ Unknown \in Messages
  /\ {REJECT_CONNECTION, Result, File, Body, Mixed} \subseteq Messages
  /\ Nothing \notin Messages
<1>1. Local \subseteq Dispatched /\ SUCCESS \in Answers /\ Unknown \in Answers
  BY DEF Local, Dispatched, Copying, InPlace, Answers
<1>2. {REJECT_CONNECTION, Result, File, Body, Mixed} \subseteq Later
  BY DEF Later
<1> QED
  BY <1>1, <1>2, MessagesAssumption DEF Messages

\* What a step leaves alone keeps its type.
LEMMA Frame ==
  ASSUME Typed
  PROVE  /\ UNCHANGED queue => QueueTypes'
         /\ UNCHANGED threads => ThreadTypes'
         /\ UNCHANGED clients => PeerTypes'
         /\ UNCHANGED life => LifeTypes'
         /\ UNCHANGED loop /\ held'["listener"] = held["listener"] => LoopTypes'
         /\ UNCHANGED here /\ held'["console"] = held["console"] => HereTypes'
         /\ UNCHANGED sockets /\ ended' \in {"no", "exit", "abort"} => SocketTypes'
BY DEF Typed, QueueTypes, ThreadTypes, Placed, PeerTypes, LifeTypes, LoopTypes, HereTypes,
   SocketTypes, threads, loop, here, sockets, clients

\* The reader of a stream leaves the other readers' calls alone.
LEMMA TakeKeeps ==
  ASSUME SocketTypes, NEW r \in Readers, Take(r), NEW q \in Readers, q # r
  PROVE  held'[q] = held[q]
BY DEF SocketTypes, Take

\* The accept loop keeps the types.
LEMMA ListenTyped == Typed /\ listen => Typed'
<1> SUFFICES ASSUME Typed, listen PROVE Typed'
  OBVIOUS
<1>here. UNCHANGED here
  BY DEF listen
<1>types. SocketTypes /\ QueueTypes /\ LoopTypes /\ ThreadTypes
  BY DEF Typed
<1> USE DEF toListener
<1>1. CASE acceptConnection
  <2>1. Head(queue) \in Conns /\ QueueTypes'
    BY <1>1, <1>types, BacklogAssumption DEF acceptConnection, QueueTypes
  <2>2. SocketTypes'
    BY <1>1, <1>types, <2>1, NumberTyped, EndsDiffer DEF acceptConnection, SocketTypes
  <2>3. LoopTypes'
    BY <1>1, <2>1 DEF acceptConnection, LoopTypes
  <2> QED
    BY <1>1, <1>here, <2>1, <2>2, <2>3, Frame DEF acceptConnection, Typed, others
<1>2. CASE AcceptFails
  <2>1. SocketTypes'
    BY <1>2, <1>types DEF AcceptFails, SocketTypes
  <2> QED
    BY <1>2, <1>here, <2>1, Frame DEF AcceptFails, Typed, others
<1>3. CASE BeginReceive
  <2>1. Stream(fd[node(serving)]) \in Ends \cup {Nothing}
    BY <1>types, AtTyped
  <2>2. SocketTypes' /\ held'["console"] = held["console"]
    BY <1>3, <1>types, <2>1, ReadersDiffer DEF BeginReceive, SocketTypes
  <2>3. LoopTypes'
    BY <1>3, <1>types, <2>1, EndsDiffer, ReadersDiffer DEF BeginReceive, SocketTypes, LoopTypes
  <2> QED
    BY <1>3, <1>here, <2>2, <2>3, Frame DEF BeginReceive, Typed, others
<1>4. CASE Dispatch
  <2>1. SocketTypes'
    BY <1>4, <1>types, TakeTyped DEF Dispatch, SocketTypes
  <2>2. held'["console"] = held["console"]
    BY <1>4, <1>types, TakeKeeps, ReadersDiffer DEF Dispatch
  <2>3. LoopTypes'
    BY <1>4 DEF Dispatch, LoopTypes
  <2>4. serving \in Conns /\ inbox[held["listener"]] \in Dispatched
    BY <1>4, <1>types DEF Dispatch, LoopTypes
  <2>5. ThreadTypes'
    BY <1>4, <1>types, <2>4
       DEF Dispatch, ThreadTypes, ThreadSteps, Serving, Placed, ShareSteps, JobSteps
  <2> QED
    BY <1>4, <1>here, <2>1, <2>2, <2>3, <2>5, Frame DEF Dispatch, Typed, others
<1>5. CASE DispatchFails \/ ReceiveUnknown
  <2>1. SocketTypes'
    BY <1>5, <1>types, TakeTyped DEF DispatchFails, ReceiveUnknown, SocketTypes
  <2>2. held'["console"] = held["console"]
    BY <1>5, <1>types, TakeKeeps, ReadersDiffer DEF DispatchFails, ReceiveUnknown
  <2>3. LoopTypes'
    BY <1>5, <1>types DEF DispatchFails, ReceiveUnknown, LoopTypes
  <2> QED
    BY <1>5, <1>here, <2>1, <2>2, <2>3, Frame DEF DispatchFails, ReceiveUnknown, Typed, others
<1>6. CASE Refuse
  <2>1. SocketTypes'
    BY <1>6, <1>types, SentTyped, Words DEF Refuse, SocketTypes
  <2>2. LoopTypes'
    BY <1>6, <1>types DEF Refuse, LoopTypes
  <2> QED
    BY <1>6, <1>here, <2>1, <2>2, Frame DEF Refuse, Typed, others
<1>7. CASE ReceiveEnd
  <2>1. SocketTypes' /\ held'["console"] = held["console"]
    BY <1>7, <1>types, ReadersDiffer DEF ReceiveEnd, SocketTypes
  <2>2. LoopTypes'
    BY <1>7, <1>types DEF ReceiveEnd, LoopTypes
  <2> QED
    BY <1>7, <1>here, <2>1, <2>2, Frame DEF ReceiveEnd, Typed, others
<1>8. CASE Delete
  <2>1. node(serving) \in Objects
    BY <1>8, <1>types, EndsDiffer DEF Delete, LoopTypes
  <2>2. SocketTypes'
    BY <1>8, <1>types, <2>1, CloseTyped, ForgetTyped DEF Delete, SocketTypes
  <2>3. LoopTypes'
    BY <1>8 DEF Delete, LoopTypes
  <2> QED
    BY <1>8, <1>here, <2>2, <2>3, Frame DEF Delete, Typed, others
<1> QED
  BY <1>1, <1>2, <1>3, <1>4, <1>5, <1>6, <1>7, <1>8 DEF listen, server_listener_thread_tcp

\* A handler that moves on within its command keeps the types.
LEMMA ThreadMoves ==
  ASSUME ThreadTypes, NEW c \in Conns, NEW s \in ThreadSteps, thread' = [thread EXCEPT ![c] = s],
         asked' = asked, OPEN_RECEIVE_FILE_CONNECTION' \in {0, 1},
         askclientShareFile' \in [Conns -> BOOLEAN],
         asked[c] \in Dispatched, s = "destroy" => asked[c] \in Copying,
         s \in ShareSteps => asked[c] = "shareFile",
         s \in JobSteps => asked[c] = "distributiveComputing"
  PROVE  ThreadTypes'
BY DEF ThreadTypes, Placed

\* The steps of a handler are its own, and nobody else's.
LEMMA StepNames ==
  /\ ShareSteps \subseteq ThreadSteps \ {"none", "done", "destroy"}
  /\ JobSteps \subseteq ThreadSteps \ {"none", "done", "destroy"}
  /\ ShareSteps \cap JobSteps = {}
  /\ Answers \subseteq ThreadSteps \ {"none", "done", "destroy"}
  /\ Answers \cap (ShareSteps \cup JobSteps \cup {"begin", "closing", "delete"}) = {}
  /\ {"begin", "closing", "delete", "destroy", "done"} \subseteq ThreadSteps \ {"none"}
  /\ {"begin", "closing", "delete", "destroy", "done"} \cap (ShareSteps \cup JobSteps) = {}
BY DEF ShareSteps, JobSteps, ThreadSteps, Serving, Answers, SUCCESS, OPEN_SHAREFILE_CONNECTION,
   RECEIVER_NO_OPEN_CONNECTION, Unknown

\* Where a handler goes from its answer.
LEMMA AfterAnswerTyped ==
  ASSUME NEW c, asked[c] \in Dispatched
  PROVE  /\ AfterAnswer(c) \in {"delete", "flag", "job"}
         /\ AfterAnswer(c) = "flag" => asked[c] = "shareFile"
         /\ AfterAnswer(c) = "job" => asked[c] = "distributiveComputing"
<1>1. CASE asked[c] \in Copying
  <2>1. asked[c] \notin {"shareFile", "distributiveComputing"}
    BY <1>1 DEF Copying
  <2> QED
    BY <1>1, <2>1 DEF AfterAnswer
<1>2. CASE asked[c] = "shareFile"
  BY <1>2 DEF AfterAnswer, Copying
<1>3. CASE asked[c] = "distributiveComputing"
  BY <1>3 DEF AfterAnswer, Copying
<1> QED
  BY <1>1, <1>2, <1>3 DEF Dispatched, InPlace

\* The handlers keep the types.
LEMMA HandleTyped ==
  ASSUME Typed, NEW c \in Conns, handle(c)
  PROVE  Typed'
<1>here. UNCHANGED here
  BY DEF handle
<1>types. SocketTypes /\ ThreadTypes /\ LifeTypes
  BY DEF Typed
<1>placed. Placed(c) /\ askclientShareFile \in [Conns -> BOOLEAN]
           /\ OPEN_RECEIVE_FILE_CONNECTION \in {0, 1}
  BY <1>types DEF ThreadTypes
<1>reader. c \in Readers /\ c # "listener" /\ c # "console"
  BY ReadersDiffer
<1>1. CASE Begin(c)
  <2>1. asked[c] \in Dispatched /\ thread' = [thread EXCEPT ![c] = Answer(asked[c])]
    BY <1>1, <1>placed, StepNames DEF Begin, Placed, toThread
  <2>2. Answer(asked[c]) \in Answers /\ OpenFlag(asked[c]) \in {0, 1}
    BY <1>placed, <2>1
       DEF Answer, OpenFlag, Answers, Dispatched, Copying, InPlace
  <2>3. ThreadTypes'
    BY <1>1, <1>types, <1>placed, <2>1, <2>2, StepNames, ThreadMoves DEF Begin
  <2> QED
    BY <1>1, <1>here, <1>types, <2>3, Frame DEF Begin, Typed, sockets, SocketTypes, others
<1>2. CASE SendAnswer(c)
  <2>1. SocketTypes'
    BY <1>2, <1>types, SentTyped, Words DEF SendAnswer, SocketTypes
  <2>2. asked[c] \in Dispatched
    BY <1>2, <1>placed, StepNames DEF SendAnswer, Placed
  <2>3. AfterAnswer(c) \in ThreadSteps \ {"destroy"}
        /\ (AfterAnswer(c) \in ShareSteps => asked[c] = "shareFile")
        /\ (AfterAnswer(c) \in JobSteps => asked[c] = "distributiveComputing")
    BY <2>2, AfterAnswerTyped DEF ThreadSteps, Serving, ShareSteps, JobSteps
  <2>4. ThreadTypes'
    BY <1>2, <1>types, <1>placed, <2>2, <2>3, ThreadMoves DEF SendAnswer
  <2> QED
    BY <1>2, <1>here, <2>1, <2>4, Frame DEF SendAnswer, Typed, others
<1>3. CASE Receive(c) \/ ReadFlag(c) \/ ReadChoice(c) \/ ReceiveFile(c) \/ EndTransfer(c)
           \/ Reply(c)
  <2>1. thread[c] \in ShareSteps
    BY <1>3
       DEF Receive, ReadFlag, ReadChoice, ReceiveFile, EndTransfer, Reply, toThread, ShareSteps
  <2>2. asked[c] = "shareFile" /\ "shareFile" \in Dispatched
    BY <1>placed, <2>1 DEF Placed, Dispatched, InPlace
  <2>3. \E s \in ShareSteps \cup {"closing", "delete"} : thread' = [thread EXCEPT ![c] = s]
    BY <1>3 DEF Receive, ReadFlag, ReadChoice, ReceiveFile, EndTransfer, Reply, toThread,
       ShareSteps, Returned
  <2>4. /\ asked' = asked /\ OPEN_RECEIVE_FILE_CONNECTION' = OPEN_RECEIVE_FILE_CONNECTION
        /\ UNCHANGED others /\ UNCHANGED <<loop, queue>>
    BY <1>3 DEF Receive, ReadFlag, ReadChoice, ReceiveFile, EndTransfer, Reply
  <2>5. askclientShareFile' \in [Conns -> BOOLEAN]
    BY <1>3, <1>placed DEF Receive, ReadFlag, ReadChoice, ReceiveFile, EndTransfer, Reply
  <2>6. ThreadTypes'
    BY <1>types, <1>placed, <2>2, <2>3, <2>4, <2>5, StepNames, ThreadMoves
  <2>7. SocketTypes' /\ held'["listener"] = held["listener"] /\ held'["console"] = held["console"]
    <3>1. CASE Receive(c)
      <4>1. Stream(fd[node(c)]) \in Ends \cup {Nothing}
        BY <1>types, AtTyped
      <4> QED
        BY <1>types, <1>reader, <3>1, <4>1, ReadersDiffer DEF Receive, SocketTypes
    <3>2. CASE ReadFlag(c)
      <4>1. PICK rest \in {Body, Nothing, Mixed} : inbox' = [inbox EXCEPT ![held[c]] = rest]
        BY <3>2 DEF ReadFlag
      <4>2. rest \in Messages \cup {Nothing}
        BY <4>1, Words
      <4>3. inbox' \in [Ends -> Messages \cup {Nothing}]
        BY <1>types, <4>1, <4>2 DEF SocketTypes
      <4> QED
        BY <1>types, <1>reader, <3>2, <4>3, ReadersDiffer DEF ReadFlag, SocketTypes
    <3>3. CASE ReadChoice(c) \/ Reply(c)
      <4>1. /\ Sent(fd[node(c)], SUCCESS) \in [Ends -> Messages \cup {Nothing}]
            /\ Sent(fd[node(c)], REJECT_CONNECTION) \in [Ends -> Messages \cup {Nothing}]
        BY <1>types, SentTyped, Words
      <4> QED
        BY <1>types, <3>3, <4>1 DEF ReadChoice, Reply, SocketTypes
    <3>4. CASE ReceiveFile(c)
      BY <1>types, <1>reader, <3>4, TakeTyped, TakeKeeps, ReadersDiffer
         DEF ReceiveFile, SocketTypes
    <3>5. CASE EndTransfer(c)
      BY <1>types, <1>reader, <3>5, ReadersDiffer DEF EndTransfer, SocketTypes
    <3> QED
      BY <1>3, <3>1, <3>2, <3>3, <3>4, <3>5
  <2> QED
    BY <1>here, <2>4, <2>6, <2>7, Frame DEF Typed, others
<1>4. CASE CompileFails(c)
  BY <1>4, <1>here, Frame DEF CompileFails, Typed, sockets, loop, others
<1>5. CASE OpenTrain(c) \/ SliceFails(c) \/ CloseSlice(c) \/ SendResult(c) \/ CloseTrain(c)
  <2>1. asked[c] = "distributiveComputing" /\ asked[c] \in Dispatched
    BY <1>5, <1>placed DEF OpenTrain, SliceFails, CloseSlice, SendResult, CloseTrain, toThread,
       Placed, JobSteps, Dispatched, InPlace
  <2>2. \E s \in {"compute", "broken", "closing", "delete"} : thread' = [thread EXCEPT ![c] = s]
    BY <1>5 DEF OpenTrain, SliceFails, CloseSlice, SendResult, CloseTrain, toThread
  <2>3. UNCHANGED <<asked, askclientShareFile, OPEN_RECEIVE_FILE_CONNECTION, loop, clients>>
    BY <1>5 DEF OpenTrain, SliceFails, CloseSlice, SendResult, CloseTrain, others
  <2>4. {"compute", "broken", "closing", "delete"} \subseteq ThreadSteps \ ({"destroy"} \cup ShareSteps)
    BY DEF ThreadSteps, Serving, ShareSteps
  <2>5. ThreadTypes'
    BY <1>types, <1>placed, <2>1, <2>2, <2>3, <2>4, ThreadMoves
  <2>6. train(c) \in Objects
    BY EndsDiffer, PrivateDiffer
  <2>7. SocketTypes' /\ UNCHANGED <<held, queue>>
    <3>1. Sent(fd[node(c)], Result) \in [Ends -> Messages \cup {Nothing}]
      BY <1>types, SentTyped, Words
    <3>2. CASE OpenTrain(c)
      BY <1>types, <2>6, <3>2, NumberTyped DEF OpenTrain, SocketTypes
    <3>3. CASE CloseSlice(c) \/ CloseTrain(c)
      BY <1>types, <2>6, <3>3, CloseTyped, ForgetTyped DEF CloseSlice, CloseTrain, SocketTypes
    <3>4. CASE SliceFails(c) \/ SendResult(c)
      BY <1>types, <3>1, <3>4 DEF SliceFails, SendResult, SocketTypes, sockets
    <3> QED
      BY <1>5, <3>2, <3>3, <3>4
  <2>8. LifeTypes'
    BY <1>5, <1>types DEF OpenTrain, SliceFails, CloseSlice, SendResult, CloseTrain, LifeTypes,
       others
  <2> QED
    BY <1>here, <2>3, <2>5, <2>7, <2>8, Frame DEF Typed, loop
<1>6. CASE CloseNode(c)
  <2>1. asked[c] \in Dispatched
    BY <1>6, <1>placed DEF CloseNode, toThread, Placed
  <2>2. ThreadTypes'
    BY <1>6, <1>types, <1>placed, <2>1, StepNames, ThreadMoves
       DEF CloseNode, toThread, ShareSteps, JobSteps
  <2> QED
    BY <1>6, <1>here, <1>types, <2>2, Frame DEF CloseNode, Typed, sockets, SocketTypes, others
<1>7. CASE DeleteArgument(c)
  <2>1. SocketTypes'
    BY <1>7, <1>types, CloseTyped, EndsDiffer DEF DeleteArgument, SocketTypes
  <2>2. ThreadTypes'
    BY <1>7, <1>types, <1>placed, StepNames, ThreadMoves DEF DeleteArgument, toThread, Dispatched
  <2> QED
    BY <1>7, <1>here, <2>1, <2>2, Frame DEF DeleteArgument, Typed, loop, others
<1>8. CASE Destroy(c)
  <2>1. SocketTypes'
    BY <1>8, <1>types, CloseTyped, ForgetTyped, EndsDiffer DEF Destroy, SocketTypes
  <2>2. thread' = [thread EXCEPT ![c] = "done"]
    BY <1>8 DEF Destroy, toThread
  <2>3. ThreadTypes'
    BY <1>8, <1>types, <2>2, StepNames DEF Destroy, ThreadTypes, Placed
  <2> QED
    BY <1>8, <1>here, <2>1, <2>3, Frame DEF Destroy, Typed, loop, others
<1> QED
  BY <1>1, <1>2, <1>3, <1>4, <1>5, <1>6, <1>7, <1>8 DEF handle, handler, awaits

\* The clients keep the types.
LEMMA UseTyped ==
  ASSUME Typed, NEW c \in Clients, use(c)
  PROVE  Typed'
<1>here. UNCHANGED here /\ c \in Conns
  BY DEF use, Conns
<1>types. SocketTypes /\ QueueTypes /\ PeerTypes
  BY DEF Typed
<1> USE DEF toPeer, Unaware
<1>1. CASE Connect(c)
  <2>1. QueueTypes'
    BY <1>1, <1>here, <1>types, BacklogAssumption DEF Connect, Established, HasRoom, QueueTypes
  <2>2. PeerTypes' /\ SocketTypes'
    BY <1>1, <1>types DEF Connect, PeerTypes, PeerSteps, SocketTypes
  <2> QED
    BY <1>1, <1>here, <2>1, <2>2, Frame DEF Connect, Typed, loop
<1>2. ASSUME NEW m \in Messages, Says(c, m), UNCHANGED Unaware
      PROVE  SocketTypes'
  BY <1>2, <1>types, Words DEF Says, SocketTypes, Joined
<1>3. CASE Ask(c)
  <2>1. PICK m \in Requests : peer' = [peer EXCEPT ![c] = m] /\ Says(c, m)
    BY <1>3 DEF Ask
  <2>2. PeerTypes'
    BY <1>3, <1>types, <2>1 DEF Ask, PeerTypes
  <2>3. SocketTypes'
    BY <1>2, <1>3, <2>1, Words DEF Ask
  <2> QED
    BY <1>3, <1>here, <2>2, <2>3, Frame DEF Ask, Typed
<1>4. CASE Upload(c)
  <2>1. SocketTypes'
    BY <1>2, <1>4, Words DEF Upload
  <2>2. PeerTypes'
    BY <1>4, <1>types DEF Upload, PeerTypes, PeerSteps
  <2> QED
    BY <1>4, <1>here, <2>1, <2>2, Frame DEF Upload, Typed
<1>5. CASE Leave(c) \/ LoseConnection(c)
  <2>1. PeerTypes' /\ SocketTypes'
    BY <1>5, <1>types DEF Leave, LoseConnection, PeerTypes, PeerSteps, SocketTypes
  <2> QED
    BY <1>5, <1>here, <2>1, Frame DEF Leave, LoseConnection, Typed
<1>6. CASE ReadAnswer(c)
  <2>1. TalkAfter(c, inbox[far(c)]) \in {Nothing, "shareFile", "accepted", "distributiveComputing"}
    BY <1>types DEF TalkAfter, PeerTypes
  <2>2. PeerTypes' /\ SocketTypes'
    BY <1>6, <1>types, <2>1 DEF ReadAnswer, PeerTypes, PeerSteps, SocketTypes
  <2> QED
    BY <1>6, <1>here, <2>2, Frame DEF ReadAnswer, Typed
<1> QED
  BY <1>1, <1>3, <1>4, <1>5, <1>6 DEF use, client

\* The sockets of a command keep the types.
LEMMA PrivateTyped ==
  ASSUME Typed, NEW o \in Private, OpenPrivate(o) \/ ClosePrivate(o) \/ DestroyPrivate(o)
  PROVE  SocketTypes' /\ LifeTypes' /\ UNCHANGED <<held, queue>>
<1>types. SocketTypes /\ LifeTypes /\ o \in Objects
  BY EndsDiffer DEF Typed
<1>1. LifeTypes' /\ UNCHANGED <<held, queue>>
  BY <1>types DEF OpenPrivate, ClosePrivate, DestroyPrivate, LifeTypes
<1>2. SocketTypes'
  BY <1>types, NumberTyped, CloseTyped, ForgetTyped
     DEF OpenPrivate, ClosePrivate, DestroyPrivate, SocketTypes
<1> QED
  BY <1>1, <1>2

LEMMA BroadcastsTyped == Typed /\ broadcasts => Typed'
<1> SUFFICES ASSUME Typed, broadcasts PROVE Typed'
  OBVIOUS
<1>types. SocketTypes /\ LifeTypes /\ HereTypes
  BY DEF Typed
<1>call. console \in Asking => /\ call \in Conns /\ udp(call) \in Private
                               /\ \A r \in Remotes : remote(call, r) \in Private
  BY <1>types, PrivateDiffer DEF HereTypes, Conns
<1>1. CASE OpenRequest \/ CloseRequest \/ DestroyRequest
  <2>1. console \in Asking /\ UNCHANGED <<apart, left, result>>
    BY <1>1 DEF OpenRequest, CloseRequest, DestroyRequest, toConsole, Asking
  <2>2. SocketTypes' /\ LifeTypes' /\ UNCHANGED <<held, queue>>
    BY <1>1, <1>call, <2>1, PrivateTyped DEF OpenRequest, CloseRequest, DestroyRequest
  <2>3. HereTypes'
    BY <1>1, <1>types, <2>2
       DEF OpenRequest, CloseRequest, DestroyRequest, toConsole, Finish, HereTypes, Steps, Calling,
           Asking
  <2> QED
    BY <2>1, <2>2, <2>3, Frame DEF apart, loop, Typed
<1>2. ASSUME NEW r \in Remotes, BeginRemote(r) \/ CloseRemote(r) \/ DestroyRemote(r)
      PROVE  Typed'
  <2>1. console \in Asking /\ UNCHANGED <<apart, here>>
    BY <1>2 DEF BeginRemote, CloseRemote, DestroyRemote, Asking
  <2>2. SocketTypes' /\ LifeTypes' /\ UNCHANGED <<held, queue>>
    BY <1>2, <1>call, <2>1, PrivateTyped DEF BeginRemote, CloseRemote, DestroyRemote
  <2> QED
    BY <2>1, <2>2, Frame DEF apart, loop, Typed
<1>3. CASE EndRemote
  <2>1. HereTypes'
    BY <1>3, <1>types DEF EndRemote, toConsole, Finish, HereTypes, Steps, Calling, Asking, sockets
  <2> QED
    BY <1>3, <1>types, <2>1, Frame DEF EndRemote, apart, loop, Typed, sockets, SocketTypes
<1> QED
  BY <1>1, <1>2, <1>3 DEF broadcasts

\* The steps of sendToServer and of its callers keep the types.
LEMMA RunsTyped == Typed /\ runs => Typed'
<1> SUFFICES ASSUME Typed, runs PROVE Typed'
  OBVIOUS
<1>types. SocketTypes /\ QueueTypes /\ HereTypes
  BY DEF Typed
<1>call. console \in Calling => call \in Conns /\ far(call) \in Objects
  BY <1>types, EndsDiffer DEF HereTypes, Conns
<1> USE DEF toConsole, apart
<1>1. CASE PrintUnknown
  <2>1. HereTypes'
    BY <1>1, <1>types DEF PrintUnknown, HereTypes, Steps, Calling, Asking, sockets
  <2> QED
    BY <1>1, <1>types, <2>1, Frame DEF PrintUnknown, Typed, sockets, SocketTypes
<1>2. CASE OpenSocket
  <2>1. SocketTypes'
    <3>1. CASE Free = {}
      BY <1>2, <1>types, <3>1 DEF OpenSocket, SocketTypes
    <3>2. CASE Free # {}
      BY <1>2, <1>types, <1>call, <3>2, NumberTyped DEF OpenSocket, SocketTypes, Calling
    <3> QED
      BY <3>1, <3>2
  <2>2. HereTypes'
    BY <1>2, <1>types DEF OpenSocket, HereTypes, Steps, Calling, Asking
  <2> QED
    BY <1>2, <2>1, <2>2, Frame DEF OpenSocket, Typed
<1>3. CASE connect_socket
  <2>1. QueueTypes'
    BY <1>3, <1>types, <1>call, BacklogAssumption
       DEF connect_socket, Established, HasRoom, QueueTypes, Calling
  <2>2. HereTypes' /\ SocketTypes'
    BY <1>3, <1>types DEF connect_socket, HereTypes, SocketTypes, Steps, Calling, Asking
  <2> QED
    BY <1>3, <2>1, <2>2, Frame DEF connect_socket, Typed, loop
<1>4. CASE ConnectFails
  <2>1. HereTypes' /\ SocketTypes'
    BY <1>4, <1>types DEF ConnectFails, HereTypes, SocketTypes, Steps, Calling, Asking
  <2> QED
    BY <1>4, <2>1, Frame DEF ConnectFails, Typed
<1>5. CASE SendCommand
  <2>1. SocketTypes'
    BY <1>5, <1>types, SentTyped, Words DEF SendCommand, SocketTypes, HereTypes, Calling
  <2>2. HereTypes'
    BY <1>5, <1>types DEF SendCommand, HereTypes, Steps, Calling, Asking
  <2> QED
    BY <1>5, <2>1, <2>2, Frame DEF SendCommand, Typed
<1>6. CASE AwaitAnswer
  <2>1. Stream(fd[far(call)]) \in Ends \cup {Nothing}
    BY <1>types, AtTyped
  <2>2. SocketTypes' /\ held'["listener"] = held["listener"]
    BY <1>6, <1>types, <2>1, ReadersDiffer DEF AwaitAnswer, SocketTypes
  <2>3. HereTypes'
    BY <1>6, <1>types, <2>1, ReadersDiffer
       DEF AwaitAnswer, SocketTypes, HereTypes, Steps, Calling, Asking
  <2> QED
    BY <1>6, <2>2, <2>3, Frame DEF AwaitAnswer, Typed
<1>7. CASE ReceiveResult
  <2>1. SocketTypes'
    BY <1>7, <1>types, TakeTyped DEF ReceiveResult, SocketTypes
  <2>2. held'["listener"] = held["listener"]
    BY <1>7, <1>types, TakeKeeps, ReadersDiffer DEF ReceiveResult
  <2>3. held["console"] \in Ends
    BY <1>7, <1>types DEF ReceiveResult, HereTypes
  <2>4. result' \in Messages
    BY <1>7, <1>types, <2>3 DEF ReceiveResult, SocketTypes
  <2>5. HereTypes'
    BY <1>7, <1>types, <2>4 DEF ReceiveResult, HereTypes, Steps, Calling, Asking
  <2> QED
    BY <1>7, <2>1, <2>2, <2>5, Frame DEF ReceiveResult, Typed
<1>8. CASE ReceiveNothing
  <2>1. SocketTypes' /\ held'["listener"] = held["listener"]
    BY <1>8, <1>types, ReadersDiffer DEF ReceiveNothing, SocketTypes
  <2>2. HereTypes'
    BY <1>8, <1>types DEF ReceiveNothing, HereTypes, Steps, Calling, Asking
  <2> QED
    BY <1>8, <2>1, <2>2, Frame DEF ReceiveNothing, Typed
<1>9. CASE Return
  <2>1. far(call) \in Objects
    BY <1>9, <1>call DEF Return, Calling
  <2>2. SocketTypes'
    BY <1>9, <1>types, <2>1, CloseTyped, ForgetTyped DEF Return, SocketTypes
  <2>3. HereTypes'
    BY <1>9, <1>types DEF Return, HereTypes, Steps, Calling, Asking
  <2> QED
    BY <1>9, <2>2, <2>3, Frame DEF Return, Typed, loop
<1>10. CASE PrintStatus
  <2>1. HereTypes' /\ ended' \in {"no", "abort"}
    BY <1>10, <1>types DEF PrintStatus, Resume, Freed, HereTypes, Steps, Calling, Asking
  <2> QED
    BY <1>10, <2>1, Frame DEF PrintStatus, Typed, sockets, loop
<1>11. CASE PrintReceive
  <2>1. HereTypes'
    BY <1>11, <1>types DEF PrintReceive, HereTypes, Steps, Calling, Asking
  <2> QED
    BY <1>11, <1>types, <2>1, Frame DEF PrintReceive, Typed, sockets, SocketTypes
<1> QED
  BY <1>1, <1>2, <1>3, <1>4, <1>5, <1>6, <1>7, <1>8, <1>9, <1>10, <1>11 DEF runs

\* A handler of the console is called.
LEMMA RunTyped ==
  ASSUME Typed, NEW n, Run(n), UNCHANGED <<held, result>>
  PROVE  HereTypes' /\ ended' \in {"no", "exit", "abort"}
BY DEF Run, Typed, SocketTypes, HereTypes, Steps, Calling, Asking

\* What the user types keeps the types.
LEMMA InputTyped ==
  ASSUME Typed, Input
  PROVE  Typed'
<1>types. SocketTypes /\ HereTypes
  BY DEF Typed
<1> USE DEF apart, sockets
<1>1. ASSUME NEW line \in Lines, ReadLine(line) PROVE Typed'
  <2>1. HereTypes' /\ ended' \in {"no", "exit", "abort"}
    <3>1. CASE \E n \in Commands : line = Table[n]
      BY <1>1, <3>1, RunTyped DEF ReadLine
    <3>2. CASE ~ \E n \in Commands : line = Table[n]
      BY <1>1, <1>types, <3>2 DEF ReadLine, SocketTypes, HereTypes, Steps, Calling, Asking
    <3> QED
      BY <3>1, <3>2
  <2> QED
    BY <1>1, <2>1, Frame DEF ReadLine, Typed
<1>2. ASSUME NEW choice \in {"y", "n", "e"}, Choose(choice) PROVE Typed'
  <2>1. HereTypes' /\ ended' \in {"no", "exit", "abort"}
    <3>1. CASE Run(suggestion)
      BY <1>2, <3>1, RunTyped DEF Choose
    <3>2. CASE ~Run(suggestion)
      BY <1>2, <1>types, <3>2 DEF Choose, SocketTypes, HereTypes, Steps, Calling, Asking
    <3> QED
      BY <3>1, <3>2
  <2> QED
    BY <1>2, <2>1, Frame DEF Choose, Typed
<1>3. CASE clear_stdin
  <2>1. HereTypes' /\ ended' \in {"no", "abort"}
    BY <1>3, <1>types DEF clear_stdin, Resume, Freed, HereTypes, Steps, Calling, Asking
  <2> QED
    BY <1>3, <2>1, Frame DEF clear_stdin, Typed
<1> QED
  BY <1>1, <1>2, <1>3 DEF Input

\* Every step keeps the types.
LEMMA StepTyped == Typed /\ [Next]_vars => Typed'
<1>1. Typed /\ UNCHANGED vars => Typed'
  <2> SUFFICES ASSUME Typed, UNCHANGED vars PROVE Typed'
    OBVIOUS
  <2>1. ended \in {"no", "exit", "abort"}
    BY DEF Typed, SocketTypes
  <2> QED
    BY <2>1, Frame DEF vars, Typed, sockets, others
<1> QED
  BY <1>1, ListenTyped, HandleTyped, UseTyped, RunsTyped, BroadcastsTyped, InputTyped DEF Next

\* The parts are the type invariant.
LEMMA TypedIsTypeOK == Typed => TypeOK
BY DEF Typed, SocketTypes, QueueTypes, LoopTypes, ThreadTypes, ThreadSteps, PeerTypes, LifeTypes,
   HereTypes, TypeOK

-----------------------------------------------------------------------------
(* One at a time *)

\* A step that moves no connection.
LEMMA OnceFrame ==
  ASSUME OneAtATime, UNCHANGED <<thread, queue, serving>>,
         \A c \in Conns : Fresh(c)' => Fresh(c),
         \A c \in Calls : NewCall(c)' => NewCall(c) /\ fd'[far(c)] = fd[far(c)]
  PROVE  OneAtATime'
BY DEF OneAtATime, Queued

\* A step of one thread, which is there.
LEMMA OnceThread ==
  ASSUME Typed, OneAtATime, NEW c \in Conns, thread[c] # "none", NEW s,
         thread' = [thread EXCEPT ![c] = s],
         UNCHANGED <<queue, serving, peer, here>>,
         \A d \in Calls : fd'[far(d)] = fd[far(d)]
  PROVE  OneAtATime'
BY DEF Typed, ThreadTypes, OneAtATime, Queued, Fresh, NewCall, here

\* A connection is established.
LEMMA OnceQueued ==
  ASSUME Typed, OneAtATime, NEW c \in Conns, Fresh(c),
         queue' = Append(queue, c), UNCHANGED <<thread, serving, fd>>,
         \A d \in Conns : Fresh(d)' => Fresh(d) /\ d # c,
         \A d \in Calls : NewCall(d)' => NewCall(d)
  PROVE  OneAtATime'
<1>1. queue \in Seq(Conns)
  BY DEF Typed, QueueTypes
<1>2. /\ Len(queue') = Len(queue) + 1 /\ Len(queue) \in Nat
      /\ \A k \in 1 .. Len(queue) : queue'[k] = queue[k]
      /\ queue'[Len(queue) + 1] = c
  BY <1>1
<1>3. \A d \in Conns : Queued(d)' => Queued(d) \/ d = c
  BY <1>2 DEF Queued
<1>4. ~Queued(c) /\ thread[c] = "none" /\ serving # c
  BY DEF OneAtATime
<1>5. ASSUME NEW k \in 1 .. Len(queue'), NEW l \in 1 .. Len(queue'), queue'[k] = queue'[l]
      PROVE  k = l
  <2>1. k \in 1 .. Len(queue) \/ k = Len(queue) + 1
    BY <1>2
  <2>2. l \in 1 .. Len(queue) \/ l = Len(queue) + 1
    BY <1>2
  <2> QED
    BY <1>2, <1>4, <1>5, <2>1, <2>2 DEF OneAtATime, Queued
<1> QED
  BY <1>3, <1>4, <1>5 DEF OneAtATime

\* The accept loop.
LEMMA ListenOnce == Typed /\ OneAtATime /\ listen => OneAtATime'
<1> SUFFICES ASSUME Typed, OneAtATime, listen PROVE OneAtATime'
  OBVIOUS
<1>here. /\ UNCHANGED peer /\ UNCHANGED here
         /\ \A c \in Conns : Fresh(c)' <=> Fresh(c)
         /\ \A c \in Calls : NewCall(c)' <=> NewCall(c)
  BY DEF listen, here, server_listener_thread_tcp, acceptConnection, AcceptFails, BeginReceive,
     Dispatch, DispatchFails, ReceiveUnknown, Refuse, ReceiveEnd, Delete, Fresh, NewCall, others,
     clients
<1>calls. \A c \in Calls : c \in Conns
  BY DEF Conns
<1> USE DEF toListener
<1>1. CASE acceptConnection
  <2>1. queue \in Seq(Conns) /\ queue # <<>>
    BY <1>1 DEF acceptConnection, Typed, QueueTypes
  <2>2. /\ Head(queue) = queue[1] /\ queue[1] \in Conns
        /\ Len(queue) \in Nat \ {0} /\ Len(queue') = Len(queue) - 1
        /\ \A k \in 1 .. Len(queue') : queue'[k] = queue[k + 1]
    BY <1>1, <2>1 DEF acceptConnection
  <2>3. \A c \in Conns : Queued(c)' => Queued(c) /\ c # queue[1]
    BY <2>2 DEF Queued, OneAtATime
  <2>4. Queued(queue[1])
    BY <2>2 DEF Queued
  <2>5. \A k, l \in 1 .. Len(queue') : queue'[k] = queue'[l] => k = l
    BY <2>2 DEF OneAtATime
  <2>6. \A c \in Calls : fd'[far(c)] = fd[far(c)]
    BY <1>1, <1>calls, <2>2, EndsDiffer DEF acceptConnection, Number, Typed, SocketTypes
  <2>7. serving' = queue[1] /\ UNCHANGED thread
    BY <1>1, <2>2 DEF acceptConnection, threads
  <2> QED
    BY <1>here, <2>2, <2>3, <2>4, <2>5, <2>6, <2>7 DEF OneAtATime
<1>2. CASE Dispatch
  <2>1. /\ serving \in Conns /\ serving' = Nothing /\ UNCHANGED <<queue, fd>>
        /\ \A c \in Conns : c # serving => thread'[c] = thread[c]
    BY <1>2 DEF Dispatch, Typed, LoopTypes, ThreadTypes
  <2>2. \A c \in Conns : Queued(c)' <=> Queued(c)
    BY <2>1 DEF Queued
  <2> QED
    BY <1>here, <2>1, <2>2, EndsDiffer DEF OneAtATime
<1>3. CASE Delete
  <2>1. serving \in Conns /\ serving' = Nothing /\ UNCHANGED <<queue, thread>>
    BY <1>3 DEF Delete, Typed, LoopTypes, threads
  <2>2. \A c \in Conns : Queued(c)' <=> Queued(c)
    BY <2>1 DEF Queued
  <2>3. \A c \in Calls : fd'[far(c)] = fd[far(c)]
    BY <1>3, <1>calls, <2>1, EndsDiffer DEF Delete, Forget, Typed, SocketTypes
  <2> QED
    BY <1>here, <2>1, <2>2, <2>3, EndsDiffer DEF OneAtATime
<1>4. CASE AcceptFails \/ BeginReceive \/ DispatchFails \/ ReceiveUnknown \/ Refuse \/ ReceiveEnd
  <2>1. UNCHANGED <<thread, queue, serving, fd>>
    BY <1>4 DEF AcceptFails, BeginReceive, DispatchFails, ReceiveUnknown, Refuse, ReceiveEnd,
       threads, loop
  <2> QED
    BY <1>here, <2>1, OnceFrame
<1> QED
  BY <1>1, <1>2, <1>3, <1>4 DEF listen, server_listener_thread_tcp

\* What a handler's step leaves alone, and what it may change.
LEMMA HandleFrame ==
  ASSUME Typed, NEW c \in Conns, handle(c)
  PROVE  /\ Running /\ UNCHANGED <<queue, serving, listener, peer, talk, here>>
         /\ thread[c] \in Serving \cup {"destroy"}
         /\ \E s \in Serving \cup {"destroy", "done"} : thread' = [thread EXCEPT ![c] = s]
         /\ asked' = asked \/ asked' = [asked EXCEPT ![c] = Nothing]
         /\ \/ fd' = fd
            \/ Destroy(c) /\ Forget(node(c))
            \/ Forget(train(c))
            \/ OpenTrain(c) /\ Number(train(c)) /\ Free # {}
<1>here. UNCHANGED here
  BY DEF handle
<1>thread. thread \in [Conns -> ThreadSteps] /\ asked \in [Conns -> Dispatched \cup {Nothing}]
           /\ Placed(c)
  BY DEF Typed, ThreadTypes
<1>1. CASE Begin(c)
  <2>1. asked[c] \in Dispatched
    BY <1>1, <1>thread, StepNames DEF Begin, toThread, Placed
  <2>2. Answer(asked[c]) \in Answers
    BY <2>1 DEF Answer, Answers, Dispatched, Copying, InPlace
  <2> QED
    BY <1>1, <1>here, <2>2 DEF Begin, toThread, sockets, loop, others, clients, Serving
<1>2. CASE SendAnswer(c)
  <2>1. asked[c] \in Dispatched
    BY <1>2, <1>thread, StepNames DEF SendAnswer, Placed
  <2>2. AfterAnswer(c) \in Serving
    BY <2>1, AfterAnswerTyped DEF Serving
  <2> QED
    BY <1>2, <1>here, <2>2 DEF SendAnswer, loop, others, clients, Serving
<1>3. CASE Receive(c) \/ ReadFlag(c) \/ ReadChoice(c) \/ ReceiveFile(c) \/ EndTransfer(c)
           \/ Reply(c)
  BY <1>3, <1>here
     DEF Receive, ReadFlag, ReadChoice, ReceiveFile, EndTransfer, Reply, toThread, Returned, loop,
         others, clients, Serving
<1>4. CASE CompileFails(c)
  <2>1. thread' = [thread EXCEPT ![c] = "job"] /\ thread[c] = "job"
    BY <1>4, <1>thread DEF CompileFails, threads
  <2> QED
    BY <1>4, <1>here, <2>1 DEF CompileFails, threads, sockets, loop, others, clients, Serving
<1>5. CASE OpenTrain(c) \/ SliceFails(c) \/ CloseSlice(c) \/ SendResult(c) \/ CloseTrain(c)
           \/ CloseNode(c)
  BY <1>5, <1>here
     DEF OpenTrain, SliceFails, CloseSlice, SendResult, CloseTrain, CloseNode, toThread, loop,
         others, clients, sockets, Serving
<1>6. CASE DeleteArgument(c) \/ Destroy(c)
  BY <1>6, <1>here DEF DeleteArgument, Destroy, toThread, loop, others, clients, Serving
<1> QED
  BY <1>1, <1>2, <1>3, <1>4, <1>5, <1>6 DEF handle, handler, awaits

\* The handlers.
LEMMA HandleOnce ==
  ASSUME Typed, OneAtATime, NEW c \in Conns, handle(c)
  PROVE  OneAtATime'
<1>1. thread[c] # "none" /\ \E s : thread' = [thread EXCEPT ![c] = s]
  <2>1. "none" \notin Serving \cup {"destroy"}
    BY DEF Serving, Answers, SUCCESS, OPEN_SHAREFILE_CONNECTION, RECEIVER_NO_OPEN_CONNECTION,
       Unknown
  <2> QED
    BY <2>1, HandleFrame
<1>2. UNCHANGED <<queue, serving, peer, here>>
  BY HandleFrame
<1>3. fd' = fd \/ Forget(node(c)) \/ Forget(train(c)) \/ Number(train(c))
  BY HandleFrame
<1>4. ASSUME NEW d \in Calls PROVE fd'[far(d)] = fd[far(d)]
  <2>1. far(d) # node(c) /\ far(d) # train(c) /\ far(d) \in Objects
    BY EndsDiffer, PrivateDiffer DEF Conns
  <2> QED
    BY <1>3, <2>1 DEF Forget, Number, Typed, SocketTypes
<1> QED
  BY <1>1, <1>2, <1>4, OnceThread

\* The clients.
LEMMA UseOnce ==
  ASSUME Typed, OneAtATime, NEW c \in Clients, use(c)
  PROVE  OneAtATime'
<1>1. c \in Conns /\ c \notin Calls /\ UNCHANGED <<here, thread, serving, fd>>
  BY ConnsAssumption
     DEF use, client, Connect, Ask, Leave, Upload, ReadAnswer, LoseConnection, Unaware, threads,
         loop, Conns
<1>2. \E s : s # "idle" /\ peer' = [peer EXCEPT ![c] = s]
  BY RequestsAssumption
     DEF use, client, Connect, Ask, Leave, Upload, ReadAnswer, LoseConnection, toPeer, PeerSteps
<1>3. \A d \in Conns : Fresh(d)' => Fresh(d)
  BY <1>1, <1>2 DEF Fresh, here, Typed, PeerTypes
<1>4. \A d \in Calls : NewCall(d)' => NewCall(d)
  BY <1>1 DEF NewCall, here
<1>5. CASE Connect(c)
  <2>1. Fresh(c) /\ queue' = Append(queue, c)
    BY <1>5 DEF Connect, Fresh, toPeer, Established
  <2>2. ~Fresh(c)'
    <3>1. c \notin left' /\ (console' \in Calling => c # call')
      BY <1>1 DEF Typed, HereTypes, here
    <3> QED
      BY <1>2, <3>1 DEF Fresh, Typed, PeerTypes, Calling
  <2> QED
    BY <1>1, <1>3, <1>4, <2>1, <2>2, OnceQueued
<1>6. CASE ~Connect(c)
  <2>1. UNCHANGED queue
    BY <1>6 DEF use, client, Ask, Leave, Upload, ReadAnswer, LoseConnection
  <2> QED
    BY <1>1, <1>3, <1>4, <2>1, OnceFrame
<1> QED
  BY <1>5, <1>6

\* The console's own steps.
LEMMA RunsOnce == Typed /\ OneAtATime /\ runs => OneAtATime'
<1> SUFFICES ASSUME Typed, OneAtATime, runs PROVE OneAtATime'
  OBVIOUS
<1>1. UNCHANGED <<thread, serving, peer, left>>
  BY DEF runs, PrintUnknown, OpenSocket, connect_socket, ConnectFails, SendCommand, AwaitAnswer,
     ReceiveResult, ReceiveNothing, Return, PrintStatus, PrintReceive, apart, loop, threads, clients
<1>2. console' \notin {"open"} /\ (console' = "connect" => console = "open" /\ call' = call)
  BY DEF runs, PrintUnknown, OpenSocket, connect_socket, ConnectFails, SendCommand, AwaitAnswer,
     ReceiveResult, ReceiveNothing, Return, PrintStatus, PrintReceive, Resume, toConsole
<1>3. /\ \A c \in Conns : Fresh(c)' => Fresh(c)
      /\ \A c \in Calls : NewCall(c)' => c \in left
  BY <1>1, <1>2 DEF Fresh, NewCall
<1>4. \A c \in Calls : c \in left => NewCall(c) /\ fd'[far(c)] = fd[far(c)]
  <2>1. ASSUME NEW c \in Calls, c \in left, fd' # fd PROVE fd'[far(c)] = fd[far(c)]
    <3>1. OpenSocket \/ Return
      BY <2>1 DEF runs, PrintUnknown, connect_socket, ConnectFails, SendCommand, AwaitAnswer,
         ReceiveResult, ReceiveNothing, PrintStatus, PrintReceive, sockets
    <3>2. c \in Conns /\ call \in Conns /\ c # call
      BY <2>1, <3>1 DEF OpenSocket, Return, toConsole, Typed, HereTypes, Calling, Conns
    <3>3. far(c) # far(call) /\ far(call) \in Objects /\ far(c) \in Objects
      BY <3>2, EndsDiffer
    <3> QED
      BY <2>1, <3>1, <3>3 DEF OpenSocket, Return, Forget, Number, Typed, SocketTypes
  <2> QED
    BY <2>1 DEF NewCall
<1>5. CASE connect_socket
  <2>1. /\ console = "connect" /\ console' = "send" /\ call \in Calls \ left
        /\ UNCHANGED <<call, fd>>
        /\ queue' = Append(queue, call)
    BY <1>5 DEF connect_socket, toConsole, Established, Typed, HereTypes, Calling
  <2>2. call \in Conns /\ Fresh(call) /\ call \notin Clients
    BY <2>1, ConnsAssumption DEF Conns, Fresh
  <2>3. ~Fresh(call)'
    BY <1>1, <2>1, <2>2 DEF Fresh
  <2> QED
    BY <1>1, <1>3, <1>4, <2>1, <2>2, <2>3, OnceQueued
<1>6. CASE ~connect_socket
  <2>1. UNCHANGED queue
    BY <1>6 DEF runs, PrintUnknown, OpenSocket, ConnectFails, SendCommand, AwaitAnswer,
       ReceiveResult, ReceiveNothing, Return, PrintStatus, PrintReceive, sockets
  <2> QED
    BY <1>1, <1>3, <1>4, <2>1, OnceFrame
<1> QED
  BY <1>5, <1>6

\* The sockets of a command.
LEMMA BroadcastsOnce == Typed /\ OneAtATime /\ broadcasts => OneAtATime'
<1> SUFFICES ASSUME Typed, OneAtATime, broadcasts PROVE OneAtATime'
  OBVIOUS
<1>1. /\ UNCHANGED <<thread, serving, peer, left>>
      /\ console \in Asking /\ console' \in Asking \cup {"prompt"}
  BY DEF broadcasts, OpenRequest, CloseRequest, DestroyRequest, BeginRemote, CloseRemote,
     DestroyRemote, EndRemote, apart, loop, threads, clients, toConsole, here, Asking
<1>2. /\ \A c \in Conns : Fresh(c)' => Fresh(c)
      /\ \A c \in Calls : NewCall(c)' => NewCall(c)
  BY <1>1 DEF Fresh, NewCall, Asking
<1>3. queue' = queue /\ (fd' = fd \/ \E o \in Private : Number(o) \/ Forget(o))
  <2>1. /\ udp(call) \in Private /\ \A r \in Remotes : remote(call, r) \in Private
    BY <1>1, PrivateDiffer DEF Typed, HereTypes, Conns
  <2> QED
    BY <2>1
       DEF broadcasts, OpenRequest, CloseRequest, DestroyRequest, BeginRemote, CloseRemote,
           DestroyRemote, EndRemote, OpenPrivate, ClosePrivate, DestroyPrivate, sockets
<1>4. ASSUME NEW c \in Calls PROVE fd'[far(c)] = fd[far(c)]
  <2>1. far(c) \in Objects /\ far(c) \notin Private
    BY EndsDiffer DEF Conns
  <2> QED
    BY <1>3, <2>1 DEF Number, Forget, Typed, SocketTypes
<1> QED
  BY <1>1, <1>2, <1>3, <1>4, OnceFrame

\* What the user types.
LEMMA InputOnce == Typed /\ OneAtATime /\ Input => OneAtATime'
<1> SUFFICES ASSUME Typed, OneAtATime, Input PROVE OneAtATime'
  OBVIOUS
<1>1. UNCHANGED <<sockets, apart>>
  BY DEF Input, ReadLine, Choose, clear_stdin
<1>2. \/ /\ console' # "open" /\ console' # "connect" /\ UNCHANGED left
      \/ \E o \in left : call' = o /\ left' = left \ {o} /\ console' \in {"open", "request"}
      \/ UNCHANGED <<console, call, left>>
  BY DEF Input, ReadLine, Choose, clear_stdin, Run, Resume
<1>3. /\ \A c \in Conns : Fresh(c)' => Fresh(c)
      /\ \A c \in Calls : NewCall(c)' => NewCall(c)
  BY <1>1, <1>2 DEF Fresh, NewCall, apart, clients
<1> QED
  BY <1>1, <1>3, OnceFrame DEF sockets, apart, threads, loop

\* A step keeps all of it.
LEMMA StepOnce == Typed /\ OneAtATime /\ [Next]_vars => OneAtATime'
<1>1. OneAtATime /\ UNCHANGED vars => OneAtATime'
  <2> SUFFICES ASSUME OneAtATime, UNCHANGED vars PROVE OneAtATime'
    OBVIOUS
  <2>1. UNCHANGED <<thread, queue, serving, peer, left, call, console, fd>>
    BY DEF vars, sockets, loop, threads, here, others, clients
  <2>2. /\ \A c \in Conns : Fresh(c)' => Fresh(c)
        /\ \A c \in Calls : NewCall(c)' => NewCall(c) /\ fd'[far(c)] = fd[far(c)]
    BY <2>1 DEF Fresh, NewCall
  <2> QED
    BY <2>1, <2>2, OnceFrame
<1> QED
  BY <1>1, ListenOnce, HandleOnce, UseOnce, RunsOnce, BroadcastsOnce, InputOnce DEF Next

-----------------------------------------------------------------------------
(* Step by step *)

\* The accept loop.
LEMMA ListenStaged == Typed /\ OneAtATime /\ Staged /\ listen => Staged'
<1> SUFFICES ASSUME Typed, OneAtATime, Staged, listen PROVE Staged'
  OBVIOUS
<1>types. /\ serving \in Conns \cup {Nothing} /\ Nothing \notin Conns
          /\ listener # "accept" => serving \in Conns
          /\ fd \in [Objects -> Fds \cup {NoFd}] /\ queue \in Seq(Conns)
          /\ thread \in [Conns -> ThreadSteps] /\ asked \in [Conns -> Dispatched \cup {Nothing}]
  BY EndsDiffer DEF Typed, LoopTypes, SocketTypes, QueueTypes, ThreadTypes
<1>old. Unopened /\ Numbered /\ TrainStages /\ UdpStages
  BY DEF Staged
<1>here. UNCHANGED <<life, console, call, left>>
  BY DEF listen, here, server_listener_thread_tcp, acceptConnection, AcceptFails, BeginReceive,
     Dispatch, DispatchFails, ReceiveUnknown, Refuse, ReceiveEnd, Delete, others
<1> USE DEF toListener
<1>1. CASE acceptConnection
  <2>1. /\ Head(queue) \in Conns /\ serving' = Head(queue) /\ UNCHANGED <<thread, asked>>
        /\ fd' = [fd EXCEPT ![node(Head(queue))] = Lowest]
    BY <1>types, <1>1 DEF acceptConnection, threads, Number
  <2>2. Lowest # NoFd
    BY <1>1, LowestIsFree, FdsAssumption DEF acceptConnection, Free
  <2>3. ASSUME NEW c \in Conns, Busy(c)' PROVE fd'[node(c)] # NoFd
    <3>1. node(c) \in Objects /\ node(Head(queue)) \in Objects
      BY <2>1, EndsDiffer
    <3>2. CASE c = Head(queue)
      BY <1>types, <2>1, <2>2, <3>1, <3>2
    <3>3. CASE c # Head(queue)
      <4>1. Busy(c) /\ node(c) # node(Head(queue))
        BY <2>1, <2>3, <3>3, EndsDiffer DEF Busy
      <4> QED
        BY <1>types, <1>old, <2>1, <3>1, <4>1 DEF Numbered
    <3> QED
      BY <3>2, <3>3
  <2>4. \A o \in Private : fd'[o] = fd[o]
    <3>1. node(Head(queue)) \notin Private /\ Private \subseteq Objects
      BY <2>1, EndsDiffer
    <3> QED
      BY <1>types, <2>1, <3>1
  <2>5. TrainStages'
    BY <1>old, <1>here, <2>1 DEF TrainStages, Computes
  <2> QED
    BY <1>old, <1>here, <2>3, <2>4, <2>5 DEF Staged, Unopened, Numbered, UdpStages
<1>2. CASE Delete
  <2>1. /\ serving \in Conns /\ serving' = Nothing /\ UNCHANGED <<thread, asked>>
        /\ fd' = [fd EXCEPT ![node(serving)] = NoFd] /\ thread[serving] = "none"
    BY <1>types, <1>2 DEF Delete, Forget, threads, OneAtATime
  <2>2. ASSUME NEW c \in Conns, Busy(c)' PROVE fd'[node(c)] # NoFd
    <3>1. "none" \notin Serving
      BY StepNames DEF Serving, Answers, SUCCESS, OPEN_SHAREFILE_CONNECTION,
         RECEIVER_NO_OPEN_CONNECTION, Unknown
    <3>2. Busy(c) /\ c # serving
      BY <1>types, <2>1, <2>2, <3>1 DEF Busy
    <3>3. node(c) \in Objects /\ node(c) # node(serving)
      BY <2>1, <3>2, EndsDiffer
    <3> QED
      BY <1>types, <1>old, <2>1, <3>2, <3>3 DEF Numbered
  <2>3. \A o \in Private : fd'[o] = fd[o]
    <3>1. node(serving) \notin Private /\ Private \subseteq Objects
      BY <2>1, EndsDiffer
    <3> QED
      BY <1>types, <2>1, <3>1
  <2>4. TrainStages'
    BY <1>old, <1>here, <2>1 DEF TrainStages, Computes
  <2> QED
    BY <1>old, <1>here, <2>2, <2>3, <2>4 DEF Staged, Unopened, Numbered, UdpStages
<1>3. CASE Dispatch
  <2>1. /\ serving \in Conns /\ serving' = Nothing /\ fd' = fd
        /\ thread' = [thread EXCEPT ![serving] = "begin"] /\ thread[serving] = "none"
        /\ \A c \in Conns : c # serving => asked'[c] = asked[c]
    BY <1>types, <1>3 DEF Dispatch, OneAtATime
  <2>2. \A c \in Conns : Busy(c)' => Busy(c)
    BY <1>types, <2>1 DEF Busy
  <2>3. ASSUME NEW c \in Conns
        PROVE  /\ thread'[c] \in Early => life[train(c)] = "none"
               /\ Computes(c)' => life[train(c)] \in {"open", "closed"}
    <3>1. CASE c = serving
      BY <1>types, <1>old, <2>1, <3>1 DEF TrainStages, Computes, Early
    <3>2. CASE c # serving
      BY <1>types, <1>old, <2>1, <3>2 DEF TrainStages, Computes
    <3> QED
      BY <3>1, <3>2
  <2> QED
    BY <1>old, <1>here, <2>1, <2>2, <2>3
       DEF Staged, Unopened, Numbered, UdpStages, TrainStages
<1>4. CASE AcceptFails \/ BeginReceive \/ DispatchFails \/ ReceiveUnknown \/ Refuse \/ ReceiveEnd
  <2>1. UNCHANGED <<fd, serving, thread, asked>>
    BY <1>4 DEF AcceptFails, BeginReceive, DispatchFails, ReceiveUnknown, Refuse, ReceiveEnd,
       loop, threads
  <2> QED
    BY <1>old, <1>here, <2>1
       DEF Staged, Unopened, Numbered, UdpStages, TrainStages, Computes, Busy
<1> QED
  BY <1>1, <1>2, <1>3, <1>4 DEF listen, server_listener_thread_tcp

\* A handler and its train file.
LEMMA HandleTrain ==
  ASSUME Typed, TrainStages, NEW c \in Conns, handle(c)
  PROVE  /\ thread'[c] \in Early => life'[train(c)] = "none"
         /\ Computes(c)' => life'[train(c)] \in {"open", "closed"}
         /\ \A o \in Private : o # train(c) => life'[o] = life[o]
         /\ life' = life \/ life'[train(c)] # "none"
<1>types. /\ life \in [Private -> {"none", "open", "closed", "gone"}] /\ train(c) \in Private
          /\ thread \in [Conns -> ThreadSteps] /\ asked \in [Conns -> Dispatched \cup {Nothing}]
          /\ Placed(c)
  BY PrivateDiffer DEF Typed, LifeTypes, ThreadTypes
<1>old. /\ thread[c] \in Early => life[train(c)] = "none"
        /\ Computes(c) => life[train(c)] \in {"open", "closed"}
  BY DEF TrainStages
<1>names. /\ {"closing", "delete", "destroy", "done", "compute", "broken", "close"} \cap Early = {}
          /\ ShareSteps \cap Early = {} /\ Answers \subseteq Early
          /\ Answers \cap {"compute", "broken", "close", "closing"} = {}
          /\ ShareSteps \cap {"compute", "broken", "close", "closing"} = {}
  BY StepNames DEF Early, ShareSteps, JobSteps
<1> USE DEF toThread
<1>1. CASE Begin(c)
  <2>1. asked[c] \in Dispatched /\ thread'[c] = Answer(asked[c]) /\ thread[c] = "begin"
        /\ life' = life
    BY <1>1, <1>types, StepNames DEF Begin, Placed, others
  <2>2. thread'[c] \in Answers
    BY <2>1 DEF Answer, Answers, Dispatched, Copying, InPlace
  <2> QED
    BY <1>old, <1>names, <2>1, <2>2 DEF Computes, Early
<1>2. CASE SendAnswer(c)
  <2>1. asked[c] \in Dispatched /\ thread[c] \in Answers /\ life' = life
    BY <1>2, <1>types, StepNames DEF SendAnswer, Placed, others
  <2>2. thread'[c] \in {"delete", "flag", "job"}
    BY <1>2, <1>types, <2>1, AfterAnswerTyped DEF SendAnswer
  <2> QED
    BY <1>old, <1>names, <2>1, <2>2 DEF Computes
<1>3. CASE Receive(c) \/ ReadFlag(c) \/ ReadChoice(c) \/ ReceiveFile(c) \/ EndTransfer(c)
           \/ Reply(c)
  <2>1. /\ life' = life /\ asked' = asked /\ thread[c] \in ShareSteps
        /\ thread'[c] \in ShareSteps \cup {"closing", "delete"}
    BY <1>3, <1>types
       DEF Receive, ReadFlag, ReadChoice, ReceiveFile, EndTransfer, Reply, others, ShareSteps,
           Returned
  <2>2. asked'[c] = "shareFile"
    BY <1>types, <2>1 DEF Placed
  <2> QED
    BY <1>names, <2>1, <2>2 DEF Computes
<1>4. CASE CompileFails(c)
  BY <1>4, <1>old DEF CompileFails, threads, others, Computes
<1>5. CASE OpenTrain(c)
  <2>1. thread'[c] = "compute" /\ life' = [life EXCEPT ![train(c)] = "open"]
    BY <1>5, <1>types DEF OpenTrain
  <2> QED
    BY <1>types, <1>names, <2>1
<1>6. CASE SliceFails(c) \/ SendResult(c)
  <2>1. Computes(c) /\ thread'[c] \in {"broken", "closing"} /\ life' = life
    BY <1>6, <1>types DEF SliceFails, SendResult, Computes, others
  <2> QED
    BY <1>old, <1>names, <2>1
<1>7. CASE CloseSlice(c)
  <2>1. thread'[c] = "compute" /\ life' = [life EXCEPT ![train(c)] = "closed"]
    BY <1>7, <1>types DEF CloseSlice
  <2> QED
    BY <1>types, <1>names, <2>1
<1>8. CASE CloseTrain(c)
  <2>1. thread'[c] = "delete" /\ life' = [life EXCEPT ![train(c)] = "gone"]
    BY <1>8, <1>types DEF CloseTrain
  <2> QED
    BY <1>types, <1>names, <2>1 DEF Computes
<1>9. CASE CloseNode(c)
  <2>1. /\ thread[c] = "closing" /\ life' = life /\ asked' = asked
        /\ thread'[c] = IF asked[c] = "distributiveComputing" THEN "close" ELSE "delete"
    BY <1>9, <1>types DEF CloseNode, others
  <2> QED
    BY <1>old, <1>names, <2>1 DEF Computes
<1>10. CASE DeleteArgument(c) \/ Destroy(c)
  <2>1. thread'[c] \in {"destroy", "done"} /\ life' = life
    BY <1>10, <1>types DEF DeleteArgument, Destroy, others
  <2> QED
    BY <1>names, <2>1 DEF Computes
<1> QED
  BY <1>1, <1>2, <1>3, <1>4, <1>5, <1>6, <1>7, <1>8, <1>9, <1>10 DEF handle, handler, awaits

\* The handlers.
LEMMA HandleStaged ==
  ASSUME Typed, OneAtATime, Staged, NEW t \in Conns, handle(t)
  PROVE  Staged'
<1>types. /\ fd \in [Objects -> Fds \cup {NoFd}]
          /\ thread \in [Conns -> ThreadSteps] /\ asked \in [Conns -> Dispatched \cup {Nothing}]
          /\ node(t) \in Objects /\ node(t) \notin Private /\ Private \subseteq Objects
          /\ train(t) \in Private
  BY EndsDiffer, PrivateDiffer DEF Typed, SocketTypes, ThreadTypes
<1>old. Unopened /\ Numbered /\ TrainStages /\ UdpStages
  BY DEF Staged
<1>life. /\ \A o \in Private : o # train(t) => life'[o] = life[o]
         /\ life' = life \/ life'[train(t)] # "none"
  BY <1>old, HandleTrain
<1>step. /\ UNCHANGED <<serving, console, call, left>>
         /\ \A c \in Conns : c # t => thread'[c] = thread[c] /\ asked'[c] = asked[c]
         /\ thread[t] \in Serving \cup {"destroy"}
         /\ \/ fd' = fd
            \/ Destroy(t) /\ Forget(node(t))
            \/ Forget(train(t))
            \/ OpenTrain(t) /\ Number(train(t))
  BY <1>types, HandleFrame DEF here
<1>1. Unopened'
  <2>1. ASSUME NEW o \in Private, life'[o] = "none" PROVE fd'[o] = NoFd
    <3>1. life[o] = "none" /\ fd[o] = NoFd
      BY <1>life, <1>old, <2>1 DEF Unopened
    <3>2. CASE OpenTrain(t)
      <4>1. life'[train(t)] = "open"
        BY <3>2, <1>types DEF OpenTrain, Typed, LifeTypes
      <4>2. o # train(t)
        BY <2>1, <4>1
      <4> QED
        BY <1>types, <1>step, <3>1, <4>2 DEF Forget, Number
    <3>3. CASE ~OpenTrain(t)
      BY <1>types, <1>step, <3>1, <3>3 DEF Forget
    <3> QED
      BY <3>2, <3>3
  <2> QED
    BY <2>1 DEF Unopened
<1>2. Numbered'
  <2>1. thread'[t] \in Serving => thread[t] \in Serving
    <3>1. thread[t] = "destroy" => thread'[t] = "done"
      BY <1>types, StepNames
         DEF handle, handler, awaits, Begin, SendAnswer, Receive, ReadFlag, ReadChoice,
             ReceiveFile, EndTransfer, Reply, CompileFails, OpenTrain, SliceFails, CloseSlice,
             SendResult, CloseTrain, CloseNode, DeleteArgument, Destroy, toThread
    <3>2. "done" \notin Serving
      BY DEF Serving, Answers, SUCCESS, OPEN_SHAREFILE_CONNECTION, RECEIVER_NO_OPEN_CONNECTION,
         Unknown
    <3> QED
      BY <1>step, <3>1, <3>2
  <2>2. \A c \in Conns : Busy(c)' => Busy(c)
    BY <1>step, <2>1 DEF Busy
  <2>3. ASSUME NEW c \in Conns, Busy(c)' PROVE fd'[node(c)] # NoFd
    <3>1. Busy(c) /\ fd[node(c)] # NoFd /\ node(c) \in Objects /\ node(c) # train(t)
      BY <1>old, <1>types, <2>2, <2>3, EndsDiffer DEF Numbered
    <3>2. CASE Destroy(t) /\ Forget(node(t))
      <4>1. thread'[t] = "done" /\ thread[t] # "none" /\ "done" \notin Serving
        BY <1>types, <3>2
           DEF Destroy, toThread, Serving, Answers, SUCCESS, OPEN_SHAREFILE_CONNECTION,
               RECEIVER_NO_OPEN_CONNECTION, Unknown
      <4>2. c # t
        BY <1>step, <2>3, <4>1 DEF Busy, OneAtATime
      <4> QED
        BY <1>types, <3>1, <3>2, <4>2, EndsDiffer DEF Forget
    <3>3. CASE fd' = fd \/ Forget(train(t)) \/ Number(train(t))
      BY <1>types, <3>1, <3>3 DEF Forget, Number
    <3> QED
      BY <1>step, <3>2, <3>3
  <2> QED
    BY <2>3 DEF Numbered
<1>3. TrainStages'
  <2>1. ASSUME NEW c \in Conns, c # t
        PROVE  /\ thread'[c] \in Early => life'[train(c)] = "none"
               /\ Computes(c)' => life'[train(c)] \in {"open", "closed"}
    <3>1. life'[train(c)] = life[train(c)]
      BY <1>life, <2>1, PrivateDiffer
    <3> QED
      BY <1>old, <1>step, <2>1, <3>1 DEF TrainStages, Computes
  <2> QED
    BY <1>old, <2>1, HandleTrain DEF TrainStages
<1>4. UdpStages'
  <2>1. \A c \in Conns : life'[udp(c)] = life[udp(c)]
    BY <1>life, PrivateDiffer
  <2>2. /\ left \subseteq Conns
        /\ console \in {"request", "replies", "requested"} => call \in Conns
    BY DEF Typed, HereTypes, Asking, Conns
  <2> QED
    BY <1>old, <1>step, <2>1, <2>2 DEF UdpStages
<1> QED
  BY <1>1, <1>2, <1>3, <1>4 DEF Staged

\* The clients.
LEMMA UseStaged ==
  ASSUME Staged, NEW c \in Clients, use(c)
  PROVE  Staged'
<1>1. UNCHANGED <<life, fd, serving, thread, asked, here>>
  BY DEF use, client, Connect, Ask, Leave, Upload, ReadAnswer, LoseConnection, Unaware, threads,
     loop
<1> QED
  BY <1>1 DEF Staged, Unopened, Numbered, Busy, TrainStages, Computes, UdpStages, here

\* The console's own steps.
LEMMA RunsStaged == Typed /\ Staged /\ runs => Staged'
<1> SUFFICES ASSUME Typed, Staged, runs PROVE Staged'
  OBVIOUS
<1>1. /\ UNCHANGED <<life, serving, thread, asked, left>>
      /\ console' \notin {"request", "replies", "requested"}
  BY DEF runs, PrintUnknown, OpenSocket, connect_socket, ConnectFails, SendCommand, AwaitAnswer,
     ReceiveResult, ReceiveNothing, Return, PrintStatus, PrintReceive, toConsole, Resume, apart,
     loop, threads
<1>2. \/ fd' = fd
      \/ console \in Calling /\ (Number(far(call)) \/ Forget(far(call)))
  BY DEF runs, PrintUnknown, OpenSocket, connect_socket, ConnectFails, SendCommand, AwaitAnswer,
     ReceiveResult, ReceiveNothing, Return, PrintStatus, PrintReceive, toConsole, sockets, Calling
<1>3. console \in Calling => call \in Conns
  BY DEF Typed, HereTypes, Conns
<1>4. ASSUME NEW o \in Objects, \A c \in Conns : o # far(c) PROVE fd'[o] = fd[o]
  BY <1>2, <1>3, <1>4 DEF Typed, SocketTypes, Number, Forget
<1>5. /\ \A o \in Private : fd'[o] = fd[o]
      /\ \A c \in Conns : fd'[node(c)] = fd[node(c)]
  BY <1>4, EndsDiffer
<1> QED
  BY <1>1, <1>5 DEF Staged, Unopened, Numbered, Busy, TrainStages, Computes, UdpStages

\* A private object of the console.
LEMMA PrivateFrame ==
  ASSUME Typed, NEW o \in Private, OpenPrivate(o) \/ ClosePrivate(o) \/ DestroyPrivate(o)
  PROVE  /\ \A x \in Objects : x # o => fd'[x] = fd[x]
         /\ \A x \in Private : x # o => life'[x] = life[x]
         /\ life'[o] \in {"open", "closed", "gone"}
         /\ OpenPrivate(o) => life'[o] = "open"
         /\ ClosePrivate(o) => life'[o] = "closed"
         /\ DestroyPrivate(o) => life'[o] = "gone"
<1>1. /\ life \in [Private -> {"none", "open", "closed", "gone"}]
      /\ fd \in [Objects -> Fds \cup {NoFd}]
  BY DEF Typed, LifeTypes, SocketTypes
<1>2. /\ OpenPrivate(o) => life' = [life EXCEPT ![o] = "open"]
      /\ ClosePrivate(o) => life' = [life EXCEPT ![o] = "closed"]
      /\ DestroyPrivate(o) => life' = [life EXCEPT ![o] = "gone"]
  BY DEF OpenPrivate, ClosePrivate, DestroyPrivate
<1>3. fd' = fd \/ Number(o) \/ Forget(o)
  BY DEF OpenPrivate, ClosePrivate, DestroyPrivate
<1>4. \A x \in Objects : x # o => fd'[x] = fd[x]
  BY <1>1, <1>3 DEF Number, Forget
<1> QED
  BY <1>1, <1>2, <1>4

LEMMA PrivateStaged ==
  ASSUME Typed, Staged, UNCHANGED <<serving, thread, asked>>, NEW o \in Private,
         \A c \in Conns : o # train(c), OpenPrivate(o) \/ ClosePrivate(o) \/ DestroyPrivate(o)
  PROVE  Unopened' /\ Numbered' /\ TrainStages'
<1>old. Unopened /\ Numbered /\ TrainStages
  BY DEF Staged
<1>1. /\ \A x \in Objects : x # o => fd'[x] = fd[x]
      /\ \A x \in Private : x # o => life'[x] = life[x]
      /\ life'[o] \in {"open", "closed", "gone"}
  BY PrivateFrame
<1>2. Unopened'
  BY <1>old, <1>1, EndsDiffer DEF Unopened
<1>3. \A c \in Conns : node(c) \in Objects /\ node(c) # o
  BY EndsDiffer
<1>4. Numbered'
  BY <1>old, <1>1, <1>3 DEF Numbered, Busy
<1>5. TrainStages'
  BY <1>old, <1>1, PrivateDiffer DEF TrainStages, Computes
<1> QED
  BY <1>2, <1>4, <1>5

\* The sockets of a command.
LEMMA BroadcastsStaged == Typed /\ Staged /\ broadcasts => Staged'
<1> SUFFICES ASSUME Typed, Staged, broadcasts PROVE Staged'
  OBVIOUS
<1>old. UdpStages /\ console \in Asking
  BY DEF Staged, broadcasts, OpenRequest, CloseRequest, DestroyRequest, BeginRemote, CloseRemote,
     DestroyRemote, EndRemote, toConsole, Asking
<1>apart. UNCHANGED <<serving, thread, asked, left>>
  BY DEF broadcasts, OpenRequest, CloseRequest, DestroyRequest, BeginRemote, CloseRemote,
     DestroyRemote, EndRemote, apart, loop, threads, here
<1>call. /\ call \in Conns /\ call \notin left /\ left \subseteq Conns
         /\ udp(call) \in Private /\ (\A c \in Conns : udp(call) # train(c))
         /\ \A c \in left : udp(c) # udp(call) /\ udp(c) \in Private
         /\ \A r \in Remotes : /\ remote(call, r) \in Private
                               /\ \A c \in Conns : remote(call, r) # train(c)
                               /\ \A c \in Conns : remote(call, r) # udp(c)
  <2>1. call \in Conns /\ call \notin left /\ left \subseteq Conns
    BY <1>old DEF Typed, HereTypes, Conns
  <2> QED
    BY <2>1, PrivateDiffer
<1>1. CASE OpenRequest \/ CloseRequest \/ DestroyRequest
  <2>1. OpenPrivate(udp(call)) \/ ClosePrivate(udp(call)) \/ DestroyPrivate(udp(call))
    BY <1>1 DEF OpenRequest, CloseRequest, DestroyRequest
  <2>2. Unopened' /\ Numbered' /\ TrainStages'
    BY <1>apart, <1>call, <2>1, PrivateStaged
  <2>3. \A c \in left : life'[udp(c)] = "none"
    BY <1>old, <1>call, <2>1, PrivateFrame DEF UdpStages
  <2>4. CASE OpenRequest
    <3>1. console' = "replies" /\ call' = call /\ life'[udp(call)] = "open"
      BY <1>call, <2>4, PrivateFrame DEF OpenRequest, toConsole
    <3> QED
      BY <1>apart, <2>2, <2>3, <3>1 DEF Staged, UdpStages
  <2>5. CASE CloseRequest
    <3>1. console' = "requested" /\ call' = call /\ life'[udp(call)] = "closed"
      BY <1>call, <2>5, PrivateFrame DEF CloseRequest, toConsole
    <3> QED
      BY <1>apart, <2>2, <2>3, <3>1 DEF Staged, UdpStages
  <2>6. CASE DestroyRequest
    <3>1. console' \in {"prompt", "remote"}
      BY <2>6 DEF DestroyRequest, toConsole
    <3> QED
      BY <1>apart, <2>2, <2>3, <3>1 DEF Staged, UdpStages
  <2> QED
    BY <1>1, <2>4, <2>5, <2>6
<1>2. ASSUME NEW r \in Remotes, BeginRemote(r) \/ CloseRemote(r) \/ DestroyRemote(r)
      PROVE  Staged'
  <2>1. /\ OpenPrivate(remote(call, r)) \/ ClosePrivate(remote(call, r))
           \/ DestroyPrivate(remote(call, r))
        /\ console' = "remote"
    BY <1>2 DEF BeginRemote, CloseRemote, DestroyRemote, here
  <2>2. Unopened' /\ Numbered' /\ TrainStages'
    BY <1>apart, <1>call, <2>1, PrivateStaged
  <2>3. \A c \in left : life'[udp(c)] = "none"
    BY <1>old, <1>call, <2>1, PrivateFrame DEF UdpStages
  <2> QED
    BY <1>apart, <2>1, <2>2, <2>3 DEF Staged, UdpStages
<1>3. CASE EndRemote
  <2>1. console' = "prompt" /\ UNCHANGED <<life, fd>>
    BY <1>3 DEF EndRemote, toConsole, sockets
  <2> QED
    BY <1>apart, <2>1 DEF Staged, Unopened, Numbered, Busy, TrainStages, Computes, UdpStages
<1> QED
  BY <1>1, <1>2, <1>3 DEF broadcasts

\* What the user types.
LEMMA InputStaged == Staged /\ Input => Staged'
<1> SUFFICES ASSUME Staged, Input PROVE Staged'
  OBVIOUS
<1>1. UNCHANGED <<life, fd, serving, thread, asked>>
  BY DEF Input, ReadLine, Choose, clear_stdin, sockets, apart, loop, threads
<1>2. \/ console' \notin {"request", "replies", "requested"} /\ UNCHANGED left
      \/ \E o \in left : call' = o /\ left' = left \ {o} /\ console' \in {"open", "request"}
  BY DEF Input, ReadLine, Choose, clear_stdin, Run, Resume
<1>3. UdpStages'
  BY <1>1, <1>2 DEF Staged, UdpStages
<1> QED
  BY <1>1, <1>3 DEF Staged, Unopened, Numbered, Busy, TrainStages, Computes

\* A step keeps all of it.
LEMMA StepStaged == Typed /\ OneAtATime /\ Staged /\ [Next]_vars => Staged'
<1>1. Staged /\ UNCHANGED vars => Staged'
  BY
     DEF vars, others, sockets, loop, threads, here, Staged, Unopened, Numbered, Busy, TrainStages,
     Computes, UdpStages
<1> QED
  BY <1>1, ListenStaged, HandleStaged, UseStaged, RunsStaged, BroadcastsStaged, InputStaged
     DEF Next

-----------------------------------------------------------------------------
(* Whose number is closed *)

\* What is in use, when nothing is served anew, no call begins and nothing is opened.
LEMMA LiveShrinks ==
  ASSUME \A c \in Conns : Busy(c)' => Busy(c), Talking' => Talking /\ call' = call,
         \A o \in Private : life'[o] = "open" => life[o] = "open"
  PROVE  Live' \subseteq Live
BY DEF Live, Busy, Talking

\* A socket or file is in use if it is served, called or open, and not otherwise.
LEMMA WhatLives ==
  ASSUME Typed
  PROVE  /\ \A c \in Conns : node(c) \in Live <=> Busy(c)
         /\ \A o \in Private : o \in Live <=> life[o] = "open"
         /\ Talking => far(call) \in Live
         /\ Live \subseteq Objects
<1>1. Talking => call \in Conns
  BY DEF Talking, Typed, HereTypes, Calling, Conns
<1>2. \A o \in Private : (\A c \in Conns : o # node(c) /\ o # far(c)) /\ o \in Objects
  BY EndsDiffer
<1> QED
  BY <1>1, <1>2, EndsDiffer DEF Live, Busy, Talking

LEMMA WhatLivesNext ==
  ASSUME Typed'
  PROVE  /\ \A c \in Conns : ~Busy(c)' => node(c) \notin Live'
         /\ \A o \in Private : life'[o] # "open" => o \notin Live'
         /\ ~Talking' => \A c \in Conns : far(c) \notin Live'
<1>1. Talking' => call' \in Conns
  BY DEF Talking, Typed, HereTypes, Calling, Conns
<1>2. \A o \in Private : \A c \in Conns : o # node(c) /\ o # far(c)
  BY EndsDiffer
<1> QED
  BY <1>1, <1>2, EndsDiffer DEF Live, Busy, Talking

\* The numbers stay what they are.
LEMMA IntactFrame ==
  ASSUME SocketsIntact, UNCHANGED <<descriptor, fd>>, "struck" \in faults => "struck" \in faults',
         \A e \in Live' : e \in Live \/ fd[e] = NoFd
  PROVE  SocketsIntact'
BY DEF SocketsIntact

\* The number is closed of what is not in use any more.
LEMMA IntactClose ==
  ASSUME Typed, SocketsIntact, NEW e \in Objects, Close(e), fd' = fd \/ Forget(e),
         Live' \subseteq Live, e \notin Live'
  PROVE  SocketsIntact'
<1> SUFFICES ASSUME "struck" \notin faults', NEW x \in Live'
             PROVE  fd'[x] = NoFd \/ descriptor'[fd'[x]] = x
  BY DEF SocketsIntact
<1>1. /\ descriptor' = [d \in Fds |-> IF d = fd[e] THEN Nothing ELSE descriptor[d]]
      /\ At(fd[e]) \in {Nothing, e} /\ "struck" \notin faults
  BY DEF Close
<1>2. x \in Objects /\ x # e /\ fd'[x] = fd[x]
  BY WhatLives DEF Forget, Typed, SocketTypes
<1>3. fd[x] = NoFd \/ descriptor[fd[x]] = x
  BY <1>1 DEF SocketsIntact
<1>4. fd[x] \in Fds \cup {NoFd}
  BY <1>2 DEF Typed, SocketTypes
<1>5. ASSUME fd[x] \in Fds, descriptor[fd[x]] = x PROVE fd[x] # fd[e]
  BY <1>1, <1>2, <1>5, EndsDiffer DEF At
<1> QED
  BY <1>1, <1>2, <1>3, <1>4, <1>5

\* A socket or file gets a number that was free.
LEMMA IntactOpen ==
  ASSUME Typed, SocketsIntact, NEW e \in Objects, Free # {}, Number(e), UNCHANGED faults,
         Live' \subseteq Live \cup {e}
  PROVE  SocketsIntact'
<1> SUFFICES ASSUME "struck" \notin faults', NEW x \in Live'
             PROVE  fd'[x] = NoFd \/ descriptor'[fd'[x]] = x
  BY DEF SocketsIntact
<1>1. Lowest \in Fds /\ descriptor[Lowest] = Nothing
  BY LowestIsFree DEF Free
<1>2. /\ fd \in [Objects -> Fds \cup {NoFd}]
      /\ descriptor \in [Fds -> Objects \cup {Nothing}]
      /\ descriptor' = [descriptor EXCEPT ![Lowest] = e]
      /\ fd' = [fd EXCEPT ![e] = Lowest]
  BY DEF Typed, SocketTypes, Number
<1>3. CASE x = e
  BY <1>1, <1>2, <1>3
<1>4. CASE x # e
  <2>1. x \in Live /\ x \in Objects /\ fd'[x] = fd[x]
    BY <1>2, <1>4, WhatLives
  <2>2. fd[x] = NoFd \/ descriptor[fd[x]] = x
    BY <2>1 DEF SocketsIntact
  <2>3. x # Nothing
    BY <2>1, EndsDiffer
  <2> QED
    BY <1>1, <1>2, <2>1, <2>2, <2>3
<1> QED
  BY <1>3, <1>4

\* What is in use strikes nobody when its own number is closed.
LEMMA OwnClose ==
  ASSUME Typed, SocketsIntact, "struck" \notin faults, NEW e \in Live, Close(e)
  PROVE  faults' = faults
<1>1. NoFd \notin Fds
  BY FdsAssumption
<1>2. fd[e] = NoFd \/ descriptor[fd[e]] = e
  BY DEF SocketsIntact
<1> QED
  BY <1>1, <1>2 DEF Close, At

\* The accept loop.
LEMMA ListenIntact == IInv /\ Typed' /\ listen => SocketsIntact'
<1> SUFFICES ASSUME Typed, OneAtATime, SocketsIntact, Typed', listen PROVE SocketsIntact'
  BY DEF IInv
<1>here. UNCHANGED here /\ (Talking' <=> Talking) /\ call' = call /\ life' = life
  BY DEF listen, here, Talking, server_listener_thread_tcp, acceptConnection, AcceptFails,
     BeginReceive, Dispatch, DispatchFails, ReceiveUnknown, Refuse, ReceiveEnd, Delete, others
<1>types. LoopTypes /\ ThreadTypes
  BY DEF Typed
<1>once. serving \in Conns => ~(thread[serving] \in Serving)
  BY DEF OneAtATime, Serving, Answers, SUCCESS, OPEN_SHAREFILE_CONNECTION,
     RECEIVER_NO_OPEN_CONNECTION, Unknown
<1> USE DEF toListener
<1>1. CASE acceptConnection
  <2>1. Head(queue) \in Conns
    BY <1>1 DEF acceptConnection, Typed, QueueTypes
  <2>2. node(Head(queue)) \in Objects
    BY <2>1, EndsDiffer
  <2>3. Live' \subseteq Live \cup {node(Head(queue))}
    BY <1>1, <1>here DEF acceptConnection, Live, threads, here
  <2> QED
    BY <1>1, <2>2, <2>3, IntactOpen DEF acceptConnection
<1>2. CASE Dispatch
  <2>1. serving \in Conns /\ serving' = Nothing
        /\ \A c \in Conns : c # serving => thread'[c] = thread[c]
    BY <1>2, <1>types DEF Dispatch, LoopTypes, ThreadTypes
  <2>2. \A c \in Conns : Busy(c)' => Busy(c)
    BY <2>1, EndsDiffer DEF Busy
  <2>3. Live' \subseteq Live
    BY <1>here, <2>2, LiveShrinks
  <2> QED
    BY <1>2, <2>3, IntactFrame DEF Dispatch
<1>3. CASE Delete
  <2>1. serving \in Conns /\ serving' = Nothing /\ UNCHANGED thread
    BY <1>3, <1>types DEF Delete, LoopTypes, threads
  <2>2. \A c \in Conns : Busy(c)' => Busy(c) /\ c # serving
    <3>1. ASSUME NEW c \in Conns, Busy(c)' PROVE Busy(c) /\ c # serving
      BY <1>once, <2>1, <3>1, EndsDiffer DEF Busy
    <3> QED
      BY <3>1
  <2>3. Live' \subseteq Live
    BY <1>here, <2>2, LiveShrinks
  <2>4. node(serving) \in Objects /\ node(serving) \notin Live'
    BY <2>1, <2>2, WhatLivesNext, EndsDiffer
  <2> QED
    BY <1>3, <2>3, <2>4, IntactClose DEF Delete
<1>4. CASE AcceptFails \/ BeginReceive \/ DispatchFails \/ ReceiveUnknown \/ Refuse \/ ReceiveEnd
  <2>1. /\ UNCHANGED <<thread, serving, fd, descriptor>>
        /\ "struck" \in faults => "struck" \in faults'
    BY <1>4 DEF AcceptFails, BeginReceive, DispatchFails, ReceiveUnknown, Refuse, ReceiveEnd,
       threads, loop
  <2>2. \A c \in Conns : Busy(c)' => Busy(c)
    BY <2>1 DEF Busy
  <2>3. Live' \subseteq Live
    BY <1>here, <2>2, LiveShrinks
  <2> QED
    BY <2>1, <2>3, IntactFrame
<1> QED
  BY <1>1, <1>2, <1>3, <1>4 DEF listen, server_listener_thread_tcp

\* A handler's own connection is served until its number is closed.
LEMMA HandleBusy ==
  ASSUME Typed, OneAtATime, NEW c \in Conns, handle(c)
  PROVE  /\ UNCHANGED <<serving, here>> /\ serving # c
         /\ \A d \in Conns : d # c => (Busy(d)' <=> Busy(d))
         /\ Talking' => Talking /\ call' = call
         /\ ~DeleteArgument(c) /\ ~Destroy(c) => Busy(c)
         /\ DeleteArgument(c) \/ Destroy(c) => ~Busy(c)'
<1>1. /\ UNCHANGED <<serving, here>> /\ thread \in [Conns -> ThreadSteps]
      /\ thread[c] \in Serving \cup {"destroy"}
      /\ \E s : thread' = [thread EXCEPT ![c] = s]
  BY HandleFrame DEF Typed, ThreadTypes
<1>2. {"none", "destroy", "done"} \cap Serving = {}
  BY DEF Serving, Answers, SUCCESS, OPEN_SHAREFILE_CONNECTION, RECEIVER_NO_OPEN_CONNECTION,
     Unknown
<1>3. serving # c
  BY <1>1, <1>2 DEF OneAtATime
<1>4. thread[c] = "destroy" => Destroy(c)
  BY StepNames
     DEF handle, handler, awaits, Begin, SendAnswer, Receive, ReadFlag, ReadChoice, ReceiveFile,
         EndTransfer, Reply, CompileFails, OpenTrain, SliceFails, CloseSlice, SendResult,
         CloseTrain, CloseNode, DeleteArgument, toThread
<1>5. DeleteArgument(c) \/ Destroy(c) => thread'[c] \in {"destroy", "done"}
  BY <1>1 DEF DeleteArgument, Destroy, toThread
<1> QED
  BY <1>1, <1>2, <1>3, <1>4, <1>5 DEF Busy, Talking, here

\* The handlers.
LEMMA HandleIntact ==
  ASSUME IInv, Typed', NEW c \in Conns, handle(c)
  PROVE  SocketsIntact'
<1>inv. Typed /\ OneAtATime /\ Unopened /\ TrainStages /\ SocketsIntact
  BY DEF IInv, Staged
<1>busy. /\ Talking' => Talking /\ call' = call
         /\ ~DeleteArgument(c) /\ ~Destroy(c) => \A d \in Conns : Busy(d)' => Busy(d)
         /\ DeleteArgument(c) \/ Destroy(c) => ~Busy(c)' /\ \A d \in Conns : Busy(d)' => Busy(d)
  BY <1>inv, HandleBusy
<1>train. /\ train(c) \in Private /\ train(c) \in Objects /\ node(c) \in Objects
          /\ life \in [Private -> {"none", "open", "closed", "gone"}]
  BY <1>inv, EndsDiffer, PrivateDiffer DEF Typed, LifeTypes
<1>names. {"job", "compute", "broken", "close"} \cap {"delete", "destroy"} = {}
  OBVIOUS
<1> USE DEF toThread
<1>1. CASE \/ Begin(c) \/ SendAnswer(c) \/ Receive(c) \/ ReadFlag(c) \/ ReadChoice(c)
           \/ ReceiveFile(c) \/ EndTransfer(c) \/ Reply(c) \/ CloseNode(c) \/ CompileFails(c)
           \/ SliceFails(c) \/ SendResult(c)
  <2>1. UNCHANGED <<descriptor, fd, faults, life>>
    BY <1>1 DEF Begin, SendAnswer, Receive, ReadFlag, ReadChoice, ReceiveFile, EndTransfer, Reply,
       CloseNode, CompileFails, SliceFails, SendResult, sockets, others
  <2>2. \A d \in Conns : Busy(d)' => Busy(d)
    BY <1>busy
  <2>3. Live' \subseteq Live
    BY <1>busy, <2>1, <2>2, LiveShrinks
  <2> QED
    BY <1>inv, <2>1, <2>3, IntactFrame
<1>2. CASE DeleteArgument(c) \/ Destroy(c)
  <2>1. life' = life /\ Close(node(c)) /\ (fd' = fd \/ Forget(node(c)))
    BY <1>2 DEF DeleteArgument, Destroy, others
  <2>2. Live' \subseteq Live
    BY <1>2, <1>busy, <2>1, LiveShrinks
  <2>3. node(c) \notin Live'
    BY <1>2, <1>busy, WhatLivesNext
  <2> QED
    BY <1>inv, <1>train, <2>1, <2>2, <2>3, IntactClose
<1>3. CASE OpenTrain(c)
  <2>1. /\ life' = [life EXCEPT ![train(c)] = "open"] /\ thread[c] = "job" /\ UNCHANGED faults
        /\ \/ Free # {} /\ Number(train(c))
           \/ UNCHANGED <<descriptor, fd>>
    BY <1>3 DEF OpenTrain
  <2>2. \A d \in Conns : Busy(d)' => Busy(d)
    BY <1>busy
  <2>3. Live' \subseteq Live \cup {train(c)}
    BY <1>busy, <1>train, <2>1, <2>2 DEF Live, Busy, Talking
  <2>4. fd[train(c)] = NoFd
    BY <1>inv, <1>train, <2>1 DEF TrainStages, Early, Unopened
  <2>5. CASE Free # {} /\ Number(train(c))
    BY <1>inv, <1>train, <2>1, <2>3, <2>5, IntactOpen
  <2>6. CASE UNCHANGED <<descriptor, fd>>
    BY <1>inv, <2>1, <2>3, <2>4, <2>6, IntactFrame
  <2> QED
    BY <2>1, <2>5, <2>6
<1>4. CASE CloseSlice(c) \/ CloseTrain(c)
  <2>1. /\ \E s \in {"closed", "gone"} : life' = [life EXCEPT ![train(c)] = s]
        /\ Close(train(c)) /\ (fd' = fd \/ Forget(train(c)))
    BY <1>4 DEF CloseSlice, CloseTrain
  <2>2. \A o \in Private : life'[o] = "open" => life[o] = "open"
    BY <1>train, <2>1
  <2>3. \A d \in Conns : Busy(d)' => Busy(d)
    BY <1>busy
  <2>4. Live' \subseteq Live
    BY <1>busy, <2>2, <2>3, LiveShrinks
  <2>5. train(c) \notin Live'
    BY <1>train, <2>1, WhatLivesNext
  <2> QED
    BY <1>inv, <1>train, <2>1, <2>4, <2>5, IntactClose
<1> QED
  BY <1>1, <1>2, <1>3, <1>4 DEF handle, handler, awaits

\* The clients.
LEMMA UseIntact ==
  ASSUME SocketsIntact, NEW c \in Clients, use(c)
  PROVE  SocketsIntact'
<1>1. UNCHANGED <<descriptor, fd, faults, thread, serving, life, here>>
  BY DEF use, client, Connect, Ask, Leave, Upload, ReadAnswer, LoseConnection, Unaware, threads,
     loop
<1>2. (\A d \in Conns : Busy(d)' => Busy(d)) /\ (Talking' => Talking /\ call' = call)
  BY <1>1 DEF Busy, Talking, here
<1> QED
  BY <1>1, <1>2, LiveShrinks, IntactFrame

\* The console's own steps.
LEMMA RunsIntact == IInv /\ Typed' /\ runs => SocketsIntact'
<1> SUFFICES ASSUME Typed, OneAtATime, SocketsIntact, Typed', runs PROVE SocketsIntact'
  BY DEF IInv
<1>busy. (\A d \in Conns : Busy(d)' => Busy(d)) /\ life' = life
  BY DEF runs, PrintUnknown, OpenSocket, connect_socket, ConnectFails, SendCommand, AwaitAnswer,
     ReceiveResult, ReceiveNothing, Return, PrintStatus, PrintReceive, apart, loop, threads, Busy
<1>call. console \in Calling => call \in Calls \ left /\ call \in Conns /\ far(call) \in Objects
  BY EndsDiffer DEF Typed, HereTypes, Conns
<1> USE DEF toConsole
<1>1. CASE OpenSocket
  <2>1. console = "open" /\ UNCHANGED call
    BY <1>1 DEF OpenSocket
  <2>2. Live' \subseteq Live \cup {far(call)}
    BY <1>busy, <2>1 DEF Live, Busy
  <2>3. CASE Free # {}
    BY <1>1, <1>call, <2>1, <2>2, <2>3, IntactOpen DEF OpenSocket, Calling
  <2>4. CASE Free = {}
    <3>1. fd[far(call)] = NoFd
      BY <1>call, <2>1 DEF OneAtATime, NewCall, Calling
    <3>2. UNCHANGED <<descriptor, fd>> /\ ("struck" \in faults => "struck" \in faults')
      BY <1>1, <2>4 DEF OpenSocket
    <3> QED
      BY <2>2, <3>1, <3>2, IntactFrame
  <2> QED
    BY <2>3, <2>4
<1>2. CASE Return
  <2>1. far(call) \in Objects /\ call \in Conns /\ ~Talking'
    BY <1>2, <1>call DEF Return, Calling, Talking
  <2>2. Live' \subseteq Live
    BY <1>busy, <2>1, LiveShrinks
  <2>3. far(call) \notin Live'
    BY <2>1, WhatLivesNext
  <2> QED
    BY <1>2, <2>1, <2>2, <2>3, IntactClose DEF Return
<1>3. CASE ~OpenSocket /\ ~Return
  <2>1. /\ UNCHANGED <<descriptor, fd>>
        /\ "struck" \in faults => "struck" \in faults'
    BY <1>3 DEF runs, PrintUnknown, connect_socket, ConnectFails, SendCommand, AwaitAnswer,
       ReceiveResult, ReceiveNothing, PrintStatus, PrintReceive, sockets
  <2>2. Talking' => Talking /\ call' = call
    BY <1>3 DEF runs, PrintUnknown, connect_socket, ConnectFails, SendCommand, AwaitAnswer,
       ReceiveResult, ReceiveNothing, PrintStatus, PrintReceive, Resume, Talking
  <2> QED
    BY <1>busy, <2>1, <2>2, LiveShrinks, IntactFrame
<1> QED
  BY <1>1, <1>2, <1>3

\* A private object is opened, closed or destroyed.
LEMMA PrivateIntact ==
  ASSUME Typed, SocketsIntact, Typed', NEW o \in Private, ~Talking',
         \A d \in Conns : Busy(d)' => Busy(d),
         \/ OpenPrivate(o) /\ fd[o] = NoFd
         \/ ClosePrivate(o) \/ DestroyPrivate(o)
  PROVE  SocketsIntact'
<1>types. o \in Objects /\ life \in [Private -> {"none", "open", "closed", "gone"}]
  BY EndsDiffer DEF Typed, LifeTypes
<1>1. CASE OpenPrivate(o) /\ fd[o] = NoFd
  <2>1. /\ life' = [life EXCEPT ![o] = "open"] /\ UNCHANGED faults
        /\ \/ Free # {} /\ Number(o)
           \/ UNCHANGED <<descriptor, fd>>
    BY <1>1 DEF OpenPrivate
  <2>2. Live' \subseteq Live \cup {o}
    BY <1>types, <2>1 DEF Live, Busy, Talking
  <2>3. CASE Free # {} /\ Number(o)
    BY <1>types, <2>1, <2>2, <2>3, IntactOpen
  <2>4. CASE UNCHANGED <<descriptor, fd>>
    BY <1>1, <2>1, <2>2, <2>4, IntactFrame
  <2> QED
    BY <2>1, <2>3, <2>4
<1>2. CASE ClosePrivate(o) \/ DestroyPrivate(o)
  <2>1. /\ \E s \in {"closed", "gone"} : life' = [life EXCEPT ![o] = s]
        /\ Close(o) /\ (fd' = fd \/ Forget(o))
    BY <1>2 DEF ClosePrivate, DestroyPrivate
  <2>2. \A x \in Private : life'[x] = "open" => life[x] = "open"
    BY <1>types, <2>1
  <2>3. Live' \subseteq Live
    BY <2>2, LiveShrinks
  <2>4. o \notin Live'
    BY <1>types, <2>1, WhatLivesNext
  <2> QED
    BY <1>types, <2>1, <2>3, <2>4, IntactClose
<1> QED
  BY <1>1, <1>2

\* The sockets of a command.
LEMMA BroadcastsIntact == IInv /\ Typed' /\ broadcasts => SocketsIntact'
<1> SUFFICES ASSUME Typed, Unopened, UdpStages, SocketsIntact, Typed', broadcasts
             PROVE  SocketsIntact'
  BY DEF IInv, Staged
<1>1. /\ console \in Asking /\ ~Talking' /\ UNCHANGED <<thread, serving>>
  BY DEF broadcasts, OpenRequest, CloseRequest, DestroyRequest, BeginRemote, CloseRemote,
     DestroyRemote, EndRemote, apart, loop, threads, toConsole, here, Asking, Talking
<1>2. \A d \in Conns : Busy(d)' => Busy(d)
  BY <1>1 DEF Busy
<1>3. udp(call) \in Private /\ \A r \in Remotes : remote(call, r) \in Private
  BY <1>1, PrivateDiffer DEF Typed, HereTypes, Conns
<1>4. CASE OpenRequest \/ CloseRequest \/ DestroyRequest
  <2>1. OpenRequest => fd[udp(call)] = NoFd
    BY <1>3 DEF OpenRequest, toConsole, UdpStages, Unopened
  <2> QED
    BY <1>1, <1>2, <1>3, <1>4, <2>1, PrivateIntact DEF OpenRequest, CloseRequest, DestroyRequest
<1>5. ASSUME NEW r \in Remotes, BeginRemote(r) \/ CloseRemote(r) \/ DestroyRemote(r)
      PROVE  SocketsIntact'
  <2>1. BeginRemote(r) => fd[remote(call, r)] = NoFd
    BY <1>3 DEF BeginRemote, Unopened
  <2> QED
    BY <1>1, <1>2, <1>3, <1>5, <2>1, PrivateIntact DEF BeginRemote, CloseRemote, DestroyRemote
<1>6. CASE EndRemote
  <2>1. UNCHANGED <<descriptor, fd, faults, life>>
    BY <1>6 DEF EndRemote, sockets
  <2> QED
    BY <1>1, <1>2, <2>1, LiveShrinks, IntactFrame
<1> QED
  BY <1>4, <1>5, <1>6 DEF broadcasts

\* What the user types.
LEMMA InputIntact == SocketsIntact /\ Input => SocketsIntact'
<1> SUFFICES ASSUME SocketsIntact, Input PROVE SocketsIntact'
  OBVIOUS
<1>1. UNCHANGED <<sockets, apart, life>> /\ ~Talking'
  BY DEF Input, ReadLine, Choose, clear_stdin, Run, Resume, Talking
<1>2. \A d \in Conns : Busy(d)' => Busy(d)
  BY <1>1 DEF apart, loop, threads, Busy
<1> QED
  BY <1>1, <1>2, LiveShrinks, IntactFrame DEF sockets

-----------------------------------------------------------------------------
(* The theorems *)

LEMMA InitIInv == ConsoleInit => IInv
<1> SUFFICES ASSUME ConsoleInit PROVE IInv
  OBVIOUS
<1>init. /\ queue = <<>> /\ serving = Nothing /\ thread = [c \in Conns |-> "none"]
         /\ fd = [o \in Objects |-> NoFd] /\ life = [o \in Private |-> "none"]
         /\ asked = [c \in Conns |-> Nothing] /\ console = "prompt" /\ left \subseteq Calls
  BY DEF ConsoleInit, Init
<1>names. "none" \notin Serving
  BY DEF Serving, Answers, SUCCESS, OPEN_SHAREFILE_CONNECTION, RECEIVER_NO_OPEN_CONNECTION,
     Unknown
<1>1. Typed
  <2>1. SocketTypes
    BY DEF ConsoleInit, Init, SocketTypes
  <2>2. QueueTypes /\ LoopTypes
    BY BacklogAssumption DEF ConsoleInit, Init, QueueTypes, LoopTypes
  <2>3. ThreadTypes
    BY StepNames
       DEF ConsoleInit, Init, ThreadTypes, ThreadSteps, Placed, ShareSteps, JobSteps
  <2>4. PeerTypes /\ LifeTypes
    BY DEF ConsoleInit, Init, PeerTypes, PeerSteps, LifeTypes
  <2>5. HereTypes
    BY DEF ConsoleInit, Init, HereTypes, Steps, Calling, Asking
  <2> QED
    BY <2>1, <2>2, <2>3, <2>4, <2>5 DEF Typed
<1>2. OneAtATime
  <2>1. 1 .. Len(queue) = {}
    BY <1>init
  <2>2. \A c \in Calls : far(c) \in Objects
    BY EndsDiffer DEF Conns
  <2> QED
    BY <1>init, <2>1, <2>2, EndsDiffer DEF OneAtATime, Queued
<1>3. Staged
  <2>1. \A c \in Conns : ~Busy(c) /\ ~Computes(c) /\ train(c) \in Private /\ udp(c) \in Private
    BY <1>init, <1>names, EndsDiffer, PrivateDiffer DEF Busy, Computes
  <2>2. UdpStages /\ TrainStages
    BY <1>init, <2>1 DEF UdpStages, TrainStages, Conns
  <2> QED
    BY <1>init, <2>1, <2>2, EndsDiffer DEF Staged, Unopened, Numbered
<1>4. SocketsIntact
  BY <1>init, <1>1, WhatLives DEF SocketsIntact
<1> QED
  BY <1>1, <1>2, <1>3, <1>4 DEF IInv

LEMMA StepIInv == IInv /\ [Next]_vars => IInv'
<1> SUFFICES ASSUME IInv, [Next]_vars PROVE IInv'
  OBVIOUS
<1>1. Typed' /\ OneAtATime' /\ Staged'
  BY StepTyped, StepOnce, StepStaged DEF IInv
<1>2. SocketsIntact'
  <2>1. CASE UNCHANGED vars
    <3>1. UNCHANGED <<descriptor, fd, faults, thread, serving, life, console, call>>
      BY <2>1 DEF vars, sockets, threads, loop, others, here
    <3>2. (\A d \in Conns : Busy(d)' => Busy(d)) /\ (Talking' => Talking /\ call' = call)
      BY <3>1 DEF Busy, Talking
    <3> QED
      BY <3>1, <3>2, LiveShrinks, IntactFrame DEF IInv
  <2> QED
    BY <1>1, <2>1, ListenIntact, HandleIntact, UseIntact, RunsIntact, BroadcastsIntact,
       InputIntact DEF Next, IInv
<1> QED
  BY <1>1, <1>2 DEF IInv

\* No thread, client or user of the process, whatever the clients, descriptors and
\* backlog, takes a variable out of its type.
THEOREM ProcessTypes == Spec => []TypeOK
<1>1. IInv => TypeOK
  BY TypedIsTypeOK DEF IInv
<1> QED
  BY InitIInv, StepIInv, <1>1, PTL DEF Spec

\* As long as no close has hit a number of somebody else's, every Socket object and train
\* file in use refers to what it was opened for, however many connections come and go.
THEOREM ProcessSocketsIntact == Spec => []SocketsIntact
<1>1. IInv => SocketsIntact
  BY DEF IInv
<1> QED
  BY InitIInv, StepIInv, <1>1, PTL DEF Spec

\* The other faults are others.
LEMMA OtherFaults ==
  ASSUME "struck" \notin faults, "struck" \in faults'
  PROVE  \A f \in {"no descriptor", "no thread", "backlog full"} : faults' # faults \cup {f}
<1>1. \A f \in {"no descriptor", "no thread", "backlog full"} : f # "struck"
  OBVIOUS
<1>2. ASSUME NEW f, f # "struck" PROVE faults' # faults \cup {f}
  BY <1>2
<1> QED
  BY <1>1, <1>2

\* A close that strikes hits an open number that is another's.
LEMMA CloseHits ==
  ASSUME NEW o, Close(o), faults' # faults
  PROVE  At(fd[o]) \notin {Nothing, o} /\ descriptor'[fd[o]] = Nothing
<1>1. At(fd[o]) \notin {Nothing, o}
  BY DEF Close
<1>2. fd[o] \in Fds
  BY <1>1 DEF At
<1> QED
  BY <1>1, <1>2 DEF Close

\* A close of something in use or spent that strikes first is of something spent.
LEMMA SpentStrikes ==
  ASSUME IInv, "struck" \notin faults, "struck" \in faults', NEW o \in Live \cup Spent, Close(o)
  PROVE  \E x \in Spent : At(fd[x]) \notin {Nothing, x} /\ descriptor'[fd[x]] = Nothing
<1>1. o \notin Live
  BY OwnClose DEF IInv
<1> QED
  BY <1>1, CloseHits

\* The first number that is closed under somebody's hands is closed by something that has
\* closed its own before.
LEMMA StrikesOnlySpent ==
  ASSUME IInv, [Next]_vars, "struck" \notin faults, "struck" \in faults'
  PROVE  \E o \in Spent : At(fd[o]) \notin {Nothing, o} /\ descriptor'[fd[o]] = Nothing
<1>inv. Typed /\ OneAtATime /\ TrainStages /\ UdpStages
  BY DEF IInv, Staged
<1>private. \A o \in Private : life[o] \in {"open", "closed"} => o \in Live \cup Spent
  BY DEF Live, Spent
<1>1. CASE listen
  <2>1. Delete
    <3>1. acceptConnection \/ BeginReceive \/ Dispatch \/ ReceiveUnknown \/ Refuse
          \/ ReceiveEnd => UNCHANGED faults
      BY DEF acceptConnection, BeginReceive, Dispatch, ReceiveUnknown, Refuse, ReceiveEnd
    <3>2. /\ AcceptFails => faults' = faults \cup {"no descriptor"}
          /\ DispatchFails => faults' = faults \cup {"no thread"}
      BY DEF AcceptFails, DispatchFails
    <3>3. ~acceptConnection /\ ~BeginReceive /\ ~Dispatch /\ ~ReceiveUnknown /\ ~Refuse
          /\ ~ReceiveEnd
      BY <3>1
    <3>4. ~AcceptFails /\ ~DispatchFails
      BY <3>2, OtherFaults
    <3> QED
      BY <1>1, <3>3, <3>4 DEF listen, server_listener_thread_tcp
  <2>2. node(serving) \in Live
    BY <1>inv, <2>1, WhatLives DEF Delete, toListener, Typed, LoopTypes, Busy
  <2> QED
    BY <2>1, <2>2, SpentStrikes DEF Delete
<1>2. ASSUME NEW c \in Conns, handle(c)
      PROVE  \E o \in Spent : At(fd[o]) \notin {Nothing, o} /\ descriptor'[fd[o]] = Nothing
  <2>types. train(c) \in Private /\ "delete" \in Serving
    BY PrivateDiffer DEF Serving
  <2>1. DeleteArgument(c) \/ Destroy(c) \/ CloseSlice(c) \/ CloseTrain(c)
    BY <1>2
       DEF handle, handler, awaits, Begin, SendAnswer, Receive, ReadFlag, ReadChoice, ReceiveFile,
           EndTransfer, Reply, CompileFails, OpenTrain, SliceFails, SendResult, CloseNode, sockets
  <2>2. CASE DeleteArgument(c) \/ Destroy(c)
    <3>1. Close(node(c)) /\ thread[c] \in {"delete", "destroy"}
      BY <2>2 DEF DeleteArgument, Destroy, toThread
    <3>2. thread[c] = "delete" => node(c) \in Live
      BY <2>types DEF Live
    <3>3. thread[c] = "destroy" => node(c) \in Spent
      <4>1. Placed(c)
        BY <1>inv DEF Typed, ThreadTypes
      <4> QED
        BY <4>1 DEF Placed, Spent
    <3> QED
      BY <3>1, <3>2, <3>3, SpentStrikes
  <2>3. CASE CloseSlice(c) \/ CloseTrain(c)
    <3>1. Close(train(c)) /\ Computes(c)
      BY <2>3 DEF CloseSlice, CloseTrain, Computes, toThread
    <3>2. train(c) \in Live \cup Spent
      BY <1>inv, <1>private, <2>types, <3>1 DEF TrainStages
    <3> QED
      BY <3>1, <3>2, SpentStrikes
  <2> QED
    BY <2>1, <2>2, <2>3
<1>3. CASE runs
  <2>1. Return
    <3>1. PrintUnknown \/ connect_socket \/ SendCommand \/ AwaitAnswer \/ ReceiveResult
          \/ ReceiveNothing \/ PrintStatus \/ PrintReceive => UNCHANGED faults
      BY DEF PrintUnknown, connect_socket, SendCommand, AwaitAnswer, ReceiveResult,
         ReceiveNothing, PrintStatus, PrintReceive, sockets
    <3>2. /\ OpenSocket => faults' = faults \/ faults' = faults \cup {"no descriptor"}
          /\ ConnectFails => faults' = faults \/ faults' = faults \cup {"backlog full"}
      BY DEF OpenSocket, ConnectFails
    <3>3. ~PrintUnknown /\ ~connect_socket /\ ~SendCommand /\ ~AwaitAnswer /\ ~ReceiveResult
          /\ ~ReceiveNothing /\ ~PrintStatus /\ ~PrintReceive
      BY <3>1
    <3>4. ~OpenSocket /\ ~ConnectFails
      BY <3>2, OtherFaults
    <3> QED
      BY <1>3, <3>3, <3>4 DEF runs
  <2>2. far(call) \in Live
    BY <1>inv, <2>1, WhatLives DEF Return, toConsole, Talking
  <2> QED
    BY <2>1, <2>2, SpentStrikes DEF Return
<1>4. CASE broadcasts
  <2>1. udp(call) \in Private /\ \A r \in Remotes : remote(call, r) \in Private
    <3>1. console \in Asking
      BY <1>4 DEF broadcasts, OpenRequest, CloseRequest, DestroyRequest, BeginRemote, CloseRemote,
         DestroyRemote, EndRemote, toConsole, Asking
    <3> QED
      BY <1>inv, <3>1, PrivateDiffer DEF Typed, HereTypes, Conns
  <2>2. \E o \in Live \cup Spent : Close(o)
    <3>1. ~OpenRequest /\ ~EndRemote /\ \A r \in Remotes : ~BeginRemote(r)
      BY DEF OpenRequest, EndRemote, BeginRemote, OpenPrivate, sockets
    <3>2. CASE CloseRequest \/ DestroyRequest
      <4>1. Close(udp(call)) /\ life[udp(call)] \in {"open", "closed"}
        BY <1>inv, <3>2
           DEF CloseRequest, DestroyRequest, ClosePrivate, DestroyPrivate, toConsole, UdpStages
      <4> QED
        BY <1>private, <2>1, <4>1
    <3>3. ASSUME NEW r \in Remotes, CloseRemote(r) \/ DestroyRemote(r)
          PROVE  \E o \in Live \cup Spent : Close(o)
      <4>1. Close(remote(call, r)) /\ life[remote(call, r)] \in {"open", "closed"}
        BY <3>3 DEF CloseRemote, DestroyRemote, ClosePrivate, DestroyPrivate
      <4> QED
        BY <1>private, <2>1, <4>1
    <3> QED
      BY <1>4, <3>1, <3>2, <3>3 DEF broadcasts
  <2> QED
    BY <2>2, SpentStrikes
<1>5. ASSUME NEW c \in Clients PROVE ~use(c)
  BY DEF use, client, Connect, Ask, Leave, Upload, ReadAnswer, LoseConnection, Unaware
<1>6. ~Input /\ ~UNCHANGED vars
  BY DEF Input, ReadLine, Choose, clear_stdin, sockets, vars
<1> QED
  BY <1>1, <1>2, <1>3, <1>4, <1>5, <1>6 DEF Next

\* The first number that is closed under somebody's hands is closed by the copy that a
\* short command makes of its Socket object, by a broadcast's socket, by the socket of a
\* remote call that failed, or by the train file of a job of which a slice failed.
THEOREM ProcessFirstStrike == Spec => FirstStrike
<1>1. IInv /\ [Next]_vars =>
        [(faults # faults' /\ "struck" \in faults' \ faults) =>
           \E o \in Spent : At(fd[o]) \notin {Nothing, o} /\ descriptor'[fd[o]] = Nothing]_vars
  BY StrikesOnlySpent
<1> QED
  BY InitIInv, StepIInv, <1>1, PTL DEF Spec, FirstStrike

=============================================================================
