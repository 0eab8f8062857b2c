---------------------------- MODULE AnswerProofs ----------------------------
(***************************************************************************)
(* Who reads which answer: what run node_process checks on two clients and *)
(* two calls, for any clients, calls, requests, descriptors and backlog.   *)
(* On each connection the first command meets at most one answer, which is *)
(* the one to it; what follows on a long command is what its handler says; *)
(* and the console, unless something went wrong before, finds an answer    *)
(* whenever it looks for one.                                              *)
(***************************************************************************)
EXTENDS ConsoleProofs

\* Where the answer to the first command of a connection can be on its way.
Waiting(c) == Queued(c) \/ (serving = c /\ listener \in {"receive", "reading"})
Refusing(c) == serving = c /\ listener = "refuse"

\* Nothing was said on the connection yet.
Unsaid(c) ==
  /\ inbox[node(c)] = Nothing /\ inbox[far(c)] = Nothing
  /\ thread[c] = "none" /\ ~Refusing(c)

\* What a job waits for, and what it does until it sends its result.
Works == {"job", "compute", "broken"}

\* m was asked: wherever it is, what it meets is m, and no answer is there before.
Said(c, m) ==
  /\ Waiting(c) => inbox[node(c)] \in {m, Nothing} /\ inbox[far(c)] = Nothing
  /\ Refusing(c) => m \notin Dispatched /\ inbox[far(c)] = Nothing
  /\ thread[c] \in Answers \cup {"begin"} =>
       asked[c] = m /\ inbox[node(c)] = Nothing /\ inbox[far(c)] = Nothing
  /\ thread[c] \in Answers => thread[c] \in AnswersTo(m)
  /\ thread[c] \in ShareSteps =>
       /\ m = "shareFile" /\ thread[c] \in {"flag", "reading flag"}
       /\ inbox[node(c)] = Nothing /\ inbox[far(c)] \in {SUCCESS, Nothing}
  /\ thread[c] \in Works =>
       m = "distributiveComputing" /\ inbox[far(c)] = OPEN_SHAREFILE_CONNECTION
  /\ inbox[far(c)] \in AnswersTo(m) \cup {Nothing}

\* The answer was read, and nothing else will come.
Over(c) ==
  /\ ~Waiting(c) /\ ~Refusing(c)
  /\ thread[c] \notin Answers \cup {"begin"} \cup ShareSteps \cup Works
  /\ inbox[far(c)] = Nothing

\* The client may send its file.  Until it does, what its handler reads is what its user
\* types, and what comes is what this process's user decides.
Sharing(c) ==
  /\ ~Waiting(c) /\ ~Refusing(c)
  /\ thread[c] \notin Answers \cup {"begin"} \cup Works
  /\ thread[c] \in ShareSteps => thread[c] # "reply" /\ inbox[node(c)] \notin {File, Body}
  /\ thread[c] \in {"flag", "reading flag", "prompt"} => inbox[far(c)] = Nothing
  /\ inbox[far(c)] \in {SUCCESS, REJECT_CONNECTION, Nothing}

\* The client's job was begun, and only its result will come.
Computing(c) ==
  /\ ~Waiting(c) /\ ~Refusing(c)
  /\ thread[c] \notin Answers \cup {"begin"} \cup ShareSteps
  /\ thread[c] \in Works => inbox[far(c)] = Nothing
  /\ inbox[far(c)] \in {Result, Nothing}

ClientsOwn ==
  \A c \in Clients :
    /\ peer[c] \in {"idle", "connected"} => Unsaid(c) /\ talk[c] = Nothing
    /\ peer[c] \in Requests /\ talk[c] = Nothing => Said(c, peer[c])
    /\ peer[c] = "answered" /\ talk[c] = Nothing => Over(c)
    /\ talk[c] \in {"shareFile", "accepted"} => Sharing(c)
    /\ talk[c] = "distributiveComputing" => Computing(c)

ConsoleOwn ==
  /\ \A c \in left : Unsaid(c)
  /\ console \in {"open", "connect", "send"} => Unsaid(call)
  /\ console \in {"receive", "reading"} => Said(call, command)
  /\ console \notin {"return", "print", "spin", "discard"} => result = Nothing
  /\ console \in {"return", "print"} => result \in AnswersTo(command) \cup {Nothing}

ReadersOwn ==
  /\ listener = "reading" => held["listener"] = node(serving)
  /\ console = "reading" => held["console"] = far(call)
  /\ \A c \in Conns : thread[c] \in {"reading flag", "reading file"} => held[c] = node(c)

Own == "struck" \notin faults => ClientsOwn /\ ConsoleOwn /\ ReadersOwn

-----------------------------------------------------------------------------
(* Operators *)

\* Strings that are no answers, and steps of a handler that are no others.
LEMMA Names ==
  /\ {"none", "closing", "close", "delete", "destroy", "done"}
       \cap (Answers \cup {"begin"} \cup ShareSteps \cup Works) = {}
  /\ Answers \cap (ShareSteps \cup Works \cup {"begin"}) = {}
  /\ "begin" \notin ShareSteps \cup Works /\ ShareSteps \cap Works = {}
  /\ "reply" \in ShareSteps /\ "prompt" \in ShareSteps /\ "flag" \in ShareSteps
  /\ Nothing \notin Answers /\ Nothing \notin Dispatched /\ Mixed \notin Answers
<1>1. Works \subseteq JobSteps /\ {"none", "close"} \cap Works = {}
  BY DEF Works, JobSteps
<1>2. "none" \notin Answers /\ "close" \notin Answers \cup ShareSteps /\ Mixed \notin Answers
  BY DEF Answers, SUCCESS, OPEN_SHAREFILE_CONNECTION, RECEIVER_NO_OPEN_CONNECTION, Unknown,
     ShareSteps, Mixed
<1>3. Nothing \notin Answers /\ Nothing \notin Dispatched
  BY Words
<1>4. "none" \notin ShareSteps /\ {"reply", "prompt", "flag"} \subseteq ShareSteps
  BY DEF ShareSteps
<1> QED
  BY <1>1, <1>2, <1>3, <1>4, StepNames

\* The only answer to a command that nobody knows.
LEMMA AnswersToUnknown == \A m : m \notin Dispatched => AnswersTo(m) = {Unknown}
BY DEF AnswersTo, Dispatched, Copying, InPlace

\* A handler answers its command.
LEMMA AnswersToKnown ==
  ASSUME NEW m \in Dispatched
  PROVE  Answer(m) \in AnswersTo(m) /\ Answer(m) \in Answers
<1>1. m \in {"status", "connect", "receiveFile", "closeReceiveFile", "shareFile",
             "distributiveComputing"}
  BY DEF Dispatched, Copying, InPlace
<1> QED
  BY <1>1 DEF Answer, AnswersTo, Answers, SUCCESS, OPEN_SHAREFILE_CONNECTION,
     RECEIVER_NO_OPEN_CONNECTION

\* What is joined with an empty stream is itself, and with another one a message.
LEMMA JoinedIs ==
  \A old, m : /\ old = Nothing => Joined(old, m) = m
              /\ m # Nothing => Joined(old, m) # Nothing
<1>1. Mixed # Nothing
  BY Words
<1> QED
  BY <1>1 DEF Joined

\* A number that is in the hands of an object in use refers to it, or there is none.
LEMMA AtLive ==
  ASSUME IInv, "struck" \notin faults, NEW e \in Live, e \in Ends
  PROVE  /\ Stream(fd[e]) \in {e, Nothing}
         /\ fd[e] # NoFd => At(fd[e]) = e /\ Stream(fd[e]) = e
<1>1. fd[e] = NoFd \/ descriptor[fd[e]] = e
  BY DEF IInv, SocketsIntact
<1>2. NoFd \notin Fds /\ fd[e] \in Fds \cup {NoFd} /\ Nothing \notin Ends
  BY FdsAssumption, EndsDiffer DEF IInv, Typed, SocketTypes
<1> QED
  BY <1>1, <1>2 DEF At, Stream

\* What is sent on an object in use arrives at the other end, if at all.
LEMMA SentFrom ==
  ASSUME IInv, "struck" \notin faults, NEW e \in Live, e \in Ends, NEW m
  PROVE  /\ \/ Sent(fd[e], m) = inbox
            \/ Sent(fd[e], m) = [inbox EXCEPT ![Other(e)] = Joined(inbox[Other(e)], m)]
         /\ fd[e] # NoFd /\ Open(Other(e)) =>
              Sent(fd[e], m) = [inbox EXCEPT ![Other(e)] = Joined(inbox[Other(e)], m)]
<1>1. e # Nothing
  BY EndsDiffer
<1> QED
  BY <1>1, AtLive DEF Sent

LEMMA Others == \A c \in Conns : Other(node(c)) = far(c) /\ Other(far(c)) = node(c)
BY DEF Other, node, far

\* What a handler that is not done sends.
LEMMA NodeSends ==
  ASSUME IInv, "struck" \notin faults, NEW c \in Conns, Busy(c), NEW m \in Messages,
         inbox' = Sent(fd[node(c)], m)
  PROVE  /\ \A e \in Ends : e # far(c) => inbox'[e] = inbox[e]
         /\ inbox'[far(c)] = inbox[far(c)] \/ inbox'[far(c)] = Joined(inbox[far(c)], m)
         /\ Open(far(c)) => inbox'[far(c)] = Joined(inbox[far(c)], m)
<1>1. /\ inbox \in [Ends -> Messages \cup {Nothing}] /\ Typed /\ Numbered
      /\ node(c) \in Ends /\ far(c) \in Ends
  BY EndsDiffer DEF IInv, Typed, SocketTypes, Staged
<1>2. node(c) \in Live /\ fd[node(c)] # NoFd
  BY <1>1, WhatLives DEF Numbered
<1>3. /\ \/ inbox' = inbox
         \/ inbox' = [inbox EXCEPT ![far(c)] = Joined(inbox[far(c)], m)]
      /\ Open(far(c)) => inbox' = [inbox EXCEPT ![far(c)] = Joined(inbox[far(c)], m)]
  BY <1>1, <1>2, SentFrom, Others
<1> QED
  BY <1>1, <1>3

-----------------------------------------------------------------------------
(* The course of a connection *)

\* Whatever was said on c, the step is in order.
Keeps(c) ==
  /\ Unsaid(c) => Unsaid(c)'
  /\ \A m : Said(c, m) /\ (m = "distributiveComputing" => Open(far(c))) => Said(c, m)'
  /\ Over(c) => Over(c)'
  /\ Sharing(c) => Sharing(c)'
  /\ Computing(c) => Computing(c)'

\* The steps at which a handler neither reads nor sends any more.
Idle == {"closing", "close", "delete", "destroy", "done"}

\* A step that brings no answer nearer, and neither sends nor takes anything on c.
LEMMA Recedes ==
  ASSUME NEW c \in Conns,
         Waiting(c)' => Waiting(c), Refusing(c)' => Refusing(c),
         \/ thread'[c] = thread[c] /\ asked'[c] = asked[c]
         \/ thread[c] # "none" /\ thread'[c] \in Idle,
         inbox'[node(c)] = inbox[node(c)], inbox'[far(c)] = inbox[far(c)]
  PROVE  Keeps(c)
<1>0. thread'[c] \in Idle => thread'[c] \notin Answers \cup {"begin"} \cup ShareSteps \cup Works
  BY Names DEF Idle
<1>1. Unsaid(c) => Unsaid(c)'
  BY DEF Unsaid
<1>2. ASSUME NEW m, Said(c, m) PROVE Said(c, m)'
  <2>1. AnswersTo(m)' = AnswersTo(m)
    BY DEF AnswersTo
  <2>2. CASE thread'[c] = thread[c] /\ asked'[c] = asked[c]
    BY <1>2, <2>1, <2>2 DEF Said
  <2>3. CASE thread'[c] \in Idle
    BY <1>0, <1>2, <2>1, <2>3 DEF Said
  <2> QED
    BY <2>2, <2>3
<1>3. Over(c) => Over(c)'
  BY <1>0 DEF Over
<1>4. Sharing(c) => Sharing(c)'
  <2>1. thread'[c] \in Idle => thread'[c] \notin {"flag", "reading flag", "prompt"}
    BY DEF Idle
  <2> QED
    BY <1>0, <2>1 DEF Sharing
<1>5. Computing(c) => Computing(c)'
  BY <1>0 DEF Computing
<1> QED
  BY <1>1, <1>2, <1>3, <1>4, <1>5 DEF Keeps

\* Nothing changes on c.
LEMMA Rests ==
  ASSUME NEW c \in Conns,
         UNCHANGED <<queue, serving, thread, asked, inbox>>,
         listener' = listener
  PROVE  Keeps(c)
<1>1. (Waiting(c)' => Waiting(c)) /\ (Refusing(c)' => Refusing(c))
  BY DEF Waiting, Refusing, Queued
<1> QED
  BY <1>1, Recedes

\* A connection is not in two places.
LEMMA OnePlace ==
  ASSUME IInv, NEW c \in Conns
  PROVE  /\ serving = c => ~Queued(c) /\ thread[c] = "none"
         /\ thread[c] # "none" => ~Waiting(c) /\ ~Refusing(c)
BY DEF IInv, OneAtATime, Waiting, Refusing

\* A connection that waits or is refused is neither over nor at a long command.
LEMMA NotYetOver ==
  ASSUME NEW c, Waiting(c) \/ Refusing(c) \/ thread[c] \in Answers \cup {"begin"}
  PROVE  ~Over(c) /\ ~Sharing(c) /\ ~Computing(c)
BY DEF Over, Sharing, Computing

\* The accept loop.
LEMMA ListenKeeps ==
  ASSUME IInv, ReadersOwn, "struck" \notin faults, listen, NEW c \in Conns
  PROVE  Keeps(c)
<1>inv. Typed /\ OneAtATime
  BY DEF IInv
<1>types. /\ queue \in Seq(Conns) /\ inbox \in [Ends -> Messages \cup {Nothing}]
          /\ thread \in [Conns -> ThreadSteps] /\ asked \in [Conns -> Dispatched \cup {Nothing}]
          /\ serving \in Conns \cup {Nothing}
          /\ listener # "accept" => serving \in Conns
  BY <1>inv DEF Typed, SocketTypes, QueueTypes, LoopTypes, ThreadTypes
<1>ends. node(c) \in Ends /\ far(c) \in Ends /\ node(c) # far(c)
  BY EndsDiffer
<1> USE DEF toListener
<1>1. CASE acceptConnection
  <2>1. /\ queue # <<>> /\ serving' = Head(queue) /\ queue' = Tail(queue)
        /\ listener = "accept" /\ listener' = "receive" /\ UNCHANGED <<thread, asked, inbox>>
    BY <1>1 DEF acceptConnection, threads
  <2>2. Len(queue) \in Nat /\ Len(queue) >= 1 /\ queue[1] = Head(queue)
    BY <1>types, <2>1
  <2>3. /\ Len(queue') = Len(queue) - 1
        /\ \A k \in 1 .. Len(queue') : queue'[k] = queue[k + 1] /\ k + 1 \in 1 .. Len(queue)
    BY <1>types, <2>1, <2>2
  <2>4. Waiting(c)' => Waiting(c)
    <3>1. Queued(c)' => Queued(c)
      BY <2>3 DEF Queued
    <3>2. serving' = c => Queued(c)
      BY <2>1, <2>2 DEF Queued
    <3> QED
      BY <3>1, <3>2 DEF Waiting
  <2> QED
    BY <2>1, <2>4, Recedes DEF Refusing
<1>2. CASE AcceptFails
  BY <1>2, Rests DEF AcceptFails, loop, threads
<1>3. CASE BeginReceive
  <2>1. /\ listener = "receive" /\ listener' \in {"delete", "reading"}
        /\ UNCHANGED <<queue, serving, thread, asked, inbox>>
    BY <1>3 DEF BeginReceive, threads
  <2>2. (Waiting(c)' => Waiting(c)) /\ ~Refusing(c)'
    BY <2>1 DEF Waiting, Refusing, Queued
  <2> QED
    BY <2>1, <2>2, Recedes
<1>4. CASE ReceiveEnd \/ Delete
  <2>1. /\ listener' \in {"delete", "accept"}
        /\ UNCHANGED <<queue, thread, asked, inbox>>
    BY <1>4 DEF ReceiveEnd, Delete, threads
  <2>2. (Waiting(c)' => Waiting(c)) /\ ~Refusing(c)'
    BY <2>1 DEF Waiting, Refusing, Queued
  <2> QED
    BY <2>1, <2>2, Recedes
<1>5. CASE Dispatch \/ DispatchFails \/ ReceiveUnknown
  <2>1. /\ listener = "reading" /\ held["listener"] = node(serving) /\ serving \in Conns
        /\ inbox' = [inbox EXCEPT ![node(serving)] = Nothing]
        /\ inbox[node(serving)] # Nothing /\ queue' = queue
    BY <1>5, <1>types, Names DEF Dispatch, DispatchFails, ReceiveUnknown, Take, ReadersOwn
  <2>2. CASE c # serving
    <3>1. node(c) # node(serving) /\ far(c) # node(serving)
      BY <2>1, <2>2, EndsDiffer
    <3>2. inbox'[node(c)] = inbox[node(c)] /\ inbox'[far(c)] = inbox[far(c)]
      BY <1>types, <1>ends, <2>1, <3>1
    <3>3. thread'[c] = thread[c] /\ asked'[c] = asked[c]
      BY <1>5, <2>2, <1>types DEF Dispatch, DispatchFails, ReceiveUnknown, threads
    <3>4. serving' \in {serving, Nothing} /\ Nothing \notin Conns
      BY <1>5, EndsDiffer DEF Dispatch, DispatchFails, ReceiveUnknown
    <3>5. (Waiting(c)' => Waiting(c)) /\ (Refusing(c)' => Refusing(c))
      BY <2>1, <2>2, <3>4 DEF Waiting, Refusing, Queued
    <3> QED
      BY <3>2, <3>3, <3>5, Recedes
  <2>3. CASE c = serving
    <3>1. /\ Waiting(c) /\ ~Queued(c) /\ thread[c] = "none" /\ ~Queued(c)'
          /\ inbox[node(c)] # Nothing /\ inbox'[far(c)] = inbox[far(c)] /\ ~Unsaid(c)
          /\ inbox'[node(c)] = Nothing
      BY <1>types, <1>ends, <2>1, <2>3, OnePlace DEF Waiting, Unsaid, Queued
    <3>2. ASSUME NEW m, Said(c, m) PROVE Said(c, m)'
      <4>1. inbox[node(c)] = m /\ inbox'[far(c)] = Nothing
        BY <3>1, <3>2 DEF Said
      <4>2. CASE Dispatch
        <5>1. /\ m \in Dispatched /\ serving' = Nothing /\ listener' = "accept"
              /\ thread'[c] = "begin" /\ asked'[c] = m
          BY <1>types, <2>1, <2>3, <4>1, <4>2 DEF Dispatch
        <5>2. ~Waiting(c)' /\ ~Refusing(c)'
          BY <3>1, <5>1 DEF Waiting, Refusing
        <5> QED
          BY <3>1, <4>1, <5>1, <5>2, Names DEF Said
      <4>3. CASE DispatchFails
        <5>1. thread' = thread /\ listener' = "delete"
          BY <4>3 DEF DispatchFails, threads
        <5>2. ~Waiting(c)' /\ ~Refusing(c)'
          BY <3>1, <5>1 DEF Waiting, Refusing
        <5> QED
          BY <3>1, <4>1, <5>1, <5>2, Names DEF Said
      <4>4. CASE ReceiveUnknown
        <5>1. thread' = thread /\ listener' = "refuse" /\ m \notin Dispatched
          BY <2>1, <2>3, <4>1, <4>4 DEF ReceiveUnknown, threads
        <5>2. ~Waiting(c)'
          BY <3>1, <5>1 DEF Waiting
        <5> QED
          BY <3>1, <4>1, <5>1, <5>2, Names DEF Said
      <4> QED
        BY <1>5, <4>2, <4>3, <4>4
    <3> QED
      BY <3>1, <3>2, NotYetOver DEF Keeps
  <2> QED
    BY <2>2, <2>3
<1>6. CASE Refuse
  <2>1. /\ listener = "refuse" /\ listener' = "delete" /\ serving \in Conns
        /\ inbox' = Sent(fd[node(serving)], Unknown)
        /\ UNCHANGED <<queue, serving, thread, asked>>
    BY <1>6, <1>types DEF Refuse, threads
  <2>2. /\ \A e \in Ends : e # far(serving) => inbox'[e] = inbox[e]
        /\ \/ inbox'[far(serving)] = inbox[far(serving)]
           \/ inbox'[far(serving)] = Joined(inbox[far(serving)], Unknown)
    BY <2>1, NodeSends, Words DEF Busy
  <2>4. ~Refusing(c)' /\ (Waiting(c)' => Waiting(c))
    BY <2>1 DEF Refusing, Waiting, Queued
  <2>5. CASE c # serving
    <3>1. node(c) # far(serving) /\ far(c) # far(serving)
      BY <2>1, <2>5, EndsDiffer
    <3>2. inbox'[node(c)] = inbox[node(c)] /\ inbox'[far(c)] = inbox[far(c)]
      BY <1>ends, <2>2, <3>1
    <3> QED
      BY <2>1, <2>4, <3>2, Recedes
  <2>6. CASE c = serving
    <3>1. Refusing(c) /\ ~Unsaid(c) /\ thread'[c] = "none" /\ ~Waiting(c)'
      BY <2>1, <2>4, <2>6, OnePlace DEF Refusing, Unsaid, Waiting
    <3>2. ASSUME NEW m, Said(c, m) PROVE Said(c, m)'
      <4>1. m \notin Dispatched /\ inbox[far(c)] = Nothing
        BY <3>1, <3>2 DEF Said
      <4>2. inbox'[far(c)] \in {Unknown, Nothing}
        BY <2>2, <2>6, <4>1, JoinedIs
      <4>3. inbox'[far(c)] \in AnswersTo(m)' \cup {Nothing}
        BY <4>1, <4>2, AnswersToUnknown DEF AnswersTo
      <4> QED
        BY <2>4, <3>1, <4>3, Names DEF Said
    <3> QED
      BY <3>1, <3>2, NotYetOver DEF Keeps
  <2> QED
    BY <2>5, <2>6
<1> QED
  BY <1>1, <1>2, <1>3, <1>4, <1>5, <1>6 DEF listen, server_listener_thread_tcp

\* A handler reads from its own connection and writes to it.
LEMMA HandleInbox ==
  ASSUME IInv, ReadersOwn, "struck" \notin faults, NEW t \in Conns, handle(t)
  PROVE  /\ \A e \in Ends : e \notin {node(t), far(t)} => inbox'[e] = inbox[e]
         /\ \A m \in Messages :
              inbox' = Sent(fd[node(t)], m) /\ Busy(t) =>
                /\ inbox'[node(t)] = inbox[node(t)]
                /\ inbox'[far(t)] = inbox[far(t)] \/ inbox'[far(t)] = Joined(inbox[far(t)], m)
                /\ Open(far(t)) => inbox'[far(t)] = Joined(inbox[far(t)], m)
         /\ ReadFlag(t) \/ ReceiveFile(t) =>
              held[t] = node(t) /\ inbox'[far(t)] = inbox[far(t)]
<1>types. /\ inbox \in [Ends -> Messages \cup {Nothing}]
          /\ node(t) \in Ends /\ far(t) \in Ends /\ node(t) # far(t)
  BY EndsDiffer DEF IInv, Typed, SocketTypes
<1>1. ASSUME NEW m \in Messages, inbox' = Sent(fd[node(t)], m), Busy(t)
      PROVE  /\ \A e \in Ends : e # far(t) => inbox'[e] = inbox[e]
             /\ inbox'[far(t)] = inbox[far(t)] \/ inbox'[far(t)] = Joined(inbox[far(t)], m)
             /\ Open(far(t)) => inbox'[far(t)] = Joined(inbox[far(t)], m)
  BY <1>1, NodeSends
<1>2. ReadFlag(t) \/ ReceiveFile(t) => held[t] = node(t)
  BY DEF ReadFlag, ReceiveFile, ReadersOwn
<1>3. ReadFlag(t) \/ ReceiveFile(t) =>
        \E rest \in {Body, Nothing, Mixed} : inbox' = [inbox EXCEPT ![node(t)] = rest]
  BY <1>2 DEF ReadFlag, ReceiveFile, Take
<1>4. SendAnswer(t) \/ ReadChoice(t) \/ Reply(t) \/ SendResult(t) =>
        Busy(t) /\ \E m \in Messages : inbox' = Sent(fd[node(t)], m)
  BY Words DEF SendAnswer, ReadChoice, Reply, SendResult, toThread, Busy, Serving
<1>5. \/ inbox' = inbox \/ ReadFlag(t) \/ ReceiveFile(t)
      \/ SendAnswer(t) \/ ReadChoice(t) \/ Reply(t) \/ SendResult(t)
  BY
     DEF handle, handler, awaits, Begin, Receive, EndTransfer, CompileFails, OpenTrain, SliceFails,
     CloseSlice, CloseTrain, CloseNode, DeleteArgument, Destroy, sockets
<1>6. \A e \in Ends : e \notin {node(t), far(t)} => inbox'[e] = inbox[e]
  <2>1. CASE ReadFlag(t) \/ ReceiveFile(t)
    BY <1>types, <1>3, <2>1
  <2>2. CASE SendAnswer(t) \/ ReadChoice(t) \/ Reply(t) \/ SendResult(t)
    BY <1>1, <1>4, <2>2
  <2> QED
    BY <1>5, <2>1, <2>2
<1>7. ReadFlag(t) \/ ReceiveFile(t) => inbox'[far(t)] = inbox[far(t)]
  BY <1>types, <1>3
<1> QED
  BY <1>types, <1>1, <1>2, <1>6, <1>7

\* A handler's connection is neither waiting nor refused, and its streams are there.
LEMMA HandlePlace ==
  ASSUME IInv, NEW t \in Conns, handle(t)
  PROVE  /\ thread[t] # "none" /\ ~Unsaid(t)
         /\ UNCHANGED <<queue, serving, listener>>
         /\ ~Waiting(t) /\ ~Refusing(t) /\ ~Waiting(t)' /\ ~Refusing(t)'
         /\ Placed(t) /\ thread \in [Conns -> ThreadSteps]
         /\ thread[t] \in Serving => Busy(t)
<1>1. "none" \notin Serving \cup {"destroy"}
  BY
     DEF Serving, Answers, SUCCESS, OPEN_SHAREFILE_CONNECTION, RECEIVER_NO_OPEN_CONNECTION, Unknown
<1>2. thread[t] # "none" /\ UNCHANGED <<queue, serving, listener>>
  BY <1>1, HandleFrame DEF IInv
<1>3. ~Waiting(t) /\ ~Refusing(t)
  BY <1>2, OnePlace
<1>4. ~Waiting(t)' /\ ~Refusing(t)'
  BY <1>2, <1>3 DEF Waiting, Refusing, Queued
<1> QED
  BY <1>2, <1>3, <1>4 DEF Unsaid, Busy, IInv, Typed, ThreadTypes

\* A transfer keeps to the conversation with the client, in which nothing was said before.
LEMMA TransferKeeps ==
  ASSUME IInv, ReadersOwn, "struck" \notin faults, NEW c \in Conns, handle(c),
         \/ Receive(c) \/ ReadFlag(c) \/ ReadChoice(c) \/ ReceiveFile(c) \/ EndTransfer(c)
         \/ Reply(c)
  PROVE  Keeps(c)
<1>place. /\ thread[c] # "none" /\ ~Unsaid(c) /\ thread \in [Conns -> ThreadSteps]
          /\ ~Waiting(c) /\ ~Refusing(c) /\ ~Waiting(c)' /\ ~Refusing(c)'
          /\ thread[c] \in Serving => Busy(c)
  BY HandlePlace
<1>types. /\ inbox \in [Ends -> Messages \cup {Nothing}] /\ node(c) \in Ends /\ far(c) \in Ends
          /\ node(c) # far(c)
  BY EndsDiffer DEF IInv, Typed, SocketTypes
<1>names. /\ \A s \in ShareSteps : s \notin Answers \cup {"begin"} \cup Works
          /\ \A s \in Idle : /\ s \notin Answers \cup {"begin"} \cup Works \cup ShareSteps
                             /\ s \notin {"flag", "reading flag", "prompt"}
          /\ ShareSteps = {"flag", "reading flag", "prompt", "file", "reading file", "reply"}
  BY Names DEF Idle, ShareSteps
<1>1. thread[c] \in ShareSteps /\ thread[c] \in Serving /\ Returned(c) \in Idle
  BY DEF Receive, ReadFlag, ReadChoice, ReceiveFile, EndTransfer, Reply, toThread, ShareSteps,
     Serving, Returned, Idle
<1>2. ~Over(c) /\ ~Computing(c)
  BY <1>1, <1>names DEF Over, Computing
<1>3. ASSUME NEW m, Said(c, m) PROVE Said(c, m)'
  <2>1. /\ thread[c] \in {"flag", "reading flag"} /\ inbox[node(c)] = Nothing
        /\ m = "shareFile" /\ inbox[far(c)] \in {SUCCESS, Nothing}
    BY <1>1, <1>3 DEF Said
  <2>2. CASE Receive(c) \/ EndTransfer(c)
    <3>1. inbox' = inbox /\ thread'[c] \in {"reading flag"} \cup Idle
      BY <1>place, <1>1, <2>1, <2>2 DEF Receive, EndTransfer
    <3>2. inbox'[far(c)] \in AnswersTo(m)' \cup {Nothing}
      BY <1>3, <3>1 DEF Said, AnswersTo
    <3> QED
      BY <1>place, <1>names, <2>1, <3>1, <3>2 DEF Said
  <2>3. ~ReadFlag(c)
    BY <2>1, HandleInbox DEF ReadFlag
  <2>4. ~ReadChoice(c) /\ ~ReceiveFile(c) /\ ~Reply(c)
    BY <2>1 DEF ReadChoice, ReceiveFile, Reply, toThread
  <2> QED
    BY <2>2, <2>3, <2>4
<1>4. ASSUME Sharing(c) PROVE Sharing(c)'
  <2>1. /\ thread[c] # "reply" /\ inbox[node(c)] \notin {File, Body}
        /\ thread[c] \in {"flag", "reading flag", "prompt"} => inbox[far(c)] = Nothing
        /\ inbox[far(c)] \in {SUCCESS, REJECT_CONNECTION, Nothing}
    BY <1>1, <1>4 DEF Sharing
  <2>2. CASE Receive(c) \/ EndTransfer(c)
    <3>1. inbox' = inbox
      BY <2>2 DEF Receive, EndTransfer
    <3>2. \/ thread'[c] \in Idle
          \/ thread[c] = "flag" /\ thread'[c] = "reading flag"
          \/ thread[c] = "file" /\ thread'[c] = "reading file"
      BY <1>place, <1>1, <2>2 DEF Receive, EndTransfer
    <3> QED
      BY <1>place, <1>names, <2>1, <3>1, <3>2 DEF Sharing
  <2>3. CASE ReadFlag(c)
    <3>1. held[c] = node(c) /\ inbox'[far(c)] = inbox[far(c)]
      BY <2>3, HandleInbox
    <3>2. thread[c] = "reading flag" /\ thread'[c] = "prompt"
          /\ inbox'[node(c)] \in {Nothing, Mixed}
      BY <1>place, <1>types, <2>1, <2>3, <3>1 DEF ReadFlag
    <3>3. Nothing \notin {File, Body} /\ Mixed \notin {File, Body}
      BY Words DEF File, Body, Mixed
    <3> QED
      BY <1>place, <1>names, <2>1, <3>1, <3>2, <3>3 DEF Sharing
  <2>4. CASE ReadChoice(c)
    <3>1. inbox[far(c)] = Nothing
      BY <2>1, <2>4 DEF ReadChoice, toThread
    <3>2. PICK m \in {SUCCESS, REJECT_CONNECTION} : inbox' = Sent(fd[node(c)], m)
      BY <2>4 DEF ReadChoice
    <3>3. thread'[c] \in {"file", "closing"}
      BY <1>place, <2>4 DEF ReadChoice, toThread
    <3>4. inbox'[node(c)] = inbox[node(c)] /\ inbox'[far(c)] \in {m, Nothing}
      BY <1>place, <1>1, <3>1, <3>2, HandleInbox, JoinedIs, Words
    <3> QED
      BY <1>place, <1>names, <2>1, <3>3, <3>4 DEF Sharing, Idle
  <2>5. CASE ReceiveFile(c)
    <3>1. held[c] = node(c) /\ inbox'[far(c)] = inbox[far(c)]
      BY <2>5, HandleInbox
    <3>2. inbox'[node(c)] = Nothing /\ Nothing \notin {File, Body}
      BY <1>types, <2>5, <3>1, Words DEF ReceiveFile, Take
    <3>3. thread[c] = "reading file" /\ thread'[c] \in Idle \cup {"file"}
      BY <1>place, <1>1, <2>1, <2>5, <3>1 DEF ReceiveFile
    <3> QED
      BY <1>place, <1>names, <2>1, <3>1, <3>2, <3>3 DEF Sharing
  <2>6. ~Reply(c)
    BY <2>1 DEF Reply, toThread
  <2> QED
    BY <2>2, <2>3, <2>4, <2>5, <2>6
<1> QED
  BY <1>place, <1>2, <1>3, <1>4 DEF Keeps

\* A job says its result once, and a client that has not read the answer has both in one.
LEMMA WorkKeeps ==
  ASSUME IInv, ReadersOwn, "struck" \notin faults, NEW c \in Conns, handle(c),
         OpenTrain(c) \/ SliceFails(c) \/ CloseSlice(c) \/ SendResult(c)
  PROVE  Keeps(c)
<1>place. /\ thread[c] # "none" /\ ~Unsaid(c) /\ thread \in [Conns -> ThreadSteps]
          /\ ~Waiting(c) /\ ~Refusing(c) /\ ~Waiting(c)' /\ ~Refusing(c)'
          /\ thread[c] \in Serving => Busy(c)
  BY HandlePlace
<1>1. thread[c] \in Works /\ thread[c] \in Serving
  BY DEF OpenTrain, SliceFails, CloseSlice, SendResult, toThread, Works, Serving
<1>2. ~Over(c) /\ ~Sharing(c) /\ Nothing # OPEN_SHAREFILE_CONNECTION
  <2>1. OPEN_SHAREFILE_CONNECTION \in Answers
    BY DEF Answers
  <2> QED
    BY <1>1, <2>1, Names DEF Over, Sharing
<1>names. \A s \in Works \cup {"closing"} : s \notin Answers \cup {"begin"} \cup ShareSteps
  BY Names
<1>3. CASE OpenTrain(c) \/ SliceFails(c) \/ CloseSlice(c)
  <2>1. thread'[c] \in Works /\ inbox' = inbox
    BY <1>place, <1>3 DEF OpenTrain, SliceFails, CloseSlice, toThread, Works, sockets
  <2>2. ASSUME NEW m, Said(c, m) PROVE Said(c, m)'
    <3>1. AnswersTo(m)' = AnswersTo(m)
      BY DEF AnswersTo
    <3> QED
      BY <1>place, <1>1, <1>names, <2>1, <2>2, <3>1 DEF Said
  <2>3. Computing(c) => Computing(c)'
    BY <1>place, <1>1, <1>names, <2>1 DEF Computing
  <2> QED
    BY <1>place, <1>2, <2>2, <2>3 DEF Keeps
<1>4. CASE SendResult(c)
  <2>1. thread'[c] = "closing" /\ inbox' = Sent(fd[node(c)], Result)
    BY <1>place, <1>4 DEF SendResult, toThread
  <2>2. /\ inbox'[node(c)] = inbox[node(c)]
        /\ inbox'[far(c)] = inbox[far(c)] \/ inbox'[far(c)] = Joined(inbox[far(c)], Result)
    BY <1>place, <1>1, <2>1, HandleInbox, Words
  <2>3. ASSUME NEW m, Said(c, m) PROVE Said(c, m)'
    <3>1. m = "distributiveComputing" /\ inbox[far(c)] = OPEN_SHAREFILE_CONNECTION
      BY <1>1, <2>3 DEF Said
    <3>2. inbox'[far(c)] \in {OPEN_SHAREFILE_CONNECTION, Mixed}
      BY <1>2, <2>2, <3>1 DEF Joined
    <3>3. inbox'[far(c)] \in AnswersTo(m)'
      BY <3>1, <3>2 DEF AnswersTo
    <3> QED
      BY <1>place, <2>1, <3>3, Names DEF Said
  <2>4. Computing(c) => Computing(c)'
    <3>1. Computing(c) => inbox'[far(c)] \in {Result, Nothing}
      BY <1>1, <2>2, JoinedIs DEF Computing
    <3> QED
      BY <1>place, <2>1, <3>1, Names DEF Computing
  <2> QED
    BY <1>place, <1>2, <2>3, <2>4 DEF Keeps
<1> QED
  BY <1>3, <1>4

\* A handler begins with the answer to its command.
LEMMA AnswerKeeps ==
  ASSUME IInv, ReadersOwn, "struck" \notin faults, NEW c \in Conns, handle(c),
         Begin(c) \/ SendAnswer(c)
  PROVE  Keeps(c)
<1>place. /\ thread[c] # "none" /\ ~Unsaid(c) /\ thread \in [Conns -> ThreadSteps]
          /\ ~Waiting(c) /\ ~Refusing(c) /\ ~Waiting(c)' /\ ~Refusing(c)'
          /\ thread[c] \in Serving => Busy(c)
          /\ Placed(c)
  BY HandlePlace
<1>1. CASE Begin(c)
  <2>1. /\ thread[c] = "begin" /\ asked[c] \in Dispatched /\ thread'[c] = Answer(asked[c])
        /\ UNCHANGED <<inbox, asked>>
    BY <1>place, <1>1, StepNames DEF Begin, toThread, Placed, sockets
  <2>2. ASSUME NEW m, Said(c, m) PROVE Said(c, m)'
    <3>1. m = asked[c] /\ inbox[far(c)] = Nothing /\ inbox[node(c)] = Nothing
      BY <2>1, <2>2 DEF Said
    <3>2. thread'[c] \in AnswersTo(m)' /\ thread'[c] \in Answers
      BY <2>1, <3>1, AnswersToKnown DEF AnswersTo
    <3> QED
      BY <1>place, <2>1, <3>1, <3>2, Names DEF Said
  <2> QED
    BY <1>place, <2>1, <2>2, NotYetOver DEF Keeps
<1>2. CASE SendAnswer(c)
  <2>1. /\ thread[c] \in Answers /\ thread'[c] = AfterAnswer(c) /\ asked[c] \in Dispatched
        /\ inbox' = Sent(fd[node(c)], thread[c]) /\ asked' = asked /\ thread[c] \in Serving
    BY <1>place, <1>2, StepNames DEF SendAnswer, Placed, Serving
  <2>2. /\ inbox'[node(c)] = inbox[node(c)]
        /\ inbox'[far(c)] = inbox[far(c)] \/ inbox'[far(c)] = Joined(inbox[far(c)], thread[c])
        /\ Open(far(c)) => inbox'[far(c)] = Joined(inbox[far(c)], thread[c])
    BY <1>place, <2>1, HandleInbox, Words
  <2>3. /\ AfterAnswer(c) \in {"delete", "flag", "job"}
        /\ AfterAnswer(c) = "flag" =>
             asked[c] = "shareFile" /\ thread[c] # RECEIVER_NO_OPEN_CONNECTION
        /\ AfterAnswer(c) = "job" => asked[c] = "distributiveComputing"
    <3>1. AfterAnswer(c) = "flag" => thread[c] # RECEIVER_NO_OPEN_CONNECTION
      BY <2>1 DEF AfterAnswer, Dispatched, InPlace
    <3> QED
      BY <2>1, <3>1, AfterAnswerTyped
  <2>4. ASSUME NEW m, Said(c, m), m = "distributiveComputing" => Open(far(c)) PROVE Said(c, m)'
    <3>1. /\ thread[c] \in AnswersTo(m) /\ inbox[far(c)] = Nothing /\ inbox[node(c)] = Nothing
          /\ asked[c] = m
      BY <2>1, <2>4 DEF Said
    <3>2. /\ inbox'[far(c)] \in {thread[c], Nothing}
          /\ Open(far(c)) => inbox'[far(c)] = thread[c]
      BY <2>2, <3>1, JoinedIs
    <3>3. inbox'[far(c)] \in AnswersTo(m)' \cup {Nothing}
      BY <3>1, <3>2 DEF AnswersTo
    <3>4. CASE AfterAnswer(c) = "delete"
      BY <1>place, <2>1, <3>3, <3>4, Names DEF Said
    <3>5. CASE AfterAnswer(c) = "flag"
      <4>1. m = "shareFile" /\ thread[c] = SUCCESS
        BY <2>3, <3>1, <3>5 DEF AnswersTo
      <4> QED
        BY <1>place, <2>1, <2>2, <3>1, <3>2, <3>3, <3>5, <4>1, Names DEF Said
    <3>6. CASE AfterAnswer(c) = "job"
      <4>1. m = "distributiveComputing" /\ "job" \in Works
        BY <2>3, <3>1, <3>6 DEF Works
      <4>2. thread[c] = OPEN_SHAREFILE_CONNECTION
        BY <2>1, <3>1, <4>1, Names DEF AnswersTo
      <4>3. inbox'[far(c)] = OPEN_SHAREFILE_CONNECTION
        BY <2>4, <3>2, <4>1, <4>2
      <4> QED
        BY <1>place, <2>1, <3>3, <3>6, <4>1, <4>3, Names DEF Said
    <3> QED
      BY <2>3, <3>4, <3>5, <3>6
  <2> QED
    BY <1>place, <2>1, <2>4, NotYetOver DEF Keeps
<1> QED
  BY <1>1, <1>2

\* The handlers.
LEMMA HandleKeeps ==
  ASSUME IInv, ReadersOwn, "struck" \notin faults, NEW t \in Conns, handle(t), NEW c \in Conns
  PROVE  Keeps(c)
<1>types. /\ thread \in [Conns -> ThreadSteps] /\ asked \in [Conns -> Dispatched \cup {Nothing}]
          /\ node(c) \in Ends /\ far(c) \in Ends
  BY EndsDiffer DEF IInv, Typed, ThreadTypes
<1>frame. /\ UNCHANGED <<queue, serving, listener>> /\ thread[t] # "none"
          /\ \E s : thread' = [thread EXCEPT ![t] = s]
          /\ asked' = asked \/ asked' = [asked EXCEPT ![t] = Nothing]
  BY HandlePlace, HandleFrame DEF IInv
<1>same. /\ Waiting(c)' <=> Waiting(c)
         /\ Refusing(c)' <=> Refusing(c)
  BY <1>frame DEF Waiting, Refusing, Queued
<1>1. CASE c # t
  <2>1. {node(c), far(c)} \cap {node(t), far(t)} = {}
    BY <1>1, EndsDiffer
  <2>2. inbox'[node(c)] = inbox[node(c)] /\ inbox'[far(c)] = inbox[far(c)]
    BY <1>types, <2>1, HandleInbox
  <2>3. thread'[c] = thread[c] /\ asked'[c] = asked[c]
    BY <1>types, <1>frame, <1>1
  <2> QED
    BY <1>same, <2>2, <2>3, Recedes
<1>2. CASE c = t
  <2>1. CASE CompileFails(c)
    <3>1. UNCHANGED <<queue, serving, thread, asked, inbox, listener>>
      BY <2>1 DEF CompileFails, sockets, loop, threads
    <3> QED
      BY <3>1, Rests
  <2>2. CASE CloseTrain(c) \/ CloseNode(c) \/ DeleteArgument(c) \/ Destroy(c)
    <3>1. thread'[c] \in Idle /\ inbox' = inbox
      BY <1>types, <2>2
         DEF CloseTrain, CloseNode, DeleteArgument, Destroy, toThread, Idle, sockets
    <3> QED
      BY <1>same, <1>frame, <1>2, <3>1, Recedes
  <2> QED
    BY <1>2, <2>1, <2>2, AnswerKeeps, TransferKeeps, WorkKeeps DEF handle, handler, awaits
<1> QED
  BY <1>1, <1>2

-----------------------------------------------------------------------------
(* Every step *)

\* Connections that run their course leave a client, and a console that rests, with
\* the own answer.
LEMMA ClientsKept ==
  ASSUME ClientsOwn, \A c \in Clients : Keeps(c), UNCHANGED <<peer, talk>>
  PROVE  ClientsOwn'
<1> SUFFICES ASSUME NEW c \in Clients
             PROVE  /\ peer[c] \in {"idle", "connected"} => Unsaid(c)' /\ talk[c] = Nothing
                    /\ peer[c] \in Requests /\ talk[c] = Nothing => Said(c, peer[c])'
                    /\ peer[c] = "answered" /\ talk[c] = Nothing => Over(c)'
                    /\ talk[c] \in {"shareFile", "accepted"} => Sharing(c)'
                    /\ talk[c] = "distributiveComputing" => Computing(c)'
  BY DEF ClientsOwn, Said, AnswersTo
<1>1. peer[c] \in Requests => Open(far(c))
  BY DEF Open, far
<1>2. ASSUME peer[c] \in Requests, talk[c] = Nothing PROVE Said(c, peer[c])'
  <2>1. ASSUME NEW m, m = peer[c] PROVE Said(c, m)'
    BY <1>1, <1>2, <2>1 DEF ClientsOwn, Keeps
  <2> QED
    BY <2>1 DEF Said, AnswersTo
<1> QED
  BY <1>2 DEF ClientsOwn, Keeps

LEMMA ConsoleKept ==
  ASSUME ConsoleOwn, \A c \in Calls : Keeps(c), UNCHANGED here, Typed
  PROVE  ConsoleOwn'
<1>2. UNCHANGED <<console, command, call, left, result>>
  BY DEF here
<1>3. ASSUME NEW c \in left PROVE Unsaid(c)'
  BY <1>3 DEF ConsoleOwn, Keeps, Typed, HereTypes
<1>4. console \in Calling => call \in Calls /\ command # "distributiveComputing"
  BY DEF Typed, HereTypes, Local
<1>5. ASSUME NEW c \in Calls, c = call
      PROVE  /\ console \in {"open", "connect", "send"} => Unsaid(c)'
             /\ console \in {"receive", "reading"} => Said(c, command)'
  <2>1. ASSUME NEW m, m = command, console \in {"receive", "reading"} PROVE Said(c, m)'
    BY <1>4, <1>5, <2>1 DEF ConsoleOwn, Keeps, Calling
  <2>2. console \in {"receive", "reading"} => Said(c, command)'
    BY <1>2, <2>1 DEF Said
  <2> QED
    BY <1>5, <2>2 DEF ConsoleOwn, Keeps
<1>6. /\ console' \in {"open", "connect", "send"} => Unsaid(call)'
      /\ console' \in {"receive", "reading"} => Said(call, command)'
  BY <1>2, <1>4, <1>5 DEF Calling, Unsaid, Said, Refusing, Waiting, Queued
<1> QED
  BY <1>2, <1>3, <1>6 DEF ConsoleOwn, AnswersTo

LEMMA OwnKept ==
  ASSUME ClientsOwn, ConsoleOwn, \A c \in Conns : Keeps(c), UNCHANGED <<peer, talk, here>>, Typed
  PROVE  ClientsOwn' /\ ConsoleOwn'
BY ClientsKept, ConsoleKept DEF Conns

LEMMA ListenOwn ==
  ASSUME IInv, Own, listen
  PROVE  Own'
<1> SUFFICES ASSUME "struck" \notin faults' PROVE ClientsOwn' /\ ConsoleOwn' /\ ReadersOwn'
  BY DEF Own
<1>1. "struck" \notin faults
  BY DEF listen, server_listener_thread_tcp, acceptConnection, AcceptFails, BeginReceive,
     Dispatch, DispatchFails, ReceiveUnknown, Refuse, ReceiveEnd, Delete, Close
<1>2. ClientsOwn /\ ConsoleOwn /\ ReadersOwn
  BY <1>1 DEF Own
<1>3. \A c \in Conns : Keeps(c)
  BY <1>1, <1>2, ListenKeeps
<1>4. UNCHANGED <<peer, talk, here>>
  BY DEF listen, server_listener_thread_tcp, acceptConnection, AcceptFails, BeginReceive,
     Dispatch, DispatchFails, ReceiveUnknown, Refuse, ReceiveEnd, Delete, others, clients
<1>5. ReadersOwn'
  <2> USE DEF toListener
  <2>0. /\ held \in [Readers -> Ends \cup {Nothing}] /\ UNCHANGED <<console, call>>
        /\ SocketTypes /\ LoopTypes /\ thread \in [Conns -> ThreadSteps]
    BY <1>4 DEF IInv, Typed, SocketTypes, ThreadTypes, here
  <2>1. \A r \in Readers : r # "listener" => held'[r] = held[r]
    <3>1. CASE Take("listener")
      BY <2>0, <3>1, TakeKeeps, ReadersDiffer
    <3>2. CASE \/ held' = held
               \/ \E e : held' = [held EXCEPT !["listener"] = e]
      BY <2>0, <3>2
    <3> QED
      BY <3>1, <3>2 DEF listen, server_listener_thread_tcp, acceptConnection, AcceptFails,
         BeginReceive, Dispatch, DispatchFails, ReceiveUnknown, Refuse, ReceiveEnd, Delete
  <2>2. \A c \in Conns : thread'[c] = thread[c] \/ thread'[c] = "begin"
    <3>1. CASE Dispatch
      BY <2>0, <3>1 DEF Dispatch
    <3>2. CASE ~Dispatch
      BY <3>2 DEF listen, server_listener_thread_tcp, acceptConnection, AcceptFails,
         BeginReceive, DispatchFails, ReceiveUnknown, Refuse, ReceiveEnd, Delete, threads
    <3> QED
      BY <3>1, <3>2
  <2>3. listener' = "reading" => held'["listener"] = node(serving')
    <3>1. CASE BeginReceive /\ listener' = "reading"
      <4>1. /\ listener = "receive" /\ held'["listener"] = Stream(fd[node(serving)])
            /\ Stream(fd[node(serving)]) # Nothing /\ serving' = serving
        BY <2>0, <3>1, ReadersDiffer DEF BeginReceive
      <4>2. serving \in Conns /\ node(serving) \in Ends
        BY <2>0, <4>1, EndsDiffer DEF LoopTypes
      <4>3. node(serving) \in Live
        BY <4>2, WhatLives DEF IInv, Busy
      <4> QED
        BY <1>1, <4>1, <4>2, <4>3, AtLive
    <3>2. CASE ~(BeginReceive /\ listener' = "reading")
      <4>1. listener' = "reading" => FALSE
        BY <3>2 DEF listen, server_listener_thread_tcp, acceptConnection, AcceptFails,
           BeginReceive, Dispatch, DispatchFails, ReceiveUnknown, Refuse, ReceiveEnd, Delete, loop
      <4> QED
        BY <4>1
    <3> QED
      BY <3>1, <3>2
  <2>4. /\ "console" \in Readers /\ "console" # "listener"
        /\ \A c \in Conns : c \in Readers /\ c # "listener"
    BY ReadersDiffer
  <2> QED
    BY <1>2, <2>0, <2>1, <2>2, <2>3, <2>4 DEF ReadersOwn
<1> QED
  BY <1>2, <1>3, <1>4, <1>5, OwnKept DEF IInv

LEMMA HandleOwn ==
  ASSUME IInv, Own, NEW t \in Conns, handle(t)
  PROVE  Own'
<1> SUFFICES ASSUME "struck" \notin faults' PROVE ClientsOwn' /\ ConsoleOwn' /\ ReadersOwn'
  BY DEF Own
<1>1. "struck" \notin faults
  BY DEF handle, handler, awaits, Begin, SendAnswer, Receive, ReadFlag, ReadChoice, ReceiveFile,
     EndTransfer, Reply, CompileFails, OpenTrain, SliceFails, CloseSlice, SendResult, CloseTrain,
     CloseNode, DeleteArgument, Destroy, sockets, Close
<1>2. ClientsOwn /\ ConsoleOwn /\ ReadersOwn
  BY <1>1 DEF Own
<1>3. \A c \in Conns : Keeps(c)
  BY <1>1, <1>2, HandleKeeps
<1>4. UNCHANGED <<peer, talk, here, listener, serving, console, call>>
  BY HandleFrame DEF IInv, here
<1>5. ReadersOwn'
  <2>0. /\ held \in [Readers -> Ends \cup {Nothing}] /\ SocketTypes
        /\ thread \in [Conns -> ThreadSteps] /\ t \in Readers
    BY ReadersDiffer DEF IInv, Typed, SocketTypes, ThreadTypes
  <2>1. \A r \in Readers : r # t => held'[r] = held[r]
    <3>1. CASE ReceiveFile(t)
      BY <2>0, <3>1, TakeKeeps DEF ReceiveFile
    <3>2. CASE ~ReceiveFile(t)
      BY <2>0, <3>2 DEF handle, handler, awaits, Begin, SendAnswer, Receive, ReadFlag, ReadChoice,
         EndTransfer, Reply, CompileFails, OpenTrain, SliceFails, CloseSlice, SendResult,
         CloseTrain, CloseNode, DeleteArgument, Destroy, sockets
    <3> QED
      BY <3>1, <3>2
  <2>2. \A c \in Conns : c # t => thread'[c] = thread[c]
    BY <2>0, HandleFrame DEF IInv
  <2>3. thread'[t] \in {"reading flag", "reading file"} => held'[t] = node(t)
    <3> DEFINE Reads == thread'[t] \in {"reading flag", "reading file"}
    <3>1. CASE Receive(t)
      <4>1. /\ thread[t] \in {"flag", "file"} /\ held'[t] = Stream(fd[node(t)])
            /\ Reads => Stream(fd[node(t)]) # Nothing
        BY <2>0, <3>1 DEF Receive, Returned
      <4>2. Busy(t)
        BY <4>1 DEF Busy, Serving
      <4>3. node(t) \in Live /\ node(t) \in Ends
        BY <4>2, WhatLives, EndsDiffer DEF IInv
      <4> QED
        BY <1>1, <4>1, <4>3, AtLive
    <3>2. CASE ~Receive(t)
      <4>1. \/ thread'[t] = thread[t]
            \/ thread'[t] \in Answers \cup {"flag", "job", "file", "prompt", "reply", "compute",
                                            "broken"} \cup Idle
        <5>1. Begin(t) => thread'[t] \in Answers
          <6>1. Begin(t) => asked[t] \in Dispatched
            BY StepNames, HandlePlace DEF Placed, Begin, toThread
          <6> QED
            BY <2>0, <6>1, AnswersToKnown DEF Begin, toThread
        <5>2. SendAnswer(t) => thread'[t] \in {"delete", "flag", "job"}
          <6>1. SendAnswer(t) => asked[t] \in Dispatched
            BY StepNames, HandlePlace DEF Placed, SendAnswer
          <6> QED
            BY <2>0, <6>1, AfterAnswerTyped DEF SendAnswer
        <5> QED
          BY <2>0, <3>2, <5>1, <5>2 DEF handle, handler, awaits, ReadFlag, ReadChoice,
             ReceiveFile, EndTransfer, Reply, CompileFails, OpenTrain, SliceFails, CloseSlice,
             SendResult, CloseTrain, CloseNode, DeleteArgument, Destroy, threads, toThread,
             Returned, Idle
      <4>2. ASSUME Reads PROVE FALSE
        <5>1. {"reading flag", "reading file"} \cap (Answers \cup Idle) = {}
          BY Names DEF ShareSteps, Idle
        <5>2. CompileFails(t)
          <6>1. thread[t] \in {"reading flag", "reading file"}
            BY <4>1, <4>2, <5>1
          <6>2. ReadFlag(t) \/ ReceiveFile(t) \/ EndTransfer(t)
            BY <3>2, <5>1, <6>1 DEF handle, handler, awaits, Begin, SendAnswer, ReadChoice, Reply,
               CompileFails, OpenTrain, SliceFails, CloseSlice, SendResult, CloseTrain, CloseNode,
               DeleteArgument, Destroy, toThread
          <6>3. thread'[t] \in {"file", "prompt", "reply"} \cup Idle
            BY <2>0, <6>2 DEF ReadFlag, ReceiveFile, EndTransfer, Returned, Idle
          <6> QED
            BY <4>2, <5>1, <6>3
        <5>3. thread'[t] = "job"
          BY <5>2 DEF CompileFails, threads
        <5> QED
          BY <4>2, <5>3
      <4> QED
        BY <4>2
    <3> QED
      BY <3>1, <3>2
  <2>4. /\ t # "console" /\ t # "listener" /\ "console" \in Readers /\ "listener" \in Readers
        /\ Conns \subseteq Readers
    BY ReadersDiffer
  <2> QED
    BY <1>2, <1>4, <2>1, <2>2, <2>3, <2>4 DEF ReadersOwn
<1> QED
  BY <1>2, <1>3, <1>4, <1>5, OwnKept DEF IInv

\* What a client is at after it has read.
LEMMA ReadAnswerOwn ==
  ASSUME IInv, ClientsOwn, NEW c \in Clients, ReadAnswer(c)
  PROVE  /\ talk'[c] = Nothing => Over(c)'
         /\ talk'[c] \in {"shareFile", "accepted"} => Sharing(c)'
         /\ talk'[c] = "distributiveComputing" => Computing(c)'
<1>types. /\ inbox \in [Ends -> Messages \cup {Nothing}]
          /\ talk \in [Clients -> {Nothing, "shareFile", "accepted", "distributiveComputing"}]
          /\ node(c) \in Ends /\ far(c) \in Ends /\ node(c) # far(c)
  BY EndsDiffer DEF IInv, Typed, SocketTypes, PeerTypes, Conns
<1>names. Nothing \notin {"shareFile", "accepted", "distributiveComputing"}
  BY MessagesAssumption DEF Messages, Dispatched, InPlace
<1> DEFINE m == inbox[far(c)]
<1>1. /\ peer[c] \in Requests /\ m # Nothing /\ talk'[c] = TalkAfter(c, m)
      /\ inbox'[far(c)] = Nothing /\ inbox'[node(c)] = inbox[node(c)]
  BY <1>types DEF ReadAnswer
<1>2. UNCHANGED <<queue, listener, serving, thread, asked>>
  BY DEF ReadAnswer, Unaware, loop, threads
<1>3. CASE talk[c] = Nothing
  <2>1. /\ ~Waiting(c) /\ ~Refusing(c) /\ thread[c] \notin Answers \cup {"begin"}
        /\ thread[c] \in ShareSteps =>
             /\ peer[c] = "shareFile" /\ m \in {SUCCESS, Nothing}
             /\ inbox[node(c)] = Nothing
        /\ thread[c] \in Works =>
             peer[c] = "distributiveComputing" /\ m = OPEN_SHAREFILE_CONNECTION
    BY <1>1, <1>3 DEF ClientsOwn, Said
  <2>2. ~Waiting(c)' /\ ~Refusing(c)' /\ thread'[c] = thread[c]
    BY <1>2, <2>1 DEF Waiting, Refusing, Queued
  <2>3. CASE <<peer[c], m>> = <<"shareFile", SUCCESS>>
    <3>1. TalkAfter(c, m) = "shareFile"
      BY <1>3, <2>3, <1>names DEF TalkAfter
    <3>2. Nothing \notin {File, Body} /\ peer[c] = "shareFile" /\ m = SUCCESS
      BY <2>3, Words
    <3>n. "shareFile" # "distributiveComputing" /\ \A s \in ShareSteps : s \notin Works
      BY Names
    <3>4. thread[c] \in ShareSteps => thread[c] # "reply" /\ inbox[node(c)] = Nothing
      BY <1>3, <1>1 DEF ClientsOwn, Said
    <3>5. thread[c] \notin Works
      BY <2>1, <3>2, <3>n
    <3>3. Sharing(c)'
      BY <1>1, <2>1, <2>2, <3>2, <3>4, <3>5 DEF Sharing
    <3> QED
      BY <1>1, <1>names, <3>1, <3>3
  <2>4. CASE <<peer[c], m>> = <<"distributiveComputing", OPEN_SHAREFILE_CONNECTION>>
    <3>1. talk'[c] = "distributiveComputing"
      BY <1>1, <1>3, <1>names, <2>4 DEF TalkAfter
    <3>2. Computing(c)'
      BY <1>1, <2>1, <2>2, <2>4 DEF Computing
    <3> QED
      BY <1>names, <3>1, <3>2
  <2>5. CASE /\ <<peer[c], m>> # <<"shareFile", SUCCESS>>
             /\ <<peer[c], m>> # <<"distributiveComputing", OPEN_SHAREFILE_CONNECTION>>
    <3>1. talk'[c] = Nothing
      BY <1>1, <1>3, <1>names, <2>5 DEF TalkAfter
    <3>2. thread[c] \notin ShareSteps \cup Works
      BY <1>1, <2>1, <2>5
    <3>3. Over(c)'
      BY <1>1, <2>1, <2>2, <3>2 DEF Over
    <3> QED
      BY <1>names, <3>1, <3>3
  <2> QED
    BY <2>3, <2>4, <2>5
<1>4. CASE talk[c] \in {"shareFile", "accepted"}
  <2>1. talk'[c] \in {"shareFile", "accepted"}
    BY <1>1, <1>4, <1>names DEF TalkAfter
  <2>2. Sharing(c)
    BY <1>4 DEF ClientsOwn
  <2>3. Sharing(c)'
    BY <1>1, <1>2, <2>2 DEF Sharing, Waiting, Refusing, Queued
  <2> QED
    BY <1>names, <2>1, <2>3
<1>5. CASE talk[c] = "distributiveComputing"
  <2>1. talk'[c] = "distributiveComputing"
    BY <1>1, <1>5, <1>names DEF TalkAfter
  <2>2. Computing(c)
    BY <1>5 DEF ClientsOwn
  <2>3. Computing(c)'
    BY <1>1, <1>2, <2>2 DEF Computing, Waiting, Refusing, Queued
  <2> QED
    BY <1>names, <2>1, <2>3
<1> QED
  BY <1>types, <1>3, <1>4, <1>5

\* What a client is at after it has asked.
LEMMA AskOwn ==
  ASSUME IInv, ClientsOwn, NEW c \in Clients, Ask(c)
  PROVE  /\ peer'[c] \in Requests /\ talk' = talk
         /\ talk[c] = Nothing => Said(c, peer[c])'
         /\ talk[c] \in {"shareFile", "accepted"} => Sharing(c)'
         /\ talk[c] = "distributiveComputing" => Computing(c)'
<1>types. /\ inbox \in [Ends -> Messages \cup {Nothing}]
          /\ peer \in [Clients -> PeerSteps \cup Requests]
          /\ node(c) \in Ends /\ far(c) \in Ends /\ node(c) # far(c)
  BY EndsDiffer DEF IInv, Typed, SocketTypes, PeerTypes, Conns
<1>1. PICK m \in Requests :
        /\ peer' = [peer EXCEPT ![c] = m]
        /\ Says(c, m)
  BY DEF Ask
<1>2. /\ peer[c] \in {"connected", "answered"} /\ peer'[c] = m /\ talk' = talk
      /\ inbox'[far(c)] = inbox[far(c)]
      /\ inbox'[node(c)] \in {inbox[node(c)], Joined(inbox[node(c)], m)}
  BY <1>types, <1>1 DEF Ask, AtPrompt, Says
<1>names. Nothing \notin {"shareFile", "accepted", "distributiveComputing"}
  BY MessagesAssumption DEF Messages, Dispatched, InPlace
<1>3. UNCHANGED <<queue, listener, serving, thread, asked>>
  BY DEF Ask, Unaware, loop, threads
<1>4. CASE talk[c] = Nothing
  <2>1. CASE peer[c] = "connected"
    <3>1. Unsaid(c)
      BY <2>1 DEF ClientsOwn
    <3>2. inbox'[node(c)] \in {m, Nothing}
      BY <1>2, <3>1 DEF Unsaid, Joined
    <3>3. Said(c, m)'
      BY <1>2, <1>3, <3>1, <3>2, Names DEF Unsaid, Said, Refusing
    <3>4. Said(c, peer[c])'
      BY <1>2, <3>3
    <3> QED
      BY <1>2, <1>4, <1>names, <3>4
  <2>2. CASE peer[c] = "answered"
    <3>1. Over(c)
      BY <1>4, <2>2 DEF ClientsOwn
    <3>2. Said(c, m)'
      BY <1>2, <1>3, <3>1 DEF Over, Said, Refusing, Waiting, Queued
    <3>3. Said(c, peer[c])'
      BY <1>2, <3>2
    <3> QED
      BY <1>2, <1>4, <1>names, <3>3
  <2> QED
    BY <1>2, <2>1, <2>2
<1>5. CASE talk[c] \in {"shareFile", "accepted"}
  <2>1. Sharing(c)
    BY <1>5 DEF ClientsOwn
  <2>2. m \notin {File, Body} /\ Mixed \notin {File, Body}
    BY MessagesAssumption DEF Later, File, Body, Mixed
  <2>3. inbox[node(c)] \notin {File, Body} => inbox'[node(c)] \notin {File, Body}
    BY <1>2, <2>2 DEF Joined
  <2>4. Sharing(c)'
    BY <1>2, <1>3, <2>1, <2>3 DEF Sharing, Waiting, Refusing, Queued
  <2> QED
    BY <1>2, <1>5, <1>names, <2>4
<1>6. CASE talk[c] = "distributiveComputing"
  <2>1. Computing(c)
    BY <1>6 DEF ClientsOwn
  <2>2. Computing(c)'
    BY <1>2, <1>3, <2>1 DEF Computing, Waiting, Refusing, Queued
  <2> QED
    BY <1>2, <1>6, <1>names, <2>2
<1>7. talk[c] \in {Nothing, "shareFile", "accepted", "distributiveComputing"}
  BY DEF IInv, Typed, PeerTypes
<1> QED
  BY <1>2, <1>4, <1>5, <1>6, <1>7

\* The clients.
LEMMA UseOwn ==
  ASSUME IInv, Own, NEW c \in Clients, use(c)
  PROVE  Own'
<1> SUFFICES ASSUME "struck" \notin faults' PROVE ClientsOwn' /\ ConsoleOwn' /\ ReadersOwn'
  BY DEF Own
<1>0. UNCHANGED <<here, held, listener, serving, thread, asked, faults>>
  BY DEF use, Connect, Ask, Leave, Upload, client, ReadAnswer, LoseConnection, Unaware, loop,
     threads
<1>1. "struck" \notin faults /\ c \in Conns
  BY <1>0 DEF Conns
<1>2. ClientsOwn /\ ConsoleOwn /\ ReadersOwn
  BY <1>1 DEF Own
<1>3. ReadersOwn'
  BY <1>0, <1>2 DEF ReadersOwn, here
<1>types. /\ queue \in Seq(Conns) /\ inbox \in [Ends -> Messages \cup {Nothing}]
          /\ peer \in [Clients -> PeerSteps \cup Requests]
          /\ talk \in [Clients -> {Nothing, "shareFile", "accepted", "distributiveComputing"}]
          /\ node(c) \in Ends /\ far(c) \in Ends /\ node(c) # far(c)
  BY <1>1, EndsDiffer DEF IInv, Typed, SocketTypes, QueueTypes, PeerTypes
<1>4. /\ queue' = queue \/ queue' = Append(queue, c)
      /\ \A d \in Clients : d # c => peer'[d] = peer[d] /\ talk'[d] = talk[d]
      /\ \A e \in Ends : e \notin {node(c), far(c)} => inbox'[e] = inbox[e]
  BY <1>types DEF use, Connect, Ask, Leave, Upload, Says, client, ReadAnswer, LoseConnection,
     Established, toPeer
<1>5. \A d \in Conns : d # c => (Waiting(d)' => Waiting(d))
  <2>1. CASE queue' = queue
    BY <1>0, <2>1 DEF Waiting, Queued
  <2>2. CASE queue' = Append(queue, c)
    <3>1. /\ Len(queue') = Len(queue) + 1 /\ Len(queue) \in Nat /\ queue'[Len(queue) + 1] = c
          /\ \A k \in 1 .. Len(queue) : queue'[k] = queue[k]
      BY <1>types, <1>1, <2>2
    <3>2. \A k \in 1 .. Len(queue') : k \in 1 .. Len(queue) \/ k = Len(queue) + 1
      BY <3>1
    <3> QED
      BY <1>0, <3>1, <3>2 DEF Waiting, Queued
  <2> QED
    BY <1>4, <2>1, <2>2
<1>6. ASSUME NEW d \in Conns, d # c PROVE Keeps(d)
  <2>1. node(d) \in Ends /\ far(d) \in Ends /\ {node(d), far(d)} \cap {node(c), far(c)} = {}
    BY <1>1, <1>6, EndsDiffer
  <2> QED
    BY <1>0, <1>4, <1>5, <1>6, <2>1, Recedes DEF Refusing
<1>7. ConsoleOwn'
  <2>1. \A d \in Calls : d \in Conns /\ d # c
    BY ConnsAssumption DEF Conns
  <2> QED
    BY <1>0, <1>2, <1>6, <2>1, ConsoleKept DEF IInv
<1>names. /\ Nothing \notin {"shareFile", "accepted", "distributiveComputing"}
          /\ \A m \in Requests : m \notin PeerSteps
  BY MessagesAssumption, RequestsAssumption DEF Messages, Dispatched, InPlace
<1>8. /\ peer'[c] \in {"idle", "connected"} => Unsaid(c)' /\ talk'[c] = Nothing
      /\ peer'[c] \in Requests /\ talk'[c] = Nothing => Said(c, peer[c])'
      /\ peer'[c] = "answered" /\ talk'[c] = Nothing => Over(c)'
      /\ talk'[c] \in {"shareFile", "accepted"} => Sharing(c)'
      /\ talk'[c] = "distributiveComputing" => Computing(c)'
  <2>1. CASE Connect(c)
    <3>1. /\ peer[c] = "idle" /\ peer'[c] = "connected" /\ inbox' = inbox
          /\ talk'[c] = talk[c]
      BY <1>types, <2>1 DEF Connect, toPeer
    <3>2. Unsaid(c) /\ Unsaid(c)' /\ talk'[c] = Nothing
      BY <1>0, <1>2, <3>1 DEF ClientsOwn, Unsaid, Refusing
    <3> QED
      BY <1>names, <3>1, <3>2 DEF PeerSteps
  <2>2. CASE Ask(c)
    <3>1. /\ peer'[c] \in Requests /\ talk' = talk
          /\ talk[c] = Nothing => Said(c, peer[c])'
          /\ talk[c] \in {"shareFile", "accepted"} => Sharing(c)'
          /\ talk[c] = "distributiveComputing" => Computing(c)'
      BY <1>2, <2>2, AskOwn
    <3> QED
      BY <1>names, <3>1 DEF PeerSteps
  <2>3. CASE Leave(c) \/ Upload(c) \/ LoseConnection(c)
    <3>1. peer'[c] \in {"gone", "lost"} /\ talk'[c] = Nothing
      BY <1>types, <2>3 DEF Leave, Upload, LoseConnection, toPeer
    <3> QED
      BY <1>names, <3>1 DEF PeerSteps
  <2>4. CASE ReadAnswer(c)
    <3>1. peer'[c] = "answered"
      BY <1>types, <2>4 DEF ReadAnswer
    <3>2. /\ talk'[c] = Nothing => Over(c)'
          /\ talk'[c] \in {"shareFile", "accepted"} => Sharing(c)'
          /\ talk'[c] = "distributiveComputing" => Computing(c)'
      BY <1>2, <2>4, ReadAnswerOwn
    <3> QED
      BY <1>names, <3>1, <3>2 DEF PeerSteps
  <2> QED
    BY <2>1, <2>2, <2>3, <2>4 DEF use, client
<1>9. ClientsOwn'
  <2>1. ASSUME NEW d \in Clients, d # c
        PROVE  /\ peer'[d] \in {"idle", "connected"} => Unsaid(d)' /\ talk'[d] = Nothing
               /\ peer'[d] \in Requests /\ talk'[d] = Nothing => Said(d, peer[d])'
               /\ peer'[d] = "answered" /\ talk'[d] = Nothing => Over(d)'
               /\ talk'[d] \in {"shareFile", "accepted"} => Sharing(d)'
               /\ talk'[d] = "distributiveComputing" => Computing(d)'
    <3>1. peer'[d] = peer[d] /\ talk'[d] = talk[d] /\ Keeps(d)
      BY <1>4, <1>6, <2>1 DEF Conns
    <3>2. peer[d] \in Requests => Open(far(d))
      BY DEF Open, far
    <3>3. ASSUME peer[d] \in Requests, talk[d] = Nothing PROVE Said(d, peer[d])'
      <4>1. ASSUME NEW m, m = peer[d] PROVE Said(d, m)'
        BY <1>2, <3>1, <3>2, <3>3, <4>1 DEF ClientsOwn, Keeps
      <4> QED
        BY <3>1, <4>1 DEF Said, AnswersTo
    <3> QED
      BY <1>2, <3>1, <3>3 DEF ClientsOwn, Keeps
  <2> QED
    BY <1>8, <2>1 DEF ClientsOwn
<1> QED
  BY <1>3, <1>7, <1>9

\* A step of the console that says nothing.
LEMMA QuietRests ==
  ASSUME UNCHANGED <<queue, inbox, apart>>, NEW c \in Conns
  PROVE  Keeps(c)
BY Rests DEF apart, loop, threads

\* The console's own steps.
LEMMA RunsOwn ==
  ASSUME IInv, Own, runs
  PROVE  Own'
<1> SUFFICES ASSUME "struck" \notin faults' PROVE ClientsOwn' /\ ConsoleOwn' /\ ReadersOwn'
  BY DEF Own
<1>0. UNCHANGED apart
  BY DEF runs, PrintUnknown, OpenSocket, connect_socket, ConnectFails, SendCommand, AwaitAnswer,
     ReceiveResult, ReceiveNothing, Return, PrintStatus, PrintReceive
<1>1. "struck" \notin faults
  BY DEF runs, PrintUnknown, OpenSocket, connect_socket, ConnectFails, SendCommand, AwaitAnswer,
     ReceiveResult, ReceiveNothing, Return, PrintStatus, PrintReceive, sockets, Close
<1>2. ClientsOwn /\ ConsoleOwn /\ ReadersOwn
  BY <1>1 DEF Own
<1>3. UNCHANGED <<listener, serving, thread, asked, peer, talk>>
  BY <1>0 DEF apart, loop, threads, clients
<1>types. /\ queue \in Seq(Conns) /\ inbox \in [Ends -> Messages \cup {Nothing}]
          /\ held \in [Readers -> Ends \cup {Nothing}] /\ SocketTypes
          /\ console \in Calling => call \in Calls \ left /\ call \in Conns
          /\ left \subseteq Calls /\ left \subseteq Conns
  BY DEF IInv, Typed, SocketTypes, QueueTypes, HereTypes, Conns
<1>live. Talking => far(call) \in Live /\ Stream(fd[far(call)]) \in {far(call), Nothing}
  <2>1. Talking => far(call) \in Live /\ far(call) \in Ends
    BY <1>types, WhatLives, EndsDiffer DEF IInv, Talking, Calling
  <2> QED
    BY <1>1, <2>1, AtLive
<1>readers. /\ "listener" \in Readers /\ "console" \in Readers /\ "listener" # "console"
            /\ Conns \subseteq Readers /\ \A c \in Conns : c # "console"
  BY ReadersDiffer
<1>held. \A r \in Readers : r # "console" => held'[r] = held[r]
  <2>1. CASE ReceiveResult
    BY <1>types, <1>readers, <2>1, TakeKeeps DEF ReceiveResult
  <2>2. CASE ~ReceiveResult
    BY <1>types, <2>2 DEF runs, PrintUnknown, OpenSocket, connect_socket, ConnectFails,
       SendCommand, AwaitAnswer, ReceiveNothing, Return, PrintStatus, PrintReceive, sockets
  <2> QED
    BY <2>1, <2>2
<1> USE DEF toConsole
<1>4. CASE UNCHANGED <<queue, inbox>>
  <2>1. ClientsOwn'
    BY <1>0, <1>2, <1>3, <1>4, QuietRests, ClientsKept DEF Conns
  <2>2. /\ \A c : Unsaid(c)' <=> Unsaid(c)
        /\ \A c, m : Said(c, m)' <=> Said(c, m)
    BY <1>3, <1>4 DEF Unsaid, Said, Refusing, Waiting, Queued, AnswersTo
  <2>3. ASSUME UNCHANGED <<console, command, call, left, result, held>>
        PROVE  ConsoleOwn' /\ ReadersOwn'
    BY <1>2, <1>3, <1>4, <2>2, <2>3 DEF ConsoleOwn, ReadersOwn, Unsaid, Said, Refusing, Waiting,
       Queued, AnswersTo
  <2>4. CASE PrintUnknown
    <3>1. /\ console = "unknown" /\ console' = "prompt"
          /\ UNCHANGED <<command, call, left, result, held>>
      BY <2>4 DEF PrintUnknown, sockets
    <3> QED
      BY <1>2, <1>3, <1>held, <1>readers, <2>1, <2>2, <3>1 DEF ConsoleOwn, ReadersOwn
  <2>5. CASE OpenSocket
    <3>1. /\ console = "open" /\ console' = "connect"
          /\ UNCHANGED <<command, call, left, result, held>>
      BY <2>5 DEF OpenSocket
    <3>2. Unsaid(call)'
      BY <1>2, <1>3, <1>4, <3>1 DEF ConsoleOwn, Unsaid, Refusing
    <3> QED
      BY <1>2, <1>3, <1>held, <1>readers, <2>1, <2>2, <3>1, <3>2 DEF ConsoleOwn, ReadersOwn
  <2>6. CASE ConnectFails
    <3>1. /\ console = "connect" /\ console' = "return"
          /\ UNCHANGED <<command, call, left, result, held>>
      BY <2>6 DEF ConnectFails
    <3> QED
      BY <1>2, <1>3, <1>held, <1>readers, <2>1, <2>2, <3>1 DEF ConsoleOwn, ReadersOwn
  <2>7. CASE AwaitAnswer
    <3>1. /\ console = "receive" /\ console' \in {"return", "reading"}
          /\ UNCHANGED <<command, call, left, result>>
          /\ console' = "reading" => held'["console"] = far(call)
      BY <1>types, <1>live, <1>readers, <2>7 DEF AwaitAnswer, Talking
    <3>2. Said(call, command)'
      BY <1>2, <1>3, <1>4, <3>1 DEF ConsoleOwn, Said, Refusing, Waiting, Queued, AnswersTo
    <3> QED
      BY <1>2, <1>3, <1>held, <1>readers, <2>1, <2>2, <3>1, <3>2 DEF ConsoleOwn, ReadersOwn
  <2>8. CASE ReceiveNothing
    <3>1. /\ console = "reading" /\ console' = "return"
          /\ UNCHANGED <<command, call, left, result>>
      BY <1>types, <2>8 DEF ReceiveNothing
    <3> QED
      BY <1>2, <1>3, <1>held, <1>readers, <2>1, <2>2, <3>1 DEF ConsoleOwn, ReadersOwn
  <2>9. CASE Return
    <3>1. /\ console = "return" /\ console' = "print" /\ UNCHANGED <<command, left, result, held>>
      BY <2>9 DEF Return
    <3> QED
      BY <1>2, <1>3, <1>held, <1>readers, <2>1, <2>2, <3>1 DEF ConsoleOwn, ReadersOwn, AnswersTo
  <2>10. CASE PrintStatus
    <3>1. /\ console = "print" /\ console' = "prompt" /\ result' = Nothing
          /\ UNCHANGED <<left, held>>
      BY <2>10 DEF PrintStatus, Resume, sockets
    <3> QED
      BY <1>2, <1>3, <1>held, <1>readers, <2>1, <2>2, <3>1 DEF ConsoleOwn, ReadersOwn
  <2>11. CASE PrintReceive
    <3>1. /\ console = "print" /\ console' \in {"spin", "discard"} /\ UNCHANGED <<left, held>>
      BY <2>11 DEF PrintReceive, sockets
    <3> QED
      BY <1>2, <1>3, <1>held, <1>readers, <2>1, <2>2, <3>1 DEF ConsoleOwn, ReadersOwn
  <2>12. CASE connect_socket
    <3>1. queue' = Append(queue, call) /\ FALSE
      BY <1>4, <1>types, <2>12 DEF connect_socket, Established
    <3> QED
      BY <3>1
  <2>13. CASE SendCommand
    <3>1. /\ console = "send" /\ console' = "receive"
          /\ UNCHANGED <<command, call, left, result, held>>
      BY <2>13 DEF SendCommand
    <3>2. Unsaid(call) /\ Said(call, command)'
      <4>1. Unsaid(call)
        BY <1>2, <3>1 DEF ConsoleOwn
      <4> QED
        BY <1>3, <1>4, <3>1, <4>1, Names DEF Unsaid, Said, Refusing
    <3> QED
      BY <1>2, <1>3, <1>held, <1>readers, <2>1, <2>2, <3>1, <3>2 DEF ConsoleOwn, ReadersOwn
  <2>14. CASE ReceiveResult
    <3>0. console = "reading" /\ held["console"] = far(call)
      BY <1>2, <2>14 DEF ReceiveResult, ReadersOwn
    <3>1. /\ inbox[far(call)] # Nothing /\ call \in Conns
          /\ inbox' = [inbox EXCEPT ![far(call)] = Nothing]
      BY <1>types, <2>14, <3>0 DEF ReceiveResult, Take, Calling
    <3>2. inbox'[far(call)] = Nothing
      BY <1>types, <3>1, EndsDiffer
    <3> QED
      BY <1>4, <3>1, <3>2
  <2> QED
    BY <2>1, <2>4, <2>5, <2>6, <2>7, <2>8, <2>9, <2>10, <2>11, <2>12, <2>13, <2>14 DEF runs
<1>5. CASE connect_socket
  <2>1. /\ console = "connect" /\ console' = "send" /\ queue' = Append(queue, call)
        /\ UNCHANGED <<inbox, command, call, left, result, held>> /\ call \in Calls \ left
        /\ call \in Conns
    BY <1>5, <1>types DEF connect_socket, Established, Calling
  <2>2. ASSUME NEW c \in Conns, c # call PROVE Keeps(c)
    <3>1. /\ Len(queue') = Len(queue) + 1 /\ Len(queue) \in Nat /\ queue'[Len(queue) + 1] = call
          /\ \A k \in 1 .. Len(queue) : queue'[k] = queue[k]
      BY <1>types, <2>1
    <3>2. \A k \in 1 .. Len(queue') : k \in 1 .. Len(queue) \/ k = Len(queue) + 1
      BY <3>1
    <3>3. Waiting(c)' => Waiting(c)
      BY <1>3, <2>2, <3>1, <3>2 DEF Waiting, Queued
    <3> QED
      BY <1>3, <2>1, <3>3, Recedes DEF Refusing
  <2>3. ClientsOwn'
    <3>1. \A c \in Clients : c \in Conns /\ c # call
      BY <2>1, ConnsAssumption DEF Conns
    <3> QED
      BY <1>2, <1>3, <2>2, <3>1, ClientsKept
  <2>4. \A c \in left : Unsaid(c)'
    BY <1>2, <1>types, <2>1, <2>2 DEF ConsoleOwn, Keeps
  <2>5. Unsaid(call)'
    BY <1>2, <1>3, <1>held, <1>readers, <2>1 DEF ConsoleOwn, Unsaid, Refusing
  <2> QED
    BY <1>2, <1>3, <1>held, <1>readers, <2>1, <2>3, <2>4, <2>5 DEF ConsoleOwn, ReadersOwn
<1>6. CASE SendCommand
  <2>1. /\ console = "send" /\ console' = "receive" /\ inbox' = Sent(fd[far(call)], command)
        /\ UNCHANGED <<queue, command, call, left, result, held>> /\ call \in Calls \ left
        /\ call \in Conns /\ Unsaid(call)
    BY <1>2, <1>6, <1>types DEF SendCommand, Calling, ConsoleOwn
  <2>3. node(call) \in Ends /\ far(call) \in Ends /\ node(call) # far(call)
    BY <2>1, EndsDiffer
  <2>2. \/ inbox' = inbox
        \/ inbox' = [inbox EXCEPT ![node(call)] = Joined(inbox[node(call)], command)]
    BY <1>1, <1>live, <2>1, <2>3, SentFrom, Others DEF Talking
  <2>4. inbox'[far(call)] = Nothing /\ inbox'[node(call)] \in {command, Nothing}
    BY <1>types, <2>1, <2>2, <2>3 DEF Unsaid, Joined
  <2>5. Said(call, command)'
    BY <1>3, <2>1, <2>4, Names DEF Unsaid, Said, Refusing
  <2>6. ASSUME NEW c \in Conns, c # call PROVE Keeps(c)
    <3>1. node(c) \in Ends /\ far(c) \in Ends /\ node(c) # node(call) /\ far(c) # node(call)
      BY <2>1, <2>6, EndsDiffer
    <3>2. inbox'[node(c)] = inbox[node(c)] /\ inbox'[far(c)] = inbox[far(c)]
      BY <1>types, <2>2, <3>1
    <3> QED
      BY <1>3, <2>1, <3>2, Recedes DEF Refusing, Waiting, Queued
  <2>7. ClientsOwn'
    <3>1. \A c \in Clients : c \in Conns /\ c # call
      BY <2>1, ConnsAssumption DEF Conns
    <3> QED
      BY <1>2, <1>3, <2>6, <3>1, ClientsKept
  <2>8. \A c \in left : Unsaid(c)'
    BY <1>2, <1>types, <2>1, <2>6 DEF ConsoleOwn, Keeps
  <2> QED
    BY <1>2, <1>3, <1>held, <1>readers, <2>1, <2>5, <2>7, <2>8 DEF ConsoleOwn, ReadersOwn
<1>7. CASE ReceiveResult
  <2>1. /\ console = "reading" /\ console' = "return" /\ held["console"] = far(call)
        /\ inbox[far(call)] # Nothing /\ result' = inbox[far(call)]
        /\ inbox' = [inbox EXCEPT ![far(call)] = Nothing]
        /\ UNCHANGED <<queue, command, call, left>> /\ call \in Calls \ left /\ call \in Conns
    BY <1>2, <1>7, <1>types DEF ReceiveResult, Take, ReadersOwn, Calling
  <2>2. result' \in AnswersTo(command)
    BY <1>2, <2>1 DEF ConsoleOwn, Said
  <2>3. ASSUME NEW c \in Conns, c # call PROVE Keeps(c)
    <3>1. node(c) \in Ends /\ far(c) \in Ends /\ node(c) # far(call) /\ far(c) # far(call)
      BY <2>1, <2>3, EndsDiffer
    <3>2. inbox'[node(c)] = inbox[node(c)] /\ inbox'[far(c)] = inbox[far(c)]
      BY <1>types, <2>1, <3>1
    <3> QED
      BY <1>3, <2>1, <3>2, Recedes DEF Refusing, Waiting, Queued
  <2>4. ClientsOwn'
    <3>1. \A c \in Clients : c \in Conns /\ c # call
      BY <2>1, ConnsAssumption DEF Conns
    <3> QED
      BY <1>2, <1>3, <2>3, <3>1, ClientsKept
  <2>5. \A c \in left : Unsaid(c)'
    BY <1>2, <1>types, <2>1, <2>3 DEF ConsoleOwn, Keeps
  <2>6. result' \in (AnswersTo(command) \cup {Nothing})'
    BY <2>1, <2>2 DEF AnswersTo
  <2> QED
    BY <1>2, <1>3, <1>held, <1>readers, <2>1, <2>4, <2>5, <2>6 DEF ConsoleOwn, ReadersOwn
<1>8. UNCHANGED <<queue, inbox>> \/ connect_socket \/ SendCommand \/ ReceiveResult
  BY DEF runs, PrintUnknown, OpenSocket, ConnectFails, AwaitAnswer,
     ReceiveNothing, Return, PrintStatus, PrintReceive, sockets
<1> QED
  BY <1>4, <1>5, <1>6, <1>7, <1>8

\* What is typed, and what is discarded.
Typing ==
  \/ /\ console \in {"prompt", "offer"} /\ UNCHANGED <<result, call, left>>
     /\ console' \in {"prompt", "offer", "unknown"}
  \/ /\ console \in {"prompt", "offer"} /\ UNCHANGED result
     /\ console' \in {"open", "request"} /\ call' \in left /\ left' \subseteq left
  \/ /\ console = "discard" /\ UNCHANGED left
     /\ console' = "prompt" /\ result' = Nothing

LEMMA InputTypes == Input => UNCHANGED <<sockets, apart>> /\ Typing
<1> USE DEF toConsole
<1>1. ASSUME NEW line \in Lines, ReadLine(line)
      PROVE  UNCHANGED <<sockets, apart>> /\ Typing
  <2>1. console = "prompt" /\ UNCHANGED <<sockets, apart, result>>
    BY <1>1 DEF ReadLine
  <2>2. \/ Run(CHOOSE c \in Commands : line = Table[c])
        \/ console' \in {"unknown", "offer"} /\ UNCHANGED <<call, left>>
    BY <1>1 DEF ReadLine
  <2>3. \/ console' = "prompt" /\ UNCHANGED <<call, left>>
        \/ console' \in {"open", "request"} /\ call' \in left /\ left' \subseteq left
        \/ console' \in {"unknown", "offer"} /\ UNCHANGED <<call, left>>
    BY <2>1, <2>2 DEF Run
  <2> QED
    BY <2>1, <2>3 DEF Typing
<1>2. ASSUME NEW choice \in {"y", "n", "e"}, Choose(choice)
      PROVE  UNCHANGED <<sockets, apart>> /\ Typing
  <2>1. console = "offer" /\ UNCHANGED <<sockets, apart, result>>
    BY <1>2 DEF Choose
  <2>2. \/ Run(suggestion)
        \/ console' = "prompt" /\ UNCHANGED <<call, left>>
    BY <1>2 DEF Choose
  <2>3. \/ console' \in {"prompt", "offer"} /\ UNCHANGED <<call, left>>
        \/ console' \in {"open", "request"} /\ call' \in left /\ left' \subseteq left
    BY <2>1, <2>2 DEF Run
  <2> QED
    BY <2>1, <2>3 DEF Typing
<1>3. ASSUME clear_stdin PROVE UNCHANGED <<sockets, apart>> /\ Typing
  BY <1>3 DEF clear_stdin, Resume, Typing
<1> QED
  BY <1>1, <1>2, <1>3 DEF Input

LEMMA InputOwn ==
  ASSUME IInv, Own, Input
  PROVE  Own'
<1> SUFFICES ASSUME "struck" \notin faults' PROVE ClientsOwn' /\ ConsoleOwn' /\ ReadersOwn'
  BY DEF Own
<1>1. UNCHANGED <<sockets, apart>> /\ Typing
  BY InputTypes
<1>2. UNCHANGED <<queue, inbox, faults, held, listener, serving, thread, asked, peer, talk>>
  BY <1>1 DEF sockets, apart, loop, threads, clients
<1>3. ClientsOwn /\ ConsoleOwn /\ ReadersOwn
  BY <1>2 DEF Own
<1>4. ClientsOwn'
  BY <1>1, <1>2, <1>3, QuietRests, ClientsKept DEF Conns
<1>5. \A c \in left : Unsaid(c) /\ Unsaid(c)'
  BY <1>2, <1>3 DEF ConsoleOwn, Unsaid, Refusing
<1>6. ReadersOwn'
  BY <1>1, <1>2, <1>3 DEF ReadersOwn, Typing
<1>7. ConsoleOwn'
  <2>1. /\ left' \subseteq left /\ result' = Nothing
        /\ console' \in {"prompt", "offer", "unknown", "open", "request"}
        /\ console' = "open" => call' \in left
    BY <1>1, <1>3 DEF Typing, ConsoleOwn
  <2>2. \A c \in left' : Unsaid(c)'
    BY <1>5, <2>1
  <2>3. ASSUME console' = "open" PROVE Unsaid(call)'
    BY <1>2, <1>5, <2>1, <2>3 DEF Unsaid, Refusing
  <2>4. console' \notin {"connect", "send", "receive", "reading", "return", "print"}
    BY <2>1
  <2> QED
    BY <2>1, <2>2, <2>3, <2>4 DEF ConsoleOwn
<1> QED
  BY <1>4, <1>6, <1>7

\* The sockets of a command carry nothing of this.
LEMMA BroadcastFrame ==
  broadcasts =>
    /\ UNCHANGED <<ended, queue, inbox, held, apart, left, result>>
    /\ console \in Asking /\ console' \in Asking \cup {"prompt"}
BY DEF broadcasts, OpenRequest, CloseRequest, DestroyRequest, EndRemote, BeginRemote, CloseRemote,
   DestroyRemote, OpenPrivate, ClosePrivate, DestroyPrivate, toConsole, Asking, sockets, here

LEMMA BroadcastsOwn ==
  ASSUME IInv, Own, broadcasts
  PROVE  Own'
<1> SUFFICES ASSUME "struck" \notin faults' PROVE ClientsOwn' /\ ConsoleOwn' /\ ReadersOwn'
  BY DEF Own
<1>1. /\ UNCHANGED <<queue, inbox, held, apart, left, result>>
      /\ console \in Asking /\ console' \in Asking \cup {"prompt"}
  BY BroadcastFrame
<1>2. UNCHANGED <<listener, serving, thread, asked, peer, talk>>
  BY <1>1 DEF apart, loop, threads, clients
<1>3. "struck" \notin faults
  BY DEF broadcasts, OpenRequest, CloseRequest, DestroyRequest, EndRemote, BeginRemote,
     CloseRemote, DestroyRemote, OpenPrivate, ClosePrivate, DestroyPrivate, Close, sockets
<1>4. ClientsOwn /\ ConsoleOwn /\ ReadersOwn
  BY <1>3 DEF Own
<1>5. ClientsOwn'
  BY <1>1, <1>2, <1>4, QuietRests, ClientsKept DEF Conns
<1>6. \A c \in left : Unsaid(c)'
  BY <1>1, <1>2, <1>4 DEF ConsoleOwn, Unsaid, Refusing
<1>7. /\ console \notin {"return", "print", "spin", "discard"}
      /\ console' \notin {"open", "connect", "send", "receive", "reading", "return", "print"}
  BY <1>1 DEF Asking
<1>8. ConsoleOwn'
  BY <1>1, <1>4, <1>6, <1>7 DEF ConsoleOwn
<1>9. ReadersOwn'
  BY <1>1, <1>2, <1>4, <1>7 DEF ReadersOwn
<1> QED
  BY <1>5, <1>8, <1>9

LEMMA InitOwn == ConsoleInit => Own
<1> SUFFICES ASSUME ConsoleInit PROVE Own
  OBVIOUS
<1>1. /\ inbox = [e \in Ends |-> Nothing] /\ thread = [c \in Conns |-> "none"]
      /\ listener = "accept" /\ console = "prompt" /\ result = Nothing /\ left \subseteq Calls
      /\ peer \in [Clients -> {"idle", "gone"}] /\ talk = [c \in Clients |-> Nothing]
  BY DEF ConsoleInit, Init
<1>2. \A c \in Conns : Unsaid(c)
  BY <1>1, EndsDiffer DEF Unsaid, Refusing
<1>3. /\ "idle" \notin Requests /\ "gone" \notin Requests
      /\ Nothing \notin {"shareFile", "accepted", "distributiveComputing"}
  BY RequestsAssumption, MessagesAssumption DEF PeerSteps, Messages, Dispatched, InPlace
<1>4. "none" \notin {"reading flag", "reading file"}
  OBVIOUS
<1> QED
  BY <1>1, <1>2, <1>3, <1>4 DEF Own, ClientsOwn, ConsoleOwn, ReadersOwn, Conns

LEMMA NextOwn ==
  ASSUME IInv, Own, [Next]_vars
  PROVE  Own'
<1>1. CASE listen
  BY <1>1, ListenOwn
<1>2. ASSUME NEW c \in Conns, handle(c) PROVE Own'
  BY <1>2, HandleOwn
<1>3. ASSUME NEW c \in Clients, use(c) PROVE Own'
  BY <1>3, UseOwn
<1>4. CASE runs
  BY <1>4, RunsOwn
<1>5. CASE Input
  BY <1>5, InputOwn
<1>6. CASE broadcasts
  BY <1>6, BroadcastsOwn
<1>7. CASE UNCHANGED vars
  <2>1. /\ UNCHANGED <<queue, inbox, apart, peer, talk, here, faults, held>>
        /\ UNCHANGED <<listener, serving, thread>>
    BY <1>7 DEF vars, sockets, loop, threads, apart, others, clients
  <2>2. ("struck" \notin faults') => ClientsOwn' /\ ConsoleOwn'
    BY <2>1, QuietRests, OwnKept DEF Own, IInv
  <2>3. ("struck" \notin faults') => ReadersOwn'
    BY <2>1 DEF Own, ReadersOwn, here
  <2> QED
    BY <2>2, <2>3 DEF Own
<1> QED
  BY <1>1, <1>2, <1>3, <1>4, <1>5, <1>6, <1>7 DEF Next

\* What a client or the console reads is the answer that is due.
LEMMA OwnAnswers == IInv /\ Own => AnswersOwnCommand
<1> SUFFICES ASSUME IInv, Own, "struck" \notin faults
             PROVE  /\ \A c \in Clients :
                         peer[c] \in Requests /\ inbox[far(c)] # Nothing => inbox[far(c)] \in Due(c)
                    /\ console = "print" /\ result # Nothing => result \in AnswersTo(command)
  BY DEF AnswersOwnCommand
<1>0. ClientsOwn /\ ConsoleOwn
  BY DEF Own
<1>1. ASSUME NEW c \in Clients, peer[c] \in Requests, inbox[far(c)] # Nothing
      PROVE  inbox[far(c)] \in Due(c)
  <2>1. talk[c] \in {Nothing, "shareFile", "accepted", "distributiveComputing"}
    BY DEF IInv, Typed, PeerTypes
  <2>2. Nothing \notin {"shareFile", "accepted", "distributiveComputing"}
    BY MessagesAssumption DEF Messages, Dispatched, InPlace
  <2>3. CASE talk[c] = Nothing
    <3>1. inbox[far(c)] \in AnswersTo(peer[c])
      BY <1>0, <1>1, <2>3 DEF ClientsOwn, Said
    <3> QED
      BY <2>2, <2>3, <3>1 DEF Due
  <2>4. CASE talk[c] \in {"shareFile", "accepted"}
    <3>1. inbox[far(c)] \in {SUCCESS, REJECT_CONNECTION}
      BY <1>0, <1>1, <2>4 DEF ClientsOwn, Sharing
    <3> QED
      BY <2>2, <2>4, <3>1 DEF Due
  <2>5. CASE talk[c] = "distributiveComputing"
    <3>1. inbox[far(c)] = Result
      BY <1>0, <1>1, <2>5 DEF ClientsOwn, Computing
    <3> QED
      BY <2>2, <2>5, <3>1 DEF Due
  <2> QED
    BY <2>1, <2>3, <2>4, <2>5
<1> QED
  BY <1>0, <1>1 DEF ConsoleOwn

\* Unless a number was closed under somebody's hands (receivefile.cpp:7 and its like), each
\* client and the console read the answer to their own command, or what the long command
\* that they began says next.
THEOREM ProcessAnswersOwnCommand == Spec => []AnswersOwnCommand
<1>1. ConsoleInit => Own
  BY InitOwn
<1>2. IInv /\ Own /\ [Next]_vars => Own'
  BY NextOwn
<1> QED
  BY InitIInv, StepIInv, <1>1, <1>2, OwnAnswers, PTL DEF Spec

-----------------------------------------------------------------------------
(* An answer comes, as long as nothing went wrong *)

\* An answer that is not lost: what it answers, or it itself, is on its way.
Coming(c) ==
  \/ Waiting(c) /\ inbox[node(c)] \in Local
  \/ thread[c] \in Answers \cup {"begin"}
  \/ inbox[far(c)] # Nothing

CallNumbered == Talking => fd[far(call)] # NoFd

Answerable ==
  /\ console = "send" => Waiting(call) /\ inbox[node(call)] = Nothing
  /\ console \in {"receive", "reading"} => Coming(call)

Met == (console \in {"return", "print", "discard"} => result # Nothing) /\ ended # "abort"

Answered == faults = {} => CallNumbered /\ Answerable /\ Met

\* Whoever is in use can be written to.
LEMMA Reachable ==
  ASSUME IInv, faults = {}, CallNumbered, Running
  PROVE  /\ \A c \in Conns : Busy(c) => Stream(fd[node(c)]) = node(c) /\ Open(node(c))
         /\ \A c \in Conns : Queued(c) => Open(node(c))
         /\ Talking => /\ At(fd[far(call)]) = far(call) /\ Stream(fd[far(call)]) = far(call)
                       /\ Open(far(call))
<1>1. ASSUME NEW e \in Live, e \in Ends, fd[e] # NoFd
      PROVE  At(fd[e]) = e /\ Stream(fd[e]) = e /\ Open(e)
  <2>1. At(fd[e]) = e /\ Stream(fd[e]) = e
    BY <1>1, AtLive
  <2>2. fd[e] \in Fds
    BY <1>1, EndsDiffer DEF IInv, Typed, SocketTypes
  <2> QED
    BY <2>1, <2>2 DEF At, Open
<1>2. \A c \in Conns : Busy(c) => node(c) \in Live /\ node(c) \in Ends /\ fd[node(c)] # NoFd
  BY WhatLives, EndsDiffer DEF IInv, Staged, Numbered
<1>3. Talking => far(call) \in Live /\ far(call) \in Ends
  BY WhatLives, EndsDiffer DEF IInv, Typed, HereTypes, Talking, Calling, Conns
<1>4. \A c \in Conns : Queued(c) => Open(node(c))
  BY DEF Queued, Open, node, IInv, Typed, QueueTypes
<1> QED
  BY <1>1, <1>2, <1>3, <1>4 DEF CallNumbered

\* Faults stay.
LEMMA FaultsStay == [Next]_vars /\ faults' = {} => faults = {}
<1>1. listen /\ faults' = {} => faults = {}
  BY DEF listen, server_listener_thread_tcp, acceptConnection, AcceptFails, BeginReceive,
     Dispatch, DispatchFails, ReceiveUnknown, Refuse, ReceiveEnd, Delete, Close
<1>2. ASSUME NEW c \in Conns, handle(c), faults' = {} PROVE faults = {}
  BY <1>2 DEF handle, handler, awaits, Begin, SendAnswer, Receive, ReadFlag, ReadChoice,
     ReceiveFile, EndTransfer, Reply, CompileFails, OpenTrain, SliceFails, CloseSlice, SendResult,
     CloseTrain, CloseNode, DeleteArgument, Destroy, sockets, Close
<1>3. ASSUME NEW c \in Clients, use(c) PROVE faults' = faults
  BY <1>3 DEF use, Connect, Ask, Leave, Upload, client, ReadAnswer, LoseConnection, Unaware
<1>4. runs /\ faults' = {} => faults = {}
  BY DEF runs, PrintUnknown, OpenSocket, connect_socket, ConnectFails, SendCommand, AwaitAnswer,
     ReceiveResult, ReceiveNothing, Return, PrintStatus, PrintReceive, sockets, Close
<1>5. broadcasts /\ faults' = {} => faults = {}
  BY DEF broadcasts, OpenRequest, CloseRequest, DestroyRequest, EndRemote, BeginRemote,
     CloseRemote, DestroyRemote, OpenPrivate, ClosePrivate, DestroyPrivate, Close, sockets
<1>6. Input => faults' = faults
  BY InputTypes DEF sockets
<1>7. UNCHANGED vars => faults' = faults
  BY DEF vars, sockets
<1> QED
  BY <1>1, <1>2, <1>3, <1>4, <1>5, <1>6, <1>7 DEF Next

\* The console's call keeps its number while others run.
LEMMA CallStaysNumbered ==
  ASSUME Typed, CallNumbered, UNCHANGED <<console, call>>, NEW o \in Objects,
         \A c \in Conns : o # far(c), NEW d, fd' = fd \/ fd' = [fd EXCEPT ![o] = d]
  PROVE  CallNumbered'
<1>1. Talking => far(call) \in Objects /\ far(call) # o
  BY EndsDiffer DEF Typed, HereTypes, Talking, Calling, Conns
<1>2. Talking => fd'[far(call)] = fd[far(call)]
  BY <1>1 DEF Typed, SocketTypes
<1> QED
  BY <1>2 DEF CallNumbered, Talking

LEMMA ListenNumbered ==
  ASSUME IInv, CallNumbered, listen
  PROVE  CallNumbered'
<1>1. Typed /\ UNCHANGED <<console, call>> /\ queue \in Seq(Conns)
      /\ (listener # "accept" => serving \in Conns)
  BY DEF IInv, Typed, QueueTypes, LoopTypes, listen, here
<1>2. \A c \in Conns : node(c) \in Objects /\ \A d \in Conns : node(c) # far(d)
  BY EndsDiffer
<1>3. CASE acceptConnection
  <2>1. Head(queue) \in Conns /\ fd' = [fd EXCEPT ![node(Head(queue))] = Lowest]
    BY <1>1, <1>3 DEF acceptConnection, Number
  <2> QED
    BY <1>1, <1>2, <2>1, CallStaysNumbered
<1>4. CASE Delete
  <2>1. serving \in Conns /\ fd' = [fd EXCEPT ![node(serving)] = NoFd]
    BY <1>1, <1>4 DEF Delete, Forget, toListener
  <2> QED
    BY <1>1, <1>2, <2>1, CallStaysNumbered
<1>5. CASE ~acceptConnection /\ ~Delete
  <2>1. fd' = fd
    BY <1>5 DEF listen, server_listener_thread_tcp, AcceptFails, BeginReceive,
       Dispatch, DispatchFails, ReceiveUnknown, Refuse, ReceiveEnd
  <2> QED
    BY <1>1, <2>1 DEF CallNumbered, Talking
<1> QED
  BY <1>3, <1>4, <1>5

LEMMA HandleNumbered ==
  ASSUME IInv, CallNumbered, NEW t \in Conns, handle(t)
  PROVE  CallNumbered'
<1>1. /\ Typed /\ UNCHANGED <<console, call>>
      /\ \/ fd' = fd
         \/ fd' = [fd EXCEPT ![node(t)] = NoFd]
         \/ fd' = [fd EXCEPT ![train(t)] = NoFd]
         \/ fd' = [fd EXCEPT ![train(t)] = Lowest]
  BY HandleFrame DEF IInv, here, Forget, Number
<1>2. /\ node(t) \in Objects /\ train(t) \in Objects
      /\ \A d \in Conns : node(t) # far(d) /\ train(t) # far(d)
  BY EndsDiffer, PrivateDiffer
<1>3. CASE fd' = fd \/ fd' = [fd EXCEPT ![node(t)] = NoFd]
  BY <1>1, <1>2, <1>3, CallStaysNumbered
<1>4. CASE fd' = [fd EXCEPT ![train(t)] = NoFd]
  BY <1>1, <1>2, <1>4, CallStaysNumbered
<1>5. CASE fd' = [fd EXCEPT ![train(t)] = Lowest]
  BY <1>1, <1>2, <1>5, CallStaysNumbered
<1> QED
  BY <1>1, <1>3, <1>4, <1>5

\* A step that sends and takes nothing on c, and leaves it where it is.
LEMMA Stays ==
  ASSUME NEW c \in Conns,
         Waiting(c) => Waiting(c)',
         thread'[c] = thread[c],
         inbox'[node(c)] = inbox[node(c)], inbox'[far(c)] = inbox[far(c)]
  PROVE  /\ Waiting(c) /\ inbox[node(c)] = Nothing => Waiting(c)' /\ inbox'[node(c)] = Nothing
         /\ Coming(c) => Coming(c)'
BY DEF Coming

\* The console's call under a step of another, who may write to it.
LEMMA AnswerableStays ==
  ASSUME Typed, Answerable, UNCHANGED <<console, call>>,
         \A c \in Calls : c = call /\ console \in {"send", "receive", "reading"} =>
           /\ Waiting(c) /\ inbox[node(c)] = Nothing => Waiting(c)' /\ inbox'[node(c)] = Nothing
           /\ Coming(c) => Coming(c)'
  PROVE  Answerable'
<1>1. console \in {"send", "receive", "reading"} => call \in Calls
  BY DEF Typed, HereTypes, Calling
<1> QED
  BY <1>1 DEF Answerable, Coming, Waiting, Queued

\* The accept loop.
LEMMA ListenAnswerable ==
  ASSUME IInv, ReadersOwn, CallNumbered, Answerable, listen, faults = {}, faults' = {}
  PROVE  Answerable'
<1>types. /\ Typed /\ Running /\ serving \in Conns \cup {Nothing} /\ Nothing \notin Conns
          /\ listener # "accept" => serving \in Conns
          /\ inbox \in [Ends -> Messages \cup {Nothing}]
          /\ thread \in [Conns -> ThreadSteps]
          /\ queue \in Seq(Conns)
  BY EndsDiffer DEF IInv, Typed, LoopTypes, SocketTypes, QueueTypes, ThreadTypes, listen,
     server_listener_thread_tcp, acceptConnection, AcceptFails, BeginReceive,
     Dispatch, DispatchFails, ReceiveUnknown, Refuse, ReceiveEnd, Delete
<1>here. UNCHANGED <<console, call>>
  BY DEF listen, here
<1> SUFFICES ASSUME NEW c \in Calls, c = call, console \in {"send", "receive", "reading"}
             PROVE  /\ Waiting(c) /\ inbox[node(c)] = Nothing
                         => Waiting(c)' /\ inbox'[node(c)] = Nothing
                    /\ Coming(c) => Coming(c)'
  BY <1>types, <1>here, AnswerableStays
<1>ends. /\ c \in Conns /\ node(c) \in Ends /\ far(c) \in Ends /\ node(c) # far(c)
         /\ \A d \in Conns : node(d) # far(c) /\ far(d) # node(c)
         /\ \A d \in Conns : d # c => node(d) # node(c) /\ far(d) # far(c)
  BY EndsDiffer DEF Conns
<1>open. Open(far(c))
  BY <1>types, Reachable DEF Talking
<1> USE DEF toListener
<1>1. CASE acceptConnection
  <2>1. /\ serving' = Head(queue) /\ queue' = Tail(queue) /\ queue # <<>>
        /\ listener = "accept" /\ listener' = "receive" /\ UNCHANGED <<inbox, thread>>
    BY <1>1 DEF acceptConnection, threads
  <2>2. Len(queue) \in Nat /\ Len(queue) >= 1 /\ Head(queue) = queue[1]
    BY <1>types, <2>1
  <2>3. /\ Len(queue') = Len(queue) - 1
        /\ \A k \in 1 .. Len(queue') : queue'[k] = queue[k + 1]
    BY <1>types, <2>1, <2>2
  <2>4. Queued(c) => Queued(c)' \/ serving' = c
    <3>1. SUFFICES ASSUME NEW k \in 1 .. Len(queue), queue[k] = c, k # 1
                   PROVE  Queued(c)'
      BY <2>1, <2>2 DEF Queued
    <3>2. k - 1 \in 1 .. Len(queue') /\ queue'[k - 1] = c
      BY <2>2, <2>3, <3>1
    <3> QED
      BY <3>2 DEF Queued
  <2>5. Waiting(c) => Waiting(c)'
    BY <2>1, <2>4 DEF Waiting
  <2> QED
    BY <1>ends, <2>1, <2>5, Stays
<1>2. CASE AcceptFails \/ Delete
  <2>1. /\ listener \in {"accept", "delete"}
        /\ UNCHANGED <<queue, inbox, thread>>
    BY <1>2 DEF AcceptFails, Delete, threads
  <2>2. Waiting(c) => Waiting(c)'
    BY <2>1 DEF Waiting, Queued
  <2> QED
    BY <1>ends, <2>1, <2>2, Stays
<1>3. CASE BeginReceive
  <2>1. /\ listener = "receive" /\ UNCHANGED <<serving, queue, inbox, thread>>
        /\ Stream(fd[node(serving)]) # Nothing => listener' = "reading"
    BY <1>3 DEF BeginReceive, threads
  <2>2. serving = c => Stream(fd[node(c)]) = node(c) /\ node(c) # Nothing
    BY <1>types, <1>ends, Reachable, EndsDiffer DEF Busy
  <2>3. Waiting(c) => Waiting(c)'
    BY <2>1, <2>2 DEF Waiting, Queued
  <2> QED
    BY <1>ends, <2>1, <2>3, Stays
<1>4. CASE Refuse
  <2>1. /\ listener = "refuse" /\ serving \in Conns /\ UNCHANGED <<queue, thread>>
        /\ inbox' = Sent(fd[node(serving)], Unknown)
    BY <1>types, <1>4 DEF Refuse, threads
  <2>2. node(serving) \in Live /\ node(serving) \in Ends
    BY <1>types, <2>1, WhatLives, EndsDiffer DEF Busy
  <2>3. \/ inbox' = inbox
        \/ inbox' = [inbox EXCEPT ![far(serving)] = Joined(inbox[far(serving)], Unknown)]
    BY <2>1, <2>2, SentFrom, Others
  <2>4. inbox'[node(c)] = inbox[node(c)]
    BY <1>types, <1>ends, <2>1, <2>3
  <2>5. inbox'[far(c)] = inbox[far(c)] \/ inbox'[far(c)] # Nothing
    BY <1>types, <1>ends, <2>1, <2>3, Words DEF Joined, Messages
  <2>6. Waiting(c) => Waiting(c)'
    BY <2>1 DEF Waiting, Queued
  <2> QED
    BY <2>1, <2>4, <2>5, <2>6 DEF Coming
<1>5. CASE ReceiveEnd
  <2>1. /\ listener = "reading" /\ serving \in Conns /\ held["listener"] = node(serving)
        /\ ~Open(far(serving)) /\ UNCHANGED <<queue, inbox, thread>>
    BY <1>types, <1>5, Others DEF ReceiveEnd, AtEnd, ReadersOwn, threads
  <2>2. serving # c
    BY <1>open, <2>1
  <2>3. Waiting(c) => Waiting(c)'
    BY <2>1, <2>2 DEF Waiting, Queued
  <2> QED
    BY <1>ends, <2>1, <2>3, Stays
<1>6. CASE Dispatch \/ DispatchFails \/ ReceiveUnknown
  <2>1. /\ listener = "reading" /\ serving \in Conns /\ held["listener"] = node(serving)
        /\ inbox[node(serving)] # Nothing /\ queue' = queue
        /\ inbox' = [inbox EXCEPT ![node(serving)] = Nothing]
    BY <1>types, <1>6, Names DEF Dispatch, DispatchFails, ReceiveUnknown, Take, ReadersOwn
  <2>2. CASE serving # c
    <3>1. thread'[c] = thread[c]
      <4>1. DispatchFails \/ ReceiveUnknown => thread' = thread
        BY DEF DispatchFails, ReceiveUnknown, threads
      <4> QED
        BY <1>types, <1>ends, <1>6, <2>2, <4>1 DEF Dispatch
    <3>2. inbox'[node(c)] = inbox[node(c)] /\ inbox'[far(c)] = inbox[far(c)]
      BY <1>types, <1>ends, <2>1, <2>2
    <3>3. Waiting(c) => Waiting(c)'
      BY <2>1, <2>2 DEF Waiting, Queued
    <3> QED
      BY <1>ends, <3>1, <3>2, <3>3, Stays
  <2>3. CASE serving = c
    <3>1. thread[c] = "none" /\ inbox'[far(c)] = inbox[far(c)] /\ inbox[node(c)] # Nothing
      BY <1>types, <1>ends, <2>1, <2>3, OnePlace
    <3>2. CASE Dispatch
      <4>1. thread'[c] = "begin"
        BY <1>types, <1>ends, <2>3, <3>2 DEF Dispatch
      <4> QED
        BY <3>1, <4>1 DEF Coming
    <3>3. CASE DispatchFails
      BY <3>3 DEF DispatchFails
    <3>4. CASE ReceiveUnknown
      <4>1. inbox[node(c)] \notin Local /\ thread' = thread
        BY <2>1, <2>3, <3>4 DEF ReceiveUnknown, threads, Dispatched, Copying, Local
      <4> QED
        BY <3>1, <4>1, Names DEF Coming
    <3> QED
      BY <1>6, <3>2, <3>3, <3>4
  <2> QED
    BY <2>2, <2>3
<1> QED
  BY <1>1, <1>2, <1>3, <1>4, <1>5, <1>6 DEF listen, server_listener_thread_tcp

\* The handlers.
LEMMA HandleAnswerable ==
  ASSUME IInv, ReadersOwn, CallNumbered, Answerable, NEW t \in Conns, handle(t), faults = {}
  PROVE  Answerable'
<1>types. /\ Typed /\ Running
          /\ inbox \in [Ends -> Messages \cup {Nothing}]
          /\ thread \in [Conns -> ThreadSteps]
  BY HandleFrame DEF IInv, Typed, SocketTypes, ThreadTypes
<1>here. UNCHANGED <<console, call, queue, serving, listener>>
  BY HandleFrame DEF IInv, here
<1> SUFFICES ASSUME NEW c \in Calls, c = call, console \in {"send", "receive", "reading"}
             PROVE  /\ Waiting(c) /\ inbox[node(c)] = Nothing
                         => Waiting(c)' /\ inbox'[node(c)] = Nothing
                    /\ Coming(c) => Coming(c)'
  BY <1>types, <1>here, AnswerableStays
<1>ends. /\ c \in Conns /\ node(c) \in Ends /\ far(c) \in Ends
  BY EndsDiffer DEF Conns
<1>wait. Waiting(c) => Waiting(c)'
  BY <1>here DEF Waiting, Queued
<1>1. CASE t # c
  <2>1. {node(c), far(c)} \cap {node(t), far(t)} = {}
    BY <1>1, <1>ends, EndsDiffer
  <2>2. inbox'[node(c)] = inbox[node(c)] /\ inbox'[far(c)] = inbox[far(c)]
    BY <1>ends, <2>1, HandleInbox
  <2>3. thread'[c] = thread[c]
    BY <1>types, <1>ends, <1>1, HandleFrame
  <2> QED
    BY <1>ends, <1>wait, <2>2, <2>3, Stays
<1>2. CASE t = c
  <2>place. ~Waiting(c) /\ Placed(c) /\ (thread[c] \in Serving => Busy(c))
    BY <1>2, HandlePlace
  <2> SUFFICES ASSUME Coming(c) PROVE Coming(c)'
    BY <2>place
  <2>1. CASE Begin(c)
    <3>1. thread[c] = "begin" /\ asked[c] \in Dispatched /\ thread'[c] = Answer(asked[c])
      BY <1>types, <1>ends, <2>1, <2>place, StepNames DEF Begin, toThread, Placed
    <3> QED
      BY <3>1, AnswersToKnown DEF Coming
  <2>2. CASE ~Begin(c) /\ ~SendAnswer(c)
    <3>1. thread[c] \notin Answers \cup {"begin"}
      <4>1. \/ thread[c] \in ShareSteps \cup JobSteps \cup {"closing", "delete", "destroy"}
        BY <1>2, <2>2 DEF handle, handler, awaits, Receive, ReadFlag, ReadChoice, ReceiveFile,
           EndTransfer, Reply, CompileFails, OpenTrain, SliceFails, CloseSlice, SendResult,
           CloseTrain, CloseNode, DeleteArgument, Destroy, toThread, ShareSteps, JobSteps
      <4> QED
        BY <4>1, StepNames, Names
    <3>2. inbox[far(c)] # Nothing
      BY <2>place, <3>1 DEF Coming
    <3>3. \/ inbox' = inbox
          \/ (ReadFlag(c) \/ ReceiveFile(c))
          \/ /\ thread[c] \in Serving
             /\ \E m \in Messages : inbox' = Sent(fd[node(c)], m)
      BY <1>2, <2>2, Words
         DEF handle, handler, awaits, Receive, ReadFlag, ReadChoice, ReceiveFile,
         EndTransfer, Reply, CompileFails, OpenTrain, SliceFails, CloseSlice, SendResult,
         CloseTrain, CloseNode, DeleteArgument, Destroy, toThread, Serving, sockets
    <3>4. inbox'[far(c)] # Nothing
      <4>1. CASE ReadFlag(c) \/ ReceiveFile(c)
        BY <1>2, <3>2, <4>1, HandleInbox
      <4>2. CASE /\ thread[c] \in Serving
                 /\ \E m \in Messages : inbox' = Sent(fd[node(c)], m)
        <5>1. PICK m \in Messages : inbox' = Sent(fd[node(c)], m)
          BY <4>2
        <5>2. inbox'[far(c)] = inbox[far(c)] \/ inbox'[far(c)] = Joined(inbox[far(c)], m)
          BY <1>2, <2>place, <4>2, <5>1, HandleInbox
        <5> QED
          BY <3>2, <5>2, JoinedIs, Words
      <4> QED
        BY <3>2, <3>3, <4>1, <4>2
    <3> QED
      BY <3>4 DEF Coming
  <2>3. CASE SendAnswer(c)
    <3>1. /\ thread[c] \in Answers /\ thread[c] \in Messages /\ thread[c] \in Serving
          /\ inbox' = Sent(fd[node(c)], thread[c])
      BY <2>3, Words DEF SendAnswer, Serving
    <3>2. Open(far(c))
      BY <1>types, Reachable DEF Talking
    <3>3. inbox'[far(c)] = Joined(inbox[far(c)], thread[c])
      BY <1>2, <2>place, <3>1, <3>2, HandleInbox
    <3>4. inbox'[far(c)] # Nothing
      BY <3>1, <3>3, JoinedIs, Words
    <3> QED
      BY <3>4 DEF Coming
  <2> QED
    BY <2>1, <2>2, <2>3
<1> QED
  BY <1>1, <1>2

\* The clients.
LEMMA UseAnswerable ==
  ASSUME IInv, Answerable, NEW d \in Clients, use(d)
  PROVE  Answerable'
<1>types. /\ Typed /\ queue \in Seq(Conns) /\ inbox \in [Ends -> Messages \cup {Nothing}]
          /\ d \in Conns
  BY DEF IInv, Typed, SocketTypes, QueueTypes, Conns
<1>here. UNCHANGED <<console, call, serving, listener, thread>>
  BY
     DEF use, here, Connect, Ask, Leave, Upload, client, ReadAnswer, LoseConnection, Unaware, loop, threads
<1> SUFFICES ASSUME NEW c \in Calls, c = call, console \in {"send", "receive", "reading"}
             PROVE  /\ Waiting(c) /\ inbox[node(c)] = Nothing
                         => Waiting(c)' /\ inbox'[node(c)] = Nothing
                    /\ Coming(c) => Coming(c)'
  BY <1>types, <1>here, AnswerableStays
<1>ends. /\ c \in Conns /\ node(c) \in Ends /\ far(c) \in Ends
         /\ node(c) \notin {node(d), far(d)} /\ far(c) \notin {node(d), far(d)}
  BY <1>types, EndsDiffer, ConnsAssumption DEF Conns
<1>1. queue' = queue \/ queue' = Append(queue, d)
  BY DEF use, Connect, Ask, Leave, Upload, client, ReadAnswer, LoseConnection, Established
<1>2. Queued(c) => Queued(c)'
  <2>1. Len(queue) \in Nat /\ Len(queue') >= Len(queue)
        /\ \A k \in 1 .. Len(queue) : queue'[k] = queue[k]
    BY <1>types, <1>1
  <2>2. \A k \in 1 .. Len(queue) : k \in 1 .. Len(queue')
    BY <1>1, <1>types
  <2> QED
    BY <2>1, <2>2 DEF Queued
<1>3. Waiting(c) => Waiting(c)'
  BY <1>here, <1>2 DEF Waiting
<1>4. inbox'[node(c)] = inbox[node(c)] /\ inbox'[far(c)] = inbox[far(c)]
  BY <1>types, <1>ends DEF use, Connect, Ask, Leave, Upload, Says, client, ReadAnswer,
     LoseConnection
<1> QED
  BY <1>here, <1>ends, <1>3, <1>4, Stays

LEMMA UseNumbered ==
  ASSUME CallNumbered, NEW d \in Clients, use(d)
  PROVE  CallNumbered'
<1>1. UNCHANGED <<console, call, fd>>
  BY DEF use, here, Connect, Ask, Leave, Upload, client, ReadAnswer, LoseConnection, Unaware
<1> QED
  BY <1>1 DEF CallNumbered, Talking

\* The console.
LEMMA RunsAnswered ==
  ASSUME IInv, ConsoleOwn, ReadersOwn, CallNumbered, Answerable, Met, runs, faults = {}, faults' = {}
  PROVE  CallNumbered' /\ Answerable' /\ Met'
<1>types. /\ Typed /\ Running
          /\ inbox \in [Ends -> Messages \cup {Nothing}] /\ queue \in Seq(Conns)
          /\ fd \in [Objects -> Fds \cup {NoFd}] /\ Ends \subseteq Objects
          /\ console \in Calling =>
               /\ call \in Conns /\ node(call) \in Ends /\ far(call) \in Ends
               /\ node(call) # far(call) /\ \A c \in Conns : node(c) # far(call)
               /\ command \in Local /\ command \in Messages
          /\ Nothing \notin Ends
  BY EndsDiffer, Words
     DEF IInv, Typed, SocketTypes, QueueTypes, HereTypes, Conns, runs, PrintUnknown,
     OpenSocket, connect_socket, ConnectFails, SendCommand, AwaitAnswer, ReceiveResult,
     ReceiveNothing, Return, PrintStatus, PrintReceive
<1>apart. UNCHANGED <<serving, listener, thread>>
  BY DEF runs, PrintUnknown, OpenSocket, connect_socket, ConnectFails, SendCommand, AwaitAnswer,
     ReceiveResult, ReceiveNothing, Return, PrintStatus, PrintReceive, apart, loop, threads
<1>open. Talking => /\ At(fd[far(call)]) = far(call) /\ Stream(fd[far(call)]) = far(call)
                    /\ Open(far(call))
  BY <1>types, Reachable
<1> USE DEF toConsole
<1>1. CASE PrintUnknown \/ PrintStatus \/ PrintReceive
  <2>1. /\ fd' = fd /\ console \in {"unknown", "print"}
        /\ console' \in {"prompt", "spin", "discard"}
        /\ console' = "discard" => console = "print" /\ result' = result
        /\ ended' = "abort" => console = "print" /\ result = Nothing
    BY <1>1, <1>types DEF PrintUnknown, PrintStatus, PrintReceive, Resume, Freed, sockets, Running
  <2>2. ~Talking'
    BY <2>1 DEF Talking
  <2> QED
    BY <2>1, <2>2 DEF CallNumbered, Answerable, Met
<1>2. CASE OpenSocket
  <2>1. /\ console = "open" /\ console' = "connect" /\ call' = call /\ ended' = ended
        /\ Free # {} /\ fd' = [fd EXCEPT ![far(call)] = Lowest]
    BY <1>2 DEF OpenSocket, Number
  <2>2. Lowest # NoFd
    BY <2>1, LowestIsFree, FdsAssumption DEF Free
  <2>3. fd'[far(call)] # NoFd
    BY <1>types, <2>1, <2>2 DEF Calling
  <2> QED
    BY <2>1, <2>3 DEF CallNumbered, Answerable, Met
<1>3. CASE connect_socket
  <2>1. /\ console = "connect" /\ console' = "send" /\ queue' = Append(queue, call)
        /\ UNCHANGED <<call, ended, fd, inbox>> /\ call \in Conns
    BY <1>3, <1>types DEF connect_socket, Established, Calling
  <2>2. inbox'[node(call)] = Nothing
    BY <2>1 DEF ConsoleOwn, Unsaid
  <2>3. Queued(call)'
    <3>1. Len(queue') \in 1 .. Len(queue') /\ queue'[Len(queue')] = call
      BY <1>types, <2>1
    <3> QED
      BY <2>1, <3>1 DEF Queued
  <2> QED
    BY <2>1, <2>2, <2>3 DEF CallNumbered, Answerable, Met, Talking, Waiting
<1>4. ~ConnectFails
  <2>1. ConnectFails => console = "connect" /\ At(fd[far(call)]) # far(call)
    BY DEF ConnectFails
  <2> QED
    BY <1>open, <2>1 DEF Talking
<1>5. CASE SendCommand
  <2>1. /\ console = "send" /\ console' = "receive" /\ inbox' = Sent(fd[far(call)], command)
        /\ UNCHANGED <<call, ended, fd, queue>> /\ call \in Conns
        /\ Waiting(call) /\ inbox[node(call)] = Nothing
    BY <1>5, <1>types DEF SendCommand, Calling, Answerable
  <2>2. Open(node(call))
    BY <1>types, <2>1, Reachable DEF Waiting, Busy
  <2>3. inbox' = [inbox EXCEPT ![node(call)] = Joined(inbox[node(call)], command)]
    BY <1>types, <1>open, <2>1, <2>2, Others DEF Sent, Talking, Calling
  <2>4. inbox'[node(call)] \in Local
    BY <1>types, <2>1, <2>3 DEF Joined, Calling
  <2>5. Waiting(call)'
    BY <1>apart, <2>1 DEF Waiting, Queued
  <2> QED
    BY <2>1, <2>4, <2>5 DEF CallNumbered, Answerable, Met, Coming, Talking
<1>6. CASE AwaitAnswer
  <2>1. /\ console = "receive" /\ UNCHANGED <<call, ended, fd, queue, inbox>>
        /\ Stream(fd[far(call)]) # Nothing => console' = "reading"
    BY <1>6 DEF AwaitAnswer
  <2>2. console' = "reading"
    BY <1>types, <1>open, <2>1 DEF Talking, Calling
  <2>3. Coming(call)'
    BY <1>apart, <2>1 DEF Answerable, Coming, Waiting, Queued
  <2> QED
    BY <2>1, <2>2, <2>3 DEF CallNumbered, Answerable, Met, Talking
<1>7. CASE ReceiveResult
  <2>1. /\ console = "reading" /\ console' = "return" /\ result' # Nothing
        /\ UNCHANGED <<call, ended, fd>>
    BY <1>7 DEF ReceiveResult
  <2> QED
    BY <2>1 DEF CallNumbered, Answerable, Met, Talking
<1>8. ~ReceiveNothing
  <2> SUFFICES ASSUME ReceiveNothing PROVE FALSE
    OBVIOUS
  <2>1. console = "reading" /\ AtEnd(held["console"]) /\ held["console"] = far(call)
    BY DEF ReceiveNothing, ReadersOwn
  <2>2. call \in Conns
    BY <1>types, <2>1 DEF Calling
  <2>3. inbox[far(call)] = Nothing /\ ~Open(node(call))
    BY <2>1, <2>2, Others DEF AtEnd
  <2>4. Waiting(call) \/ thread[call] \in Answers \cup {"begin"}
    BY <2>1, <2>3 DEF Answerable, Coming
  <2>5. Queued(call) \/ Busy(call)
    BY <2>4 DEF Waiting, Busy, Serving
  <2> QED
    BY <1>types, <2>2, <2>3, <2>5, Reachable
<1>9. CASE Return
  <2>1. /\ console = "return" /\ console' = "print" /\ UNCHANGED <<ended, result>>
    BY <1>9 DEF Return
  <2> QED
    BY <2>1 DEF CallNumbered, Answerable, Met, Talking
<1> QED
  BY <1>1, <1>2, <1>3, <1>4, <1>5, <1>6, <1>7, <1>8, <1>9 DEF runs

\* What is typed.
LEMMA InputAnswered ==
  ASSUME Met, Input
  PROVE  CallNumbered' /\ Answerable' /\ Met'
<1>1. Typing
  BY InputTypes
<1>2. console' \in {"prompt", "offer", "unknown", "open", "request"}
  BY <1>1 DEF Typing
<1>3. ended' # "abort"
  <2>1. ASSUME NEW line \in Lines, ReadLine(line) PROVE ended' # "abort"
    BY <2>1 DEF ReadLine, Run, Met
  <2>2. ASSUME NEW choice \in {"y", "n", "e"}, Choose(choice) PROVE ended' # "abort"
    BY <2>2 DEF Choose, Run, Met
  <2>3. clear_stdin => ended' # "abort"
    BY DEF clear_stdin, Resume, Freed, Met
  <2> QED
    BY <2>1, <2>2, <2>3 DEF Input
<1> QED
  BY <1>1, <1>2, <1>3 DEF CallNumbered, Answerable, Met, Talking

\* The sockets of a command.
LEMMA BroadcastsAnswered ==
  ASSUME Met, broadcasts
  PROVE  CallNumbered' /\ Answerable' /\ Met'
<1>1. ended' = ended /\ console' \in Asking \cup {"prompt"}
  BY BroadcastFrame
<1>2. console' \notin {"connect", "send", "receive", "reading", "return", "print", "discard"}
  BY <1>1 DEF Asking
<1> QED
  BY <1>1, <1>2 DEF CallNumbered, Answerable, Met, Talking

LEMMA NextAnswered ==
  ASSUME IInv, Own, Answered, [Next]_vars
  PROVE  Answered'
<1> SUFFICES ASSUME faults' = {} PROVE CallNumbered' /\ Answerable' /\ Met'
  BY DEF Answered
<1>1. faults = {} /\ CallNumbered /\ Answerable /\ Met /\ ClientsOwn /\ ConsoleOwn /\ ReadersOwn
  BY FaultsStay DEF Answered, Own
<1>2. CASE listen
  <2>1. Met'
    BY <1>1, <1>2
       DEF Met, listen, here, server_listener_thread_tcp, acceptConnection, AcceptFails,
       BeginReceive, Dispatch, DispatchFails, ReceiveUnknown, Refuse, ReceiveEnd, Delete
  <2> QED
    BY <1>1, <1>2, <2>1, ListenNumbered, ListenAnswerable
<1>3. ASSUME NEW t \in Conns, handle(t) PROVE CallNumbered' /\ Answerable' /\ Met'
  <2>1. Met'
    <3>1. UNCHANGED here /\ ended' \in {ended, "exit"}
      BY <1>3 DEF handle, handler, awaits, Begin, SendAnswer, Receive, ReadFlag, ReadChoice,
         ReceiveFile, EndTransfer, Reply, CompileFails, OpenTrain, SliceFails, CloseSlice,
         SendResult, CloseTrain, CloseNode, DeleteArgument, Destroy
    <3> QED
      BY <1>1, <3>1 DEF Met, here
  <2> QED
    BY <1>1, <1>3, <2>1, HandleNumbered, HandleAnswerable
<1>4. ASSUME NEW d \in Clients, use(d) PROVE CallNumbered' /\ Answerable' /\ Met'
  <2>1. Met'
    BY <1>1, <1>4 DEF Met, use, here, client, Connect, Ask, Leave, Upload, ReadAnswer,
       LoseConnection, Unaware
  <2> QED
    BY <1>1, <1>4, <2>1, UseNumbered, UseAnswerable
<1>5. CASE runs
  BY <1>1, <1>5, RunsAnswered
<1>6. CASE Input
  BY <1>1, <1>6, InputAnswered
<1>7. CASE broadcasts
  BY <1>1, <1>7, BroadcastsAnswered
<1>8. CASE UNCHANGED vars
  BY <1>1, <1>8 DEF vars, sockets, loop, threads, here, CallNumbered, Answerable, Met, Talking,
     Coming, Waiting, Queued
<1> QED
  BY <1>2, <1>3, <1>4, <1>5, <1>6, <1>7, <1>8 DEF Next

LEMMA InitAnswered == ConsoleInit => Answered
BY DEF ConsoleInit, Init, Answered, CallNumbered, Answerable, Met, Talking

\* The free of a constant (handlestatus.cpp:16, recievefile.cpp:28) ends a process only
\* after a fault of the machine or a close of somebody else's number: until then the
\* listener always has an answer for the console.
THEOREM ProcessAbortsOnlyOnFaults == Spec => []AbortsOnlyOnFaults
<1>1. ConsoleInit => Own /\ Answered
  BY InitOwn, InitAnswered
<1>2. IInv /\ Own /\ Answered /\ [Next]_vars => Own' /\ Answered'
  BY NextOwn, NextAnswered
<1>3. Answered => AbortsOnlyOnFaults
  BY DEF Answered, Met, AbortsOnlyOnFaults
<1> QED
  BY InitIInv, StepIInv, <1>1, <1>2, <1>3, PTL DEF Spec
=============================================================================
