------------------------------ MODULE Listener ------------------------------
(***************************************************************************)
(* One process as its peers see it: the accept loop of src/tcpServer.cpp,  *)
(* the threads that it starts by server_dispatch_table, and the            *)
(* descriptors that class Socket of src/Sockets/linuxSockets.cpp wraps.    *)
(*                                                                         *)
(* A connection has two ends, the node's and the far one.  A descriptor is *)
(* a number that the kernel gives out again as soon as it was closed; a    *)
(* Socket object keeps the number, not the connection, and may close it    *)
(* twice.                                                                  *)
(*                                                                         *)
(* The process has other sockets and files whose numbers it closes twice:  *)
(* the train file of a job's handler, the UDP socket of sendRequest, the   *)
(* sockets of remote calls.  What goes through them is in modules          *)
(* ComputeServer, Discovery and Coordinator; here a socket that uses their *)
(* numbers by mistake fails.                                               *)
(***************************************************************************)
EXTENDS Naturals, Sequences

CONSTANTS
  Clients,    \* connections from other processes
  Calls,      \* connections of the process's own console, to SELFIP
  Requests,   \* what the clients ask for
  Fds,        \* the descriptors that are left for these sockets
  Backlog,    \* connections that the kernel keeps for accept, on Linux one more
              \* than listen asks for
  Remotes,    \* the nodes that the console's command calls
  Nothing     \* no message, no end, no connection

Conns == Clients \cup Calls
node(c) == <<c, "node">>
far(c) == <<c, "far">>
Ends == Conns \X {"node", "far"}
Other(e) == <<e[1], IF e[2] = "node" THEN "far" ELSE "node">>

\* The train file of a job's handler, and what a command of the console opens.
train(c) == <<c, "train">>
udp(c) == <<c, "udp">>
remote(c, r) == <<c, r>>
Private == Conns \X ({"train", "udp"} \cup Remotes)
Objects == Ends \cup Private
Readers == {"listener", "console"} \cup Conns   \* a handler is named by its connection

NoFd == 0
ASSUME FdsAssumption == Fds \subseteq Nat \ {NoFd}
ASSUME ConnsAssumption ==
  /\ Clients \cap Calls = {} /\ Conns \cap {"listener", "console"} = {}
  /\ Nothing \notin Objects /\ Nothing \notin Conns
  /\ Remotes \cap {"node", "far", "train", "udp"} = {}
ASSUME BacklogAssumption == Backlog \in Nat \ {0}

\* server_dispatch_table: the handlers that copy their Socket object, and the
\* ones that use it in place.
Copying == {"status", "connect", "receiveFile", "closeReceiveFile"}
InPlace == {"shareFile", "distributiveComputing"}
Dispatched == Copying \cup InPlace

SUCCESS == "Success"
OPEN_SHAREFILE_CONNECTION == "Share file connection open"
RECEIVER_NO_OPEN_CONNECTION == "Receiver IP don't have an open connection for receiving file"
Unknown == "Unknown Command"
Answers == {SUCCESS, OPEN_SHAREFILE_CONNECTION, RECEIVER_NO_OPEN_CONNECTION, Unknown, "1"}

\* What the long commands say later: the user's refusal and a job's number.
REJECT_CONNECTION == "Reciever Reject the connection request"
Result == "result"

\* A file as the senders of a job send it, with a flag byte of zero, and without it.
File == "file and flag"
Body == "file"

\* One recv returns everything that lies in the stream: several messages, or the
\* rest of one.
Mixed == "mixed"
Joined(old, new) == IF old = Nothing THEN new ELSE Mixed
Later == {REJECT_CONNECTION, Result, File, Body, Mixed}
Messages == Requests \cup Dispatched \cup Answers \cup Later
ASSUME MessagesAssumption ==
  Nothing \notin Messages \cup {"accepted"} /\ Requests \cap (Answers \cup Later) = {}

\* A client that waits for an answer is at its request.
PeerSteps == {"idle", "connected", "answered", "lost", "gone"}
ASSUME RequestsAssumption == Requests \cap PeerSteps = {}

VARIABLES
  ended,        \* whether the process is gone: "no", "exit" or "abort"
  descriptor,   \* the end that a number refers to
  fd,           \* the number in the Socket object of an end
  held,         \* the end on which a thread sits in recv
  inbox,        \* what lies in the stream towards an end
  queue,        \* connections that are established and not accepted
  faults,       \* history: what went wrong so far
  listener,     \* where the accept loop is
  serving,      \* the connection of its Socket object
  thread,       \* the handler threads
  asked,        \* the command that a handler was started for
  askclientShareFile,
  OPEN_RECEIVE_FILE_CONNECTION,
  life,         \* whether a private object is open or its number closed already
  peer,         \* the clients; one that waits for an answer is at its request
  talk          \* the long command that a client's handler is at

sockets == <<descriptor, fd, held, inbox, queue, faults>>
loop == <<listener, serving>>
threads == <<thread, asked, askclientShareFile, OPEN_RECEIVE_FILE_CONNECTION>>
clients == <<peer, talk>>
others == <<clients, life>>

Running == ended = "no"
toListener(from, to) == listener = from /\ listener' = to
toThread(c, from, to) == thread[c] = from /\ thread' = [thread EXCEPT ![c] = to]
toPeer(c, from, to) == peer[c] = from /\ peer' = [peer EXCEPT ![c] = to]

-----------------------------------------------------------------------------
(* Sockets *)

Free == {d \in Fds : descriptor[d] = Nothing}
Lowest == CHOOSE d \in Free : \A x \in Free : d <= x

\* What a number refers to, if it is one and open, and the end that it reads and writes.
At(d) == IF d \in Fds THEN descriptor[d] ELSE Nothing
Stream(d) == IF At(d) \in Ends THEN At(d) ELSE Nothing

\* An end is open as long as its client needs it, or the process has a number that
\* refers to it, is in a recv that uses it, or has not accepted it yet.
Open(e) ==
  \/ /\ Running
     /\ \/ \E d \in Fds : descriptor[d] = e
        \/ \E r \in Readers : held[r] = e
        \/ e[2] = "node" /\ \E k \in DOMAIN queue : queue[k] = e[1]
  \/ e[2] = "far" /\ e[1] \in Clients /\ peer[e[1]] \in Requests \cup {"connected", "answered"}

\* sendData: what goes to an end that is gone is lost.
Sent(d, m) ==
  IF Stream(d) # Nothing /\ Open(Other(Stream(d)))
  THEN [inbox EXCEPT ![Other(Stream(d))] = Joined(@, m)]
  ELSE inbox

\* recv on end e returns 0.
AtEnd(e) == inbox[e] = Nothing /\ ~Open(Other(e))

\* The reader that waits in recv takes what is there.
Take(reader) ==
  /\ held' = [held EXCEPT ![reader] = Nothing]
  /\ inbox' = [inbox EXCEPT ![held[reader]] = Nothing]

\* The next number goes to object o.
Number(o) ==
  /\ descriptor' = [descriptor EXCEPT ![Lowest] = o]
  /\ fd' = [fd EXCEPT ![o] = Lowest]

\* close of the number that object e has, in its destructor or before.
Close(e) ==
  /\ descriptor' = [d \in Fds |-> IF d = fd[e] THEN Nothing ELSE descriptor[d]]
  /\ faults' = IF At(fd[e]) \in {Nothing, e} THEN faults ELSE faults \cup {"struck"}

\* The last object with that number is gone.
Forget(e) == fd' = [fd EXCEPT ![e] = NoFd]

Init ==
  /\ ended = "no"
  /\ descriptor = [d \in Fds |-> Nothing]
  /\ fd = [o \in Objects |-> NoFd]
  /\ life = [o \in Private |-> "none"]
  /\ held = [r \in Readers |-> Nothing]
  /\ inbox = [e \in Ends |-> Nothing]
  /\ queue = <<>>
  /\ faults = {}
  /\ listener = "accept" /\ serving = Nothing
  /\ thread = [c \in Conns |-> "none"]
  /\ asked = [c \in Conns |-> Nothing]
  /\ askclientShareFile = [c \in Conns |-> FALSE]
  /\ OPEN_RECEIVE_FILE_CONNECTION = 0
  /\ peer \in [Clients -> {"idle", "gone"}]   \* some never appear
  /\ talk = [c \in Clients |-> Nothing]

-----------------------------------------------------------------------------
(* server_listener_thread_tcp *)

\* new Socket and accept.
acceptConnection ==
  /\ Running
  /\ queue # <<>> /\ Free # {}
  /\ toListener("accept", "receive")
  /\ serving' = Head(queue)
  /\ queue' = Tail(queue)
  /\ Number(node(Head(queue)))
  /\ UNCHANGED <<ended, held, inbox, faults, threads, others>>

\* No descriptor is left: recv on -1 fails as well, and the loop begins anew.
AcceptFails ==
  /\ Running
  /\ listener = "accept"
  /\ queue # <<>> /\ Free = {}
  /\ faults' = faults \cup {"no descriptor"}
  /\ UNCHANGED <<ended, descriptor, fd, held, inbox, queue, loop, threads, others>>

\* The call of recv, on whatever the number refers to by now.
BeginReceive ==
  /\ Running
  /\ listener = "receive"
  /\ LET e == Stream(fd[node(serving)])
     IN  /\ listener' = IF e = Nothing THEN "delete" ELSE "reading"
         /\ held' = [held EXCEPT !["listener"] = e]
  /\ UNCHANGED <<ended, descriptor, fd, inbox, queue, faults, serving, threads, others>>

DispatchAndDelete ==   \* the Socket object is deleted as if nobody had it
  /\ Running
  /\ toListener("reading", "delete")
  /\ inbox[held["listener"]] \in Dispatched
  /\ thread' = [thread EXCEPT ![serving] = "begin"]
  /\ asked' = [asked EXCEPT ![serving] = inbox[held["listener"]]]
  /\ Take("listener")
  /\ UNCHANGED <<ended, descriptor, fd, queue, faults, serving, askclientShareFile,
                 OPEN_RECEIVE_FILE_CONNECTION, others>>

\* A known command gets a thread, which owns the Socket object from now on.
Dispatch ==
  /\ Running
  /\ toListener("reading", "accept")
  /\ inbox[held["listener"]] \in Dispatched
  /\ thread' = [thread EXCEPT ![serving] = "begin"]
  /\ asked' = [asked EXCEPT ![serving] = inbox[held["listener"]]]
  /\ Take("listener")
  /\ serving' = Nothing
  /\ UNCHANGED <<ended, descriptor, fd, queue, faults, askclientShareFile,
                 OPEN_RECEIVE_FILE_CONNECTION, others>>

DispatchFails ==
  /\ Running
  /\ toListener("reading", "delete")
  /\ inbox[held["listener"]] \in Dispatched
  /\ Take("listener")
  /\ faults' = faults \cup {"no thread"}
  /\ UNCHANGED <<ended, descriptor, fd, queue, serving, threads, others>>

IgnoreUnknown ==   \* neither answered nor closed
  /\ Running
  /\ toListener("reading", "accept")
  /\ inbox[held["listener"]] \notin Dispatched \cup {Nothing}
  /\ Take("listener")
  /\ serving' = Nothing
  /\ UNCHANGED <<ended, descriptor, fd, queue, faults, threads, others>>

ReceiveUnknown ==
  /\ Running
  /\ toListener("reading", "refuse")
  /\ inbox[held["listener"]] \notin Dispatched \cup {Nothing}
  /\ Take("listener")
  /\ UNCHANGED <<ended, descriptor, fd, queue, faults, serving, threads, others>>

Refuse ==
  /\ Running
  /\ toListener("refuse", "delete")
  /\ inbox' = Sent(fd[node(serving)], Unknown)
  /\ UNCHANGED <<ended, descriptor, fd, held, queue, faults, serving, threads, others>>

ReceiveAgain ==   \* the end is taken for nothing yet
  /\ Running
  /\ toListener("reading", "receive")
  /\ AtEnd(held["listener"])
  /\ held' = [held EXCEPT !["listener"] = Nothing]
  /\ UNCHANGED <<ended, descriptor, fd, inbox, queue, faults, serving, threads, others>>

\* The client has gone without a command.
ReceiveEnd ==
  /\ Running
  /\ toListener("reading", "delete")
  /\ AtEnd(held["listener"])
  /\ held' = [held EXCEPT !["listener"] = Nothing]
  /\ UNCHANGED <<ended, descriptor, fd, inbox, queue, faults, serving, threads, others>>

Delete ==
  /\ Running
  /\ toListener("delete", "accept")
  /\ Close(node(serving)) /\ Forget(node(serving))
  /\ serving' = Nothing
  /\ UNCHANGED <<ended, held, inbox, queue, threads, others>>

server_listener_thread_tcp ==
  \/ acceptConnection \/ AcceptFails \/ BeginReceive \/ Dispatch \/ DispatchFails
  \/ ReceiveUnknown \/ Refuse \/ ReceiveEnd \/ Delete
=============================================================================
