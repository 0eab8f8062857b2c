------------------------------ MODULE Console ------------------------------
(***************************************************************************)
(* A whole process: its console (commands and sendToServer of              *)
(* src/clientsCommand.cpp, the status, receiveFile and exit commands of    *)
(* src/Clients Commands) beside the listener and its handlers.  status and *)
(* receiveFile call the process's own listener.  Of listConnections and    *)
(* runDistributiveSystems there are the sockets that they open and close,  *)
(* modules Discovery and Coordinator have the rest; connect and sendFile,  *)
(* which close their socket once, return at once.                          *)
(***************************************************************************)
EXTENDS Handlers, Suggestion

CONSTANT Lines   \* what the user types, in lower case

VARIABLES
  console,      \* where the console is
  command,      \* the command it runs
  call,         \* the connection of sendToServer, and the name of the command's sockets
  left,         \* the names that were not used yet, a bound
  result,       \* what sendToServer received, Nothing for CONNECTION_ERROR
  suggestion    \* the command that is offered

here == <<console, command, call, left, result, suggestion>>
vars == <<ended, sockets, loop, threads, others, here>>
apart == <<loop, threads, clients>>   \* what the console leaves alone

toConsole(from, to) == console = from /\ console' = to

\* The handlers of client_dispatch_table; their names are in Table.
client_dispatch_table ==
  <<"listConnections", "status", "exit", "connect", "sendFile", "receiveFile",
    "runDistributiveSystems">>
ASSUME TableAssumption == Len(Table) = Len(client_dispatch_table)

ConsoleInit ==
  /\ Init
  /\ console = "prompt"
  /\ command = Nothing /\ call = Nothing /\ result = Nothing
  /\ left \in SUBSET Calls
  /\ suggestion = NoCommand

-----------------------------------------------------------------------------
(* commands *)

Local == {"status", "receiveFile"}                         \* call sendToServer
Broadcast == {"listConnections", "runDistributiveSystems"}   \* call sendRequest

\* A handler is called; a bounded number of them open sockets.
Run(c) ==
  /\ suggestion' = NoCommand
  /\ \/ /\ client_dispatch_table[c] = "exit"
        /\ ended' = "exit"
        /\ UNCHANGED <<console, command, call, left>>
     \/ /\ client_dispatch_table[c] \in Local \cup Broadcast
        /\ \E o \in left : call' = o /\ left' = left \ {o}
        /\ command' = client_dispatch_table[c]
        /\ console' = IF command' \in Local THEN "open" ELSE "request"
        /\ UNCHANGED ended
     \/ /\ client_dispatch_table[c] \notin {"exit"} \cup Local \cup Broadcast
        /\ console' = "prompt"
        /\ UNCHANGED <<ended, command, call, left>>

closest == [line \in Lines |-> find_closest_command(line)]

\* The line is a command's name in any case of letters, or something else.
ReadLine(line) ==
  /\ Running
  /\ console = "prompt"
  /\ IF \E c \in Commands : line = Table[c]
     THEN Run(CHOOSE c \in Commands : line = Table[c])
     ELSE /\ suggestion' = closest[line]
          /\ console' = IF suggestion' = NoCommand THEN "unknown" ELSE "offer"
          /\ UNCHANGED <<ended, command, call, left>>
  /\ UNCHANGED <<sockets, apart, life, result>>

\* [y/n/e]: only y runs the command; the line that is entered anew after e is
\* not looked at.
Choose(choice) ==
  /\ Running
  /\ console = "offer"
  /\ \/ choice = "y" /\ Run(suggestion)
     \/ /\ choice # "y"
        /\ console' = "prompt"
        /\ suggestion' = NoCommand
        /\ UNCHANGED <<ended, command, call, left>>
  /\ UNCHANGED <<sockets, apart, life, result>>

PrintUnknown ==
  /\ Running
  /\ toConsole("unknown", "prompt")
  /\ UNCHANGED <<ended, sockets, apart, life, command, call, left, result, suggestion>>

-----------------------------------------------------------------------------
(* sendToServer *)

OpenSocket ==
  /\ Running
  /\ toConsole("open", "connect")
  /\ IF Free # {}
     THEN Number(far(call)) /\ UNCHANGED faults
     ELSE /\ faults' = faults \cup {"no descriptor"}
          /\ UNCHANGED <<descriptor, fd>>
  /\ UNCHANGED <<ended, held, inbox, queue, apart, life, command, call, left, result, suggestion>>

connect_socket ==
  /\ Running
  /\ toConsole("connect", "send")
  /\ At(fd[far(call)]) = far(call) /\ HasRoom
  /\ Established(call)
  /\ UNCHANGED <<ended, descriptor, fd, held, inbox, faults, apart, life, command, call, left,
                 result, suggestion>>

\* There is no such socket (any more), or the listener's backlog stays full.
ConnectFails ==
  /\ Running
  /\ toConsole("connect", "return")
  /\ \/ At(fd[far(call)]) # far(call) /\ UNCHANGED faults
     \/ ~HasRoom /\ faults' = faults \cup {"backlog full"}
  /\ UNCHANGED <<ended, descriptor, fd, held, inbox, queue, apart, life, command, call, left,
                 result, suggestion>>

SendCommand ==
  /\ Running
  /\ toConsole("send", "receive")
  /\ inbox' = Sent(fd[far(call)], command)
  /\ UNCHANGED <<ended, descriptor, fd, held, queue, faults, apart, life, command, call, left,
                 result, suggestion>>

AwaitAnswer ==
  /\ Running
  /\ console = "receive"
  /\ LET e == Stream(fd[far(call)])
     IN  /\ console' = IF e = Nothing THEN "return" ELSE "reading"
         /\ held' = [held EXCEPT !["console"] = e]
  /\ UNCHANGED <<ended, descriptor, fd, inbox, queue, faults, apart, life, command, call, left,
                 result, suggestion>>

ReceiveResult ==
  /\ Running
  /\ toConsole("reading", "return")
  /\ inbox[held["console"]] # Nothing
  /\ result' = inbox[held["console"]]
  /\ Take("console")
  /\ UNCHANGED <<ended, descriptor, fd, queue, faults, apart, life, command, call, left,
                 suggestion>>

ReceiveNothing ==
  /\ Running
  /\ toConsole("reading", "return")
  /\ AtEnd(held["console"])
  /\ held' = [held EXCEPT !["console"] = Nothing]
  /\ UNCHANGED <<ended, descriptor, fd, inbox, queue, faults, apart, life, command, call, left,
                 result, suggestion>>

\* The destructor of the local TCP object.
Return ==
  /\ Running
  /\ toConsole("return", "print")
  /\ Close(far(call)) /\ Forget(far(call))
  /\ call' = Nothing
  /\ UNCHANGED <<ended, held, inbox, queue, apart, life, command, left, result, suggestion>>

-----------------------------------------------------------------------------
(* handleStatus and handle_receive_file *)

\* free ends the process when sendToServer returned a constant of STATUS_MESSAGES.
Freed == ended' = IF result = Nothing THEN "abort" ELSE "no"

Resume ==
  /\ console' = "prompt"
  /\ command' = Nothing /\ result' = Nothing
  /\ Freed

PrintStatus ==
  /\ Running
  /\ command = "status"
  /\ console = "print"
  /\ Resume
  /\ UNCHANGED <<sockets, apart, life, call, left, suggestion>>

\* An open node is announced and the console spins; otherwise a line is discarded.
PrintReceive ==
  /\ Running
  /\ command = "receiveFile"
  /\ toConsole("print", IF result = OPEN_SHAREFILE_CONNECTION THEN "spin" ELSE "discard")
  /\ UNCHANGED <<ended, sockets, apart, life, command, call, left, result, suggestion>>

clear_stdin ==
  /\ Running
  /\ console = "discard"
  /\ Resume
  /\ UNCHANGED <<sockets, apart, life, call, left, suggestion>>

-----------------------------------------------------------------------------
(* sendRequest and distributiveComputingOverNetwork *)

\* A socket gets a number, if there is one, ...
OpenPrivate(o) ==
  /\ life' = [life EXCEPT ![o] = "open"]
  /\ IF Free # {} THEN Number(o) ELSE UNCHANGED <<descriptor, fd>>
  /\ UNCHANGED <<ended, held, inbox, queue, faults>>

\* ... which is closed, ...
ClosePrivate(o) ==
  /\ Close(o)
  /\ life' = [life EXCEPT ![o] = "closed"]
  /\ UNCHANGED <<ended, fd, held, inbox, queue>>

\* ... and closed by the destructor, after that or at first.
DestroyPrivate(o) ==
  /\ Close(o) /\ Forget(o)
  /\ life' = [life EXCEPT ![o] = "gone"]
  /\ UNCHANGED <<ended, held, inbox, queue>>

Finish == command' = Nothing /\ call' = Nothing

OpenRequest ==
  /\ Running
  /\ toConsole("request", "replies")
  /\ OpenPrivate(udp(call))
  /\ UNCHANGED <<apart, command, call, left, result, suggestion>>

\* The replies are in, or none could be asked for.
CloseRequest ==
  /\ Running
  /\ toConsole("replies", "requested")
  /\ ClosePrivate(udp(call))
  /\ UNCHANGED <<apart, command, call, left, result, suggestion>>

DestroyRequest ==
  /\ Running
  /\ toConsole("requested", IF command = "listConnections" THEN "prompt" ELSE "remote")
  /\ DestroyPrivate(udp(call))
  /\ IF command = "listConnections" THEN Finish ELSE UNCHANGED <<command, call>>
  /\ UNCHANGED <<apart, left, result, suggestion>>

\* A thread calls a node; some nodes may not have replied.
BeginRemote(r) ==
  /\ Running
  /\ console = "remote" /\ life[remote(call, r)] = "none"
  /\ OpenPrivate(remote(call, r))
  /\ UNCHANGED <<apart, here>>

\* The node's answer or its result did not come.
CloseRemote(r) ==
  /\ Running
  /\ console = "remote" /\ life[remote(call, r)] = "open"
  /\ ClosePrivate(remote(call, r))
  /\ UNCHANGED <<apart, here>>

DestroyRemote(r) ==
  /\ Running
  /\ console = "remote" /\ life[remote(call, r)] \in {"open", "closed"}
  /\ DestroyPrivate(remote(call, r))
  /\ UNCHANGED <<apart, here>>

\* Every thread was joined.
EndRemote ==
  /\ Running
  /\ toConsole("remote", "prompt")
  /\ \A r \in Remotes : life[remote(call, r)] \in {"none", "gone"}
  /\ Finish
  /\ UNCHANGED <<ended, sockets, apart, life, left, result, suggestion>>

broadcasts ==
  \/ OpenRequest \/ CloseRequest \/ DestroyRequest \/ EndRemote
  \/ \E r \in Remotes : BeginRemote(r) \/ CloseRemote(r) \/ DestroyRemote(r)

\* What the console does without its user, and what its user does.
runs ==
  \/ PrintUnknown \/ OpenSocket \/ connect_socket \/ ConnectFails \/ SendCommand \/ AwaitAnswer
  \/ ReceiveResult \/ ReceiveNothing \/ Return \/ PrintStatus \/ PrintReceive

Input ==
  \/ \E line \in Lines : ReadLine(line)
  \/ \E choice \in {"y", "n", "e"} : Choose(choice)
  \/ clear_stdin

-----------------------------------------------------------------------------
listen == server_listener_thread_tcp /\ UNCHANGED here
handle(c) == (handler(c) \/ awaits(c)) /\ UNCHANGED here
use(c) == (Connect(c) \/ Ask(c) \/ Leave(c) \/ Upload(c) \/ client(c)) /\ UNCHANGED here

Next ==
  \/ listen
  \/ \E c \in Conns : handle(c)
  \/ \E c \in Clients : use(c)
  \/ runs
  \/ broadcasts
  \/ Input

Spec == ConsoleInit /\ [][Next]_vars

\* The threads run and the network delivers; nobody has to type anything, no job has to
\* come to its end, and no other node has to answer.
Fairness ==
  /\ WF_vars(listen)
  /\ \A c \in Conns : WF_vars(handler(c) /\ UNCHANGED here)
  /\ \A c \in Clients : WF_vars(client(c) /\ UNCHANGED here)
  /\ WF_vars(runs)

FairSpec == Spec /\ Fairness
-----------------------------------------------------------------------------
(* Properties *)

\* The steps of a handler that uses its Socket object.
Serving ==
  {"begin", "flag", "reading flag", "prompt", "file", "reading file", "reply", "job", "compute",
   "broken", "closing", "close", "delete"} \cup Answers

Steps == {"prompt", "offer", "open", "connect", "send", "receive", "reading", "return",
          "print", "discard", "spin", "unknown", "request", "replies", "requested", "remote"}

\* Every variable keeps its type.
TypeOK ==
  /\ ended \in {"no", "exit", "abort"}
  /\ descriptor \in [Fds -> Objects \cup {Nothing}]
  /\ fd \in [Objects -> Fds \cup {NoFd}]
  /\ held \in [Readers -> Ends \cup {Nothing}]
  /\ inbox \in [Ends -> Messages \cup {Nothing}]
  /\ queue \in Seq(Conns) /\ Len(queue) <= Backlog
  /\ faults \subseteq {"struck", "no descriptor", "no thread", "backlog full"}
  /\ listener \in {"accept", "receive", "reading", "refuse", "delete"}
  /\ serving \in Conns \cup {Nothing}
  /\ thread \in [Conns -> {"none", "destroy", "done"} \cup Serving]
  /\ asked \in [Conns -> Dispatched \cup {Nothing}]
  /\ askclientShareFile \in [Conns -> BOOLEAN]
  /\ OPEN_RECEIVE_FILE_CONNECTION \in {0, 1}
  /\ life \in [Private -> {"none", "open", "closed", "gone"}]
  /\ peer \in [Clients -> PeerSteps \cup Requests]
  /\ talk \in [Clients -> {Nothing, "shareFile", "accepted", "distributiveComputing"}]
  /\ console \in Steps
  /\ command \in Local \cup Broadcast \cup {Nothing}
  /\ call \in Calls \cup {Nothing} /\ left \subseteq Calls
  /\ result \in Messages \cup {Nothing}

\* The sockets and files that are in use and whose number was not closed before.
Live ==
  {node(c) : c \in {c \in Conns : serving = c \/ thread[c] \in Serving}}
  \cup {o \in Private : life[o] = "open"}
  \cup (IF console \in {"connect", "send", "receive", "reading", "return"}
        THEN {far(call)} ELSE {})

\* As long as no close has hit a number of somebody else's, every socket and file in
\* use has its own number, or none if it could not be opened, although numbers are
\* given out again while an object that closed its own still has it.
SocketsIntact ==
  "struck" \notin faults =>
    \A e \in Live : fd[e] = NoFd \/ descriptor[fd[e]] = e

\* What has closed its number and will close it again: the second object of a short
\* command (receivefile.cpp:7 and its like), the UDP socket of sendRequest, the socket
\* of a remote call that failed (linuxdistributivecomputing.cpp:191 and 242), the train
\* file of a job of which a slice failed (server linuxdistributivecomputing.cpp:95).
Spent ==
  {node(c) : c \in {c \in Conns : asked[c] \in Copying /\ thread[c] = "destroy"}}
  \cup {o \in Private : life[o] = "closed"}

\* The first number that is closed under somebody's hands is closed by one of these:
\* the destructors and closes of the others hit what is theirs.
FirstStrike ==
  [][(faults # faults' /\ "struck" \in faults' \ faults) =>
       \E o \in Spent : At(fd[o]) \notin {Nothing, o} /\ descriptor'[fd[o]] = Nothing]_vars

\* What a client or the console may read after a command.  A job whose latches were
\* raised by others may have its result in the same recv.
AnswersTo(request) ==
  CASE request = "receiveFile" -> {OPEN_SHAREFILE_CONNECTION}
    [] request = "distributiveComputing" -> {OPEN_SHAREFILE_CONNECTION, Mixed}
    [] request = "closeReceiveFile" -> {SUCCESS}
    [] request = "connect" -> {"1"}
    [] request = "status" -> {OPEN_SHAREFILE_CONNECTION, SUCCESS}
    [] request = "shareFile" -> {SUCCESS, RECEIVER_NO_OPEN_CONNECTION}
    [] OTHER -> {Unknown}

\* What comes on a connection whose handler is in a conversation: the decision of the
\* process's user about a file, or a job's number.
Due(c) ==
  CASE talk[c] = Nothing -> AnswersTo(peer[c])
    [] talk[c] \in {"shareFile", "accepted"} -> {SUCCESS, REJECT_CONNECTION}
    [] talk[c] = "distributiveComputing" -> {Result}

\* Unless a number was closed under somebody's hands, what a client or the console
\* reads is the answer to its own command, or to the long command that it began on the
\* connection, whatever it has typed since: never one to another connection's, nor two
\* in one, except for a job's result behind the answer to the job.
AnswersOwnCommand ==
  "struck" \notin faults =>
    /\ \A c \in Clients :
         peer[c] \in Requests /\ inbox[far(c)] # Nothing => inbox[far(c)] \in Due(c)
    /\ console = "print" /\ result # Nothing => result \in AnswersTo(command)

\* free of a constant (handlestatus.cpp:16, recievefile.cpp:28) ends the process only
\* after a fault of the machine or a close of somebody else's number.
AbortsOnlyOnFaults == ended = "abort" => faults # {}

\* What is offered for a line is a fair suggestion by the definition of the edit
\* distance, not by the table that levenshtein fills.
Judged ==
  {<<line, c, FairSuggestion(line, c)>> : line \in Lines, c \in Commands \cup {NoCommand}}

SuggestsFairly ==
  [][\A line \in Lines :
       ReadLine(line) /\ (\A c \in Commands : line # Table[c]) 
         => <<line, suggestion', TRUE>> \in Judged]_vars

\* A session that is connected is used or left, sooner or later.
NobodySilent == \A c \in Clients : []<>(peer[c] \notin AtPrompt)

\* What a client may wait for as long as it takes: the user's decision, a job, and for
\* good what belongs to the file that it was to send.
Await(c) ==
  \/ thread[c] \in {"prompt", "job", "compute", "broken"}
  \/ thread[c] = "reading file" /\ inbox[held[c]] = Nothing

\* If so, a client that asks is answered or told that the connection is lost, also
\* when it asks for more than the one command that a connection is good for; unless its
\* own handler waits, descriptors ran out, or a close hit somebody else's number.
ClientsServed ==
  NobodySilent =>
    \A c \in Clients :
      (peer[c] \in Requests) ~>
        \/ peer[c] \notin Requests \/ ~Running \/ Await(c)
        \/ faults \cap {"struck", "no descriptor"} # {}

\* If so, a command of the console ends, with the same exceptions.
ConsoleReturns ==
  NobodySilent =>
    (console = "open") ~>
        \/ console \in {"prompt", "discard", "spin"} \/ ~Running
        \/ faults \cap {"struck", "no descriptor"} # {}
=============================================================================
