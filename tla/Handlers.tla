------------------------------ MODULE Handlers ------------------------------
(***************************************************************************)
(* The threads that module Listener starts, and the clients at the other   *)
(* end.  The short commands (src/server commands/connect.cpp,              *)
(* handlestatus.cpp, receivefile.cpp) are modelled whole; of the two long  *)
(* ones what they do with their Socket object, the train file's            *)
(* descriptor, the open flag and the user's terminal: modules              *)
(* ShareFileServer and ComputeServer have the rest.  A client is a connect *)
(* session of another process's console (src/Clients Commands/connect.cpp) *)
(* or another caller, which asks before it sends its file.                 *)
(***************************************************************************)
EXTENDS Listener

AnswerSuccess(request) ==   \* receiveFile answers what closeReceiveFile does
  CASE request \in {"receiveFile", "closeReceiveFile"} -> SUCCESS
    [] request = "distributiveComputing" -> OPEN_SHAREFILE_CONNECTION
    [] request = "connect" -> "1"
    [] request = "status" ->
         IF OPEN_RECEIVE_FILE_CONNECTION = 1 THEN OPEN_SHAREFILE_CONNECTION ELSE SUCCESS
    [] request = "shareFile" ->
         IF OPEN_RECEIVE_FILE_CONNECTION = 1 THEN SUCCESS ELSE RECEIVER_NO_OPEN_CONNECTION

\* What a handler answers first, and what it makes of the open flag.
Answer(request) ==
  CASE request \in {"receiveFile", "distributiveComputing"} -> OPEN_SHAREFILE_CONNECTION
    [] request = "closeReceiveFile" -> SUCCESS
    [] request = "connect" -> "1"
    [] request = "status" ->
         IF OPEN_RECEIVE_FILE_CONNECTION = 1 THEN OPEN_SHAREFILE_CONNECTION ELSE SUCCESS
    [] request = "shareFile" ->
         IF OPEN_RECEIVE_FILE_CONNECTION = 1 THEN SUCCESS ELSE RECEIVER_NO_OPEN_CONNECTION

OpenFlag(request) ==
  CASE request \in {"receiveFile", "distributiveComputing"} -> 1
    [] request = "closeReceiveFile" -> 0
    [] OTHER -> OPEN_RECEIVE_FILE_CONNECTION

BeginUnlessOpen(c) ==   \* an open node does not answer to status
  /\ Running
  /\ toThread(c, "begin", IF asked[c] = "status" /\ OPEN_RECEIVE_FILE_CONNECTION = 1
                         THEN "delete" ELSE Answer(asked[c]))
  /\ OPEN_RECEIVE_FILE_CONNECTION' = OpenFlag(asked[c])
  /\ UNCHANGED <<ended, sockets, loop, asked, askclientShareFile, others>>

\* The flag is set or read.
Begin(c) ==
  /\ Running
  /\ toThread(c, "begin", Answer(asked[c]))
  /\ OPEN_RECEIVE_FILE_CONNECTION' = OpenFlag(asked[c])
  /\ UNCHANGED <<ended, sockets, loop, asked, askclientShareFile, others>>

AfterAnswer(c) ==
  CASE asked[c] \in Copying \/ thread[c] = RECEIVER_NO_OPEN_CONNECTION -> "delete"
    [] asked[c] = "shareFile" /\ thread[c] # RECEIVER_NO_OPEN_CONNECTION -> "flag"
    [] asked[c] = "distributiveComputing" -> "job"

SendAnswer(c) ==
  /\ Running
  /\ thread[c] \in Answers
  /\ thread' = [thread EXCEPT ![c] = AfterAnswer(c)]
  /\ inbox' = Sent(fd[node(c)], thread[c])
  /\ UNCHANGED <<ended, descriptor, fd, held, queue, faults, loop, asked, askclientShareFile,
                 OPEN_RECEIVE_FILE_CONNECTION, others>>

-----------------------------------------------------------------------------
(* shareFile *)

\* Where a transfer returns to: one that the user was asked for closes the node.
Returned(c) == IF askclientShareFile[c] THEN "closing" ELSE "delete"

\* The call of recv, for the flag byte or for what belongs to the file.
Receive(c) ==
  /\ Running
  /\ thread[c] \in {"flag", "file"}
  /\ LET e == Stream(fd[node(c)])
     IN  /\ thread' = [thread EXCEPT ![c] = IF e = Nothing THEN Returned(c)
                                            ELSE IF @ = "flag" THEN "reading flag"
                                            ELSE "reading file"]
         /\ held' = [held EXCEPT ![c] = e]
  /\ UNCHANGED <<ended, descriptor, fd, inbox, queue, faults, loop, asked, askclientShareFile,
                 OPEN_RECEIVE_FILE_CONNECTION, others>>

\* One byte: zero from the sender of a job's file, or any other one, which may be the
\* first of a line that the session's user typed.  Then the user here is asked.
ReadFlag(c) ==
  /\ Running
  /\ thread[c] = "reading flag"
  /\ inbox[held[c]] # Nothing
  /\ askclientShareFile' = [askclientShareFile EXCEPT ![c] = inbox[held[c]] # File]
  /\ thread' = [thread EXCEPT ![c] = IF inbox[held[c]] = File THEN "file" ELSE "prompt"]
  /\ \E rest \in IF inbox[held[c]] = File THEN {Body} ELSE {Nothing, Mixed} :
       inbox' = [inbox EXCEPT ![held[c]] = rest]
  /\ held' = [held EXCEPT ![c] = Nothing]
  /\ UNCHANGED <<ended, descriptor, fd, queue, faults, loop, asked,
                 OPEN_RECEIVE_FILE_CONNECTION, others>>

\* A or R is read from the terminal, and the client is told.
ReadChoice(c) ==
  /\ Running
  /\ \/ toThread(c, "prompt", "file") /\ inbox' = Sent(fd[node(c)], SUCCESS)
     \/ toThread(c, "prompt", "closing") /\ inbox' = Sent(fd[node(c)], REJECT_CONNECTION)
  /\ UNCHANGED <<ended, descriptor, fd, held, queue, faults, loop, asked, askclientShareFile,
                 OPEN_RECEIVE_FILE_CONNECTION, others>>

\* A file comes in whole or cannot be stored; text is too short for a folder's length,
\* so that recv is called again, or gives a length that is refused.
ReceiveFile(c) ==
  /\ Running
  /\ thread[c] = "reading file"
  /\ inbox[held[c]] # Nothing
  /\ \E s \in {Returned(c), IF inbox[held[c]] = Body THEN "reply" ELSE "file"} :
       thread' = [thread EXCEPT ![c] = s]
  /\ Take(c)
  /\ UNCHANGED <<ended, descriptor, fd, queue, faults, loop, asked, askclientShareFile,
                 OPEN_RECEIVE_FILE_CONNECTION, others>>

\* The client has gone.
EndTransfer(c) ==
  /\ Running
  /\ thread[c] \in {"reading flag", "reading file"}
  /\ AtEnd(held[c])
  /\ thread' = [thread EXCEPT ![c] = Returned(c)]
  /\ held' = [held EXCEPT ![c] = Nothing]
  /\ UNCHANGED <<ended, descriptor, fd, inbox, queue, faults, loop, asked, askclientShareFile,
                 OPEN_RECEIVE_FILE_CONNECTION, others>>

Reply(c) ==
  /\ Running
  /\ toThread(c, "reply", Returned(c))
  /\ inbox' = Sent(fd[node(c)], SUCCESS)
  /\ UNCHANGED <<ended, descriptor, fd, held, queue, faults, loop, asked, askclientShareFile,
                 OPEN_RECEIVE_FILE_CONNECTION, others>>

-----------------------------------------------------------------------------
(* distributiveComputing: its latches, programs and files are not this module's *)

\* The program that came does not compile.
CompileFails(c) ==
  /\ Running
  /\ thread[c] = "job"
  /\ ended' = "exit"
  /\ UNCHANGED <<sockets, loop, threads, others>>

\* The latches were raised; there may be no train file to open.
OpenTrain(c) ==
  /\ Running
  /\ toThread(c, "job", "compute")
  /\ life' = [life EXCEPT ![train(c)] = "open"]
  /\ \/ Free # {} /\ Number(train(c))
     \/ UNCHANGED <<descriptor, fd>>
  /\ UNCHANGED <<ended, held, inbox, queue, faults, loop, asked, askclientShareFile,
                 OPEN_RECEIVE_FILE_CONNECTION, clients>>

\* A slice has read from the file, or from what has its number by now, and cannot
\* write to its program ...
SliceFails(c) ==
  /\ Running
  /\ toThread(c, "compute", "broken")
  /\ \E d \in Conns : At(fd[train(c)]) = train(d)
  /\ UNCHANGED <<ended, sockets, loop, asked, askclientShareFile,
                 OPEN_RECEIVE_FILE_CONNECTION, others>>

\* ... so that it closes the file, whose number the handler keeps.
CloseSlice(c) ==
  /\ Running
  /\ toThread(c, "broken", "compute")
  /\ Close(train(c))
  /\ life' = [life EXCEPT ![train(c)] = "closed"]
  /\ UNCHANGED <<ended, fd, held, inbox, queue, loop, asked, askclientShareFile,
                 OPEN_RECEIVE_FILE_CONNECTION, clients>>

SendResult(c) ==
  /\ Running
  /\ toThread(c, "compute", "closing")
  /\ inbox' = Sent(fd[node(c)], Result)
  /\ UNCHANGED <<ended, descriptor, fd, held, queue, faults, loop, asked, askclientShareFile,
                 OPEN_RECEIVE_FILE_CONNECTION, others>>

CloseTrain(c) ==
  /\ Running
  /\ toThread(c, "close", "delete")
  /\ Close(train(c)) /\ Forget(train(c))
  /\ life' = [life EXCEPT ![train(c)] = "gone"]
  /\ UNCHANGED <<ended, held, inbox, queue, loop, asked, askclientShareFile,
                 OPEN_RECEIVE_FILE_CONNECTION, clients>>

-----------------------------------------------------------------------------
(* The end of a handler *)

\* A transfer that the user was asked for and a job close the node when they end.
CloseNode(c) ==
  /\ Running
  /\ toThread(c, "closing", IF asked[c] = "distributiveComputing" THEN "close" ELSE "delete")
  /\ OPEN_RECEIVE_FILE_CONNECTION' = 0
  /\ UNCHANGED <<ended, sockets, loop, asked, askclientShareFile, others>>

DeleteArgumentToo(c) ==   \* every handler copies its Socket object
  /\ Running
  /\ toThread(c, "delete", "destroy")
  /\ Close(node(c))
  /\ UNCHANGED <<ended, fd, held, inbox, queue, loop, asked, askclientShareFile,
                 OPEN_RECEIVE_FILE_CONNECTION, others>>

\* delete (TCP *)arg.
DeleteArgument(c) ==
  /\ Running
  /\ asked[c] \in Copying
  /\ toThread(c, "delete", "destroy")
  /\ Close(node(c))
  /\ UNCHANGED <<ended, fd, held, inbox, queue, loop, asked, askclientShareFile,
                 OPEN_RECEIVE_FILE_CONNECTION, others>>

\* The last object with the number is destroyed: delete client_socket, or the
\* handler's own copy when it returns.
Destroy(c) ==
  /\ Running
  /\ \/ asked[c] \in InPlace /\ toThread(c, "delete", "done")
     \/ toThread(c, "destroy", "done")
  /\ Close(node(c)) /\ Forget(node(c))
  /\ asked' = [asked EXCEPT ![c] = Nothing]
  /\ askclientShareFile' = [askclientShareFile EXCEPT ![c] = FALSE]
  /\ UNCHANGED <<ended, held, inbox, queue, loop, OPEN_RECEIVE_FILE_CONNECTION, others>>

\* What a thread does as soon as it can ...
handler(c) ==
  \/ Begin(c) \/ SendAnswer(c) \/ Receive(c) \/ ReadFlag(c) \/ ReceiveFile(c)
  \/ EndTransfer(c) \/ Reply(c) \/ CloseNode(c) \/ CloseTrain(c) \/ DeleteArgument(c)
  \/ Destroy(c)

\* ... and what it waits for: its user, or a latch, a program and a file of a job.
awaits(c) ==
  \/ ReadChoice(c) \/ CompileFails(c) \/ OpenTrain(c) \/ SliceFails(c) \/ CloseSlice(c)
  \/ SendResult(c)

-----------------------------------------------------------------------------
(* Clients *)

Unaware == <<ended, loop, threads, descriptor, fd, held, faults, life>>

Established(c) == queue' = Append(queue, c)
HasRoomAtLimit == Len(queue) <= Backlog
HasRoom == Len(queue) < Backlog

Connect(c) ==
  /\ Running
  /\ HasRoom
  /\ toPeer(c, "idle", "connected")
  /\ Established(c)
  /\ UNCHANGED <<Unaware, inbox, talk>>

AtPrompt == {"connected", "answered"}

\* What client c sends.
Says(c, m) == inbox' = IF Open(node(c)) THEN [inbox EXCEPT ![node(c)] = Joined(@, m)] ELSE inbox

\* The session's user types a command, sooner or later or never ...
Ask(c) ==
  /\ peer[c] \in AtPrompt
  /\ \E m \in Requests :
       /\ peer' = [peer EXCEPT ![c] = m]
       /\ Says(c, m)
  /\ UNCHANGED <<Unaware, queue, talk>>

\* ... or leaves.
Leave(c) ==
  /\ peer[c] \in AtPrompt
  /\ peer' = [peer EXCEPT ![c] = "gone"]
  /\ talk' = [talk EXCEPT ![c] = Nothing]
  /\ UNCHANGED <<Unaware, queue, inbox>>

\* A caller that is no session sends its file, of a job or of a user whose flag byte
\* went before, and leaves without the reply.
Upload(c) ==
  /\ peer[c] \in AtPrompt
  /\ talk[c] \in {"shareFile", "accepted"}
  /\ Says(c, IF talk[c] = "shareFile" THEN File ELSE Body)
  /\ peer' = [peer EXCEPT ![c] = "gone"]
  /\ talk' = [talk EXCEPT ![c] = Nothing]
  /\ UNCHANGED <<Unaware, queue>>

\* What a client is at once it has read message m.
TalkAfter(c, m) ==
  CASE talk[c] = Nothing /\ <<peer[c], m>> = <<"shareFile", SUCCESS>> -> "shareFile"
    [] talk[c] = "shareFile" /\ m = SUCCESS -> "accepted"
    [] talk[c] = Nothing /\ <<peer[c], m>> = <<"distributiveComputing", OPEN_SHAREFILE_CONNECTION>>
         -> "distributiveComputing"
    [] OTHER -> talk[c]

ReadAnswer(c) ==
  /\ peer[c] \in Requests
  /\ inbox[far(c)] # Nothing
  /\ peer' = [peer EXCEPT ![c] = "answered"]
  /\ talk' = [talk EXCEPT ![c] = TalkAfter(c, inbox[far(c)])]
  /\ inbox' = [inbox EXCEPT ![far(c)] = Nothing]
  /\ UNCHANGED <<Unaware, queue>>

LoseConnection(c) ==
  /\ peer[c] \in Requests
  /\ AtEnd(far(c))
  /\ peer' = [peer EXCEPT ![c] = "lost"]
  /\ talk' = [talk EXCEPT ![c] = Nothing]
  /\ UNCHANGED <<Unaware, queue, inbox>>

client(c) == ReadAnswer(c) \/ LoseConnection(c)
=============================================================================
