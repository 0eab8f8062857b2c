-------------------------- MODULE ShareFileClient --------------------------
(***************************************************************************)
(* The sending side of a transfer: the two send_file functions of          *)
(* src/shareFileService/shareFileClient.cpp, run by send_file_thread for a *)
(* job and by handle_send_file for the interactive sendFile.  TCP keeps    *)
(* what was sent in order; a connection is lost only with one of its ends. *)
(***************************************************************************)
EXTENDS Node

NodeSide == <<globals, program, serverVars, computeVars, caller>>

\* handle_send_file: connect and ask.
StartSend(t) ==
  /\ t \in Manual
  /\ toClient(t, "idle", "asking")
  /\ UNCHANGED <<NodeSide, sent>>

\* "Success": send the flag byte.  For a job the metadata follows at once.
ReadAdmitted(t) ==
  /\ server[t] = "admitted"
  /\ toClient(t, "asking", IF t \in Manual THEN "deciding" ELSE "sending")
  /\ sent' = IF t \in Manual THEN sent ELSE [sent EXCEPT ![t] = 0]
  /\ UNCHANGED NodeSide

\* Any other answer ends the call.
ReadRefused(t) ==
  /\ server[t] = "refused"
  /\ toClient(t, "asking", "failed")
  /\ UNCHANGED <<NodeSide, sent>>

ReadAccepted(t) ==
  /\ server[t] = "asked"
  /\ toClient(t, "deciding", "sending")
  /\ sent' = [sent EXCEPT ![t] = 0]
  /\ UNCHANGED NodeSide

ReadRejected(t) ==
  /\ server[t] \in {"rejecting", "rejected"}
  /\ toClient(t, "deciding", "failed")
  /\ UNCHANGED <<NodeSide, sent>>

\* One sendfile call of send_file_zero_copy.
SendBlock(t) ==
  /\ client[t] = "sending"
  /\ \E bytes \in 1 .. FileSize[t] - sent[t] :
       sent' = [sent EXCEPT ![t] = @ + bytes]
  /\ UNCHANGED <<NodeSide, client>>

EndSend(t) ==
  /\ sent[t] = FileSize[t]
  /\ toClient(t, "sending", "sent")
  /\ UNCHANGED <<NodeSide, sent>>

\* The file cannot be opened or read, or the sender loses its connection.
SenderFails(t) ==
  /\ t \in Faulty
  /\ \/ toClient(t, "asking", "failed")
     \/ toClient(t, "deciding", "failed")
     \/ toClient(t, "sending", "failed")
  /\ UNCHANGED <<NodeSide, sent>>

ConnectionResetLate(t) ==   \* blind to a node that is gone
  /\ sent[t] < FileSize[t] /\ server[t] \in {"aborted", "finished"}
  /\ \/ toClient(t, "asking", "failed")
     \/ toClient(t, "deciding", "failed")
     \/ toClient(t, "sending", "failed")
  /\ UNCHANGED <<NodeSide, sent>>

\* The node closed its end before everything was sent, or it is gone.
ConnectionReset(t) ==
  /\ \/ exited
     \/ sent[t] < FileSize[t] /\ server[t] \in {"aborted", "finished"}
  /\ \/ toClient(t, "asking", "failed")
     \/ toClient(t, "deciding", "failed")
     \/ toClient(t, "sending", "failed")
  /\ UNCHANGED <<NodeSide, sent>>

send_file(t) ==
  \/ StartSend(t) \/ ReadAdmitted(t) \/ ReadRefused(t) \/ ReadAccepted(t)
  \/ ReadRejected(t) \/ SendBlock(t) \/ EndSend(t) \/ ConnectionReset(t)
=============================================================================
