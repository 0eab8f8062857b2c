-------------------------- MODULE ShareFileServer --------------------------
(***************************************************************************)
(* The receiving side of a transfer: handle_share_file_server and          *)
(* receive_file of src/shareFileService/shareFileServer.cpp, and the two   *)
(* commands that open and close the node for transfers                     *)
(* (src/server commands/receivefile.cpp).  Every connection has a detached *)
(* thread of its own; a step holds at most one access to a global.         *)
(***************************************************************************)
EXTENDS Node

CONSTANT GateCommands   \* which of "receiveFile" and "closeReceiveFile" users issue

UserAsked(t) == t \in Manual

\* Where receive_file returns to: the interactive branch still closes the node.
Returned(t, otherwise) == IF UserAsked(t) THEN "closing" ELSE otherwise

-----------------------------------------------------------------------------
(* handle_share_file_server *)

Refuse(t) ==
  /\ Running
  /\ client[t] = "asking"
  /\ OPEN_RECEIVE_FILE_CONNECTION = 0
  /\ toServer(t, "none", "refused")
  /\ UNCHANGED <<globals, program, received, out, disk, clientVars, computeVars, caller>>

Admit(t) ==
  /\ Running
  /\ client[t] = "asking"
  /\ OPEN_RECEIVE_FILE_CONNECTION = 1
  /\ toServer(t, "none", "admitted")
  /\ UNCHANGED <<globals, program, received, out, disk, clientVars, computeVars, caller>>

\* The node's user answers A or R; the sender may have gone meanwhile.
Prompt(t) ==
  /\ Running
  /\ UserAsked(t)
  /\ client[t] \in {"deciding", "failed"}
  /\ \E answer \in {"asked", "rejecting"} : toServer(t, "admitted", answer)
  /\ UNCHANGED <<globals, program, received, out, disk, clientVars, computeVars, caller>>

\* The last statement of the interactive branch closes the node for everybody.
CloseAfterPrompt(t) ==
  /\ Running
  /\ \/ toServer(t, "closing", "finished")
     \/ toServer(t, "rejecting", "rejected")
  /\ OPEN_RECEIVE_FILE_CONNECTION' = 0
  /\ UNCHANGED <<mesh_info_1, mesh_info_2, Shared_fileSize, processedBytes,
                 shared_outpath, program, received, out, disk, clientVars,
                 computeVars, caller>>

-----------------------------------------------------------------------------
(* receive_file *)

MetadataFrom(t) == IF UserAsked(t) THEN "asked" ELSE "admitted"

ReceiveMetadata(t) ==
  /\ Running
  /\ sent[t] >= 0
  /\ toServer(t, MetadataFrom(t), IF t \in Train THEN "sizing" ELSE "building")
  /\ Shared_fileSize' = IF t \in Train THEN FileSize[t] ELSE Shared_fileSize
  /\ UNCHANGED <<OPEN_RECEIVE_FILE_CONNECTION, mesh_info_1, mesh_info_2,
                 processedBytes, shared_outpath, program, received, out, disk,
                 clientVars, computeVars, caller>>

KeepProgress(t) ==   \* processedBytes keeps what the last job left
  /\ Running
  /\ toServer(t, "sizing", "building")
  /\ UNCHANGED <<globals, program, received, out, disk, clientVars, computeVars, caller>>

ResetProgress(t) ==
  /\ Running
  /\ toServer(t, "sizing", "building")
  /\ processedBytes' = 0
  /\ UNCHANGED <<OPEN_RECEIVE_FILE_CONNECTION, mesh_info_1, mesh_info_2,
                 Shared_fileSize, shared_outpath, program, received, out, disk,
                 clientVars, computeVars, caller>>

\* snprintf into the one shared_outpath that all transfers share; it is not
\* atomic, so a second thread can write in between.
StartPath(t) ==
  /\ Running
  /\ toServer(t, "building", "writing")
  /\ shared_outpath' = Writing(t)
  /\ UNCHANGED <<OPEN_RECEIVE_FILE_CONNECTION, mesh_info_1, mesh_info_2,
                 Shared_fileSize, processedBytes, program, received, out, disk,
                 clientVars, computeVars, caller>>

UndisturbedPath(t) ==
  /\ shared_outpath = Writing(t)
  /\ \A u \in Transfers \ {t} : server[u] # "writing"

EndPath(t) ==
  /\ Running
  /\ toServer(t, "writing", "opening")
  /\ \/ shared_outpath' = Path(t)
     \/ ~UndisturbedPath(t) /\ shared_outpath' = Torn
  /\ UNCHANGED <<OPEN_RECEIVE_FILE_CONNECTION, mesh_info_1, mesh_info_2,
                 Shared_fileSize, processedBytes, program, received, out, disk,
                 clientVars, computeVars, caller>>

\* open(shared_outpath, O_CREAT | O_WRONLY | O_TRUNC), whatever is in it by now.
OpenOutput(t) ==
  /\ Running
  /\ shared_outpath \in Paths
  /\ toServer(t, "opening", IF t \in Train THEN "signalling" ELSE "receiving")
  /\ out' = [out EXCEPT ![t] = shared_outpath]
  /\ disk' = [disk EXCEPT ![shared_outpath] = EmptyFile]
  /\ UNCHANGED <<globals, program, received, clientVars, computeVars, caller>>

OpenOutputFails(t) ==
  /\ Running
  /\ shared_outpath \notin Paths
  /\ toServer(t, "opening", Returned(t, "aborted"))
  /\ UNCHANGED <<globals, program, received, out, disk, clientVars, computeVars, caller>>

\* resume(mesh_info_2), before a byte of the train file is there.
SignalTrain(t) ==
  /\ Running
  /\ toServer(t, "signalling", "receiving")
  /\ mesh_info_2' = 1
  /\ UNCHANGED <<OPEN_RECEIVE_FILE_CONNECTION, mesh_info_1, Shared_fileSize,
                 processedBytes, shared_outpath, program, received, out, disk,
                 clientVars, computeVars, caller>>

ReceiveBlockLast(t) ==   \* the last block is not published any more
  /\ Running
  /\ \E bytes \in 1 .. sent[t] - received[t] :
       /\ toServer(t, "receiving",
                   IF t \in Train /\ received[t] + bytes < FileSize[t]
                   THEN "publishing" ELSE "receiving")
       /\ disk' = [disk EXCEPT ![out[t]] = Written(@, t, received[t], bytes)]
       /\ received' = [received EXCEPT ![t] = @ + bytes]
  /\ UNCHANGED <<globals, program, out, clientVars, computeVars, caller>>

ReceiveBlock(t) ==
  /\ Running
  /\ toServer(t, "receiving", IF t \in Train THEN "publishing" ELSE "receiving")
  /\ \E bytes \in 1 .. sent[t] - received[t] :
       /\ disk' = [disk EXCEPT ![out[t]] = Written(@, t, received[t], bytes)]
       /\ received' = [received EXCEPT ![t] = @ + bytes]
  /\ UNCHANGED <<globals, program, out, clientVars, computeVars, caller>>

PublishSum(t) ==   \* adds the running total instead of the block
  /\ Running
  /\ toServer(t, "publishing", "receiving")
  /\ processedBytes' = processedBytes + received[t]
  /\ UNCHANGED <<OPEN_RECEIVE_FILE_CONNECTION, mesh_info_1, mesh_info_2,
                 Shared_fileSize, shared_outpath, program, received, out, disk,
                 clientVars, computeVars, caller>>

PublishAll(t) ==   \* publishes the size of the file
  /\ Running
  /\ toServer(t, "publishing", "receiving")
  /\ processedBytes' = Shared_fileSize
  /\ UNCHANGED <<OPEN_RECEIVE_FILE_CONNECTION, mesh_info_1, mesh_info_2,
                 Shared_fileSize, shared_outpath, program, received, out, disk,
                 clientVars, computeVars, caller>>

PublishProgress(t) ==
  /\ Running
  /\ toServer(t, "publishing", "receiving")
  /\ processedBytes' = received[t]
  /\ UNCHANGED <<OPEN_RECEIVE_FILE_CONNECTION, mesh_info_1, mesh_info_2,
                 Shared_fileSize, shared_outpath, program, received, out, disk,
                 clientVars, computeVars, caller>>

\* The whole file is there: a code file raises the first latch.
FinishReceive(t) ==
  /\ Running
  /\ received[t] = FileSize[t]
  /\ toServer(t, "receiving", Returned(t, "finished"))
  /\ mesh_info_1' = IF t \in Code THEN 1 ELSE mesh_info_1
  /\ UNCHANGED <<OPEN_RECEIVE_FILE_CONNECTION, mesh_info_2, Shared_fileSize,
                 processedBytes, shared_outpath, program, received, out, disk,
                 clientVars, computeVars, caller>>

\* recv finds the connection closed: before the question is asked, before the
\* metadata, or in the middle of the data.  The first of these returns at once.
ReceiveFails(t) ==
  /\ Running
  /\ client[t] = "failed"
  /\ \/ sent[t] = -1 /\ toServer(t, "admitted", "aborted")
     \/ sent[t] = -1 /\ toServer(t, "asked", "closing")
     \/ /\ received[t] = sent[t] /\ received[t] < FileSize[t]
        /\ toServer(t, "receiving", Returned(t, "aborted"))
  /\ UNCHANGED <<globals, program, received, out, disk, clientVars, computeVars, caller>>

\* The machine fails: open does although the path names a file, or write stores
\* only a part of the block.
CannotStore(t) ==
  /\ Running
  /\ t \in Faulty
  /\ \/ toServer(t, "opening", Returned(t, "aborted")) /\ UNCHANGED disk
     \/ /\ received[t] < sent[t]
        /\ toServer(t, "receiving", Returned(t, "aborted"))
        /\ \/ UNCHANGED disk
           \/ \E bytes \in 1 .. sent[t] - received[t] - 1 :
                disk' = [disk EXCEPT ![out[t]] = Written(@, t, received[t], bytes)]
  /\ UNCHANGED <<globals, program, received, out, clientVars, computeVars, caller>>

-----------------------------------------------------------------------------
(* receiveFile and closeReceiveFile *)

handle_receive_file_server ==
  /\ Running
  /\ "receiveFile" \in GateCommands
  /\ OPEN_RECEIVE_FILE_CONNECTION' = 1
  /\ UNCHANGED <<mesh_info_1, mesh_info_2, Shared_fileSize, processedBytes,
                 shared_outpath, program, serverVars, clientVars, computeVars,
                 caller>>

handle_close_receive_file_server ==
  /\ Running
  /\ "closeReceiveFile" \in GateCommands
  /\ OPEN_RECEIVE_FILE_CONNECTION' = 0
  /\ UNCHANGED <<mesh_info_1, mesh_info_2, Shared_fileSize, processedBytes,
                 shared_outpath, program, serverVars, clientVars, computeVars,
                 caller>>

-----------------------------------------------------------------------------
\* The steps of the thread on a machine that does not fail.
serve(t) ==
  \/ Refuse(t) \/ Admit(t) \/ Prompt(t) \/ CloseAfterPrompt(t)
  \/ ReceiveMetadata(t) \/ ResetProgress(t) \/ StartPath(t) \/ EndPath(t)
  \/ OpenOutput(t) \/ OpenOutputFails(t) \/ SignalTrain(t)
  \/ ReceiveBlock(t) \/ PublishProgress(t) \/ FinishReceive(t)
  \/ ReceiveFails(t)

handle_share_file_server(t) == serve(t) \/ CannotStore(t)
=============================================================================
