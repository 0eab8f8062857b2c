-------------------------- MODULE JobResultProofs --------------------------
(***************************************************************************)
(* A node that serves its jobs one after the other works behind what each  *)
(* of them has sent and reports every byte of it once, for any number of   *)
(* jobs and every size of their files, next to any number of interactive   *)
(* transfers and gate commands and under every failure.                    *)
(***************************************************************************)
EXTENDS ComputeJobProofs

\* The jobs of a node come in turn: of any two, the coordinator of one has its
\* result before the other one starts, and does not die waiting for it.
InTurn ==
  \A j, k \in Jobs : j # k =>
    \/ j \in After[k] /\ j \notin Dying
    \/ k \in After[j] /\ k \notin Dying

\* One job per node process, whose coordinator may die.
SingleJob == \A j, k \in Jobs : j = k

codeOf(j) == <<j, "code">>
trainOf(j) == <<j, "train">>

\* The handler of j is at work.
Current(j) == compute[j] \notin {"none", "closing", "done"}

\* The transfers of a job are transfers of the node.
LEMMA OwnTransfers ==
  ASSUME NEW j \in Jobs
  PROVE  /\ codeOf(j) \in Code /\ trainOf(j) \in Train
         /\ codeOf(j) \in JobTransfers /\ trainOf(j) \in JobTransfers
         /\ codeOf(j) \in Transfers /\ trainOf(j) \in Transfers
         /\ codeOf(j) # trainOf(j)
         /\ codeOf(j) \notin Manual /\ trainOf(j) \notin Manual
         /\ codeOf(j) \notin Train /\ trainOf(j) \notin Code
BY KindsAssumption DEF codeOf, trainOf, Code, Train, JobTransfers, Transfers, Manual

\* Every code and every train transfer is one of a job.
LEMMA TransferOwner ==
  /\ \A t \in Train : t[1] \in Jobs /\ t = trainOf(t[1]) /\ t \in JobTransfers
  /\ \A t \in Code : t[1] \in Jobs /\ t = codeOf(t[1]) /\ t \in JobTransfers
BY KindsAssumption DEF codeOf, trainOf, Code, Train, JobTransfers

-----------------------------------------------------------------------------
(* What a step leaves alone *)

\* A thread that serves a transfer changes no other transfer, and nothing at the
\* other end or in a handler.
LEMMA TransferStep ==
  ASSUME Typed, NEW t \in Transfers, handle_share_file_server(t)
  PROVE  /\ UNCHANGED <<program, computeVars, clientVars, caller>>
         /\ \A u \in Transfers \ {t} :
              server'[u] = server[u] /\ received'[u] = received[u] /\ out'[u] = out[u]
         /\ server[t] = "none" => client[t] = "asking"
<1>1. UNCHANGED <<program, computeVars, clientVars, caller>>
  BY DEF handle_share_file_server, serve, CannotStore, Refuse, Admit, Prompt, CloseAfterPrompt,
     ReceiveMetadata, ResetProgress, StartPath, EndPath, OpenOutput,
     OpenOutputFails, SignalTrain, ReceiveBlock, PublishProgress, FinishReceive,
     ReceiveFails
<1>2. \A u \in Transfers \ {t} :
        server'[u] = server[u] /\ received'[u] = received[u] /\ out'[u] = out[u]
  BY DEF handle_share_file_server, serve, CannotStore, Refuse, Admit, Prompt, CloseAfterPrompt,
     ReceiveMetadata, ResetProgress, StartPath, EndPath, OpenOutput,
     OpenOutputFails, SignalTrain, ReceiveBlock, PublishProgress, FinishReceive,
     ReceiveFails, serverVars, toServer, Typed, TypeOK
<1>3. server[t] = "none" => client[t] = "asking"
  BY DEF handle_share_file_server, serve, CannotStore, Refuse, Admit, Prompt, CloseAfterPrompt,
     ReceiveMetadata, MetadataFrom, ResetProgress, StartPath, EndPath, OpenOutput,
     OpenOutputFails, SignalTrain, ReceiveBlock, PublishProgress, FinishReceive,
     ReceiveFails, toServer
<1> QED
  BY <1>1, <1>2, <1>3

\* A handler changes no other handler, no transfer and no file.
LEMMA HandlerStep ==
  ASSUME Typed, NEW j \in Jobs, handle_distributive_systems(j)
  PROVE  /\ UNCHANGED <<Shared_fileSize, processedBytes, serverVars, clientVars, caller>>
         /\ \A k \in Jobs \ {j} :
              /\ compute'[k] = compute[k] /\ final_result'[k] = final_result[k]
              /\ offset'[k] = offset[k] /\ remaining'[k] = remaining[k]
              /\ fed'[k] = fed[k] /\ slice'[k] = slice[k] /\ trainfd'[k] = trainfd[k]
         /\ Running
<1>1. UNCHANGED <<Shared_fileSize, processedBytes, serverVars, clientVars, caller>> /\ Running
  BY DEF handle_distributive_systems, work, CannotOpenTrain, PreadFails, OpenGate, TakeCode, compileCode, TakeTrain,
     OpenTrain, Test, Measure, Feed, EndSlice, SliceFails, Report, CloseGate, Others,
     globals
<1>2. ASSUME NEW k \in Jobs \ {j}
      PROVE  /\ compute'[k] = compute[k] /\ final_result'[k] = final_result[k]
             /\ offset'[k] = offset[k] /\ remaining'[k] = remaining[k]
             /\ fed'[k] = fed[k] /\ slice'[k] = slice[k] /\ trainfd'[k] = trainfd[k]
  BY DEF handle_distributive_systems, work, CannotOpenTrain, PreadFails, OpenGate, TakeCode, compileCode, TakeTrain,
     OpenTrain, Test, Measure, Feed, EndSlice, SliceFails, Report, CloseGate,
     toCompute, Typed, TypeOK
<1> QED
  BY <1>1, <1>2

\* The steps of the peers and of the gate commands reach neither latches nor
\* progress, program, files or handlers.
LEMMA PeerStep ==
  ASSUME [Next]_vars,
         ~ \E t \in Transfers : handle_share_file_server(t),
         ~ \E j \in Jobs : handle_distributive_systems(j)
  PROVE  UNCHANGED <<mesh_info_1, mesh_info_2, Shared_fileSize, processedBytes, program,
                     serverVars, computeVars>>
<1> DEFINE Kept == UNCHANGED <<mesh_info_1, mesh_info_2, Shared_fileSize, processedBytes,
                               program, serverVars, computeVars>>
<1>1. ASSUME NEW t \in Transfers, send_file(t) \/ SenderFails(t)
      PROVE  Kept
  BY <1>1 DEF send_file, StartSend, ReadAdmitted, ReadRefused, ReadAccepted,
     ReadRejected, SendBlock, EndSend, ConnectionReset, SenderFails, NodeSide, globals
<1>2. ASSUME NEW j \in Jobs, distributiveComputingOverNetwork(j) \/ CoordinatorDies(j)
      PROVE  Kept
  BY <1>2 DEF distributiveComputingOverNetwork, StartJob, ReadOpen, ReadOpenAndResult,
     JoinSends, ReadResult, ConnectionLost, CoordinatorDies, Elsewhere, globals
<1>3. ASSUME handle_receive_file_server \/ handle_close_receive_file_server \/ UNCHANGED vars
      PROVE  Kept
  BY <1>3 DEF handle_receive_file_server, handle_close_receive_file_server, vars, globals
<1> HIDE DEF Kept
<1>4. Kept
  BY <1>1, <1>2, <1>3 DEF Next
<1> QED
  BY <1>4 DEF Kept

-----------------------------------------------------------------------------
(* One job at a time *)

\* A job starts when those before it are over; as long as the process lives, a job
\* that is over has reported; a transfer of a job is served when its handler has
\* opened the node for it.  So there is one handler at work.
OneAtATime ==
  /\ \A j, k \in Jobs : j \in After[k] /\ caller[k] # "idle" => Over(j)
  /\ \A j \in Jobs : caller[j] = "idle" => compute[j] = "none"
  /\ \A j \in Jobs : Over(j) /\ j \notin Dying => exited \/ HasReported(j)
  /\ \A t \in JobTransfers : client[t] \notin {"idle", "failed"} => compute[t[1]] # "none"
  /\ \A t \in JobTransfers : compute[t[1]] = "none" => server[t] = "none"
  /\ \A j, k \in Jobs : Current(j) /\ Current(k) => j = k

\* A thread that serves a transfer started after the handler of its job.
LEMMA ServerOneAtATime ==
  ASSUME Typed, OneAtATime, NEW t \in Transfers, handle_share_file_server(t)
  PROVE  OneAtATime'
<1>1. UNCHANGED <<exited, compute, client, caller>>
  BY TransferStep DEF program, computeVars, clientVars
<1>2. ASSUME NEW u \in JobTransfers, compute[u[1]] = "none"
      PROVE  server'[u] = "none"
  <2>1. server[u] = "none" /\ client[u] # "asking" /\ u \in Transfers
    BY <1>2, ConstantFacts DEF OneAtATime
  <2> QED
    BY <2>1, TransferStep
<1> QED
  BY <1>1, <1>2 DEF OneAtATime, Current, Over, HasReported

\* A sending thread goes on where its job let it start.
LEMMA ClientOneAtATime ==
  ASSUME Typed, OneAtATime, NEW t \in Transfers, send_file(t) \/ SenderFails(t)
  PROVE  OneAtATime'
<1>1. UNCHANGED <<exited, compute, server, caller>>
  BY DEF send_file, StartSend, ReadAdmitted, ReadRefused, ReadAccepted,
     ReadRejected, SendBlock, EndSend, ConnectionReset, SenderFails, NodeSide,
     program, serverVars, computeVars
<1>2. ASSUME NEW u \in JobTransfers, client'[u] \notin {"idle", "failed"}
      PROVE  client[u] \notin {"idle", "failed"}
  <2>1. u \in Transfers /\ u \notin Manual
    BY ConstantFacts
  <2> QED
    BY <1>2, <2>1 DEF send_file, StartSend, ReadAdmitted, ReadRefused, ReadAccepted,
     ReadRejected, SendBlock, EndSend, ConnectionReset, SenderFails, toClient, Typed, TypeOK
<1> QED
  BY <1>1, <1>2 DEF OneAtATime, Current, Over, HasReported

\* A handler starts when its coordinator did, and then every other handler has
\* reported or not started.
LEMMA HandlerOneAtATime ==
  ASSUME InTurn, Typed, OneAtATime, NEW j \in Jobs, handle_distributive_systems(j)
  PROVE  OneAtATime'
<1> USE DEF toCompute
<1>1. /\ UNCHANGED <<server, client, caller>> /\ ~exited
      /\ \A k \in Jobs \ {j} : compute'[k] = compute[k]
  BY HandlerStep DEF serverVars, clientVars, Running
<1>2. compute'[j] # "none"
  BY DEF handle_distributive_systems, work, CannotOpenTrain, PreadFails, OpenGate, TakeCode, compileCode, TakeTrain,
     OpenTrain, Test, Measure, Feed, EndSlice, SliceFails, Report, CloseGate, Typed, TypeOK
<1>3. HasReported(j) => HasReported(j)'
  BY DEF handle_distributive_systems, work, CannotOpenTrain, PreadFails, OpenGate, TakeCode, compileCode, TakeTrain,
     OpenTrain, Test, Measure, Feed, EndSlice, SliceFails, Report, CloseGate, HasReported,
     Typed, TypeOK
<1>4. caller[j] # "idle"
  BY DEF handle_distributive_systems, work, CannotOpenTrain, PreadFails, OpenGate, TakeCode, compileCode, TakeTrain,
     OpenTrain, Test, Measure, Feed, EndSlice, SliceFails, Report, CloseGate, OneAtATime
<1>5. ASSUME NEW k \in Jobs, k # j, Current(k)
      PROVE  ~Current(j)'
  <2>1. CASE OpenGate(j)
    <3>1. compute[j] = "none" /\ caller[k] # "idle"
      BY <1>5, <2>1 DEF OpenGate, Current, OneAtATime
    <3>2. CASE k \in After[j] /\ k \notin Dying
      BY <1>1, <1>4, <1>5, <3>2 DEF OneAtATime, Current, HasReported
    <3>3. CASE j \in After[k] /\ j \notin Dying
      BY <1>1, <3>1, <3>3 DEF OneAtATime, HasReported
    <3> QED
      BY <1>5, <3>2, <3>3 DEF InTurn
  <2>2. CASE ~OpenGate(j)
    <3>1. ~Current(j)
      BY <1>5 DEF OneAtATime
    <3> QED
      BY <2>2, <3>1 DEF handle_distributive_systems, work, CannotOpenTrain, PreadFails, TakeCode, compileCode, TakeTrain,
         OpenTrain, Test, Measure, Feed, EndSlice, SliceFails, Report, CloseGate, Current,
         Typed, TypeOK
  <2> QED
    BY <2>1, <2>2
<1>6. \A k, l \in Jobs : Current(k)' /\ Current(l)' => k = l
  BY <1>1, <1>5 DEF OneAtATime, Current
<1>7. \A k \in Jobs : HasReported(k) => HasReported(k)'
  BY <1>1, <1>3 DEF HasReported
<1>8. \A k \in Jobs : compute'[k] = "none" => compute[k] = "none" /\ k # j
  BY <1>1, <1>2
<1>9. \A t \in JobTransfers : t[1] \in Jobs
  BY ConstantFacts
<1>10. \A k \in Jobs : Over(k) /\ k \notin Dying => exited' \/ HasReported(k)'
  BY <1>1, <1>7 DEF OneAtATime
<1>11. /\ \A k \in Jobs : caller'[k] = "idle" => compute'[k] = "none"
       /\ \A t \in JobTransfers : client'[t] \notin {"idle", "failed"} => compute'[t[1]] # "none"
       /\ \A t \in JobTransfers : compute'[t[1]] = "none" => server'[t] = "none"
  BY <1>1, <1>4, <1>8, <1>9 DEF OneAtATime
<1> QED
  BY <1>1, <1>6, <1>10, <1>11 DEF OneAtATime, Over

\* A coordinator waits for those before it, and is over when its handler has reported.
LEMMA CallerOneAtATime ==
  ASSUME Typed, OneAtATime, NEW j \in Jobs,
         distributiveComputingOverNetwork(j) \/ CoordinatorDies(j)
  PROVE  OneAtATime'
<1> USE DEF toCaller
<1>1. UNCHANGED <<exited, compute, server>>
  BY DEF distributiveComputingOverNetwork, StartJob, ReadOpen, ReadOpenAndResult,
     JoinSends, ReadResult, ConnectionLost, CoordinatorDies, Elsewhere, program,
     serverVars, computeVars
<1>2. /\ \A k \in Jobs : Over(k) => Over(k)'
      /\ \A k \in Jobs : caller'[k] = "idle" => caller[k] = "idle"
      /\ \A k \in Jobs : caller[k] = "idle" /\ caller'[k] # "idle" =>
           \A l \in After[k] : Over(l)
  BY DEF distributiveComputingOverNetwork, StartJob, ReadOpen, ReadOpenAndResult,
     JoinSends, ReadResult, ConnectionLost, CoordinatorDies, Over, Typed, TypeOK
<1>3. ASSUME NEW k \in Jobs, Over(k)', k \notin Dying
      PROVE  Over(k) \/ exited \/ HasReported(k)
  BY <1>3 DEF distributiveComputingOverNetwork, StartJob, ReadOpen, ReadOpenAndResult,
     JoinSends, ReadResult, ConnectionLost, CoordinatorDies, Over, HasReported, Typed, TypeOK
<1>4. ASSUME NEW t \in JobTransfers, client'[t] \notin {"idle", "failed"}
      PROVE  compute[t[1]] # "none"
  <2>1. t \in Transfers
    BY ConstantFacts
  <2>2. CASE ReadOpen(j) /\ t \in {j} \X Kinds
    BY <2>2 DEF ReadOpen
  <2>3. CASE ~(ReadOpen(j) /\ t \in {j} \X Kinds)
    <3>1. client[t] \notin {"idle", "failed"}
      BY <1>4, <2>1, <2>3 DEF distributiveComputingOverNetwork, StartJob, ReadOpen,
         ReadOpenAndResult, JoinSends, ReadResult, ConnectionLost, CoordinatorDies,
         clientVars, Typed, TypeOK
    <3> QED
      BY <3>1 DEF OneAtATime
  <2> QED
    BY <2>2, <2>3
<1>5. \A k \in Jobs : Over(k)' /\ k \notin Dying => exited' \/ HasReported(k)'
  BY <1>1, <1>3 DEF OneAtATime, HasReported
<1>6. \A k, l \in Jobs : k \in After[l] /\ caller'[l] # "idle" => Over(k)'
  BY <1>2 DEF OneAtATime
<1>7. \A k, l \in Jobs : Current(k)' /\ Current(l)' => k = l
  BY <1>1 DEF OneAtATime, Current
<1> QED
  BY <1>1, <1>2, <1>4, <1>5, <1>6, <1>7 DEF OneAtATime

\* With jobs in turn no step brings a second handler to work.
LEMMA NextOneAtATime == InTurn /\ Typed /\ OneAtATime /\ [Next]_vars => OneAtATime'
<1> SUFFICES ASSUME InTurn, Typed, OneAtATime, [Next]_vars PROVE OneAtATime'
  OBVIOUS
<1>1. CASE handle_receive_file_server \/ handle_close_receive_file_server \/ UNCHANGED vars
  <2>1. UNCHANGED <<exited, compute, server, client, caller>>
    BY <1>1 DEF handle_receive_file_server, handle_close_receive_file_server, vars,
       program, serverVars, clientVars, computeVars
  <2> QED
    BY <2>1 DEF OneAtATime, Current, Over, HasReported
<1> QED
  BY <1>1, ServerOneAtATime, ClientOneAtATime, HandlerOneAtATime, CallerOneAtATime DEF Next

-----------------------------------------------------------------------------
(* The two latches *)

\* A transfer that has not opened its file.
BeforeOpen ==
  {"none", "refused", "admitted", "asked", "sizing", "building", "writing", "opening"}

\* Which transfers go through which stages.
Stages ==
  /\ \A t \in Transfers : server[t] \in {"sizing", "signalling", "publishing"} => t \in Train
  /\ \A t \in Transfers : server[t] \in {"asked", "rejecting", "closing"} => t \in Manual
  /\ \A t \in Transfers : server[t] \in BeforeOpen => out[t] = NoPath /\ received[t] = 0

\* The train file is open, and its transfer did not fail once everything was there.
TrainOpen(j) ==
  /\ \/ server[trainOf(j)] \in {"receiving", "publishing", "finished"}
     \/ server[trainOf(j)] = "aborted" /\ received[trainOf(j)] < FileSize[trainOf(j)]
  /\ out[trainOf(j)] \in Paths

\* A raised latch was raised for the handler that waits or will wait for it, and a
\* handler past a latch got there by its own transfer: what a job raises, it takes
\* down again before the next one comes.
Latched ==
  /\ mesh_info_1 = 1 =>
       \E j \in Jobs : compute[j] = "awaitCode" /\ server[codeOf(j)] = "finished"
  /\ mesh_info_2 = 1 =>
       \E j \in Jobs : compute[j] \in {"awaitCode", "compile", "awaitTrain"} /\ TrainOpen(j)
  /\ \A j \in Jobs : PastCode(j) => server[codeOf(j)] = "finished"
  /\ \A j \in Jobs : PastTrain(j) => TrainOpen(j)

\* No file has the empty path.
LEMMA NoPathIsNoFile == NoPath \notin Paths
<1>1. \A t \in Transfers : folder(t) # ""
  BY KindsAssumption DEF Transfers, JobTransfers, Manual, folder
<1> QED
  BY <1>1 DEF NoPath, Paths, Path, CodePath, TrainPath

\* Every step keeps the transfers in their stages.
LEMMA NextStages == Typed /\ Stages /\ [Next]_vars => Stages'
<1> SUFFICES ASSUME Typed, Stages, [Next]_vars PROVE Stages'
  OBVIOUS
<1>1. ASSUME NEW t \in Transfers, handle_share_file_server(t)
      PROVE  Stages'
  <2> USE DEF toServer
  <2>1. \A u \in Transfers :
          server'[u] \in {"sizing", "signalling", "publishing"} => u \in Train
    BY <1>1 DEF handle_share_file_server, serve, CannotStore, Refuse, Admit, Prompt, CloseAfterPrompt,
       ReceiveMetadata, ResetProgress, StartPath, EndPath, OpenOutput,
       OpenOutputFails, SignalTrain, ReceiveBlock, PublishProgress, FinishReceive,
       ReceiveFails, Returned, Stages, Typed, TypeOK
  <2>2. \A u \in Transfers :
          server'[u] \in {"asked", "rejecting", "closing"} => u \in Manual
    BY <1>1 DEF handle_share_file_server, serve, CannotStore, Refuse, Admit, Prompt, CloseAfterPrompt,
       ReceiveMetadata, ResetProgress, StartPath, EndPath, OpenOutput,
       OpenOutputFails, SignalTrain, ReceiveBlock, PublishProgress, FinishReceive,
       ReceiveFails, Returned, UserAsked, Stages, Typed, TypeOK
  <2>3. \A u \in Transfers : server'[u] \in BeforeOpen => out'[u] = NoPath /\ received'[u] = 0
    BY <1>1 DEF handle_share_file_server, serve, CannotStore, Refuse, Admit, Prompt, CloseAfterPrompt,
       ReceiveMetadata, MetadataFrom, ResetProgress, StartPath, EndPath, OpenOutput,
       OpenOutputFails, SignalTrain, ReceiveBlock, PublishProgress, FinishReceive,
       ReceiveFails, Returned, BeforeOpen, Stages, Typed, TypeOK
  <2> QED
    BY <2>1, <2>2, <2>3 DEF Stages
<1>2. CASE ~ \E t \in Transfers : handle_share_file_server(t)
  <2>1. UNCHANGED serverVars
    BY <1>2, PeerStep, HandlerStep
  <2> QED
    BY <2>1 DEF Stages, serverVars
<1> QED
  BY <1>1, <1>2

\* A file, once open, stays open, and only the signal that raises the second latch
\* makes it so.
LEMMA TrainStaysOpen ==
  ASSUME Typed, Stages, NEW t \in Transfers, handle_share_file_server(t), NEW j \in Jobs
  PROVE  /\ TrainOpen(j) => TrainOpen(j)'
         /\ TrainOpen(j)' =>
              \/ TrainOpen(j)
              \/ SignalTrain(t) /\ t = trainOf(j)
         /\ SignalTrain(t) /\ t = trainOf(j) => TrainOpen(j)'
<1> DEFINE tr == trainOf(j)
<1>1. tr \in Transfers /\ tr \in Train /\ tr \notin Manual
  BY OwnTransfers
<1> HIDE DEF tr
<1>2. CASE t # tr
  <2>1. server'[tr] = server[tr] /\ received'[tr] = received[tr] /\ out'[tr] = out[tr]
    BY <1>1, <1>2, TransferStep
  <2> QED
    BY <1>2, <2>1 DEF TrainOpen, tr
<1>3. CASE t = tr
  <2> USE DEF toServer
  <2>1. CASE SignalTrain(t)
    <3>1. server[tr] = "signalling" /\ server'[tr] = "receiving" /\ out'[tr] = out[tr]
      BY <1>1, <1>3, <2>1 DEF SignalTrain, Typed, TypeOK
    <3>2. out[tr] \in Paths
      BY <1>1, <3>1 DEF Typed, Bounds
    <3> QED
      BY <1>3, <2>1, <3>1, <3>2 DEF TrainOpen, tr
  <2>2. CASE ReceiveBlock(t)
    <3>1. /\ server[tr] = "receiving" /\ server'[tr] \in {"receiving", "publishing"}
          /\ out' = out
      BY <1>1, <1>3, <2>2 DEF ReceiveBlock, Typed, TypeOK
    <3> QED
      BY <3>1 DEF TrainOpen, tr, ReceiveBlock, SignalTrain
  <2>3. CASE ~SignalTrain(t) /\ ~ReceiveBlock(t)
    <3>1. received'[tr] = received[tr]
      BY <2>3 DEF handle_share_file_server, serve, CannotStore, Refuse, Admit, Prompt, CloseAfterPrompt,
         ReceiveMetadata, ResetProgress, StartPath, EndPath, OpenOutput,
         OpenOutputFails, PublishProgress, FinishReceive, ReceiveFails, serverVars
    <3>4. received[tr] < sent[tr] => received[tr] < FileSize[tr]
      BY <1>1, ConstantFacts DEF Typed, TypeOK
    <3>2. /\ server[tr] \in {"receiving", "publishing"} =>
               \/ server'[tr] \in {"receiving", "finished"}
               \/ server'[tr] = "aborted" /\ received[tr] < FileSize[tr]
          /\ server[tr] \notin {"finished", "aborted"}
          /\ server[tr] \notin {"receiving", "publishing"} =>
               \/ server'[tr] \notin {"receiving", "publishing", "finished", "aborted"}
               \/ server[tr] \in BeforeOpen /\ server'[tr] = "aborted" /\ out'[tr] = out[tr]
          /\ server[tr] \in {"receiving", "publishing"} => out'[tr] = out[tr]
      <4>1. CASE CannotStore(t)
        BY <1>1, <1>3, <3>4, <4>1 DEF CannotStore, Returned, UserAsked, BeforeOpen, Stages,
           Typed, TypeOK
      <4>2. CASE ~CannotStore(t)
        BY <1>1, <1>3, <2>3, <4>2 DEF handle_share_file_server, serve, Refuse, Admit, Prompt,
           CloseAfterPrompt, ReceiveMetadata, MetadataFrom, ResetProgress, StartPath, EndPath,
           OpenOutput, OpenOutputFails, PublishProgress, FinishReceive, ReceiveFails,
           Returned, UserAsked, BeforeOpen, Stages, Typed, TypeOK
      <4> QED
        BY <4>1, <4>2
    <3>3. server[tr] \in BeforeOpen => out[tr] = NoPath
      BY <1>1 DEF Stages
    <3> QED
      BY <2>3, <3>1, <3>2, <3>3, NoPathIsNoFile DEF TrainOpen, tr
  <2> QED
    BY <2>1, <2>2, <2>3
<1> QED
  BY <1>2, <1>3

\* A transfer raises the latch its own handler waits for, or will wait for.
LEMMA ServerLatched ==
  ASSUME Typed, OneAtATime, Stages, Latched, NEW t \in Transfers, handle_share_file_server(t)
  PROVE  Latched'
<1>1. compute' = compute
  BY TransferStep DEF computeVars
<1>2. ASSUME NEW j \in Jobs, server[codeOf(j)] = "finished"
      PROVE  server'[codeOf(j)] = "finished"
  <2>1. t # codeOf(j)
    BY <1>2 DEF handle_share_file_server, serve, CannotStore, Refuse, Admit, Prompt, CloseAfterPrompt,
       ReceiveMetadata, MetadataFrom, ResetProgress, StartPath, EndPath, OpenOutput,
       OpenOutputFails, SignalTrain, ReceiveBlock, PublishProgress, FinishReceive,
       ReceiveFails, toServer
  <2> QED
    BY <1>2, <2>1, TransferStep, OwnTransfers
<1>3. \A j \in Jobs : TrainOpen(j) => TrainOpen(j)'
  BY TrainStaysOpen
<1>4. ASSUME mesh_info_1' = 1
      PROVE  \E j \in Jobs : compute[j] = "awaitCode" /\ server'[codeOf(j)] = "finished"
  <2>1. CASE FinishReceive(t) /\ t \in Code
    <3>1. t[1] \in Jobs /\ t = codeOf(t[1]) /\ t \in JobTransfers /\ t \notin Manual
      BY <2>1, TransferOwner, ConstantFacts
    <3>2. server[t] = "receiving" /\ server'[t] = "finished"
      BY <2>1, <3>1 DEF FinishReceive, toServer, Returned, UserAsked, Typed, TypeOK
    <3>3. compute[t[1]] # "none" /\ ~PastCode(t[1])
      BY <3>1, <3>2 DEF OneAtATime, Latched
    <3> QED
      BY <3>1, <3>2, <3>3 DEF PastCode
  <2>2. CASE ~(FinishReceive(t) /\ t \in Code)
    <3>1. mesh_info_1' = mesh_info_1
      BY <2>2 DEF handle_share_file_server, serve, CannotStore, Refuse, Admit, Prompt, CloseAfterPrompt,
         ReceiveMetadata, ResetProgress, StartPath, EndPath, OpenOutput,
         OpenOutputFails, SignalTrain, ReceiveBlock, PublishProgress, FinishReceive,
         ReceiveFails, globals
    <3> QED
      BY <1>2, <1>4, <3>1 DEF Latched
  <2> QED
    BY <2>1, <2>2
<1>5. ASSUME mesh_info_2' = 1
      PROVE  \E j \in Jobs : /\ compute[j] \in {"awaitCode", "compile", "awaitTrain"}
                             /\ TrainOpen(j)'
  <2>1. CASE SignalTrain(t)
    <3>1. server[t] = "signalling"
      BY <2>1 DEF SignalTrain, toServer
    <3>2. t[1] \in Jobs /\ t = trainOf(t[1]) /\ t \in JobTransfers
      BY <3>1, TransferOwner DEF Stages
    <3>3. compute[t[1]] # "none" /\ ~PastTrain(t[1])
      BY <3>1, <3>2 DEF OneAtATime, Latched, TrainOpen
    <3>4. TrainOpen(t[1])'
      BY <2>1, <3>2, TrainStaysOpen
    <3> QED
      BY <3>2, <3>3, <3>4 DEF PastTrain
  <2>2. CASE ~SignalTrain(t)
    <3>1. mesh_info_2' = mesh_info_2
      BY <2>2 DEF handle_share_file_server, serve, CannotStore, Refuse, Admit, Prompt, CloseAfterPrompt,
         ReceiveMetadata, ResetProgress, StartPath, EndPath, OpenOutput,
         OpenOutputFails, ReceiveBlock, PublishProgress, FinishReceive,
         ReceiveFails, globals
    <3> QED
      BY <1>3, <1>5, <3>1 DEF Latched
  <2> QED
    BY <2>1, <2>2
<1> QED
  BY <1>1, <1>2, <1>3, <1>4, <1>5 DEF Latched, PastCode, PastTrain

\* A handler that takes a latch down takes its own.
LEMMA HandlerLatched ==
  ASSUME Typed, OneAtATime, Latched, NEW j \in Jobs, handle_distributive_systems(j)
  PROVE  Latched'
<1> USE DEF toCompute
<1>1. UNCHANGED <<server, received, out>>
  BY HandlerStep DEF serverVars
<1>2. \A k \in Jobs : TrainOpen(k)' <=> TrainOpen(k)
  BY <1>1 DEF TrainOpen
<1>3. \A k \in Jobs \ {j} : compute'[k] = compute[k]
  BY HandlerStep
<1>4. mesh_info_1 = 1 /\ compute[j] = "awaitCode" => server[codeOf(j)] = "finished"
  BY DEF OneAtATime, Latched, Current
<1>5. mesh_info_2 = 1 /\ compute[j] = "awaitTrain" => TrainOpen(j)
  BY DEF OneAtATime, Latched, Current
<1>6. ASSUME NEW k \in Jobs, PastCode(k)'
      PROVE  server[codeOf(k)] = "finished"
  <2>1. \/ PastCode(k)
        \/ k = j /\ TakeCode(j)
    BY <1>3, <1>6 DEF handle_distributive_systems, work, CannotOpenTrain, PreadFails, OpenGate, TakeCode, compileCode, TakeTrain,
       OpenTrain, Test, Measure, Feed, EndSlice, SliceFails, Report, CloseGate, PastCode,
       Typed, TypeOK
  <2> QED
    BY <1>4, <2>1 DEF Latched, TakeCode
<1>7. ASSUME NEW k \in Jobs, PastTrain(k)'
      PROVE  TrainOpen(k)
  <2>1. \/ PastTrain(k)
        \/ k = j /\ TakeTrain(j)
    BY <1>3, <1>7 DEF handle_distributive_systems, work, CannotOpenTrain, PreadFails, OpenGate, TakeCode, compileCode, TakeTrain,
       OpenTrain, Test, Measure, Feed, EndSlice, SliceFails, Report, CloseGate, PastTrain,
       Typed, TypeOK
  <2> QED
    BY <1>5, <2>1 DEF Latched, TakeTrain
<1>8. ASSUME mesh_info_1' = 1
      PROVE  \E k \in Jobs : compute'[k] = "awaitCode" /\ server[codeOf(k)] = "finished"
  <2>1. mesh_info_1 = 1 /\ ~TakeCode(j)
    BY <1>8 DEF handle_distributive_systems, work, CannotOpenTrain, PreadFails, OpenGate, TakeCode, compileCode, TakeTrain,
       OpenTrain, Test, Measure, Feed, EndSlice, SliceFails, Report, CloseGate, globals
  <2>2. PICK k \in Jobs : compute[k] = "awaitCode" /\ server[codeOf(k)] = "finished"
    BY <2>1 DEF Latched
  <2>3. compute'[k] = "awaitCode"
    BY <1>3, <2>1, <2>2 DEF handle_distributive_systems, work, CannotOpenTrain, PreadFails, OpenGate, compileCode, TakeTrain,
       OpenTrain, Test, Measure, Feed, EndSlice, SliceFails, Report, CloseGate
  <2> QED
    BY <2>2, <2>3
<1>9. ASSUME mesh_info_2' = 1
      PROVE  \E k \in Jobs : /\ compute'[k] \in {"awaitCode", "compile", "awaitTrain"}
                             /\ TrainOpen(k)
  <2>1. mesh_info_2 = 1 /\ ~TakeTrain(j)
    BY <1>9 DEF handle_distributive_systems, work, CannotOpenTrain, PreadFails, OpenGate, TakeCode, compileCode, TakeTrain,
       OpenTrain, Test, Measure, Feed, EndSlice, SliceFails, Report, CloseGate, globals
  <2>2. PICK k \in Jobs : compute[k] \in {"awaitCode", "compile", "awaitTrain"} /\ TrainOpen(k)
    BY <2>1 DEF Latched
  <2>3. compute'[k] \in {"awaitCode", "compile", "awaitTrain"}
    BY <1>3, <2>1, <2>2 DEF handle_distributive_systems, work, CannotOpenTrain, PreadFails, OpenGate, TakeCode, compileCode,
       OpenTrain, Test, Measure, Feed, EndSlice, SliceFails, Report, CloseGate, Typed, TypeOK
  <2> QED
    BY <2>2, <2>3
<1> QED
  BY <1>1, <1>2, <1>6, <1>7, <1>8, <1>9 DEF Latched

\* Nobody else has a hand in the latches.
LEMMA NextLatched ==
  Typed /\ OneAtATime /\ Stages /\ Latched /\ [Next]_vars => Latched'
<1> SUFFICES ASSUME Typed, OneAtATime, Stages, Latched, [Next]_vars PROVE Latched'
  OBVIOUS
<1>1. CASE UNCHANGED <<mesh_info_1, mesh_info_2, serverVars, computeVars>>
  BY <1>1 DEF Latched, TrainOpen, PastCode, PastTrain, serverVars, computeVars
<1> QED
  BY <1>1, PeerStep, ServerLatched, HandlerLatched

-----------------------------------------------------------------------------
(* The progress of the current job *)

\* Slices lie behind the published progress, and that behind the received bytes.
\* Size and progress are those of the current job from the moment its train transfer
\* sets them, which is before the handler is let past the second latch.
Behind(j) ==
  LET tr == trainOf(j) IN
  /\ server[tr] \in {"sizing", "building", "writing", "opening", "signalling"} \/ TrainOpen(j)
       => Shared_fileSize = FileSize[tr]
  /\ server[tr] \in {"building", "writing", "opening", "signalling"} => processedBytes = 0
  /\ TrainOpen(j) => processedBytes <= received[tr]
  /\ server[tr] = "publishing" => processedBytes < received[tr]
  /\ PastTrain(j) => offset[j] <= processedBytes
  /\ compute[j] = "feed" => offset[j] + remaining[j] <= processedBytes
  /\ compute[j] = "report" => offset[j] = FileSize[tr]

\* A handler that has not been let past its second latch has done nothing.
Unstarted(j) == offset[j] = 0 /\ final_result[j] = {} /\ ~trainfd[j]

\* Of the train transfer of a job that has reported only the thread's end is left.
Settled(j) ==
  /\ received[trainOf(j)] = FileSize[trainOf(j)]
  /\ server[trainOf(j)] \in {"receiving", "finished"}

Progress ==
  \A j \in Jobs :
    /\ Current(j) => Behind(j)
    /\ ~PastTrain(j) => Unstarted(j)
    /\ HasReported(j) => Settled(j)

\* A train transfer under way belongs to the current job, or is about to end.
LEMMA BusyTrain ==
  ASSUME OneAtATime, Progress, NEW t \in Train, server[t] # "none"
  PROVE  /\ t[1] \in Jobs /\ t = trainOf(t[1])
         /\ Current(t[1]) \/ (HasReported(t[1]) /\ Settled(t[1]))
<1>1. t[1] \in Jobs /\ t = trainOf(t[1]) /\ t \in JobTransfers
  BY TransferOwner
<1>2. compute[t[1]] # "none"
  BY <1>1 DEF OneAtATime
<1> QED
  BY <1>1, <1>2 DEF Current, HasReported, Progress

\* So another thread leaves size and progress alone while a job is current.
LEMMA OnlyOwnProgress ==
  ASSUME Typed, OneAtATime, Stages, Progress, NEW t \in Transfers,
         handle_share_file_server(t), NEW j \in Jobs, Current(j), t # trainOf(j)
  PROVE  UNCHANGED <<Shared_fileSize, processedBytes>>
<1>1. ASSUME t \in Train
      PROVE  server[t] \in {"none", "receiving", "finished"}
  BY <1>1, BusyTrain DEF OneAtATime, Settled
<1> QED
  BY <1>1 DEF handle_share_file_server, serve, CannotStore, Refuse, Admit, Prompt, CloseAfterPrompt,
     ReceiveMetadata, MetadataFrom, UserAsked, ResetProgress, StartPath, EndPath,
     OpenOutput, OpenOutputFails, SignalTrain, ReceiveBlock, PublishProgress,
     FinishReceive, ReceiveFails, toServer, globals, Stages

\* The train transfer of the current job keeps its order: the size first, then the
\* reset, then the open file and the signal, and every byte before its publication.
LEMMA OwnProgress ==
  ASSUME Typed, Stages, Latched, NEW j \in Jobs, Current(j), Behind(j), Unstarted(j) \/ PastTrain(j),
         handle_share_file_server(trainOf(j))
  PROVE  Behind(j)'
<1> DEFINE tr == trainOf(j)
<1>1. tr \in Transfers /\ tr \in Train /\ tr \notin Manual /\ tr \notin Code
  BY OwnTransfers
<1>2. UNCHANGED <<compute, offset, remaining>>
  BY <1>1, TransferStep DEF computeVars
<1>3. PastTrain(j) => TrainOpen(j)
  BY DEF Latched
<1>4. /\ TrainOpen(j) => TrainOpen(j)'
      /\ TrainOpen(j)' => TrainOpen(j) \/ SignalTrain(tr)
      /\ SignalTrain(tr) => TrainOpen(j)'
  BY <1>1, TrainStaysOpen
<1>5. /\ server[tr] \in {"sizing", "building", "writing", "opening", "signalling"} \/ TrainOpen(j)
           => Shared_fileSize = FileSize[tr]
      /\ server[tr] \in {"building", "writing", "opening", "signalling"} => processedBytes = 0
      /\ TrainOpen(j) => processedBytes <= received[tr]
      /\ server[tr] = "publishing" => processedBytes < received[tr]
      /\ PastTrain(j) => offset[j] <= processedBytes
      /\ compute[j] = "feed" => offset[j] + remaining[j] <= processedBytes
      /\ compute[j] = "report" => offset[j] = FileSize[tr]
  BY DEF Behind
<1>6. /\ received[tr] \in Nat /\ processedBytes \in Nat /\ offset[j] \in Nat
      /\ remaining[j] \in Int /\ received'[tr] \in Nat /\ processedBytes' \in Nat
  <2>1. Typed'
    BY <1>1, ServerTyped
  <2> QED
    BY <1>1, <2>1, ConstantFacts DEF Typed, TypeOK
<1>7. compute[j] = "feed" \/ compute[j] = "report" => PastTrain(j)
  BY DEF PastTrain
<1> HIDE DEF tr
<1> SUFFICES /\ server'[tr] \in {"sizing", "building", "writing", "opening", "signalling"}
                  => Shared_fileSize' = FileSize[tr]
             /\ TrainOpen(j)' => Shared_fileSize' = FileSize[tr]
             /\ server'[tr] \in {"building", "writing", "opening", "signalling"}
                  => processedBytes' = 0
             /\ TrainOpen(j)' => processedBytes' <= received'[tr]
             /\ server'[tr] = "publishing" => processedBytes' < received'[tr]
             /\ PastTrain(j) => processedBytes <= processedBytes'
  BY <1>2, <1>5, <1>6, <1>7 DEF Behind, PastTrain, tr
<1> USE DEF toServer
<1>8. CASE ReceiveMetadata(tr)
  <2>1. /\ server[tr] = "admitted" /\ server'[tr] = "sizing"
        /\ Shared_fileSize' = FileSize[tr] /\ processedBytes' = processedBytes
    BY <1>1, <1>8 DEF ReceiveMetadata, MetadataFrom, UserAsked, Typed, TypeOK
  <2>2. ~TrainOpen(j)'
    BY <1>4, <2>1 DEF TrainOpen, SignalTrain, tr
  <2> QED
    BY <1>6, <2>1, <2>2
<1>9. CASE ResetProgress(tr)
  <2>1. /\ server[tr] = "sizing" /\ server'[tr] = "building"
        /\ Shared_fileSize' = Shared_fileSize /\ processedBytes' = 0
    BY <1>1, <1>9 DEF ResetProgress, Typed, TypeOK
  <2>2. ~TrainOpen(j) /\ ~TrainOpen(j)'
    BY <1>4, <2>1 DEF TrainOpen, SignalTrain, tr
  <2> QED
    BY <1>3, <1>5, <2>1, <2>2
<1>10. CASE PublishProgress(tr)
  <2>1. /\ server[tr] = "publishing" /\ server'[tr] = "receiving"
        /\ Shared_fileSize' = Shared_fileSize /\ processedBytes' = received[tr]
        /\ received' = received
    BY <1>1, <1>10 DEF PublishProgress, Typed, TypeOK
  <2>2. ~SignalTrain(tr)
    BY <2>1 DEF SignalTrain
  <2> QED
    BY <1>4, <1>5, <1>6, <2>1, <2>2
<1>11. CASE ReceiveBlock(tr)
  <2>1. PICK n \in 1 .. sent[tr] - received[tr] : received' = [received EXCEPT ![tr] = @ + n]
    BY <1>11 DEF ReceiveBlock
  <2>2. /\ server[tr] = "receiving" /\ server'[tr] = "publishing" /\ out' = out
        /\ Shared_fileSize' = Shared_fileSize /\ processedBytes' = processedBytes
    BY <1>1, <1>11 DEF ReceiveBlock, globals, Typed, TypeOK
  <2>3. received'[tr] > received[tr]
    BY <1>1, <1>6, <2>1, ConstantFacts DEF Typed, TypeOK
  <2>4. TrainOpen(j)
    <3>1. out[tr] \in Paths
      BY <1>1, <2>2 DEF Typed, Bounds
    <3> QED
      BY <2>2, <3>1 DEF TrainOpen, tr
  <2> QED
    BY <1>5, <1>6, <2>2, <2>3, <2>4
<1>12. CASE ~(ReceiveMetadata(tr) \/ ResetProgress(tr) \/ PublishProgress(tr) \/ ReceiveBlock(tr))
  <2>1. UNCHANGED <<Shared_fileSize, processedBytes, received>>
    BY <1>12 DEF handle_share_file_server, serve, CannotStore, Refuse, Admit, Prompt, CloseAfterPrompt,
       StartPath, EndPath, OpenOutput, OpenOutputFails, SignalTrain, FinishReceive,
       ReceiveFails, globals, tr
  <2>2. /\ server'[tr] \in {"building", "writing", "opening", "signalling"} =>
             server[tr] \in {"building", "writing", "opening", "signalling"}
        /\ server'[tr] \notin {"sizing", "publishing"}
    BY <1>1, <1>12 DEF handle_share_file_server, serve, CannotStore, Refuse, Admit, Prompt, CloseAfterPrompt,
       StartPath, EndPath, OpenOutput, OpenOutputFails, SignalTrain, FinishReceive,
       ReceiveFails, Returned, tr, Typed, TypeOK
  <2>3. SignalTrain(tr) => server[tr] = "signalling"
    BY DEF SignalTrain
  <2> QED
    BY <1>4, <1>5, <1>6, <2>1, <2>2, <2>3
<1> QED
  BY <1>8, <1>9, <1>10, <1>11, <1>12

\* The threads of the transfers keep the progress of every job.
LEMMA ServerProgress ==
  ASSUME Typed, OneAtATime, Stages, Latched, Progress,
         NEW t \in Transfers, handle_share_file_server(t)
  PROVE  Progress'
<1>1. UNCHANGED <<compute, offset, remaining, final_result, trainfd>>
  BY TransferStep DEF computeVars
<1> SUFFICES ASSUME NEW j \in Jobs
             PROVE  /\ Current(j) => Behind(j)'
                    /\ HasReported(j) => Settled(j)'
  BY <1>1 DEF Progress, Current, PastTrain, HasReported, Unstarted
<1>2. trainOf(j) \in Transfers /\ trainOf(j) \notin Manual
  BY OwnTransfers
<1>3. ASSUME Current(j), t # trainOf(j)
      PROVE  Behind(j)'
  <2>1. UNCHANGED <<Shared_fileSize, processedBytes>>
    BY <1>3, OnlyOwnProgress
  <2>2. /\ server'[trainOf(j)] = server[trainOf(j)]
        /\ received'[trainOf(j)] = received[trainOf(j)]
        /\ out'[trainOf(j)] = out[trainOf(j)]
    BY <1>2, <1>3, TransferStep
  <2>3. Behind(j)
    BY <1>3 DEF Progress
  <2> QED
    BY <1>1, <2>1, <2>2, <2>3 DEF Behind, TrainOpen, PastTrain
<1>4. ASSUME Current(j), t = trainOf(j)
      PROVE  Behind(j)'
  <2>1. Behind(j) /\ (Unstarted(j) \/ PastTrain(j))
    BY <1>4 DEF Progress
  <2> QED
    BY <1>4, <2>1, OwnProgress
<1>5. ASSUME HasReported(j)
      PROVE  Settled(j)'
  <2>1. Settled(j)
    BY <1>5 DEF Progress
  <2>2. CASE t # trainOf(j)
    <3>1. /\ server'[trainOf(j)] = server[trainOf(j)]
          /\ received'[trainOf(j)] = received[trainOf(j)]
      BY <1>2, <2>2, TransferStep
    <3> QED
      BY <2>1, <3>1 DEF Settled
  <2>3. CASE t = trainOf(j)
    <3>1. sent[t] <= FileSize[t] /\ sent[t] \in Int /\ FileSize[t] \in Nat
      BY ConstantFacts DEF Typed, TypeOK, Bounds
    <3>2. ~ReceiveBlock(t)
      BY <2>1, <2>3, <3>1 DEF ReceiveBlock, Settled
    <3>3. ~ReceiveFails(t)
      BY <2>1, <2>3, <3>1 DEF ReceiveFails, Settled, toServer
    <3> QED
      BY <1>2, <2>1, <2>3, <3>2, <3>3 DEF handle_share_file_server, serve, CannotStore, Refuse, Admit, Prompt,
         CloseAfterPrompt, ReceiveMetadata, MetadataFrom, ResetProgress, StartPath, EndPath,
         OpenOutput, OpenOutputFails, SignalTrain, PublishProgress, FinishReceive,
         Returned, UserAsked, toServer, Settled, Typed, TypeOK
  <2> QED
    BY <2>2, <2>3
<1> QED
  BY <1>3, <1>4, <1>5

\* A handler measures and ends its slices behind the progress, and reports when its
\* transfer has brought everything.
LEMMA HandlerProgress ==
  ASSUME Typed, OneAtATime, Stages, Latched, Progress,
         NEW j \in Jobs, handle_distributive_systems(j)
  PROVE  Progress'
<1> USE DEF toCompute
<1> DEFINE tr == trainOf(j)
<1>1. UNCHANGED <<Shared_fileSize, processedBytes, server, received, out>>
  BY HandlerStep DEF serverVars
<1>2. ASSUME NEW k \in Jobs \ {j}
      PROVE  /\ Current(k)' => Behind(k)'
             /\ ~PastTrain(k)' => Unstarted(k)'
             /\ HasReported(k)' => Settled(k)'
  <2>1. /\ compute'[k] = compute[k] /\ offset'[k] = offset[k] /\ remaining'[k] = remaining[k]
        /\ final_result'[k] = final_result[k] /\ trainfd'[k] = trainfd[k]
    BY HandlerStep
  <2> QED
    BY <1>1, <2>1 DEF Progress, Current, Behind, TrainOpen, PastTrain, HasReported, Unstarted,
       Settled
<1>3. /\ processedBytes \in Nat /\ offset[j] \in Nat /\ remaining[j] \in Int
      /\ received[tr] \in Nat /\ FileSize[tr] \in Nat
      /\ received[tr] <= FileSize[tr]
  <2>1. tr \in Transfers
    BY OwnTransfers
  <2> QED
    BY <2>1, ConstantFacts DEF Typed, TypeOK, Bounds
<1>4. /\ PastTrain(j) => TrainOpen(j)
      /\ ~PastTrain(j) => Unstarted(j)
      /\ TrainOpen(j)' <=> TrainOpen(j)
  BY <1>1 DEF Latched, Progress, TrainOpen
<1> HIDE DEF tr
<1>5. CASE OpenGate(j)
  <2>1. server[tr] = "none" /\ compute'[j] = "awaitCode"
    BY <1>5, OwnTransfers DEF OpenGate, OneAtATime, tr, trainOf, Typed, TypeOK
  <2>2. UNCHANGED <<offset, final_result, trainfd>> /\ compute[j] = "none"
    BY <1>5 DEF OpenGate
  <2>3. Behind(j)' /\ ~HasReported(j)'
    BY <1>1, <2>1 DEF Behind, TrainOpen, PastTrain, HasReported, tr
  <2>4. Unstarted(j)'
    BY <1>4, <2>2 DEF PastTrain, Unstarted
  <2> QED
    BY <1>2, <2>3, <2>4 DEF Progress
<1>6. CASE CloseGate(j)
  <2>1. HasReported(j) /\ Settled(j) /\ compute'[j] = "done"
    BY <1>6 DEF CloseGate, HasReported, Progress, Typed, TypeOK
  <2>2. ~Current(j)' /\ PastTrain(j)' /\ Settled(j)'
    BY <1>1, <2>1 DEF Current, PastTrain, Settled
  <2> QED
    BY <1>2, <2>2 DEF Progress
<1>7. CASE ~OpenGate(j) /\ ~CloseGate(j)
  <2>1. Current(j) /\ compute'[j] # "none" /\ ~HasReported(j)
    BY <1>7 DEF handle_distributive_systems, work, CannotOpenTrain, PreadFails, TakeCode, compileCode, TakeTrain,
       OpenTrain, Test, Measure, Feed, EndSlice, SliceFails, Report, Current, HasReported,
       Typed, TypeOK
  <2>2. /\ server[tr] \in {"sizing", "building", "writing", "opening", "signalling"}
             \/ TrainOpen(j) => Shared_fileSize = FileSize[tr]
        /\ server[tr] \in {"building", "writing", "opening", "signalling"} => processedBytes = 0
        /\ TrainOpen(j) => processedBytes <= received[tr]
        /\ server[tr] = "publishing" => processedBytes < received[tr]
        /\ PastTrain(j) => offset[j] <= processedBytes
        /\ compute[j] = "feed" => offset[j] + remaining[j] <= processedBytes
        /\ compute[j] = "report" => offset[j] = FileSize[tr]
    BY <2>1 DEF Progress, Behind, tr
  <2>3. /\ PastTrain(j)' => offset'[j] <= processedBytes
        /\ compute'[j] = "feed" => offset'[j] + remaining'[j] <= processedBytes
        /\ compute'[j] = "report" => offset'[j] = FileSize[tr]
    <3>1. CASE Test(j)
      <4>1. PastTrain(j) /\ UNCHANGED <<offset, remaining>>
            /\ compute'[j] = (IF offset[j] = Shared_fileSize THEN "report" ELSE "measure")
        BY <3>1 DEF Test, PastTrain, Typed, TypeOK
      <4> QED
        BY <1>4, <2>2, <4>1
    <3>2. CASE Measure(j)
      <4>1. /\ PastTrain(j) /\ offset' = offset /\ compute'[j] = "feed"
            /\ remaining'[j] = processedBytes - offset[j]
        BY <3>2 DEF Measure, PastTrain, Typed, TypeOK
      <4> QED
        BY <1>3, <2>2, <4>1
    <3>3. CASE EndSlice(j) \/ PreadFails(j) \/ SliceFails(j)
      <4>1. /\ compute[j] = "feed" /\ compute'[j] = "test"
            /\ offset'[j] = offset[j] + remaining[j]
        BY <3>3 DEF EndSlice, PreadFails, SliceFails, Typed, TypeOK
      <4> QED
        BY <1>3, <2>2, <4>1
    <3>4. CASE TakeTrain(j)
      <4>1. compute[j] = "awaitTrain" /\ compute'[j] = "open" /\ offset'[j] = offset[j]
        BY <3>4 DEF TakeTrain, Typed, TypeOK
      <4>2. offset[j] = 0
        BY <1>4, <4>1 DEF PastTrain, Unstarted
      <4> QED
        BY <1>3, <4>1, <4>2
    <3>5. CASE ~(Test(j) \/ Measure(j) \/ EndSlice(j) \/ PreadFails(j) \/ SliceFails(j)
                   \/ TakeTrain(j))
      <4>1. /\ offset' = offset /\ remaining' = remaining
            /\ compute'[j] = "feed" => compute[j] = "feed"
            /\ compute'[j] # "report"
            /\ PastTrain(j)' => PastTrain(j)
        BY <1>7, <3>5 DEF handle_distributive_systems, work, CannotOpenTrain, TakeCode, compileCode,
           OpenTrain, Feed, Report, PastTrain, Typed, TypeOK
      <4> QED
        BY <2>2, <4>1
    <3> QED
      BY <3>1, <3>2, <3>3, <3>4, <3>5
  <2>4. Behind(j)'
    BY <1>1, <1>4, <2>2, <2>3 DEF Behind, tr
  <2>5. ~PastTrain(j)' => Unstarted(j)'
    <3>1. ~PastTrain(j)' => ~PastTrain(j) /\ UNCHANGED <<offset, final_result, trainfd>>
      BY <1>7 DEF handle_distributive_systems, work, CannotOpenTrain, PreadFails, TakeCode, compileCode, TakeTrain,
         OpenTrain, Test, Measure, Feed, EndSlice, SliceFails, Report, PastTrain,
         Typed, TypeOK
    <3> QED
      BY <1>4, <3>1 DEF Unstarted
  <2>6. HasReported(j)' => Settled(j)'
    <3>1. HasReported(j)' => compute[j] = "report"
      BY <1>7 DEF handle_distributive_systems, work, CannotOpenTrain, PreadFails, TakeCode, compileCode, TakeTrain,
         OpenTrain, Test, Measure, Feed, EndSlice, SliceFails, Report, HasReported,
         Typed, TypeOK
    <3>2. ASSUME compute[j] = "report"
          PROVE  Settled(j)
      <4>1. PastTrain(j)
        BY <3>2 DEF PastTrain
      <4>2. received[tr] = FileSize[tr] /\ processedBytes = received[tr]
        BY <1>3, <1>4, <2>2, <3>2, <4>1
      <4>3. server[tr] \in {"receiving", "finished"}
        BY <1>3, <1>4, <2>2, <4>1, <4>2 DEF TrainOpen, tr
      <4> QED
        BY <4>2, <4>3 DEF Settled, tr
    <3> QED
      BY <1>1, <3>1, <3>2 DEF Settled
  <2> QED
    BY <1>2, <2>4, <2>5, <2>6 DEF Progress
<1> QED
  BY <1>5, <1>6, <1>7

\* Everybody else leaves the progress alone.
LEMMA NextProgress ==
  Typed /\ OneAtATime /\ Stages /\ Latched /\ Progress /\ [Next]_vars => Progress'
<1> SUFFICES ASSUME Typed, OneAtATime, Stages, Latched, Progress, [Next]_vars
             PROVE  Progress'
  OBVIOUS
<1>1. CASE UNCHANGED <<Shared_fileSize, processedBytes, serverVars, computeVars>>
  BY <1>1 DEF Progress, Current, Behind, TrainOpen, PastTrain, HasReported, Unstarted,
     Settled, serverVars, computeVars
<1> QED
  BY <1>1, PeerStep, ServerProgress, HandlerProgress

\* The node starts with all of it.
LEMMA InitTurns == Init => OneAtATime /\ Stages /\ Latched /\ Progress
<1> SUFFICES ASSUME Init PROVE OneAtATime /\ Stages /\ Latched /\ Progress
  OBVIOUS
<1>1. OneAtATime
  BY ConstantFacts DEF Init, OneAtATime, Current, Over
<1>2. Stages
  BY DEF Init, Stages
<1>3. Latched
  BY DEF Init, Latched, PastCode, PastTrain
<1>4. Progress
  BY DEF Init, Progress, Current, HasReported, Unstarted
<1> QED
  BY <1>1, <1>2, <1>3, <1>4

\* Each layer of the invariant rests on the ones before it.
LEMMA TurnInvariance ==
  ASSUME InTurn
  PROVE  Spec => [](Typed /\ OneAtATime /\ Stages /\ Latched /\ Progress)
BY InitTurns, NextOneAtATime, NextStages, NextLatched, NextProgress, TypedInvariance, PTL
   DEF Spec

\* With jobs in turn, of whatever number and sizes and whatever else the node does, no
\* handler works ahead of what its own train transfer has received, although size,
\* progress and latches are the node's and each job finds what the last one left.
THEOREM JobReadsBehindWriter ==
  ASSUME InTurn
  PROVE  Spec => []ReadsBehindWriter
<1>1. OneAtATime /\ Latched /\ Progress => ReadsBehindWriter
  <2> SUFFICES ASSUME OneAtATime, Latched, Progress, NEW j \in Jobs,
                      PastTrain(j), ~HasReported(j)
               PROVE  /\ processedBytes <= received[trainOf(j)]
                      /\ offset[j] <= processedBytes
                      /\ compute[j] = "feed" => offset[j] + remaining[j] <= processedBytes
    BY DEF ReadsBehindWriter, trainOf
  <2>1. Current(j) /\ TrainOpen(j)
    BY DEF PastTrain, HasReported, Current, Latched
  <2> QED
    BY <2>1 DEF Progress, Behind
<1> QED
  BY <1>1, TurnInvariance, PTL

-----------------------------------------------------------------------------
(* Nobody waits in vain *)

\* With jobs in turn the first comment of the handler holds: one that is past the first
\* latch has its own code file.  Jobs at once refute it.
THEOREM JobOwnCodeFinished ==
  ASSUME InTurn
  PROVE  Spec => []OwnCodeFinished
<1>1. Latched => OwnCodeFinished
  BY DEF Latched, OwnCodeFinished, codeOf
<1> QED
  BY <1>1, TurnInvariance, PTL

\* What was raised for a handler stays raised until that handler takes it, and what
\* was received of the current job's train file is published, or about to be.
Kept ==
  /\ \A j \in Jobs : compute[j] = "awaitCode" /\ server[codeOf(j)] = "finished" =>
       mesh_info_1 = 1
  /\ \A j \in Jobs : TrainOpen(j) /\ ~PastTrain(j) => mesh_info_2 = 1
  /\ \A t \in Transfers : server[t] = "signalling" => received[t] = 0
  /\ \A j \in Jobs : Current(j) /\ TrainOpen(j) /\ server[trainOf(j)] # "publishing" =>
       processedBytes = received[trainOf(j)]
  /\ \A t \in Train : server[t] = "finished" => out[t] \in Paths
  /\ \A j \in Jobs : compute[j] = "measure" => offset[j] # FileSize[trainOf(j)]

\* The transfers raise, and publish each block before they ask for the next one.
LEMMA ServerKept ==
  ASSUME Typed, OneAtATime, Stages, Progress, Kept,
         NEW t \in Transfers, handle_share_file_server(t)
  PROVE  Kept'
<1> USE DEF toServer
<1>1. compute' = compute /\ offset' = offset
  BY TransferStep DEF computeVars
<1>2. ASSUME NEW j \in Jobs, compute[j] = "awaitCode", server'[codeOf(j)] = "finished"
      PROVE  mesh_info_1' = 1
  <2>1. codeOf(j) \in Transfers /\ codeOf(j) \in Code /\ codeOf(j) \notin Manual
    BY OwnTransfers
  <2>2. \/ server[codeOf(j)] = "finished" /\ mesh_info_1' # 0
        \/ FinishReceive(t) /\ t = codeOf(j)
    <3>1. CASE t # codeOf(j)
      <4>1. server[codeOf(j)] = "finished"
        BY <1>2, <2>1, <3>1, TransferStep
      <4>2. mesh_info_1 = 1
        BY <1>2, <4>1 DEF Kept
      <4>3. mesh_info_1' = 1 \/ mesh_info_1' = mesh_info_1
        BY DEF handle_share_file_server, serve, CannotStore, Refuse, Admit, Prompt, CloseAfterPrompt,
           ReceiveMetadata, ResetProgress, StartPath, EndPath, OpenOutput,
           OpenOutputFails, SignalTrain, ReceiveBlock, PublishProgress, FinishReceive,
           ReceiveFails, globals
      <4> QED
        BY <4>1, <4>2, <4>3
    <3>2. CASE t = codeOf(j)
      <4>1. server[t] # "closing"
        BY <2>1, <3>2 DEF Stages
      <4> QED
        BY <1>2, <2>1, <3>2, <4>1 DEF handle_share_file_server, serve, CannotStore, Refuse, Admit, Prompt,
           CloseAfterPrompt, ReceiveMetadata, ResetProgress, StartPath, EndPath, OpenOutput,
           OpenOutputFails, SignalTrain, ReceiveBlock, PublishProgress, ReceiveFails,
           Returned, UserAsked, Typed, TypeOK
    <3> QED
      BY <3>1, <3>2
  <2>3. mesh_info_1' \in {0, 1}
    BY ServerTyped DEF Typed, TypeOK
  <2> QED
    BY <2>1, <2>2, <2>3 DEF FinishReceive
<1>3. ASSUME NEW j \in Jobs, TrainOpen(j)', ~PastTrain(j)
      PROVE  mesh_info_2' = 1
  <2>1. \/ TrainOpen(j)
        \/ SignalTrain(t)
    BY <1>3, TrainStaysOpen
  <2>2. mesh_info_2' = 1 \/ mesh_info_2' = mesh_info_2
    BY DEF handle_share_file_server, serve, CannotStore, Refuse, Admit, Prompt, CloseAfterPrompt,
       ReceiveMetadata, ResetProgress, StartPath, EndPath, OpenOutput,
       OpenOutputFails, SignalTrain, ReceiveBlock, PublishProgress, FinishReceive,
       ReceiveFails, globals
  <2>3. SignalTrain(t) => mesh_info_2' = 1
    BY DEF SignalTrain
  <2> QED
    BY <1>3, <2>1, <2>2, <2>3 DEF Kept
<1>4. ASSUME NEW u \in Transfers, server'[u] = "signalling"
      PROVE  received'[u] = 0
  <2>1. CASE u # t
    BY <1>4, <2>1, TransferStep DEF Kept
  <2>2. CASE u = t
    <3>1. OpenOutput(t)
      BY <1>4, <2>2 DEF handle_share_file_server, serve, CannotStore, Refuse, Admit, Prompt, CloseAfterPrompt,
         ReceiveMetadata, ResetProgress, StartPath, EndPath, OpenOutputFails, SignalTrain,
         ReceiveBlock, PublishProgress, FinishReceive, ReceiveFails, Returned, Typed, TypeOK
    <3> QED
      BY <2>2, <3>1 DEF OpenOutput, Stages, BeforeOpen
  <2> QED
    BY <2>1, <2>2
<1>5. ASSUME NEW j \in Jobs, Current(j), TrainOpen(j)', server'[trainOf(j)] # "publishing"
      PROVE  processedBytes' = received'[trainOf(j)]
  <2> DEFINE tr == trainOf(j)
  <2>1. tr \in Transfers /\ tr \in Train
    BY OwnTransfers
  <2>2. Behind(j)
    BY <1>5 DEF Progress
  <2> HIDE DEF tr
  <2>3. CASE t # tr
    <3>1. /\ processedBytes' = processedBytes /\ TrainOpen(j)
          /\ server'[tr] = server[tr] /\ received'[tr] = received[tr]
      BY <1>5, <2>1, <2>3, OnlyOwnProgress, TransferStep, TrainStaysOpen DEF tr
    <3> QED
      BY <1>5, <3>1 DEF Kept, tr
  <2>4. CASE t = tr /\ SignalTrain(t)
    <3>1. /\ server[tr] = "signalling" /\ processedBytes' = processedBytes
          /\ received'[tr] = received[tr]
      BY <2>4 DEF SignalTrain
    <3> QED
      BY <2>1, <2>2, <3>1 DEF Kept, Behind, tr
  <2>5. CASE t = tr /\ PublishProgress(t)
    BY <2>5 DEF PublishProgress, tr
  <2>6. CASE t = tr /\ ~SignalTrain(t) /\ ~PublishProgress(t)
    <3>1. TrainOpen(j)
      BY <1>5, <2>6, TrainStaysOpen
    <3>2. server[tr] \in {"receiving", "publishing", "finished", "aborted"}
      BY <3>1 DEF TrainOpen, tr
    <3>3. ~ReceiveBlock(t)
      BY <1>5, <2>1, <2>6 DEF ReceiveBlock, tr, Typed, TypeOK
    <3>4. UNCHANGED <<processedBytes, received>> /\ server[tr] # "publishing"
      BY <2>6, <3>2, <3>3 DEF handle_share_file_server, serve, CannotStore, Refuse, Admit, Prompt,
         CloseAfterPrompt, ReceiveMetadata, MetadataFrom, ResetProgress, StartPath, EndPath,
         OpenOutput, OpenOutputFails, FinishReceive, ReceiveFails, globals
    <3> QED
      BY <1>5, <3>1, <3>4 DEF Kept, tr
  <2> QED
    BY <2>3, <2>4, <2>5, <2>6
<1>6. /\ \A j \in Jobs : Current(j)' <=> Current(j)
      /\ \A j \in Jobs : PastTrain(j)' <=> PastTrain(j)
  BY <1>1 DEF Current, PastTrain
<1>7. ASSUME NEW u \in Train, server'[u] = "finished"
      PROVE  out'[u] \in Paths
  <2>1. u \in Transfers /\ u \notin Manual
    BY TransferOwner, OwnTransfers
  <2>2. CASE u # t
    BY <1>7, <2>1, <2>2, TransferStep DEF Kept
  <2>3. CASE u = t
    <3>1. FinishReceive(t)
      BY <1>7, <2>1, <2>3 DEF handle_share_file_server, serve, CannotStore, Refuse, Admit, Prompt, Stages,
         CloseAfterPrompt, ReceiveMetadata, ResetProgress, StartPath, EndPath, OpenOutput,
         OpenOutputFails, SignalTrain, ReceiveBlock, PublishProgress, ReceiveFails,
         Returned, UserAsked, Typed, TypeOK
    <3>2. server[t] = "receiving" /\ out' = out
      BY <3>1 DEF FinishReceive
    <3> QED
      BY <2>3, <3>2 DEF Typed, Bounds
  <2> QED
    BY <2>2, <2>3
<1> QED
  BY <1>1, <1>2, <1>3, <1>4, <1>5, <1>6, <1>7 DEF Kept

\* A handler takes what was raised for it, and no other one is at work.
LEMMA HandlerKept ==
  ASSUME Typed, OneAtATime, Latched, Progress, Kept,
         NEW j \in Jobs, handle_distributive_systems(j)
  PROVE  Kept'
<1> USE DEF toCompute
<1>1. UNCHANGED <<server, received, out, processedBytes>>
      /\ \A k \in Jobs \ {j} : compute'[k] = compute[k]
  BY HandlerStep DEF serverVars
<1>2. \A k \in Jobs : TrainOpen(k)' <=> TrainOpen(k)
  BY <1>1 DEF TrainOpen
<1>5. ASSUME NEW k \in Jobs, compute'[k] = "measure"
      PROVE  offset'[k] # FileSize[trainOf(k)]
  <2>1. CASE k # j
    <3>1. compute[k] = "measure" /\ offset'[k] = offset[k]
      BY <1>5, <2>1, HandlerStep
    <3> QED
      BY <3>1 DEF Kept
  <2>2. CASE k = j
    <3>1. Test(j)
      BY <1>5, <2>2 DEF handle_distributive_systems, work, CannotOpenTrain, PreadFails, OpenGate, TakeCode, compileCode,
         TakeTrain, OpenTrain, Measure, Feed, EndSlice, SliceFails, Report, CloseGate,
         Typed, TypeOK
    <3>2. compute[j] = "test" /\ offset'[j] = offset[j] /\ offset[j] # Shared_fileSize
      BY <1>5, <2>2, <3>1 DEF Test, Typed, TypeOK
    <3>3. Current(j) /\ TrainOpen(j)
      BY <3>2 DEF Current, PastTrain, Latched
    <3>4. Shared_fileSize = FileSize[trainOf(j)]
      BY <3>3 DEF Progress, Behind
    <3> QED
      BY <2>2, <3>2, <3>4
  <2> QED
    BY <2>1, <2>2
<1>3. CASE OpenGate(j)
  <2>1. /\ server[codeOf(j)] = "none" /\ server[trainOf(j)] = "none"
        /\ UNCHANGED <<mesh_info_1, mesh_info_2>>
        /\ compute[j] = "none"
    BY <1>3, OwnTransfers DEF OpenGate, OneAtATime, codeOf, trainOf
  <2>2. ~TrainOpen(j)
    BY <2>1 DEF TrainOpen
  <2>3. \A k \in Jobs \ {j} : (Current(k)' <=> Current(k)) /\ (PastTrain(k)' <=> PastTrain(k))
    BY <1>1 DEF Current, PastTrain
  <2> QED
    BY <1>1, <1>2, <1>5, <2>1, <2>2, <2>3 DEF Kept
<1>4. CASE ~OpenGate(j)
  <2>1. /\ \A k \in Jobs : Current(k)' => Current(k)
        /\ \A k \in Jobs : PastTrain(k) => PastTrain(k)'
        /\ \A k \in Jobs : compute'[k] = "awaitCode" => compute[k] = "awaitCode"
    BY <1>1, <1>4 DEF handle_distributive_systems, work, CannotOpenTrain, PreadFails, TakeCode, compileCode, TakeTrain,
       OpenTrain, Test, Measure, Feed, EndSlice, SliceFails, Report, CloseGate,
       Current, PastTrain, Typed, TypeOK
  <2>2. ASSUME NEW k \in Jobs, compute'[k] = "awaitCode", server[codeOf(k)] = "finished"
        PROVE  mesh_info_1' = 1
    <3>1. mesh_info_1 = 1 /\ compute[k] = "awaitCode"
      BY <2>1, <2>2 DEF Kept
    <3>2. ~TakeCode(j)
      <4>1. ASSUME TakeCode(j)
            PROVE  FALSE
        <5>1. compute[j] = "awaitCode" /\ compute'[j] = "compile"
          BY <4>1 DEF TakeCode, Typed, TypeOK
        <5>2. k = j
          BY <3>1, <5>1 DEF OneAtATime, Current
        <5> QED
          BY <2>2, <5>1, <5>2
      <4> QED
        BY <4>1
    <3> QED
      BY <1>4, <3>1, <3>2 DEF handle_distributive_systems, work, CannotOpenTrain, PreadFails, compileCode, TakeTrain,
         OpenTrain, Test, Measure, Feed, EndSlice, SliceFails, Report, CloseGate, globals
  <2>3. ASSUME NEW k \in Jobs, TrainOpen(k), ~PastTrain(k)'
        PROVE  mesh_info_2' = 1
    <3>1. mesh_info_2 = 1 /\ ~PastTrain(k)
      BY <2>1, <2>3 DEF Kept
    <3>2. Current(k)
      <4>1. compute[k] # "none"
        BY <2>3, OwnTransfers DEF OneAtATime, TrainOpen, trainOf
      <4> QED
        BY <3>1, <4>1 DEF Current, PastTrain
    <3>3. ~TakeTrain(j)
      <4>1. ASSUME TakeTrain(j)
            PROVE  FALSE
        <5>1. compute[j] = "awaitTrain" /\ compute'[j] = "open"
          BY <4>1 DEF TakeTrain, Typed, TypeOK
        <5>2. k = j
          BY <3>2, <5>1 DEF OneAtATime, Current
        <5> QED
          BY <2>3, <5>1, <5>2 DEF PastTrain
      <4> QED
        BY <4>1
    <3> QED
      BY <1>4, <3>1, <3>3 DEF handle_distributive_systems, work, CannotOpenTrain, PreadFails, TakeCode, compileCode,
         OpenTrain, Test, Measure, Feed, EndSlice, SliceFails, Report, CloseGate, globals
  <2> QED
    BY <1>1, <1>2, <1>5, <2>1, <2>2, <2>3 DEF Kept
<1> QED
  BY <1>3, <1>4

\* Every step keeps what was raised and published.
LEMMA NextKept ==
  Typed /\ OneAtATime /\ Stages /\ Latched /\ Progress /\ Kept /\ [Next]_vars => Kept'
<1> SUFFICES ASSUME Typed, OneAtATime, Stages, Latched, Progress, Kept, [Next]_vars
             PROVE  Kept'
  OBVIOUS
<1>1. CASE UNCHANGED <<mesh_info_1, mesh_info_2, processedBytes, serverVars, computeVars>>
  BY <1>1 DEF Kept, TrainOpen, Current, PastTrain, serverVars, computeVars
<1> QED
  BY <1>1, PeerStep, ServerKept, HandlerKept

\* With jobs in turn no handler waits for a resume that was given before it came, or
\* that another job has taken, and none runs in its loop once everything was
\* published: the safe half of the promise that a job comes to its end.
THEOREM JobWaitsForWhatComes ==
  ASSUME InTurn
  PROVE  Spec => []WaitsForWhatComes
<1>1. Init => Kept
  <2> SUFFICES ASSUME Init PROVE Kept
    OBVIOUS
  <2>1. \A t \in Transfers : server[t] = "none"
    BY DEF Init
  <2>2. \A j \in Jobs : compute[j] = "none"
    BY DEF Init
  <2>3. \A j \in Jobs : ~TrainOpen(j)
    BY <2>1, OwnTransfers DEF TrainOpen
  <2>4. \A t \in Train : t \in Transfers
    BY ConstantFacts, TransferOwner
  <2> QED
    BY <2>1, <2>2, <2>3, <2>4 DEF Kept
<1>2. Spec => [](OneAtATime /\ Latched /\ Progress /\ Kept)
  BY <1>1, NextKept, TurnInvariance, PTL DEF Spec
<1>3. ASSUME Typed, OneAtATime, Latched, Progress, Kept, NEW j \in Jobs
      PROVE  /\ compute[j] = "awaitCode" /\ mesh_info_1 = 0 =>
                  server[codeOf(j)] # "finished"
             /\ compute[j] = "awaitTrain" /\ mesh_info_2 = 0 =>
                  server[trainOf(j)] \notin {"receiving", "publishing", "finished"}
             /\ compute[j] = "measure" /\ offset[j] = processedBytes =>
                  \/ server[trainOf(j)] = "publishing"
                  \/ received[trainOf(j)] < FileSize[trainOf(j)]
  <2> DEFINE tr == trainOf(j)
  <2>1. tr \in Transfers /\ tr \in Train
    BY OwnTransfers
  <2> HIDE DEF tr
  <2>2. compute[j] = "awaitCode" /\ mesh_info_1 = 0 => server[codeOf(j)] # "finished"
    BY <1>3 DEF Kept
  <2>3. ASSUME compute[j] = "awaitTrain", mesh_info_2 = 0
        PROVE  server[tr] \notin {"receiving", "publishing", "finished"}
    <3>1. ~TrainOpen(j)
      BY <1>3, <2>3 DEF Kept, PastTrain
    <3>2. server[tr] \in {"receiving", "publishing", "finished"} => out[tr] \in Paths
      BY <1>3, <2>1 DEF Kept, Typed, Bounds
    <3> QED
      BY <3>1, <3>2 DEF TrainOpen, tr
  <2>4. ASSUME compute[j] = "measure", offset[j] = processedBytes,
               server[tr] # "publishing"
        PROVE  received[tr] < FileSize[tr]
    <3>1. Current(j) /\ TrainOpen(j)
      BY <1>3, <2>4 DEF Current, PastTrain, Latched
    <3>2. processedBytes = received[tr] /\ offset[j] # FileSize[tr]
      BY <1>3, <2>4, <3>1 DEF Kept, tr
    <3>3. received[tr] \in Nat /\ FileSize[tr] \in Nat /\ received[tr] <= FileSize[tr]
      BY <1>3, <2>1, ConstantFacts DEF Typed, TypeOK, Bounds
    <3> QED
      BY <2>4, <3>2, <3>3
  <2> QED
    BY <2>2, <2>3, <2>4 DEF tr
<1>4. Typed /\ OneAtATime /\ Latched /\ Progress /\ Kept => WaitsForWhatComes
  BY <1>3 DEF WaitsForWhatComes, codeOf, trainOf
<1> QED
  BY <1>2, <1>4, TypedInvariance, PTL

-----------------------------------------------------------------------------
(* The gate stays open *)

\* One job of code and train, and nobody else who could close the node.
Undisturbed ==
  /\ \A j, k \in Jobs : j = k
  /\ Kinds = {"code", "train"} /\ Senders = {}
  /\ "closeReceiveFile" \notin GateCommands

\* The node is open while the handler is at work.
Open ==
  /\ \A j \in Jobs : Current(j) => OPEN_RECEIVE_FILE_CONNECTION = 1
  /\ OpenUntilResult

\* A transfer that asks late finds the handler still at work: it could not have
\* reported without the two files.
LEMMA NotRefused ==
  ASSUME Undisturbed, Typed, OneAtATime, Latched, Progress, Open,
         NEW t \in Transfers, handle_share_file_server(t)
  PROVE  ~Refuse(t)
<1> SUFFICES ASSUME Refuse(t) PROVE FALSE
  OBVIOUS
<1>1. /\ server[t] = "none" /\ client[t] = "asking"
      /\ OPEN_RECEIVE_FILE_CONNECTION = 0
  BY DEF Refuse, toServer
<1>2. t \in JobTransfers
  BY DEF Undisturbed, Transfers, Manual
<1>3. PICK j \in Jobs : t = codeOf(j) \/ t = trainOf(j)
  BY <1>2 DEF Undisturbed, JobTransfers, codeOf, trainOf
<1>4. compute[j] # "none" /\ ~Current(j)
  BY <1>1, <1>2, <1>3 DEF OneAtATime, Open, codeOf, trainOf
<1>5. HasReported(j) /\ PastCode(j)
  BY <1>4 DEF Current, HasReported, PastCode
<1>6. server[codeOf(j)] = "finished" /\ server[trainOf(j)] \in {"receiving", "finished"}
  BY <1>5 DEF Latched, Progress, Settled
<1> QED
  BY <1>1, <1>3, <1>6

\* Every step leaves the node open for the job at work.
LEMMA NextOpen ==
  Undisturbed /\ Typed /\ OneAtATime /\ Stages /\ Latched /\ Progress /\ Open /\ [Next]_vars
    => Open'
<1> SUFFICES ASSUME Undisturbed, Typed, OneAtATime, Stages, Latched, Progress, Open,
                    [Next]_vars
             PROVE  Open'
  OBVIOUS
<1>1. ASSUME NEW t \in Transfers, handle_share_file_server(t)
      PROVE  Open'
  <2>1. t \notin Manual
    BY DEF Undisturbed, Manual
  <2>2. ~Refuse(t) /\ ~CloseAfterPrompt(t)
    BY <1>1, <2>1, NotRefused DEF CloseAfterPrompt, toServer, Stages
  <2>3. /\ OPEN_RECEIVE_FILE_CONNECTION' = OPEN_RECEIVE_FILE_CONNECTION
        /\ server'[t] # "refused"
    BY <1>1, <2>1, <2>2 DEF handle_share_file_server, serve, CannotStore, Admit, Prompt, ReceiveMetadata,
       ResetProgress, StartPath, EndPath, OpenOutput, OpenOutputFails, SignalTrain,
       ReceiveBlock, PublishProgress, FinishReceive, ReceiveFails, Returned, UserAsked,
       toServer, globals, Typed, TypeOK
  <2>4. /\ compute' = compute
        /\ \A u \in Transfers \ {t} : server'[u] = server[u]
    BY <1>1, TransferStep DEF computeVars
  <2> QED
    BY <2>3, <2>4, ConstantFacts DEF Open, OpenUntilResult, Current
<1>2. ASSUME NEW j \in Jobs, handle_distributive_systems(j)
      PROVE  Open'
  <2>1. server' = server
    BY <1>2, HandlerStep DEF serverVars
  <2>2. CASE OpenGate(j)
    BY <2>1, <2>2 DEF OpenGate, Open, OpenUntilResult
  <2>3. CASE CloseGate(j)
    <3>1. compute'[j] = "done"
      BY <2>3 DEF CloseGate, toCompute, Typed, TypeOK
    <3>2. \A k \in Jobs : ~Current(k)'
      BY <3>1 DEF Undisturbed, Current
    <3> QED
      BY <2>1, <3>2 DEF Open, OpenUntilResult
  <2>4. CASE ~OpenGate(j) /\ ~CloseGate(j)
    <3>1. /\ OPEN_RECEIVE_FILE_CONNECTION' = OPEN_RECEIVE_FILE_CONNECTION
          /\ Current(j)
      BY <1>2, <2>4 DEF handle_distributive_systems, work, CannotOpenTrain, PreadFails, TakeCode, compileCode, TakeTrain,
         OpenTrain, Test, Measure, Feed, EndSlice, SliceFails, Report, toCompute, Current,
         globals
    <3>2. \A k \in Jobs : Current(k)
      BY <3>1 DEF Undisturbed
    <3> QED
      BY <2>1, <3>1, <3>2 DEF Open, OpenUntilResult
  <2> QED
    BY <2>2, <2>3, <2>4
<1>3. CASE /\ ~ \E t \in Transfers : handle_share_file_server(t)
           /\ ~ \E j \in Jobs : handle_distributive_systems(j)
  <2>1. UNCHANGED <<serverVars, computeVars>>
    BY <1>3, PeerStep
  <2>2. OPEN_RECEIVE_FILE_CONNECTION' \in {1, OPEN_RECEIVE_FILE_CONNECTION}
    <3>1. ASSUME NEW t \in Transfers, send_file(t) \/ SenderFails(t)
          PROVE  UNCHANGED OPEN_RECEIVE_FILE_CONNECTION
      BY <3>1 DEF send_file, StartSend, ReadAdmitted, ReadRefused, ReadAccepted,
         ReadRejected, SendBlock, EndSend, ConnectionReset, SenderFails, NodeSide, globals
    <3>2. ASSUME NEW j \in Jobs, distributiveComputingOverNetwork(j) \/ CoordinatorDies(j)
          PROVE  UNCHANGED OPEN_RECEIVE_FILE_CONNECTION
      BY <3>2 DEF distributiveComputingOverNetwork, StartJob, ReadOpen, ReadOpenAndResult,
         JoinSends, ReadResult, ConnectionLost, CoordinatorDies, Elsewhere, globals
    <3>3. ~handle_close_receive_file_server
      BY DEF handle_close_receive_file_server, Undisturbed
    <3>4. ASSUME handle_receive_file_server \/ UNCHANGED vars
          PROVE  OPEN_RECEIVE_FILE_CONNECTION' \in {1, OPEN_RECEIVE_FILE_CONNECTION}
      BY <3>4 DEF handle_receive_file_server, vars, globals
    <3> QED
      BY <1>3, <3>1, <3>2, <3>3, <3>4 DEF Next
  <2> QED
    BY <2>1, <2>2 DEF Open, OpenUntilResult, Current, serverVars, computeVars
<1> QED
  BY <1>1, <1>2, <1>3

\* "Share file connection open" is true of a single job without a reducer, as long as
\* nobody else closes the node, and under every failure: neither of the two files that
\* the handler waits for can come too late.  The first three conditions are needed: an
\* interactive transfer, the handler of a former job and, for the reducer, the job's own
\* handler can close the node before a file is admitted.
THEOREM JobOpenUntilResult ==
  ASSUME Undisturbed
  PROVE  Spec => []OpenUntilResult
<1>1. Init => Open
  BY ConstantFacts DEF Init, Open, OpenUntilResult, Current
<1>2. InTurn
  BY DEF Undisturbed, InTurn
<1>3. Spec => []Open
  BY <1>1, <1>2, NextOpen, TurnInvariance, PTL DEF Spec
<1>4. Open => OpenUntilResult
  BY DEF Open
<1> QED
  BY <1>3, <1>4, PTL

-----------------------------------------------------------------------------
(* The train file of the current job *)

\* What transfer t has received is in its file.
ArrivedWhole(t) ==
  out[t] = Path(t) =>
    /\ disk[Path(t)].len >= received[t]
    /\ \A i \in 0 .. received[t] - 1 : disk[Path(t)].by[i] = t

\* Nobody else writes to the train file of the current job, unless paths collided:
\* the next job truncates and overwrites it, but only then.
FilesWhole == NoCollision => \A j \in Jobs : Current(j) => ArrivedWhole(trainOf(j))

\* A path that was opened stays with its transfer, so a collision is for good.
LEMMA CollisionStays ==
  ASSUME Typed, Stages, NEW t \in Transfers, handle_share_file_server(t)
  PROVE  /\ NoCollision' => NoCollision
         /\ \A u \in Transfers : out[u] # NoPath => out'[u] = out[u]
         /\ out' = out \/ OpenOutput(t)
<1>1. CASE OpenOutput(t)
  <2>1. out[t] = NoPath
    BY <1>1 DEF OpenOutput, toServer, Stages, BeforeOpen
  <2> QED
    BY <1>1, <2>1 DEF OpenOutput, NoCollision, Typed, TypeOK
<1>2. CASE ~OpenOutput(t)
  <2>1. out' = out
    BY <1>2 DEF handle_share_file_server, serve, CannotStore, Refuse, Admit, Prompt, CloseAfterPrompt,
       ReceiveMetadata, ResetProgress, StartPath, EndPath, OpenOutputFails, SignalTrain,
       ReceiveBlock, PublishProgress, FinishReceive, ReceiveFails, serverVars
  <2> QED
    BY <2>1 DEF NoCollision
<1> QED
  BY <1>1, <1>2

\* No step undoes a collision.
LEMMA NextCollision == Typed /\ Stages /\ [Next]_vars => (NoCollision' => NoCollision)
<1> SUFFICES ASSUME Typed, Stages, [Next]_vars PROVE NoCollision' => NoCollision
  OBVIOUS
<1>1. CASE out' = out
  BY <1>1 DEF NoCollision
<1>2. CASE ~ \E t \in Transfers : handle_share_file_server(t)
  BY <1>1, <1>2, PeerStep, HandlerStep DEF serverVars
<1> QED
  BY <1>2, CollisionStays

\* Two transfers under one path are the same, if one is the current job's train
\* transfer and the other one can still write.
LEMMA DistinctPaths ==
  ASSUME OneAtATime, Progress, NEW j \in Jobs, Current(j), NEW t \in Transfers,
         Path(t) = Path(trainOf(j)), server[t] # "none", ~(t \in Train /\ Settled(t[1]))
  PROVE  t = trainOf(j)
<1>1. folder(t) = "train"
  BY DEF Path, folder, trainOf
<1>2. t \in Train
  BY <1>1, KindsAssumption DEF Transfers, JobTransfers, Manual, folder, Train
<1> QED
  BY <1>2, BusyTrain DEF OneAtATime

\* Opening truncates the transfer's own file only.
LEMMA OpenKeepsWhole ==
  ASSUME Typed, OneAtATime, Stages, Progress, FilesWhole, NoCollision',
         NEW t \in Transfers, OpenOutput(t), NEW j \in Jobs, Current(j)
  PROVE  ArrivedWhole(trainOf(j))'
<1> DEFINE tr == trainOf(j)
<1> USE DEF OpenOutput, toServer
<1>1. tr \in Transfers /\ NoCollision /\ out[t] = NoPath /\ received[t] = 0
  BY CollisionStays, OwnTransfers DEF Stages, BeforeOpen, handle_share_file_server, serve
<1>2. shared_outpath = Path(t) /\ shared_outpath \in Paths /\ Path(tr) \in Paths
  <2>1. out'[t] = shared_outpath /\ shared_outpath \in Paths
    BY DEF Typed, TypeOK
  <2> QED
    BY <1>1, <2>1, NoPathIsNoFile, ConstantFacts DEF NoCollision
<1> HIDE DEF tr
<1>3. CASE tr = t
  <2>1. disk'[Path(t)] = EmptyFile /\ received' = received
    BY <1>2 DEF Typed, TypeOK
  <2> QED
    BY <1>1, <1>3, <2>1 DEF ArrivedWhole, EmptyFile, tr
<1>4. CASE tr # t
  <2>1. Path(tr) # Path(t)
    BY <1>4, DistinctPaths, TransferOwner DEF Settled, tr
  <2>2. disk'[Path(tr)] = disk[Path(tr)] /\ out'[tr] = out[tr] /\ received'[tr] = received[tr]
    BY <1>1, <1>2, <1>4, <2>1 DEF Typed, TypeOK
  <2> HIDE DEF OpenOutput, toServer
  <2>3. ArrivedWhole(tr)
    BY <1>1 DEF FilesWhole, tr
  <2> QED
    BY <2>2, <2>3 DEF ArrivedWhole, tr
<1> QED
  BY <1>3, <1>4

\* A block, or a part of one, is appended to the transfer's own file.
LEMMA WriteKeepsWhole ==
  ASSUME Typed, OneAtATime, Stages, Progress, FilesWhole, NoCollision',
         NEW t \in Transfers, server[t] = "receiving", out' = out,
         NEW n \in 1 .. sent[t] - received[t],
         disk' = [disk EXCEPT ![out[t]] = Written(@, t, received[t], n)],
         received' = received \/ received' = [received EXCEPT ![t] = @ + n],
         NEW j \in Jobs, Current(j)
  PROVE  ArrivedWhole(trainOf(j))'
<1> DEFINE tr == trainOf(j)
<1>1. /\ disk' = [disk EXCEPT ![out[t]] = Written(@, t, received[t], n)]
      /\ received' = received \/ received' = [received EXCEPT ![t] = @ + n]
  OBVIOUS
<1>2. tr \in Transfers /\ NoCollision /\ out' = out /\ out[t] \in Paths /\ out[t] = Path(t)
  <2>1. out' = out /\ out[t] \in Paths
    BY DEF Typed, Bounds
  <2> QED
    BY <2>1, NoPathIsNoFile, OwnTransfers DEF NoCollision
<1>3. Path(tr) \in Paths
  BY <1>2, ConstantFacts
<1> HIDE DEF tr
<1>4. CASE tr = t
  <2> DEFINE file == disk[Path(t)]
             next == Written(file, t, received[t], n)
  <2>1. file.len >= received[t] /\ \A i \in 0 .. received[t] - 1 : file.by[i] = t
    BY <1>2, <1>4 DEF FilesWhole, ArrivedWhole, tr
  <2>2. received[t] \in Nat /\ n \in Nat /\ received[t] + n <= MaxSize /\ n > 0
    BY <1>1, ConstantFacts DEF Typed, TypeOK, Bounds
  <2>3. disk'[Path(t)] = next /\ received'[t] \in {received[t], received[t] + n}
    BY <1>1, <1>2 DEF Typed, TypeOK
  <2>4. next.len >= received[t] + n
    <3>1. file.len \in Nat
      BY <1>2, ConstantFacts DEF Typed, TypeOK, Files
    <3> QED
      BY <2>1, <2>2, <3>1 DEF Written
  <2>5. \A i \in 0 .. received[t] + n - 1 : next.by[i] = t
    BY <2>1, <2>2, ConstantFacts DEF Written, Positions
  <2> HIDE DEF next
  <2>6. disk'[Path(t)].len >= received'[t]
    <3>1. next.len \in Int
      <4>1. file.len \in Nat
        BY <1>2, ConstantFacts DEF Typed, TypeOK, Files
      <4> QED
        BY <2>2, <4>1 DEF next, Written
    <3> QED
      BY <2>2, <2>3, <2>4, <3>1
  <2>7. \A i \in 0 .. received'[t] - 1 : disk'[Path(t)].by[i] = t
    BY <2>2, <2>3, <2>5
  <2> QED
    BY <1>4, <2>6, <2>7 DEF ArrivedWhole, tr
<1>5. CASE tr # t
  <2>1. Path(tr) # Path(t)
    <3>1. server[t] = "receiving" /\ received[t] # FileSize[t]
      <4>1. n \in Nat /\ n > 0 /\ sent[t] <= FileSize[t] /\ n <= sent[t] - received[t]
            /\ sent[t] \in Int /\ received[t] \in Nat /\ FileSize[t] \in Nat
        BY <1>1, ConstantFacts DEF Typed, TypeOK, Bounds
      <4> QED
        BY <4>1
    <3>2. ~(t \in Train /\ Settled(t[1]))
      BY <3>1, TransferOwner DEF Settled
    <3> QED
      BY <1>5, <3>1, <3>2, DistinctPaths DEF tr
  <2>2. disk'[Path(tr)] = disk[Path(tr)] /\ received'[tr] = received[tr]
    BY <1>1, <1>2, <1>3, <1>5, <2>1 DEF Typed, TypeOK
  <2>3. ArrivedWhole(tr)
    BY <1>2 DEF FilesWhole, tr
  <2> QED
    BY <1>2, <2>2, <2>3 DEF ArrivedWhole, tr
<1> QED
  BY <1>4, <1>5

\* Every step keeps the current job's train file whole.
LEMMA NextWhole ==
  Typed /\ OneAtATime /\ Stages /\ Progress /\ FilesWhole /\ [Next]_vars => FilesWhole'
<1> SUFFICES ASSUME Typed, OneAtATime, Stages, Progress, FilesWhole, [Next]_vars,
                    NoCollision', NEW j \in Jobs, Current(j)'
             PROVE  ArrivedWhole(trainOf(j))'
  BY DEF FilesWhole
<1>1. NoCollision /\ trainOf(j) \in Transfers
  BY NextCollision, OwnTransfers
<1>2. CASE \E k \in Jobs : handle_distributive_systems(k)
  <2>1. PICK k \in Jobs : handle_distributive_systems(k)
    BY <1>2
  <2>2. UNCHANGED <<disk, out, received>> /\ (k # j => compute'[j] = compute[j])
    BY <2>1, HandlerStep DEF serverVars
  <2>3. CASE Current(j)
    BY <1>1, <2>2, <2>3 DEF FilesWhole, ArrivedWhole
  <2>4. CASE ~Current(j)
    <3>1. k = j
      BY <2>2, <2>4 DEF Current
    <3>2. compute[j] = "none"
      BY <2>1, <2>4, <3>1 DEF handle_distributive_systems, work, CannotOpenTrain, PreadFails, OpenGate, TakeCode, compileCode,
         TakeTrain, OpenTrain, Test, Measure, Feed, EndSlice, SliceFails, Report, CloseGate,
         toCompute, Current, Typed, TypeOK
    <3>3. out[trainOf(j)] = NoPath
      BY <3>2, OwnTransfers DEF OneAtATime, Stages, BeforeOpen, trainOf
    <3>4. Path(trainOf(j)) # NoPath
      BY <1>1, ConstantFacts, NoPathIsNoFile
    <3> QED
      BY <2>2, <3>3, <3>4 DEF ArrivedWhole
  <2> QED
    BY <2>3, <2>4
<1>3. ASSUME NEW t \in Transfers, handle_share_file_server(t)
      PROVE  ArrivedWhole(trainOf(j))'
  <2>1. Current(j)
    BY <1>3, TransferStep DEF Current, computeVars
  <2>2. CASE OpenOutput(t)
    BY <2>1, <2>2, OpenKeepsWhole
  <2>3. CASE ReceiveBlock(t)
    <3>1. PICK n \in 1 .. sent[t] - received[t] :
            /\ disk' = [disk EXCEPT ![out[t]] = Written(@, t, received[t], n)]
            /\ received' = [received EXCEPT ![t] = @ + n]
      BY <2>3 DEF ReceiveBlock
    <3>2. server[t] = "receiving" /\ out' = out
      BY <2>3 DEF ReceiveBlock, toServer
    <3> QED
      BY <2>1, <3>1, <3>2, WriteKeepsWhole
  <2>4. CASE CannotStore(t) /\ disk' # disk
    <3>1. server[t] = "receiving" /\ out' = out /\ received' = received
      BY <2>4 DEF CannotStore, toServer
    <3>2. PICK n \in 1 .. sent[t] - received[t] - 1 :
            disk' = [disk EXCEPT ![out[t]] = Written(@, t, received[t], n)]
      BY <2>4 DEF CannotStore
    <3>3. n \in 1 .. sent[t] - received[t]
      BY <3>2, ConstantFacts DEF Typed, TypeOK
    <3> QED
      BY <2>1, <3>1, <3>2, <3>3, WriteKeepsWhole
  <2>5. CASE UNCHANGED <<received, out, disk>>
    BY <1>1, <2>1, <2>5 DEF FilesWhole, ArrivedWhole
  <2>6. \/ OpenOutput(t) \/ ReceiveBlock(t) \/ (CannotStore(t) /\ disk' # disk)
        \/ UNCHANGED <<received, out, disk>>
    BY <1>3 DEF handle_share_file_server, serve, CannotStore, Refuse, Admit, Prompt,
       CloseAfterPrompt, ReceiveMetadata, ResetProgress, StartPath, EndPath,
       OpenOutputFails, SignalTrain, PublishProgress, FinishReceive, ReceiveFails,
       serverVars
  <2> QED
    BY <2>2, <2>3, <2>4, <2>5, <2>6
<1>4. CASE UNCHANGED <<serverVars, computeVars>>
  BY <1>1, <1>4 DEF FilesWhole, ArrivedWhole, Current, serverVars, computeVars
<1> QED
  BY <1>2, <1>3, <1>4, PeerStep

-----------------------------------------------------------------------------
(* The handler reads its own file *)

\* Jobs of a node name their train chunks alike.
SameTrainName == \A j, k \in Jobs : Path(trainOf(j)) = Path(trainOf(k))

\* The train chunk that the node expects goes by the name it looks for.
TrainNamed == \A j \in Jobs : Path(trainOf(j)) = TrainPath

\* A handler gets past the second latch with a program, and an open descriptor means
\* that the file was there.
Prepared ==
  \A j \in Jobs :
    /\ compute[j] = "awaitTrain" => exited \/ binary # {}
    /\ PastTrain(j) => binary # {}
    /\ trainfd[j] => Exists(TrainPath)

\* Every step keeps them: a program is installed once and a file, once there, stays.
LEMMA NextPrepared == Typed /\ Stages /\ Prepared /\ [Next]_vars => Prepared'
<1> SUFFICES ASSUME Typed, Stages, Prepared, [Next]_vars PROVE Prepared'
  OBVIOUS
<1>1. ASSUME NEW t \in Transfers, handle_share_file_server(t)
      PROVE  Prepared'
  <2>1. Exists(TrainPath) => Exists(TrainPath)'
    <3>1. TrainPath # NoPath
      BY DEF TrainPath, NoPath
    <3> QED
      BY <1>1, <3>1, CollisionStays DEF Exists
  <2>2. UNCHANGED <<compute, trainfd, binary, exited>>
    BY <1>1, TransferStep DEF computeVars, program
  <2> QED
    BY <2>1, <2>2 DEF Prepared, PastTrain
<1>2. ASSUME NEW j \in Jobs, handle_distributive_systems(j)
      PROVE  Prepared'
  <2> USE DEF toCompute
  <2>1. out' = out /\ (binary # {} => binary' = binary) /\ ~exited
    BY <1>2 DEF handle_distributive_systems, work, CannotOpenTrain, PreadFails, OpenGate, TakeCode, compileCode, TakeTrain,
       OpenTrain, Test, Measure, Feed, EndSlice, SliceFails, Report, CloseGate, Others,
       serverVars, program, Running
  <2>2. ASSUME NEW k \in Jobs, k # j
        PROVE  /\ compute'[k] = "awaitTrain" => exited' \/ binary' # {}
               /\ PastTrain(k)' => binary' # {}
               /\ trainfd'[k] => Exists(TrainPath)
    <3>1. compute'[k] = compute[k] /\ trainfd'[k] = trainfd[k]
      BY <1>2, <2>2, HandlerStep
    <3> QED
      BY <2>1, <3>1 DEF Prepared, PastTrain
  <2>3. /\ compute'[j] = "awaitTrain" => exited' \/ binary' # {}
        /\ PastTrain(j)' => binary' # {}
    BY <1>2, <2>1 DEF handle_distributive_systems, work, CannotOpenTrain, PreadFails, OpenGate, TakeCode, compileCode, TakeTrain,
       OpenTrain, Test, Measure, Feed, EndSlice, SliceFails, Report, CloseGate, program,
       Prepared, PastTrain, Typed, TypeOK
  <2>4. trainfd'[j] => Exists(TrainPath)
    BY <1>2 DEF handle_distributive_systems, work, CannotOpenTrain, PreadFails, OpenGate, TakeCode, compileCode, TakeTrain,
       OpenTrain, Test, Measure, Feed, EndSlice, SliceFails, Report, CloseGate, Prepared,
       Typed, TypeOK
  <2> QED
    BY <2>1, <2>2, <2>3, <2>4 DEF Prepared, Exists
<1>3. CASE UNCHANGED <<program, serverVars, computeVars>>
  BY <1>3 DEF Prepared, PastTrain, Exists, program, serverVars, computeVars
<1> QED
  BY <1>1, <1>2, <1>3, PeerStep

\* A handler that has the train file open has its own.
LEMMA OwnTrainFile ==
  ASSUME SameTrainName, NoCollision, Typed, Latched, Progress, Prepared, FilesWhole,
         NEW j \in Jobs, trainfd[j], Current(j)
  PROVE  /\ disk[TrainPath].len >= received[trainOf(j)]
         /\ \A i \in 0 .. received[trainOf(j)] - 1 : disk[TrainPath].by[i] = trainOf(j)
<1>1. PICK t \in Transfers : out[t] = TrainPath
  BY DEF Prepared, Exists
<1>2. Path(t) = TrainPath
  <2>1. TrainPath # NoPath
    BY DEF TrainPath, NoPath
  <2> QED
    BY <1>1, <2>1 DEF NoCollision
<1>3. t \in Train
  <2>1. folder(t) = "train"
    BY <1>2 DEF Path, TrainPath
  <2> QED
    BY <2>1, KindsAssumption DEF Transfers, JobTransfers, Manual, folder, Train
<1>4. Path(trainOf(j)) = TrainPath
  BY <1>2, <1>3, TransferOwner DEF SameTrainName
<1>5. out[trainOf(j)] \in Paths
  BY DEF Progress, Unstarted, Latched, TrainOpen
<1>6. out[trainOf(j)] = Path(trainOf(j))
  BY <1>5, OwnTransfers, NoPathIsNoFile DEF NoCollision
<1> QED
  BY <1>4, <1>6 DEF FilesWhole, ArrivedWhole

\* All of this holds together.
LEMMA FileInvariance ==
  ASSUME InTurn
  PROVE  Spec => [](Typed /\ OneAtATime /\ Stages /\ Latched /\ Progress /\ FilesWhole
                    /\ Prepared)
<1>1. Init => FilesWhole
  BY DEF Init, FilesWhole, Current
<1>2. Init => Prepared
  BY DEF Init, Prepared, PastTrain
<1> QED
  BY <1>1, <1>2, NextWhole, NextPrepared, TurnInvariance, PTL DEF Spec

\* With jobs in turn, pread always finds a byte of a slice that is not through: no
\* handler spins at the end of a file that is still arriving, or reads what the job
\* before it has left there.
THEOREM JobNeverStarves ==
  ASSUME InTurn, SameTrainName
  PROVE  Spec => []NeverStarves
<1>1. ASSUME Typed, OneAtATime, Latched, Progress, FilesWhole, Prepared, NoCollision,
             NEW j \in Jobs, compute[j] = "feed", trainfd[j], fed[j] < remaining[j]
      PROVE  Readable(j) > 0
  <2>1. Current(j) /\ PastTrain(j)
    BY <1>1 DEF Current, PastTrain
  <2>2. disk[TrainPath].len >= received[trainOf(j)] /\ disk[TrainPath].len \in Nat
    BY <1>1, <2>1, OwnTrainFile, ConstantFacts DEF Typed, TypeOK, Files, Paths
  <2>3. offset[j] + remaining[j] <= processedBytes
        /\ processedBytes <= received[trainOf(j)]
    BY <1>1, <2>1 DEF Progress, Behind, Latched
  <2>4. /\ offset[j] \in Nat /\ fed[j] \in Nat /\ remaining[j] \in Int
        /\ processedBytes \in Nat /\ received[trainOf(j)] \in Nat
    BY <1>1, OwnTransfers, ConstantFacts DEF Typed, TypeOK
  <2> QED
    BY <1>1, <2>2, <2>3, <2>4, ConstantFacts DEF Readable
<1>2. Typed /\ OneAtATime /\ Latched /\ Progress /\ FilesWhole /\ Prepared => NeverStarves
  BY <1>1 DEF NeverStarves
<1> QED
  BY <1>2, FileInvariance, PTL

-----------------------------------------------------------------------------
(* The result of a job *)

\* Bytes from .. to - 1 of the file that t sends.
Bytes(t, from, to) == {<<t, i>> : i \in from .. to - 1}

\* Unless paths collided or it printed an error, every handler has put the bytes before
\* its offset through the installed program, each once, and is reading the slice that
\* follows.  A number that is no run's stays in the result, and was printed about.
Work ==
  NoCollision =>
    \A j \in Jobs : ~stderr[j] =>
      /\ final_result[j] = binary \X Bytes(trainOf(j), 0, offset[j])
      /\ compute[j] \in {"test", "measure", "feed"} => trainfd[j]
      /\ compute[j] = "feed" =>
           /\ fed[j] <= remaining[j]
           /\ slice[j] = Bytes(trainOf(j), offset[j], offset[j] + fed[j])
      /\ HasReported(j) => offset[j] = FileSize[trainOf(j)]
      /\ Failed \notin final_result[j]

\* Two adjacent ranges make one.
LEMMA BytesJoin ==
  ASSUME NEW t, NEW a \in Nat, NEW b \in Nat, NEW c \in Nat, a <= b, b <= c
  PROVE  /\ Bytes(t, a, b) \cup Bytes(t, b, c) = Bytes(t, a, c)
         /\ Bytes(t, a, b) \cap Bytes(t, b, c) = {}
BY DEF Bytes

\* An empty range has no bytes.
LEMMA BytesNone == \A t : \A a \in Nat : Bytes(t, a, a) = {}
BY DEF Bytes

\* Combining the next slice extends what was combined before.
LEMMA XorNext ==
  \A P, t : \A a, b \in Nat :
    a <= b /\ Failed \notin P \X Bytes(t, 0, a) =>
      xor(P \X Bytes(t, 0, a), P \X Bytes(t, a, b)) = P \X Bytes(t, 0, b)
<1> SUFFICES ASSUME NEW P, NEW t, NEW a \in Nat, NEW b \in Nat, a <= b,
                    Failed \notin P \X Bytes(t, 0, a)
             PROVE  xor(P \X Bytes(t, 0, a), P \X Bytes(t, a, b)) = P \X Bytes(t, 0, b)
  OBVIOUS
<1>1. /\ Bytes(t, 0, a) \cup Bytes(t, a, b) = Bytes(t, 0, b)
      /\ Bytes(t, 0, a) \cap Bytes(t, a, b) = {}
  BY BytesJoin
<1>2. \A S, T : S \cap T = {} /\ Failed \notin P \X S =>
        xor(P \X S, P \X T) = P \X (S \cup T)
  BY DEF xor
<1> QED
  BY <1>1, <1>2

\* What pread returns of a slice is what the job's transfer sent there.
LEMMA FeedReads ==
  ASSUME SameTrainName, NoCollision, Typed, Latched, Progress, Prepared, FilesWhole,
         NEW j \in Jobs, trainfd[j], Current(j),
         NEW pos \in Nat, NEW n \in Nat, pos + n <= received[trainOf(j)]
  PROVE  BytesAt(disk[TrainPath], pos, n) = Bytes(trainOf(j), pos, pos + n)
<1>1. \A i \in 0 .. received[trainOf(j)] - 1 : disk[TrainPath].by[i] = trainOf(j)
  BY OwnTrainFile
<1>2. received[trainOf(j)] \in Nat
  BY OwnTransfers, ConstantFacts DEF Typed, TypeOK
<1>3. \A i \in pos .. pos + n - 1 : disk[TrainPath].by[i] = trainOf(j)
  BY <1>1, <1>2
<1> QED
  BY <1>3 DEF BytesAt, Bytes

\* What a handler has combined, and what it is reading.
WorkOf(j) ==
  /\ final_result[j] = binary \X Bytes(trainOf(j), 0, offset[j])
  /\ compute[j] \in {"test", "measure", "feed"} => trainfd[j]
  /\ compute[j] = "feed" =>
       /\ fed[j] <= remaining[j]
       /\ slice[j] = Bytes(trainOf(j), offset[j], offset[j] + fed[j])
  /\ HasReported(j) => offset[j] = FileSize[trainOf(j)]
  /\ Failed \notin final_result[j]

\* The program is installed before anything is combined, and never again.
LEMMA InstalledOnce ==
  ASSUME Typed, Prepared, Progress, NEW j \in Jobs, handle_distributive_systems(j),
         NEW k \in Jobs, final_result[k] = binary \X Bytes(trainOf(k), 0, offset[k])
  PROVE  final_result[k] = binary' \X Bytes(trainOf(k), 0, offset[k])
<1>1. CASE PastTrain(k)
  <2>1. binary' = binary
    BY <1>1 DEF handle_distributive_systems, work, CannotOpenTrain, PreadFails, OpenGate, TakeCode, compileCode, TakeTrain,
       OpenTrain, Test, Measure, Feed, EndSlice, SliceFails, Report, CloseGate, program,
       Prepared
  <2> QED
    BY <2>1
<1>2. CASE ~PastTrain(k)
  <2>1. offset[k] = 0 /\ final_result[k] = {}
    BY <1>2 DEF Progress, Unstarted
  <2>2. Bytes(trainOf(k), 0, offset[k]) = {}
    BY <2>1, BytesNone
  <2> QED
    BY <2>1, <2>2
<1> QED
  BY <1>1, <1>2

\* A handler's own step keeps its work in order.
LEMMA OwnWork ==
  ASSUME TrainNamed, NoCollision, Typed, OneAtATime, Latched, Progress, FilesWhole, Prepared,
         NEW j \in Jobs, handle_distributive_systems(j), WorkOf(j),
         ~stderr'[j]
  PROVE  WorkOf(j)'
<1> USE DEF toCompute
<1> DEFINE tr == trainOf(j)
<1>1. /\ final_result[j] = binary' \X Bytes(tr, 0, offset[j])
      /\ compute[j] \in {"test", "measure", "feed"} => trainfd[j]
      /\ compute[j] = "feed" =>
           /\ fed[j] <= remaining[j]
           /\ slice[j] = Bytes(tr, offset[j], offset[j] + fed[j])
      /\ HasReported(j) => offset[j] = FileSize[tr]
      /\ Failed \notin final_result[j]
  BY InstalledOnce DEF WorkOf
<1>2. /\ offset[j] \in Nat /\ fed[j] \in Nat /\ remaining[j] \in Int
      /\ processedBytes \in Nat
  BY ConstantFacts DEF Typed, TypeOK
<1>3. SameTrainName
  BY DEF TrainNamed, SameTrainName
<1> HIDE DEF tr
<1> SUFFICES /\ final_result'[j] = binary' \X Bytes(tr, 0, offset'[j])
             /\ compute'[j] \in {"test", "measure", "feed"} => trainfd'[j]
             /\ compute'[j] = "feed" =>
                  /\ fed'[j] <= remaining'[j]
                  /\ slice'[j] = Bytes(tr, offset'[j], offset'[j] + fed'[j])
             /\ HasReported(j)' => offset'[j] = FileSize[tr]
             /\ Failed \notin final_result'[j]
  BY DEF WorkOf, tr
<1>4. CASE OpenTrain(j)
  <2>1. compute[j] = "open" /\ compute'[j] = "test" /\ trainfd'[j] = Exists(TrainPath)
        /\ UNCHANGED <<offset, final_result>>
    BY <1>4 DEF OpenTrain, Typed, TypeOK
  <2>2. out[tr] \in Paths
    BY <2>1 DEF Latched, PastTrain, TrainOpen, tr
  <2>3. Exists(TrainPath)
    BY <2>2, NoPathIsNoFile, OwnTransfers DEF NoCollision, TrainNamed, Exists, tr
  <2> QED
    BY <1>1, <2>1, <2>3 DEF HasReported
<1>5. CASE Measure(j)
  <2>1. /\ fed'[j] = 0 /\ remaining'[j] = processedBytes - offset[j] /\ slice'[j] = {}
        /\ UNCHANGED <<offset, final_result, trainfd>> /\ compute'[j] = "feed"
        /\ compute[j] = "measure"
    BY <1>5 DEF Measure, Typed, TypeOK
  <2>2. offset[j] <= processedBytes
    BY <2>1 DEF Progress, Current, Behind, PastTrain
  <2> QED
    BY <1>1, <1>2, <2>1, <2>2, BytesNone DEF HasReported
<1>6. CASE Feed(j)
  <2> DEFINE n == Readable(j)
  <2>1. /\ compute[j] = "feed" /\ trainfd[j] /\ n > 0
        /\ fed'[j] = fed[j] + n
        /\ slice'[j] = slice[j] \cup BytesAt(disk[TrainPath], offset[j] + fed[j], n)
        /\ UNCHANGED <<offset, final_result, trainfd, compute, remaining>>
    BY <1>6 DEF Feed, Typed, TypeOK
  <2>2. /\ n \in Nat /\ fed[j] + n <= remaining[j]
        /\ offset[j] + fed[j] + n <= received[tr]
    <3>1. disk[TrainPath].len \in Nat
      BY ConstantFacts DEF Typed, TypeOK, Files, Paths
    <3>2. n \in Nat /\ fed[j] + n <= remaining[j]
      BY <1>2, <2>1, <3>1, ConstantFacts DEF Readable
    <3>3. /\ offset[j] + remaining[j] <= processedBytes
          /\ processedBytes <= received[tr]
      BY <2>1 DEF Progress, Behind, Latched, Current, PastTrain, tr
    <3>4. received[tr] \in Nat
      BY OwnTransfers, ConstantFacts DEF Typed, TypeOK, tr
    <3> QED
      BY <1>2, <3>2, <3>3, <3>4
  <2> HIDE DEF n
  <2>3. BytesAt(disk[TrainPath], offset[j] + fed[j], n)
          = Bytes(tr, offset[j] + fed[j], offset[j] + fed[j] + n)
    <3>1. Current(j)
      BY <2>1 DEF Current
    <3> QED
      BY <1>2, <1>3, <2>1, <2>2, <3>1, FeedReads DEF tr
  <2>4. slice'[j] = Bytes(tr, offset[j], offset[j] + fed[j] + n)
    <3> DEFINE mid == offset[j] + fed[j]
               end == mid + n
    <3>1. mid \in Nat /\ end \in Nat /\ offset[j] <= mid /\ mid <= end
      BY <1>2, <2>2
    <3>2. slice'[j] = Bytes(tr, offset[j], mid) \cup Bytes(tr, mid, end)
      BY <1>1, <2>1, <2>3
    <3> HIDE DEF mid, end
    <3>3. slice'[j] = Bytes(tr, offset[j], end)
      BY <1>2, <3>1, <3>2, BytesJoin
    <3> QED
      BY <3>3 DEF mid, end
  <2>5. offset[j] + fed[j] + n = offset'[j] + fed'[j]
    BY <1>2, <2>1, <2>2
  <2>6. slice'[j] = Bytes(tr, offset'[j], offset'[j] + fed'[j])
    BY <2>1, <2>4, <2>5
  <2> QED
    BY <1>1, <2>1, <2>2, <2>6 DEF HasReported
<1>7. CASE EndSlice(j)
  <2> DEFINE rest == Bytes(tr, offset[j], offset[j] + remaining[j])
  <2>1. /\ compute[j] = "feed" /\ trainfd[j] /\ fed[j] >= remaining[j]
        /\ final_result'[j] = xor(final_result[j], Output(slice[j]))
        /\ offset'[j] = offset[j] + remaining[j]
        /\ compute'[j] = "test" /\ trainfd' = trainfd /\ binary' = binary
        /\ Failed \notin Output(slice[j])
    BY <1>1, <1>7 DEF EndSlice, program, Typed, TypeOK
  <2>2. fed[j] = remaining[j]
    BY <1>1, <1>2, <2>1
  <2>3. slice[j] = rest
    BY <1>1, <2>1, <2>2
  <2> HIDE DEF rest
  <2>4. Output(slice[j]) = binary \X rest
    <3>1. CASE slice[j] # {}
      BY <2>3, <3>1 DEF Output
    <3>2. CASE slice[j] = {}
      <4>1. Failed \notin EmptyOutput
        BY <2>1, <3>2 DEF Output, xor
      <4> QED
        BY <2>3, <3>2, <4>1, OutputAssumption DEF Output
    <3> QED
      BY <3>1, <3>2
  <2>5. final_result'[j] = binary' \X Bytes(tr, 0, offset[j] + remaining[j])
    <3> DEFINE end == offset[j] + remaining[j]
    <3>1. offset[j] \in Nat /\ end \in Nat /\ offset[j] <= end
      BY <1>2, <2>2
    <3> HIDE DEF end
    <3>2. xor(binary \X Bytes(tr, 0, offset[j]), binary \X Bytes(tr, offset[j], end))
            = binary \X Bytes(tr, 0, end)
      BY <1>1, <2>1, <3>1, XorNext
    <3>3. rest = Bytes(tr, offset[j], end)
      BY DEF rest, end
    <3>4. final_result'[j] = binary' \X Bytes(tr, 0, end)
      BY <1>1, <2>1, <2>4, <3>2, <3>3, Zenon
    <3> QED
      BY <3>4 DEF end
  <2>6. Failed \notin final_result'[j]
    BY <1>1, <2>1 DEF xor
  <2> QED
    BY <2>1, <2>5, <2>6 DEF HasReported
<1>8. CASE CannotOpenTrain(j) \/ PreadFails(j) \/ SliceFails(j)
  BY <1>8 DEF CannotOpenTrain, PreadFails, SliceFails, Typed, TypeOK
<1>9. CASE Report(j)
  <2>1. /\ compute[j] = "report" /\ compute'[j] = "closing"
        /\ UNCHANGED <<final_result, offset, trainfd>>
    BY <1>9 DEF Report, Typed, TypeOK
  <2>2. offset[j] = FileSize[tr]
    BY <2>1 DEF Progress, Current, Behind, tr
  <2> QED
    BY <1>1, <2>1, <2>2
<1>10. CASE ~(OpenTrain(j) \/ Measure(j) \/ Feed(j) \/ EndSlice(j) \/ CannotOpenTrain(j)
                \/ PreadFails(j) \/ SliceFails(j) \/ Report(j))
  <2>1. /\ UNCHANGED <<final_result, offset, trainfd>>
        /\ compute'[j] \in {"test", "measure", "feed"} => compute[j] = "test"
        /\ compute'[j] # "feed"
        /\ compute'[j] \in {"closing", "done"} => compute[j] = "closing"
    BY <1>10 DEF handle_distributive_systems, work, OpenGate, TakeCode, compileCode, TakeTrain,
       Test, CloseGate, Typed, TypeOK
  <2> QED
    BY <1>1, <2>1 DEF HasReported
<1> QED
  BY <1>4, <1>5, <1>6, <1>7, <1>8, <1>9, <1>10 DEF handle_distributive_systems

\* What was printed stays printed.
LEMMA ErrorStays ==
  ASSUME Typed, NEW j \in Jobs, handle_distributive_systems(j), NEW k \in Jobs,
         stderr[k]
  PROVE  stderr'[k]
BY DEF handle_distributive_systems, work, CannotOpenTrain, PreadFails, OpenGate, TakeCode, compileCode, TakeTrain,
   OpenTrain, Test, Measure, Feed, EndSlice, SliceFails, Report, CloseGate,
   Typed, TypeOK

\* No step disturbs the work of any handler.
LEMMA NextWork ==
  TrainNamed /\ Typed /\ OneAtATime /\ Stages /\ Latched /\ Progress /\ FilesWhole
    /\ Prepared /\ Work /\ [Next]_vars => Work'
<1> SUFFICES ASSUME TrainNamed, Typed, OneAtATime, Stages, Latched, Progress, FilesWhole,
                    Prepared, Work, [Next]_vars,
                    NoCollision', NEW k \in Jobs, ~stderr'[k]
             PROVE  WorkOf(k)'
  BY DEF Work, WorkOf
<1>1. NoCollision
  BY NextCollision
<1>2. ~stderr[k] => WorkOf(k)
  BY <1>1 DEF Work, WorkOf
<1>3. ASSUME NEW j \in Jobs, handle_distributive_systems(j)
      PROVE  WorkOf(k)'
  <2>1. ~stderr[k] /\ WorkOf(k)
    BY <1>2, <1>3, ErrorStays
  <2>2. CASE k = j
    BY <1>1, <1>3, <2>1, <2>2, OwnWork
  <2>3. CASE k # j
    <3>1. /\ compute'[k] = compute[k] /\ final_result'[k] = final_result[k]
          /\ offset'[k] = offset[k] /\ remaining'[k] = remaining[k]
          /\ fed'[k] = fed[k] /\ slice'[k] = slice[k] /\ trainfd'[k] = trainfd[k]
      BY <1>3, <2>3, HandlerStep
    <3>2. final_result[k] = binary' \X Bytes(trainOf(k), 0, offset[k])
      BY <1>3, <2>1, InstalledOnce DEF WorkOf
    <3> QED
      BY <2>1, <3>1, <3>2 DEF WorkOf, HasReported
  <2> QED
    BY <2>2, <2>3
<1>4. CASE UNCHANGED <<program, computeVars>>
  BY <1>2, <1>4 DEF WorkOf, HasReported, program, computeVars
<1>5. ASSUME NEW t \in Transfers, handle_share_file_server(t)
      PROVE  UNCHANGED <<program, computeVars>>
  BY <1>5, TransferStep
<1> QED
  BY <1>3, <1>4, <1>5, PeerStep

\* The work follows from the layers before it.
LEMMA WorkInvariance ==
  ASSUME InTurn, TrainNamed
  PROVE  Spec => [](Typed /\ OneAtATime /\ Latched /\ Progress /\ Prepared /\ Work)
<1>1. Init => Work
  BY BytesNone DEF Init, Work, HasReported
<1> QED
  BY <1>1, NextWork, FileInvariance, PTL DEF Spec

\* With jobs in turn whose train chunks have the expected name, in any number and of
\* every size, next to every interactive transfer, gate command and failure of a
\* transfer, a handler that printed no error reports exactly the bytes of its own chunk,
\* each once through the installed program: although it reads while they arrive, and although
\* file, size, progress and latches are those the jobs before it have used.
THEOREM JobReportsEveryByteOnce ==
  ASSUME InTurn, TrainNamed
  PROVE  Spec => []ReportsEveryByteOnce
<1>1. Work => ReportsEveryByteOnce
  BY DEF Work, ReportsEveryByteOnce, ChunkBytes, Bytes, trainOf
<1> QED
  BY <1>1, WorkInvariance, PTL

-----------------------------------------------------------------------------
(* Whose program it was *)

\* f is the first job of the process: nobody starts before its coordinator has the
\* result, unless there is nobody else.
First(f) == f \in Jobs /\ \A k \in Jobs \ {f} : f \in After[k] /\ f \notin Dying

\* Only a transfer that has begun has left bytes in a file, and the program, if there
\* is one, is made of the first job's code.
FirstProgram(f) ==
  /\ \A p \in Paths, i \in Positions :
       disk[p].by[i] \in Transfers => server[disk[p].by[i]] # "none"
  /\ binary \in {{}, {codeOf(f)}}

\* What a transfer writes is its own.
LEMMA ServerBytes ==
  ASSUME Typed, NEW f, FirstProgram(f), NEW t \in Transfers, handle_share_file_server(t),
         NEW p \in Paths, NEW i \in Positions, disk'[p].by[i] \in Transfers
  PROVE  server'[disk'[p].by[i]] # "none"
<1>1. server'[t] # "none" /\ \A u \in Transfers \ {t} : server'[u] = server[u]
  <2>1. server'[t] # "none"
    BY DEF handle_share_file_server, serve, CannotStore, Refuse, Admit, Prompt, CloseAfterPrompt,
       ReceiveMetadata, ResetProgress, StartPath, EndPath, OpenOutput, OpenOutputFails,
       SignalTrain, ReceiveBlock, PublishProgress, FinishReceive, ReceiveFails, Returned,
       toServer, Typed, TypeOK
  <2> QED
    BY <2>1, TransferStep
<1>2. disk'[p].by[i] \in {disk[p].by[i], t, NoOne}
  <2>1. CASE OpenOutput(t)
    BY <2>1 DEF OpenOutput, EmptyFile, Typed, TypeOK
  <2>2. CASE ReceiveBlock(t)
    <3>1. PICK n \in 1 .. sent[t] - received[t] :
            disk' = [disk EXCEPT ![out[t]] = Written(@, t, received[t], n)]
      BY <2>2 DEF ReceiveBlock
    <3>2. disk'[p] = disk[p] \/ disk'[p] = Written(disk[p], t, received[t], n)
      BY <3>1 DEF Typed, TypeOK
    <3> QED
      BY <3>2 DEF Written
  <2>3. CASE disk' = disk
    BY <2>3
  <2>5. CASE CannotStore(t) /\ disk' # disk
    <3>1. PICK n \in 1 .. sent[t] - received[t] - 1 :
            disk' = [disk EXCEPT ![out[t]] = Written(@, t, received[t], n)]
      BY <2>5 DEF CannotStore
    <3>2. disk'[p] = disk[p] \/ disk'[p] = Written(disk[p], t, received[t], n)
      BY <3>1 DEF Typed, TypeOK
    <3> QED
      BY <3>2 DEF Written
  <2>4. OpenOutput(t) \/ ReceiveBlock(t) \/ (CannotStore(t) /\ disk' # disk) \/ disk' = disk
    BY DEF handle_share_file_server, serve, CannotStore, Refuse, Admit, Prompt, CloseAfterPrompt,
       ReceiveMetadata, ResetProgress, StartPath, EndPath, OpenOutputFails,
       SignalTrain, PublishProgress, FinishReceive, ReceiveFails
  <2> QED
    BY <2>1, <2>2, <2>3, <2>4, <2>5
<1> QED
  BY <1>1, <1>2, NoOneAssumption DEF FirstProgram

\* Whoever compiles while there is no program has the first job's code file before him:
\* the file of another job would be there only after the first one has reported, and
\* that takes a program.
LEMMA FirstCompiles ==
  ASSUME NEW f, First(f), Typed, OneAtATime, Prepared, FirstProgram(f), ~exited,
         binary = {}, NEW t \in Compilable
  PROVE  t = codeOf(f)
<1>1. /\ t \in Code /\ t \in JobTransfers /\ t \in Transfers /\ t[1] \in Jobs
      /\ t = codeOf(t[1]) /\ FileSize[t] > 0 /\ Holds(disk[CodePath], t)
  BY TransferOwner, ConstantFacts DEF Compilable
<1>2. server[t] # "none"
  <2>1. FileSize[t] \in Nat /\ FileSize[t] <= MaxSize /\ MaxSize \in Nat
    BY <1>1, ConstantFacts
  <2>2. 0 \in 0 .. FileSize[t] - 1 /\ 0 \in Positions
    BY <1>1, <2>1 DEF Positions
  <2>3. disk[CodePath].by[0] = t /\ CodePath \in Paths
    BY <1>1, <2>2 DEF Holds, Paths
  <2> QED
    BY <1>1, <2>2, <2>3 DEF FirstProgram
<1>3. caller[t[1]] # "idle"
  BY <1>1, <1>2 DEF OneAtATime
<1>4. CASE t[1] # f
  <2>1. f \in Jobs /\ f \in After[t[1]] /\ f \notin Dying
    BY <1>1, <1>4 DEF First
  <2>2. Over(f)
    BY <1>1, <1>3, <2>1 DEF OneAtATime
  <2>3. HasReported(f)
    BY <2>1, <2>2 DEF OneAtATime
  <2>4. PastTrain(f)
    BY <2>3 DEF HasReported, PastTrain
  <2> QED
    BY <2>1, <2>4 DEF Prepared
<1> QED
  BY <1>1, <1>4

\* Nobody else's program is installed.
LEMMA NextFirstProgram ==
  ASSUME NEW f, First(f)
  PROVE  Typed /\ OneAtATime /\ Prepared /\ FirstProgram(f) /\ [Next]_vars
           => FirstProgram(f)'
<1> SUFFICES ASSUME Typed, OneAtATime, Prepared, FirstProgram(f), [Next]_vars
             PROVE  FirstProgram(f)'
  OBVIOUS
<1>1. ASSUME NEW j \in Jobs, handle_distributive_systems(j)
      PROVE  FirstProgram(f)'
  <2>1. UNCHANGED <<server, disk>> /\ ~exited
    BY <1>1, HandlerStep DEF serverVars, Running
  <2>2. binary' = binary \/ (binary = {} /\ \E t \in Compilable : binary' = {t})
    BY <1>1 DEF handle_distributive_systems, work, CannotOpenTrain, PreadFails, OpenGate, TakeCode, compileCode, TakeTrain,
       OpenTrain, Test, Measure, Feed, EndSlice, SliceFails, Report, CloseGate, program
  <2>3. binary' \in {{}, {codeOf(f)}}
    BY <2>1, <2>2, FirstCompiles DEF FirstProgram
  <2> QED
    BY <2>1, <2>3 DEF FirstProgram
<1>2. ASSUME NEW t \in Transfers, handle_share_file_server(t)
      PROVE  FirstProgram(f)'
  <2>1. binary' = binary
    BY <1>2, TransferStep DEF program
  <2> QED
    BY <1>2, <2>1, ServerBytes DEF FirstProgram
<1>3. CASE UNCHANGED <<program, serverVars>>
  BY <1>3 DEF FirstProgram, program, serverVars
<1> QED
  BY <1>1, <1>2, <1>3, PeerStep

\* The program is the first job's for good.
LEMMA FirstProgramInvariance ==
  ASSUME InTurn, TrainNamed, NEW f, First(f)
  PROVE  Spec => [](Prepared /\ FirstProgram(f) /\ ReportsEveryByteOnce)
<1>1. Init => FirstProgram(f)
  BY NoOneAssumption DEF Init, FirstProgram, EmptyFile
<1>2. Spec => [](Typed /\ OneAtATime /\ Prepared)
  BY WorkInvariance, PTL
<1> QED
  BY <1>1, <1>2, NextFirstProgram, JobReportsEveryByteOnce, PTL DEF Spec

\* Every job of the process, the later ones too, reports what the code of the first one
\* makes of its chunk, unless its handler printed an error.
ReportsFirstProgram(f) ==
  NoCollision =>
    \A j \in Jobs :
      HasReported(j) /\ ~stderr[j] =>
        final_result[j] = {codeOf(f)} \X ChunkBytes(j)

\* compileCode runs once in the life of a node: with jobs in turn the first one gets the
\* result it asked for, and so does nobody whose code is another one, although every
\* later job has sent its code and waited for it.
THEOREM JobReportsFirstProgram ==
  ASSUME InTurn, TrainNamed, NEW f, First(f)
  PROVE  Spec => []ReportsFirstProgram(f)
<1>1. Prepared /\ FirstProgram(f) /\ ReportsEveryByteOnce => ReportsFirstProgram(f)
  <2> SUFFICES ASSUME Prepared, FirstProgram(f), ReportsEveryByteOnce, NoCollision,
                      NEW j \in Jobs, HasReported(j), ~stderr[j]
               PROVE  final_result[j] = {codeOf(f)} \X ChunkBytes(j)
    BY DEF ReportsFirstProgram
  <2>1. binary = {codeOf(f)}
    BY DEF Prepared, PastTrain, HasReported, FirstProgram
  <2>2. final_result[j] = binary \X ChunkBytes(j)
    BY DEF ReportsEveryByteOnce
  <2> QED
    BY <2>1, <2>2
<1> QED
  BY <1>1, FirstProgramInvariance, PTL

\* With one job, under every failure of its coordinator, too, what the node reports is
\* the job's own program over every byte of its chunk, each once: although the program
\* is compiled and run while the files arrive, and unless its handler printed an error
\* or two transfers mixed up their paths.
THEOREM JobReportsResult ==
  ASSUME SingleJob, TrainNamed
  PROVE  Spec => []ReportsJobsResult
<1>1. InTurn
  BY DEF SingleJob, InTurn
<1>2. ASSUME Jobs = {}
      PROVE  ReportsJobsResult
  BY <1>2 DEF ReportsJobsResult
<1>3. ASSUME NEW f \in Jobs
      PROVE  Spec => []ReportsJobsResult
  <2>1. First(f)
    BY DEF SingleJob, First
  <2>2. ReportsFirstProgram(f) => ReportsJobsResult
    BY DEF SingleJob, ReportsFirstProgram, ReportsJobsResult, codeOf
  <2> QED
    BY <1>1, <2>1, <2>2, JobReportsFirstProgram, PTL
<1>4. CASE Jobs = {}
  BY <1>2, <1>4, PTL
<1>5. CASE Jobs # {}
  BY <1>3, <1>5
<1> QED
  BY <1>4, <1>5

=============================================================================
