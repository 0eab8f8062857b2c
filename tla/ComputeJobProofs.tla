-------------------------- MODULE ComputeJobProofs --------------------------
(***************************************************************************)
(* What the runs check of ComputeJob on one or two jobs, for every number  *)
(* of jobs and senders, every file size and every set of failures.         *)
(***************************************************************************)
EXTENDS ComputeJob, FiniteSetTheorems, TLAPS

\* The bounds that the types of the byte counters rest on: nobody sends more than
\* the file, or anything before the node let it; the sending threads of a job start
\* after its call did; nobody receives more than was sent; a transfer past its open
\* has a file to write to; and a slice ends at a progress that was published.
Bounds ==
  /\ \A t \in Transfers : sent[t] <= FileSize[t]
  /\ \A t \in Transfers :
       client[t] \in {"idle", "asking", "deciding"} => sent[t] = -1
  /\ \A t \in JobTransfers :
       caller[t[1]] \in {"idle", "asking"} => client[t] = "idle"
  /\ \A t \in Transfers : received[t] = 0 \/ received[t] <= sent[t]
  /\ \A t \in Transfers :
       server[t] \in {"signalling", "receiving", "publishing"} => out[t] \in Paths
  /\ \A j \in Jobs :
       compute[j] = "feed" => offset[j] + remaining[j] \in 0 .. MaxSize

Typed == TypeOK /\ Bounds

\* Facts about the constants that most steps use.
LEMMA ConstantFacts ==
  /\ MaxSize \in Nat
  /\ \A t \in Transfers : FileSize[t] \in Nat /\ FileSize[t] <= MaxSize
  /\ \A t \in Transfers : Path(t) \in Paths
  /\ EmptyFile \in Files
  /\ BUF_SIZE \in Nat /\ BUF_SIZE > 0
  /\ JobTransfers \subseteq Transfers /\ Manual \subseteq Transfers
  /\ \A t \in JobTransfers : t[1] \in Jobs
  /\ JobTransfers \cap Manual = {}
<1>1. EmptyFile \in Files
  BY SizeAssumption DEF EmptyFile, Files, Positions
<1>2. JobTransfers \cap Manual = {}
  <2> SUFFICES ASSUME NEW t \in JobTransfers PROVE t \notin Manual
    OBVIOUS
  <2>1. t[2] \in Kinds /\ "files" \notin Kinds
    BY KindsAssumption DEF JobTransfers
  <2> QED
    BY <2>1 DEF Manual
<1> QED
  BY <1>1, <1>2, SizeAssumption, BufferAssumption
     DEF Paths, Transfers, JobTransfers

\* A write inside the file's size makes a file again.
LEMMA WrittenType ==
  ASSUME NEW file \in Files, NEW t \in Transfers, NEW pos \in Nat, NEW n \in Nat,
         pos + n <= MaxSize
  PROVE  Written(file, t, pos, n) \in Files
BY ConstantFacts DEF Written, Files

\* What pread returns lies inside the file.
LEMMA BytesAtType ==
  ASSUME NEW file \in Files, NEW pos \in Nat, NEW n \in Nat, pos + n <= file.len
  PROVE  BytesAt(file, pos, n) \subseteq (Transfers \cup {NoOne}) \X Positions
<1>1. \A i \in pos .. pos + n - 1 : i \in Positions
  BY ConstantFacts DEF Files, Positions
<1> QED
  BY <1>1 DEF BytesAt, Files

\* The node starts within its types.
LEMMA InitTyped == Init => Typed
<1> SUFFICES ASSUME Init PROVE Typed
  OBVIOUS
<1>1. Bounds
  BY ConstantFacts DEF Init, Bounds, Transfers
<1>2. /\ shared_outpath \in Strings /\ disk \in [Paths -> Files]
      /\ out \in [Transfers -> Paths \cup {NoPath}]
      /\ binary \in SUBSET Code
      /\ final_result \in [Jobs -> Results]
      /\ slice \in [Jobs -> SUBSET ((Transfers \cup {NoOne}) \X Positions)]
  BY ConstantFacts DEF Init, Strings, Results
<1>3. /\ sent \in [Transfers -> -1 .. MaxSize]
      /\ remaining \in [Jobs -> -MaxSize .. MaxSize]
  BY ConstantFacts DEF Init
<1>4. /\ server \in [Transfers -> ServerSteps] /\ client \in [Transfers -> ClientSteps]
      /\ compute \in [Jobs -> ComputeSteps] /\ caller \in [Jobs -> CallerSteps]
  BY DEF Init, ServerSteps, ClientSteps, ComputeSteps, CallerSteps
<1>5. /\ received \in [Transfers -> 0 .. MaxSize]
      /\ offset \in [Jobs -> 0 .. MaxSize] /\ fed \in [Jobs -> 0 .. MaxSize]
      /\ trainfd \in [Jobs -> BOOLEAN] /\ stderr \in [Jobs -> BOOLEAN]
      /\ Shared_fileSize \in 0 .. MaxSize /\ processedBytes \in 0 .. MaxSize
  BY ConstantFacts DEF Init
<1>6. \A t \in Transfers : received[t] <= FileSize[t] /\ sent[t] <= FileSize[t]
  BY ConstantFacts DEF Init
<1> QED
  BY <1>1, <1>2, <1>3, <1>4, <1>5, <1>6 DEF Init, Typed, TypeOK

\* A step of a transfer's thread at the node keeps them.
LEMMA ServerTyped ==
  ASSUME Typed, NEW t \in Transfers, handle_share_file_server(t)
  PROVE  Typed'
<1> USE ConstantFacts DEF Typed, TypeOK, Bounds, toServer, globals, program,
        clientVars, computeVars
<1>1. CASE Refuse(t)
  BY <1>1 DEF Refuse, ServerSteps
<1>2. CASE Admit(t)
  BY <1>2 DEF Admit, ServerSteps
<1>3. CASE Prompt(t)
  BY <1>3 DEF Prompt, ServerSteps
<1>4. CASE CloseAfterPrompt(t)
  BY <1>4 DEF CloseAfterPrompt, ServerSteps
<1>5. CASE ReceiveMetadata(t)
  BY <1>5 DEF ReceiveMetadata, ServerSteps
<1>6. CASE ResetProgress(t)
  BY <1>6 DEF ResetProgress, ServerSteps
<1>7. CASE StartPath(t)
  BY <1>7 DEF StartPath, ServerSteps, Strings
<1>8. CASE EndPath(t)
  BY <1>8 DEF EndPath, ServerSteps, Strings
<1>9. CASE OpenOutput(t)
  BY <1>9 DEF OpenOutput, ServerSteps
<1>10. CASE OpenOutputFails(t)
  BY <1>10 DEF OpenOutputFails, ServerSteps, Returned
<1>11. CASE SignalTrain(t)
  BY <1>11 DEF SignalTrain, ServerSteps
<1>12. CASE ReceiveBlock(t)
  <2>1. PICK bytes \in 1 .. sent[t] - received[t] :
          /\ disk' = [disk EXCEPT ![out[t]] = Written(@, t, received[t], bytes)]
          /\ received' = [received EXCEPT ![t] = @ + bytes]
    BY <1>12 DEF ReceiveBlock
  <2>2. /\ out[t] \in Paths /\ received[t] \in Nat /\ bytes \in Nat
        /\ received[t] + bytes <= sent[t] /\ received[t] + bytes <= MaxSize
    BY <1>12, <2>1 DEF ReceiveBlock
  <2>3. Written(disk[out[t]], t, received[t], bytes) \in Files
    BY <2>2, WrittenType
  <2>4. disk' \in [Paths -> Files]
    BY <2>1, <2>2, <2>3
  <2> QED
    BY <1>12, <2>1, <2>2, <2>4 DEF ReceiveBlock, ServerSteps
<1>13. CASE PublishProgress(t)
  BY <1>13 DEF PublishProgress, ServerSteps
<1>14. CASE FinishReceive(t)
  BY <1>14 DEF FinishReceive, ServerSteps, Returned
<1>15. CASE ReceiveFails(t)
  BY <1>15 DEF ReceiveFails, ServerSteps, Returned
<1>16. CASE CannotStore(t)
  <2>1. disk' \in [Paths -> Files]
    <3>1. CASE UNCHANGED disk
      BY <3>1
    <3>2. CASE ~UNCHANGED disk
      <4>1. PICK bytes \in 1 .. sent[t] - received[t] - 1 :
              disk' = [disk EXCEPT ![out[t]] = Written(@, t, received[t], bytes)]
        BY <1>16, <3>2 DEF CannotStore
      <4>2. out[t] \in Paths /\ received[t] \in Nat /\ bytes \in Nat
        BY <1>16, <3>2, <4>1 DEF CannotStore
      <4>3. received[t] + bytes <= MaxSize
        BY <4>1
      <4>4. Written(disk[out[t]], t, received[t], bytes) \in Files
        BY <4>2, <4>3, WrittenType
      <4> QED
        BY <4>1, <4>2, <4>4
    <3> QED
      BY <3>1, <3>2
  <2> QED
    BY <1>16, <2>1 DEF CannotStore, ServerSteps, Returned
<1> QED
  BY <1>1, <1>2, <1>3, <1>4, <1>5, <1>6, <1>7, <1>8, <1>9, <1>10, <1>11, <1>12,
     <1>13, <1>14, <1>15, <1>16 DEF handle_share_file_server, serve

\* A step of a sending thread keeps them.
LEMMA ClientTyped ==
  ASSUME Typed, NEW t \in Transfers, send_file(t) \/ SenderFails(t)
  PROVE  Typed'
<1> USE ConstantFacts DEF Typed, TypeOK, Bounds, toClient, NodeSide, globals, program,
        serverVars, computeVars, ClientSteps
<1>1. CASE StartSend(t)
  BY <1>1 DEF StartSend
<1>2. CASE ReadAdmitted(t)
  BY <1>2 DEF ReadAdmitted
<1>3. CASE ReadRefused(t)
  BY <1>3 DEF ReadRefused
<1>4. CASE ReadAccepted(t)
  BY <1>4 DEF ReadAccepted
<1>5. CASE ReadRejected(t)
  BY <1>5 DEF ReadRejected
<1>6. CASE SendBlock(t)
  BY <1>6 DEF SendBlock
<1>7. CASE EndSend(t)
  BY <1>7 DEF EndSend
<1>8. CASE ConnectionReset(t)
  BY <1>8 DEF ConnectionReset
<1>9. CASE SenderFails(t)
  BY <1>9 DEF SenderFails
<1> QED
  BY <1>1, <1>2, <1>3, <1>4, <1>5, <1>6, <1>7, <1>8, <1>9 DEF send_file

\* A step of a job's thread at the node keeps them.
LEMMA ComputeTyped ==
  ASSUME Typed, NEW j \in Jobs, handle_distributive_systems(j)
  PROVE  Typed'
<1> USE ConstantFacts DEF Typed, TypeOK, Bounds, toCompute, Others, globals, program,
        serverVars, clientVars, ComputeSteps
<1>1. CASE OpenGate(j)
  BY <1>1 DEF OpenGate
<1>2. CASE TakeCode(j)
  BY <1>2 DEF TakeCode
<1>3. CASE compileCode(j)
  BY <1>3 DEF compileCode, Compilable
<1>4. CASE TakeTrain(j)
  BY <1>4 DEF TakeTrain
<1>5. CASE OpenTrain(j)
  BY <1>5 DEF OpenTrain, Exists
<1>6. CASE Test(j)
  BY <1>6 DEF Test
<1>7. CASE Measure(j)
  BY <1>7 DEF Measure
<1>8. CASE Feed(j)
  <2>1. /\ disk[TrainPath] \in Files /\ offset[j] \in Nat /\ fed[j] \in Nat
        /\ offset[j] + fed[j] \in Nat
    BY DEF Paths
  <2>2. /\ Readable(j) \in Nat
        /\ fed[j] + Readable(j) \in 0 .. MaxSize
        /\ (offset[j] + fed[j]) + Readable(j) <= disk[TrainPath].len
    BY <1>8, <2>1 DEF Feed, Readable, Files
  <2>3. BytesAt(disk[TrainPath], offset[j] + fed[j], Readable(j))
          \subseteq (Transfers \cup {NoOne}) \X Positions
    BY <2>1, <2>2, BytesAtType
  <2> QED
    BY <1>8, <2>2, <2>3 DEF Feed
<1>9. CASE EndSlice(j)
  <2>1. Output(slice[j]) \in Results
    BY OutputAssumption DEF Output, Results
  <2>2. final_result[j] \in Results
    OBVIOUS
  <2>3. xor(final_result[j], Output(slice[j])) \in Results
    BY <2>1, <2>2 DEF xor, Results
  <2> QED
    BY <1>9, <2>3 DEF EndSlice
<1>10. CASE Report(j)
  BY <1>10 DEF Report
<1>11. CASE CloseGate(j)
  BY <1>11 DEF CloseGate
<1>12. CASE SliceFails(j)
  <2>1. xor(final_result[j], {Failed}) \in Results
    <3>1. final_result[j] \in Results
      OBVIOUS
    <3> QED
      BY <3>1 DEF xor, Results
  <2> QED
    BY <1>12, <2>1 DEF SliceFails
<1>13. CASE CannotOpenTrain(j)
  BY <1>13 DEF CannotOpenTrain
<1>14. CASE PreadFails(j)
  <2>1. Output(slice[j]) \in Results
    BY OutputAssumption DEF Output, Results
  <2>2. final_result[j] \in Results
    OBVIOUS
  <2>3. xor(final_result[j], Output(slice[j])) \in Results
    BY <2>1, <2>2 DEF xor, Results
  <2> QED
    BY <1>14, <2>3 DEF PreadFails
<1> QED
  BY <1>1, <1>2, <1>3, <1>4, <1>5, <1>6, <1>7, <1>8, <1>9, <1>10, <1>11, <1>12,
     <1>13, <1>14 DEF handle_distributive_systems, work

\* A step of a coordinator keeps them.
LEMMA CallerTyped ==
  ASSUME Typed, NEW j \in Jobs, distributiveComputingOverNetwork(j) \/ CoordinatorDies(j)
  PROVE  Typed'
<1> USE ConstantFacts DEF Typed, TypeOK, Bounds, toCaller, Elsewhere, globals, program,
        serverVars, clientVars, computeVars, CallerSteps, ClientSteps
<1>1. CASE StartJob(j)
  BY <1>1 DEF StartJob
<1>2. CASE ReadOpen(j)
  <2>1. \A t \in {j} \X Kinds : t \in JobTransfers /\ t[1] = j
    BY DEF JobTransfers
  <2>2. \A t \in JobTransfers : t[1] = j => t \in {j} \X Kinds
    BY DEF JobTransfers
  <2> QED
    BY <1>2, <2>1, <2>2 DEF ReadOpen
<1>3. CASE ReadOpenAndResult(j)
  BY <1>3 DEF ReadOpenAndResult
<1>4. CASE JoinSends(j)
  BY <1>4 DEF JoinSends
<1>5. CASE ReadResult(j)
  BY <1>5 DEF ReadResult
<1>6. CASE ConnectionLost(j)
  BY <1>6 DEF ConnectionLost
<1>7. CASE CoordinatorDies(j)
  BY <1>7 DEF CoordinatorDies
<1> QED
  BY <1>1, <1>2, <1>3, <1>4, <1>5, <1>6, <1>7 DEF distributiveComputingOverNetwork

\* No step leaves the types.
LEMMA NextTyped == Typed /\ [Next]_vars => Typed'
<1> SUFFICES ASSUME Typed, [Next]_vars PROVE Typed'
  OBVIOUS
<1>1. CASE handle_receive_file_server \/ handle_close_receive_file_server
  BY <1>1 DEF handle_receive_file_server, handle_close_receive_file_server, Typed, TypeOK,
     Bounds, program, serverVars, clientVars, computeVars
<1>2. CASE UNCHANGED vars
  BY <1>2 DEF vars, Typed, TypeOK, Bounds, globals, program, serverVars, clientVars,
     computeVars
<1> QED
  BY <1>1, <1>2, ServerTyped, ClientTyped, ComputeTyped, CallerTyped DEF Next

\* Every reachable state is typed.
LEMMA TypedInvariance == Spec => []Typed
BY InitTyped, NextTyped, PTL DEF Spec

\* For any jobs, senders, file sizes and failures, every variable of the node and
\* of its peers stays in its type, and no thread has sent or received more of a file
\* than the file has.
THEOREM JobTypes == Spec => []TypeOK
<1>1. Typed => TypeOK
  BY DEF Typed
<1> QED
  BY <1>1, TypedInvariance, PTL

-----------------------------------------------------------------------------
(* The tokens of the first latch *)

Past == {j \in Jobs : PastCode(j)}

\* Jobs and their code transfers are finitely many, so both counts are naturals.
LEMMA FiniteCounts ==
  /\ \A P \in SUBSET Jobs : IsFiniteSet(P) /\ Cardinality(P) \in Nat
  /\ \A D \in SUBSET Code : IsFiniteSet(D) /\ Cardinality(D) \in Nat
<1>1. IsFiniteSet(Code)
  <2>1. IsFiniteSet({"code"})
    BY FS_Singleton
  <2> QED
    BY <2>1, FiniteAssumption, FS_Product DEF Code
<1> QED
  BY <1>1, FiniteAssumption, FS_Subset, FS_CardinalityType

\* The steps that neither finish a code transfer nor take the latch leave the
\* handlers where they are and at most add to what is delivered.
LEMMA QuietStep ==
  ASSUME CodeTokens, Past' = Past, Delivered \subseteq Delivered',
         mesh_info_1' = mesh_info_1, mesh_info_1 \in {0, 1}
  PROVE  CodeTokens'
<1>1. Past \in SUBSET Jobs /\ Delivered \in SUBSET Code /\ Delivered' \in SUBSET Code
  BY DEF Past, Delivered
<1>2. Cardinality(Delivered) <= Cardinality(Delivered')
  BY <1>1, FiniteCounts, FS_Subset
<1>3. Cardinality(Past) + mesh_info_1 <= Cardinality(Delivered)
  BY DEF CodeTokens, Past
<1>4. Cardinality(Past') + mesh_info_1' <= Cardinality(Delivered')
  BY <1>1, <1>2, <1>3, FiniteCounts
<1> QED
  BY <1>4 DEF CodeTokens, Past

\* A thread of the node that serves a transfer: only the end of a code transfer
\* raises the latch, and it adds that transfer to the delivered ones.
LEMMA ServerTokens ==
  ASSUME Typed, CodeTokens, NEW t \in Transfers, handle_share_file_server(t)
  PROVE  CodeTokens'
<1> USE DEF toServer
<1>1. ASSUME FinishReceive(t), t \in Code
      PROVE  CodeTokens'
  <2>1. t \notin Manual /\ Returned(t, "finished") = "finished"
    BY <1>1 DEF Code, Manual, Returned, UserAsked
  <2>2. t \notin Delivered /\ Delivered' = Delivered \cup {t} /\ Past' = Past
    BY <1>1, <2>1 DEF FinishReceive, Delivered, serverVars, Past, PastCode, computeVars, Typed, TypeOK
  <2>3. Past \in SUBSET Jobs /\ Delivered \in SUBSET Code
    BY DEF Past, Delivered
  <2>4. Cardinality(Delivered') = Cardinality(Delivered) + 1
    BY <2>2, <2>3, FiniteCounts, FS_AddElement
  <2>5. mesh_info_1' = 1 /\ mesh_info_1 \in {0, 1}
    BY <1>1 DEF FinishReceive, Typed, TypeOK
  <2>6. Cardinality(Past) + mesh_info_1 <= Cardinality(Delivered)
    BY DEF CodeTokens, Past
  <2>7. Cardinality(Past') + mesh_info_1' <= Cardinality(Delivered')
    BY <2>2, <2>3, <2>4, <2>5, <2>6, FiniteCounts
  <2> QED
    BY <2>7 DEF CodeTokens, Past
<1>2. ASSUME ~(FinishReceive(t) /\ t \in Code)
      PROVE  CodeTokens'
  <2>1. /\ server[t] # "finished"
        /\ \A u \in Transfers \ {t} : server'[u] = server[u] /\ received'[u] = received[u]
    BY DEF handle_share_file_server, serve, CannotStore, Refuse, Admit, Prompt, CloseAfterPrompt,
       ReceiveMetadata, MetadataFrom, ResetProgress, StartPath, EndPath, OpenOutput,
       OpenOutputFails, SignalTrain, ReceiveBlock, PublishProgress, FinishReceive,
       ReceiveFails, Typed, TypeOK
  <2>2. Delivered \subseteq Delivered'
    <3>1. Code \subseteq Transfers
      BY KindsAssumption DEF Code, Transfers, JobTransfers
    <3> QED
      BY <2>1, <3>1 DEF Delivered
  <2>3. mesh_info_1' = mesh_info_1 /\ mesh_info_1 \in {0, 1}
    BY <1>2 DEF handle_share_file_server, serve, CannotStore, Refuse, Admit, Prompt, CloseAfterPrompt,
       ReceiveMetadata, ResetProgress, StartPath, EndPath, OpenOutput,
       OpenOutputFails, SignalTrain, ReceiveBlock, PublishProgress, FinishReceive,
       ReceiveFails, globals, Typed, TypeOK
  <2>4. compute' = compute
    BY DEF handle_share_file_server, serve, CannotStore, Refuse, Admit, Prompt, CloseAfterPrompt,
       ReceiveMetadata, ResetProgress, StartPath, EndPath, OpenOutput,
       OpenOutputFails, SignalTrain, ReceiveBlock, PublishProgress, FinishReceive,
       ReceiveFails, computeVars
  <2>5. Past' = Past
    BY <2>4 DEF Past, PastCode
  <2> QED
    BY <2>2, <2>3, <2>5, QuietStep
<1> QED
  BY <1>1, <1>2

\* A handler of a job: one wait lets one handler past and clears the latch.
LEMMA ComputeTokens ==
  ASSUME Typed, CodeTokens, NEW j \in Jobs, handle_distributive_systems(j)
  PROVE  CodeTokens'
<1> USE DEF toCompute
<1>1. Delivered' = Delivered
  BY DEF handle_distributive_systems, work, CannotOpenTrain, PreadFails, OpenGate, TakeCode, compileCode, TakeTrain,
     OpenTrain, Test, Measure, Feed, EndSlice, SliceFails, Report, CloseGate, Others, serverVars,
     Delivered
<1>2. CASE TakeCode(j)
  <2>1. j \notin Past /\ Past' = Past \cup {j}
    BY <1>2 DEF TakeCode, Past, PastCode, Typed, TypeOK
  <2>2. Past \in SUBSET Jobs /\ Delivered \in SUBSET Code
    BY DEF Past, Delivered
  <2>3. Cardinality(Past') = Cardinality(Past) + 1
    BY <2>1, <2>2, FiniteCounts, FS_AddElement
  <2>4. mesh_info_1 = 1 /\ mesh_info_1' = 0
    BY <1>2 DEF TakeCode
  <2>5. Cardinality(Past) + mesh_info_1 <= Cardinality(Delivered)
    BY DEF CodeTokens, Past
  <2>6. Cardinality(Past') + mesh_info_1' <= Cardinality(Delivered')
    BY <1>1, <2>2, <2>3, <2>4, <2>5, FiniteCounts
  <2> QED
    BY <2>6 DEF CodeTokens, Past
<1>3. CASE ~TakeCode(j)
  <2>1. /\ \A k \in Jobs \ {j} : compute'[k] = compute[k]
        /\ compute[j] \in {"none", "awaitCode"} <=> compute'[j] \in {"none", "awaitCode"}
    BY <1>3 DEF handle_distributive_systems, work, CannotOpenTrain, PreadFails, OpenGate, compileCode, TakeTrain,
       OpenTrain, Test, Measure, Feed, EndSlice, SliceFails, Report, CloseGate, Typed, TypeOK
  <2>2. Past' = Past
    BY <2>1 DEF Past, PastCode
  <2>3. mesh_info_1' = mesh_info_1 /\ mesh_info_1 \in {0, 1}
    BY <1>3 DEF handle_distributive_systems, work, CannotOpenTrain, PreadFails, OpenGate, compileCode, TakeTrain,
       OpenTrain, Test, Measure, Feed, EndSlice, SliceFails, Report, CloseGate, globals, Typed, TypeOK
  <2> QED
    BY <1>1, <2>2, <2>3, QuietStep
<1> QED
  BY <1>2, <1>3

\* The other end of the connections has no access to the latch.
LEMMA PeersTokens ==
  ASSUME Typed, CodeTokens, UNCHANGED <<mesh_info_1, server, received, compute>>
  PROVE  CodeTokens'
<1>1. Past' = Past /\ Delivered' = Delivered
  BY DEF Past, PastCode, Delivered
<1> QED
  BY <1>1, QuietStep DEF Typed, TypeOK

\* For any number of jobs and senders, any files and any failures, every handler
\* past the first latch has a finished code transfer of its own to thank for it.
THEOREM JobCodeTokens == Spec => []CodeTokens
<1>1. Init => CodeTokens
  <2> SUFFICES ASSUME Init PROVE CodeTokens
    OBVIOUS
  <2>1. {j \in Jobs : PastCode(j)} = {} /\ mesh_info_1 = 0
    BY DEF Init, PastCode
  <2>2. Delivered \in SUBSET Code /\ Cardinality(Delivered) \in Nat
    BY FiniteCounts DEF Delivered
  <2> QED
    BY <2>1, <2>2, FS_EmptySet DEF CodeTokens
<1>2. Typed /\ CodeTokens /\ [Next]_vars => CodeTokens'
  <2> SUFFICES ASSUME Typed, CodeTokens, [Next]_vars PROVE CodeTokens'
    OBVIOUS
  <2>1. ASSUME NEW t \in Transfers, send_file(t) \/ SenderFails(t)
        PROVE  UNCHANGED <<mesh_info_1, server, received, compute>>
    BY <2>1 DEF send_file, StartSend, ReadAdmitted, ReadRefused, ReadAccepted,
       ReadRejected, SendBlock, EndSend, ConnectionReset, SenderFails, NodeSide,
       globals, serverVars, computeVars
  <2>2. ASSUME NEW j \in Jobs, distributiveComputingOverNetwork(j) \/ CoordinatorDies(j)
        PROVE  UNCHANGED <<mesh_info_1, server, received, compute>>
    BY <2>2 DEF distributiveComputingOverNetwork, StartJob, ReadOpen, ReadOpenAndResult,
       JoinSends, ReadResult, ConnectionLost, CoordinatorDies, Elsewhere, globals,
       serverVars, computeVars
  <2>3. ASSUME handle_receive_file_server \/ handle_close_receive_file_server \/ UNCHANGED vars
        PROVE  UNCHANGED <<mesh_info_1, server, received, compute>>
    BY <2>3 DEF handle_receive_file_server, handle_close_receive_file_server, vars,
       globals, serverVars, computeVars
  <2> QED
    BY <2>1, <2>2, <2>3, ServerTokens, ComputeTokens, PeersTokens DEF Next
<1> QED
  BY <1>1, <1>2, TypedInvariance, PTL DEF Spec

-----------------------------------------------------------------------------
(* The open flag *)

\* Whoever opened the node has not closed it yet.
Opened == OPEN_RECEIVE_FILE_CONNECTION = 1 => \E j \in Jobs : compute[j] \notin {"none", "done"}

\* The flag is only taken down by the other threads, and no handler leaves
\* without doing so itself.
LEMMA NextOpened ==
  "receiveFile" \notin GateCommands /\ Typed /\ Opened /\ [Next]_vars => Opened'
<1> SUFFICES ASSUME "receiveFile" \notin GateCommands, Typed, Opened, [Next]_vars
             PROVE  Opened'
  OBVIOUS
<1> DEFINE Quiet == /\ compute' = compute
                    /\ \/ OPEN_RECEIVE_FILE_CONNECTION' = OPEN_RECEIVE_FILE_CONNECTION
                       \/ OPEN_RECEIVE_FILE_CONNECTION' = 0
<1>1. Quiet => Opened'
  BY DEF Opened
<1>2. ASSUME NEW t \in Transfers, handle_share_file_server(t)
      PROVE  Quiet
  BY <1>2 DEF handle_share_file_server, serve, CannotStore, Refuse, Admit, Prompt, CloseAfterPrompt,
     ReceiveMetadata, ResetProgress, StartPath, EndPath, OpenOutput, OpenOutputFails,
     SignalTrain, ReceiveBlock, PublishProgress, FinishReceive, ReceiveFails, globals,
     computeVars
<1>3. ASSUME NEW t \in Transfers, send_file(t) \/ SenderFails(t)
      PROVE  Quiet
  BY <1>3 DEF send_file, StartSend, ReadAdmitted, ReadRefused, ReadAccepted,
     ReadRejected, SendBlock, EndSend, ConnectionReset, SenderFails, NodeSide, globals,
     computeVars
<1>4. ASSUME NEW j \in Jobs, distributiveComputingOverNetwork(j) \/ CoordinatorDies(j)
      PROVE  Quiet
  BY <1>4 DEF distributiveComputingOverNetwork, StartJob, ReadOpen, ReadOpenAndResult,
     JoinSends, ReadResult, ConnectionLost, CoordinatorDies, Elsewhere, globals,
     computeVars
<1>5. ASSUME handle_receive_file_server \/ handle_close_receive_file_server \/ UNCHANGED vars
      PROVE  Quiet
  BY <1>5 DEF handle_receive_file_server, handle_close_receive_file_server, vars,
     globals, computeVars
<1>6. ASSUME NEW j \in Jobs, handle_distributive_systems(j)
      PROVE  Opened'
  <2> USE DEF toCompute
  <2>1. CASE OpenGate(j)
    BY <2>1 DEF OpenGate, Opened, Typed, TypeOK
  <2>2. CASE CloseGate(j)
    BY <2>2 DEF CloseGate, Opened
  <2>3. CASE ~(OpenGate(j) \/ CloseGate(j))
    <3>1. OPEN_RECEIVE_FILE_CONNECTION' = OPEN_RECEIVE_FILE_CONNECTION
      BY <1>6, <2>3 DEF handle_distributive_systems, work, CannotOpenTrain, PreadFails, TakeCode, compileCode, TakeTrain,
         OpenTrain, Test, Measure, Feed, EndSlice, SliceFails, Report, globals
    <3>2. \A k \in Jobs : compute[k] \notin {"none", "done"} => compute'[k] \notin {"none", "done"}
      BY <1>6, <2>3 DEF handle_distributive_systems, work, CannotOpenTrain, PreadFails, TakeCode, compileCode, TakeTrain,
         OpenTrain, Test, Measure, Feed, EndSlice, SliceFails, Report, Typed, TypeOK
    <3> QED
      BY <3>1, <3>2 DEF Opened
  <2> QED
    BY <2>1, <2>2, <2>3
<1> HIDE DEF Quiet
<1> QED
  BY <1>1, <1>2, <1>3, <1>4, <1>5, <1>6 DEF Next

\* For any number of jobs and interactive transfers, and however they interleave
\* and fail, a node that its user has not opened is closed when no job is on it.
THEOREM JobClosesNode ==
  ASSUME "receiveFile" \notin GateCommands
  PROVE  Spec => []ClosedWhenIdle
<1>1. Init => Opened
  BY DEF Init, Opened
<1>2. Typed /\ Opened => ClosedWhenIdle
  BY DEF Typed, TypeOK, Opened, ClosedWhenIdle
<1> QED
  BY <1>1, <1>2, NextOpened, TypedInvariance, PTL DEF Spec
=============================================================================
