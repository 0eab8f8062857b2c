-------------------------------- MODULE Node --------------------------------
(***************************************************************************)
(* The state of one computing node and of the connections it serves: the   *)
(* globals that its detached handler threads share, its files, and the two *)
(* ends of every transfer and job connection.                              *)
(*                                                                         *)
(* A job is one call of distributiveComputingOverNetwork: a coordinator    *)
(* sends the node a code, a reducer and a train file over connections of   *)
(* their own and awaits one result.  A sender is one interactive sendFile, *)
(* for which the node's user is asked.                                     *)
(*                                                                         *)
(* Byte i of the file that transfer t sends is always written at position  *)
(* i, so a file is known by its length and by who wrote each position.     *)
(***************************************************************************)
EXTENDS Integers, FiniteSets

CONSTANTS
  Jobs,          \* calls of distributiveComputingOverNetwork for this node
  Kinds,         \* the folders a job sends: "code", "train" and "reducer"
  Senders,       \* calls of handle_send_file towards this node
  FileSize,      \* how many bytes each transfer sends
  BaseName,      \* the name of its file, after the last slash
  MaxSize,       \* no transfer sends more
  Faulty,        \* the transfers that may fail at either end
  NoOne          \* who wrote a position that was only skipped over

JobTransfers == Jobs \X Kinds
Manual == Senders \X {"files"}
Transfers == JobTransfers \cup Manual

folder(t) == t[2]
Code == Jobs \X {"code"}
Train == Jobs \X {"train"}

ASSUME KindsAssumption ==
  {"code", "train"} \subseteq Kinds /\ Kinds \subseteq {"code", "train", "reducer"}
ASSUME SizeAssumption ==
  MaxSize \in Nat /\ FileSize \in [Transfers -> 0 .. MaxSize]
ASSUME NameAssumption == BaseName \in [Transfers -> STRING]
ASSUME FiniteAssumption == IsFiniteSet(Jobs)
ASSUME NoOneAssumption == NoOne \notin Transfers

Positions == 0 .. MaxSize - 1

\* The string that receive_file builds for t, and the ones written in the code.
Path(t) == <<folder(t), BaseName[t]>>
CodePath == <<"code", "main.cpp">>
TrainPath == <<"train", "test.txt">>
Paths == {Path(t) : t \in Transfers} \cup {CodePath, TrainPath}
NoPath == <<"", "">>

\* shared_outpath while t is halfway through writing it, and after two threads
\* wrote it at the same time.  The folder names differ in length, so neither
\* string names a directory that exists.
Writing(t) == <<"half", t>>
Torn == <<"torn", "">>
Strings == Paths \cup {NoPath, Torn} \cup {Writing(t) : t \in Transfers}

VARIABLES
  \* globals of the node
  OPEN_RECEIVE_FILE_CONNECTION,
  mesh_info_1, mesh_info_2,   \* the latches' flags, see module SharedData
  Shared_fileSize, processedBytes, shared_outpath,
  binary,        \* {} or the one code file that /tmp/local_exec is built from
  exited,        \* the process called exit(1)
  disk,          \* disk[p]: length of file p and who wrote each position
  \* the transfers: the node's thread and the sender's thread
  server, received, out,
  client, sent,  \* sent[t]: bytes handed to TCP, -1 before the metadata
  \* the jobs: the node's thread and the coordinator's thread
  compute, final_result, offset, remaining, fed, slice, trainfd,
  stderr,        \* stderr[j]: the thread of job j has printed an error
  caller

globals == <<OPEN_RECEIVE_FILE_CONNECTION, mesh_info_1, mesh_info_2,
             Shared_fileSize, processedBytes, shared_outpath>>
program == <<binary, exited>>
serverVars == <<server, received, out, disk>>
clientVars == <<client, sent>>
computeVars ==
  <<compute, final_result, offset, remaining, fed, slice, trainfd, stderr>>
vars == <<globals, program, serverVars, clientVars, computeVars, caller>>

\* The threads of the node run as long as its process does.
Running == ~exited

toServer(t, from, to) == server[t] = from /\ server' = [server EXCEPT ![t] = to]
toClient(t, from, to) == client[t] = from /\ client' = [client EXCEPT ![t] = to]
toCompute(j, from, to) == compute[j] = from /\ compute' = [compute EXCEPT ![j] = to]
toCaller(j, from, to) == caller[j] = from /\ caller' = [caller EXCEPT ![j] = to]

-----------------------------------------------------------------------------
(* Files *)

EmptyFile == [len |-> 0, by |-> [i \in Positions |-> NoOne]]

\* A path names a file once a transfer has opened it with O_CREAT.
Exists(p) == \E t \in Transfers : out[t] = p

\* write n bytes of t at position pos, past whatever is beyond the end of file.
Written(file, t, pos, n) ==
  [len |-> IF file.len > pos + n THEN file.len ELSE pos + n,
   by |-> [i \in Positions |-> IF i \in pos .. pos + n - 1 THEN t ELSE file.by[i]]]

\* The bytes that pread finds at positions pos .. pos + n - 1.
BytesAt(file, pos, n) == {<<file.by[i], i>> : i \in pos .. pos + n - 1}

\* The file is exactly what t sends.
Holds(file, t) ==
  /\ file.len = FileSize[t]
  /\ \A i \in 0 .. FileSize[t] - 1 : file.by[i] = t

-----------------------------------------------------------------------------
ServerSteps ==
  {"none", "refused", "admitted", "asked", "sizing", "building", "writing",
   "opening", "signalling", "receiving", "publishing", "answering",
   "rejecting", "closing", "finished", "aborted", "rejected"}
ClientSteps == {"idle", "asking", "deciding", "sending", "sent", "failed"}
ComputeSteps ==
  {"none", "awaitCode", "compile", "awaitTrain", "open", "test", "measure",
   "feed", "report", "closing", "done"}
CallerSteps == {"idle", "asking", "joining", "awaiting", "done", "failed"}

Init ==
  /\ OPEN_RECEIVE_FILE_CONNECTION = 0
  /\ mesh_info_1 = 0 /\ mesh_info_2 = 0
  /\ Shared_fileSize = 0 /\ processedBytes = 0
  /\ shared_outpath = NoPath
  /\ binary = {} /\ exited = FALSE
  /\ disk = [p \in Paths |-> EmptyFile]
  /\ server = [t \in Transfers |-> "none"]
  /\ received = [t \in Transfers |-> 0]
  /\ out = [t \in Transfers |-> NoPath]
  /\ client = [t \in Transfers |-> "idle"]
  /\ sent = [t \in Transfers |-> -1]
  /\ compute = [j \in Jobs |-> "none"]
  /\ final_result = [j \in Jobs |-> {}]
  /\ offset = [j \in Jobs |-> 0]
  /\ remaining = [j \in Jobs |-> 0]
  /\ fed = [j \in Jobs |-> 0]
  /\ slice = [j \in Jobs |-> {}]
  /\ trainfd = [j \in Jobs |-> FALSE]
  /\ stderr = [j \in Jobs |-> FALSE]
  /\ caller = [j \in Jobs |-> "idle"]
=============================================================================
