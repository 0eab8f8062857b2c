----------------------------- MODULE ComputeJob -----------------------------
(***************************************************************************)
(* Jobs and interactive transfers on one node: the threads of modules      *)
(* ShareFileServer and ComputeServer, which share the node's globals and   *)
(* files, together with the coordinators and senders at the other end.     *)
(***************************************************************************)
EXTENDS ShareFileServer, ShareFileClient, ComputeServer, ComputeClient

Next ==
  \/ \E t \in Transfers : handle_share_file_server(t) \/ send_file(t) \/ SenderFails(t)
  \/ \E j \in Jobs : handle_distributive_systems(j)
  \/ \E j \in Jobs : distributiveComputingOverNetwork(j) \/ CoordinatorDies(j)
  \/ handle_receive_file_server \/ handle_close_receive_file_server

Spec == Init /\ [][Next]_vars

\* Every thread that can go on is scheduled.  Nobody owes a job, an interactive
\* transfer, a gate command or a failure.
Fairness ==
  /\ \A t \in Transfers : WF_vars(serve(t))
  /\ \A t \in JobTransfers : WF_vars(send_file(t))
  /\ \A j \in Jobs : WF_vars(work(j))
  /\ \A j \in Jobs : WF_vars(caller[j] # "idle" /\ distributiveComputingOverNetwork(j))

FairSpec == Spec /\ Fairness

-----------------------------------------------------------------------------
(* Properties *)

Results == SUBSET (Code \X ((Transfers \cup {NoOne}) \X Positions) \cup {Failed})
Files == [len : 0 .. MaxSize, by : [Positions -> Transfers \cup {NoOne}]]

\* Every variable stays in its type, and no thread has sent or received more of a
\* file than the file has.
TypeOK ==
  /\ OPEN_RECEIVE_FILE_CONNECTION \in {0, 1}
  /\ mesh_info_1 \in {0, 1} /\ mesh_info_2 \in {0, 1}
  /\ Shared_fileSize \in 0 .. MaxSize /\ processedBytes \in 0 .. MaxSize
  /\ shared_outpath \in Strings
  /\ binary \in SUBSET Code /\ exited \in BOOLEAN
  /\ disk \in [Paths -> Files]
  /\ server \in [Transfers -> ServerSteps]
  /\ received \in [Transfers -> 0 .. MaxSize]
  /\ out \in [Transfers -> Paths \cup {NoPath}]
  /\ client \in [Transfers -> ClientSteps]
  /\ sent \in [Transfers -> -1 .. MaxSize]
  /\ \A t \in Transfers : received[t] <= FileSize[t] /\ sent[t] <= FileSize[t]
  /\ compute \in [Jobs -> ComputeSteps]
  /\ final_result \in [Jobs -> Results]
  /\ offset \in [Jobs -> 0 .. MaxSize]
  /\ remaining \in [Jobs -> -MaxSize .. MaxSize]
  /\ fed \in [Jobs -> 0 .. MaxSize]
  /\ slice \in [Jobs -> SUBSET ((Transfers \cup {NoOne}) \X Positions)]
  /\ trainfd \in [Jobs -> BOOLEAN] /\ stderr \in [Jobs -> BOOLEAN]
  /\ caller \in [Jobs -> CallerSteps]

PastCode(j) == compute[j] \notin {"none", "awaitCode"}
PastTrain(j) == compute[j] \notin {"none", "awaitCode", "compile", "awaitTrain"}
HasReported(j) == compute[j] \in {"closing", "done"}

\* No transfer opened the path that another one had built.
NoCollision == \A t \in Transfers : out[t] \in {NoPath, Path(t)}

\* A code transfer that has come to its end with every byte of the file.
Delivered == {t \in Code : server[t] = "finished" /\ received[t] = FileSize[t]}

\* No handler gets past the first latch on anything but a whole code file: each
\* one that did, and the raised latch itself, is paid for by a finished code
\* transfer of its own, however jobs, failures and interactive transfers
\* interleave (shareFileServer.cpp:239-242, wait(mesh_info_1)).
CodeTokens ==
  Cardinality({j \in Jobs : PastCode(j)}) + mesh_info_1 <= Cardinality(Delivered)

\* What a handler works on is behind what its own train transfer has received:
\* the published progress never exceeds the bytes in the file, and a slice never
\* exceeds the published progress (shareFileServer.cpp:216-219 and the loop of
\* handle_distributive_systems).
ReadsBehindWriter ==
  \A j \in Jobs : PastTrain(j) /\ ~HasReported(j) =>
    /\ processedBytes <= received[<<j, "train">>]
    /\ offset[j] <= processedBytes
    /\ compute[j] = "feed" => offset[j] + remaining[j] <= processedBytes

ChunkBytes(j) ==
  {<<(<<j, "train">>), i>> : i \in 0 .. FileSize[<<j, "train">>] - 1}

\* What a handler reports, if it has printed no error, covers its job's chunk: every
\* byte of it went through the installed program exactly once, and no other byte did.
ReportsEveryByteOnce ==
  NoCollision =>
    \A j \in Jobs :
      HasReported(j) /\ ~stderr[j] =>
        final_result[j] = binary \X ChunkBytes(j)

\* With one job, that program is the one the job sent: unless the handler printed an
\* error, the report is the result the coordinator asked for, although compileCode
\* and the first slices run while the files are still arriving.
ReportsJobsResult ==
  NoCollision =>
    \A j \in Jobs :
      HasReported(j) /\ ~stderr[j] =>
        final_result[j] = {<<j, "code">>} \X ChunkBytes(j)

\* A slice that was announced is in the file: pread never meets the end of the
\* file, where distributiveComputing would loop forever.
NeverStarves ==
  NoCollision =>
    \A j \in Jobs :
      compute[j] = "feed" /\ trainfd[j] /\ fed[j] < remaining[j] => Readable(j) > 0

\* A handler waits only for what is still to come: no resume was lost between its
\* flag and the two waits, whichever job raised or cleared the flag before, and a
\* handler that finds no new progress has bytes or a publication to wait for
\* (resume and wait of mesh_info_1 and mesh_info_2, the loop on processedBytes).
WaitsForWhatComes ==
  \A j \in Jobs :
    /\ compute[j] = "awaitCode" /\ mesh_info_1 = 0 => server[<<j, "code">>] # "finished"
    /\ compute[j] = "awaitTrain" /\ mesh_info_2 = 0 =>
         server[<<j, "train">>] \notin {"receiving", "publishing", "finished"}
    /\ compute[j] = "measure" /\ offset[j] = processedBytes =>
         \/ server[<<j, "train">>] = "publishing"
         \/ received[<<j, "train">>] < FileSize[<<j, "train">>]

\* Between jobs the node takes no transfers, unless its user asked for them: a
\* handler that opened it closes it, whatever ran at the same time.
ClosedWhenIdle ==
  Running /\ (\A j \in Jobs : compute[j] \in {"none", "done"}) =>
    OPEN_RECEIVE_FILE_CONNECTION = 0

\* No file was opened under another one's path, and no transfer failed at either end.
TransfersIntact ==
  NoCollision /\ \A t \in Transfers : server[t] # "aborted" /\ client[t] # "failed"

\* A job whose connection was answered gets its result, unless a transfer
\* failed, two of its files were received under one path, or one of the processes
\* ended: nobody waits on a latch that was raised too early or not at all, and the
\* processing loop ends.
JobCompletes ==
  \A j \in Jobs : caller[j] = "asking" ~>
    \/ caller[j] = "done"
    \/ caller[j] = "failed" /\ (exited \/ j \in Dying)
    \/ ~TransfersIntact

\* No sending thread waits forever, whichever thread or process fails: the
\* coordinator gets past its three joins.
SendsEnd ==
  \A t \in JobTransfers : client[t] = "asking" ~> client[t] \in {"sent", "failed"}

-----------------------------------------------------------------------------
(* What the comments and messages of the code say of it *)

\* "Wait for the client to finish sending the code file.." (line 207 of the
\* handler): a handler past the first latch has its own code file.
OwnCodeFinished ==
  \A j \in Jobs : PastCode(j) => server[<<j, "code">>] = "finished"

\* "Share file connection open" (Status_codes.cpp:6): a transfer that a job starts
\* after this answer is not refused.
OpenUntilResult ==
  \A t \in JobTransfers : server[t] # "refused"

\* "Build final file path" and "Open output file" (shareFileServer.cpp:148, 157):
\* the file opened for a transfer is the one whose path it has built.
OpensItsOwnPath == NoCollision
=============================================================================
