--------------------------- MODULE ComputeServer ---------------------------
(***************************************************************************)
(* The node's side of a job: handle_distributive_systems, compileCode and  *)
(* distributiveComputing of src/server commands/distributivecomputing/     *)
(* linuxdistributivecomputing.cpp.  One detached thread per job.           *)
(*                                                                         *)
(* The user's program is taken to be what the division of the work asks of *)
(* it: what it prints for two pieces of the input, combined by exclusive   *)
(* or, is what it prints for both together.  A result is then the set of   *)
(* the (program, byte) pairs that were combined an odd number of times,    *)
(* with Failed once a number was combined into it that no run of the       *)
(* program printed: a -1, or what stoll makes of a part of the output.     *)
(*                                                                         *)
(* Every call that fails prints a line on the node's standard error and    *)
(* lets the handler go on.  The coordinator is told nothing.               *)
(***************************************************************************)
EXTENDS Node

CONSTANTS
  BUF_SIZE,      \* of distributiveComputing
  EmptyOutput,   \* what a run over no input contributes: {}, or {Failed} when
                 \* the program then prints nothing that stoll can read
  Failed         \* a number that no run of the program printed

ASSUME BufferAssumption == BUF_SIZE \in Nat \ {0}
ASSUME OutputAssumption == EmptyOutput \in {{}, {Failed}}

Others == <<serverVars, clientVars, caller>>

xor(a, b) == (a \ b) \cup (b \ a) \cup (a \cap {Failed})
Output(bytes) == IF bytes = {} THEN EmptyOutput ELSE binary \X bytes

-----------------------------------------------------------------------------
\* OPEN_RECEIVE_FILE_CONNECTION = 1, and the answer the coordinator waits for.
OpenGate(j) ==
  /\ Running
  /\ caller[j] # "idle"
  /\ toCompute(j, "none", "awaitCode")
  /\ OPEN_RECEIVE_FILE_CONNECTION' = 1
  /\ UNCHANGED <<mesh_info_1, mesh_info_2, Shared_fileSize, processedBytes,
                 shared_outpath, program, final_result, offset, remaining, fed,
                 slice, trainfd, stderr, Others>>

TakeCodeOnly(j) ==   \* the flag is not cleared
  /\ Running
  /\ mesh_info_1 = 1
  /\ toCompute(j, "awaitCode", "compile")
  /\ UNCHANGED <<globals, program, final_result, offset, remaining, fed, slice,
                 trainfd, stderr, Others>>

TakeCodeBoth(j) ==   \* clears the flag of the other latch, too
  /\ Running
  /\ mesh_info_1 = 1
  /\ toCompute(j, "awaitCode", "compile")
  /\ mesh_info_1' = 0 /\ mesh_info_2' = 0
  /\ UNCHANGED <<OPEN_RECEIVE_FILE_CONNECTION, Shared_fileSize, processedBytes,
                 shared_outpath, program, final_result, offset, remaining, fed,
                 slice, trainfd, stderr, Others>>

\* wait(mesh_info_1)
TakeCode(j) ==
  /\ Running
  /\ mesh_info_1 = 1
  /\ toCompute(j, "awaitCode", "compile")
  /\ mesh_info_1' = 0
  /\ UNCHANGED <<OPEN_RECEIVE_FILE_CONNECTION, mesh_info_2, Shared_fileSize,
                 processedBytes, shared_outpath, program, final_result, offset,
                 remaining, fed, slice, trainfd, stderr, Others>>

\* The code file that codepath holds now: of anything else g++ makes no program.
Compilable == {t \in Code : FileSize[t] > 0 /\ Holds(disk[CodePath], t)}

\* call_once: only the first job of the process compiles, and a failure of fork,
\* waitpid or g++, for whatever reason, ends the process.
compileCode(j) ==
  /\ Running
  /\ toCompute(j, "compile", "awaitTrain")
  /\ \/ binary # {} /\ UNCHANGED program
     \/ binary = {} /\ \E t \in Compilable : binary' = {t} /\ UNCHANGED exited
     \/ binary = {} /\ exited' = TRUE /\ UNCHANGED binary
  /\ UNCHANGED <<globals, final_result, offset, remaining, fed, slice, trainfd, stderr, Others>>

\* wait(mesh_info_2)
TakeTrain(j) ==
  /\ Running
  /\ mesh_info_2 = 1
  /\ toCompute(j, "awaitTrain", "open")
  /\ mesh_info_2' = 0
  /\ UNCHANGED <<OPEN_RECEIVE_FILE_CONNECTION, mesh_info_1, Shared_fileSize,
                 processedBytes, shared_outpath, program, final_result, offset,
                 remaining, fed, slice, trainfd, stderr, Others>>

\* open(trainfilepath): a failure is printed and otherwise ignored.
OpenTrain(j) ==
  /\ Running
  /\ toCompute(j, "open", "test")
  /\ trainfd' = [trainfd EXCEPT ![j] = Exists(TrainPath)]
  /\ stderr' = [stderr EXCEPT ![j] = @ \/ ~Exists(TrainPath)]
  /\ UNCHANGED <<globals, program, final_result, offset, remaining, fed, slice, Others>>

\* The machine fails: there is no descriptor for the file that exists.
CannotOpenTrain(j) ==
  /\ Running
  /\ toCompute(j, "open", "test")
  /\ stderr' = [stderr EXCEPT ![j] = TRUE]
  /\ UNCHANGED <<globals, program, final_result, offset, remaining, fed, slice,
                 trainfd, Others>>

\* if (offset == Shared_fileSize) break;
Test(j) ==
  /\ Running
  /\ toCompute(j, "test", IF offset[j] = Shared_fileSize THEN "report" ELSE "measure")
  /\ UNCHANGED <<globals, program, final_result, offset, remaining, fed, slice,
                 trainfd, stderr, Others>>

\* remaining = processedBytes - offset, and the call of distributiveComputing.
Measure(j) ==
  /\ Running
  /\ toCompute(j, "measure", "feed")
  /\ remaining' = [remaining EXCEPT ![j] = processedBytes - offset[j]]
  /\ fed' = [fed EXCEPT ![j] = 0]
  /\ slice' = [slice EXCEPT ![j] = {}]
  /\ UNCHANGED <<globals, program, final_result, offset, trainfd, stderr, Others>>

\* How much one pread returns: less than was asked for at the end of the file.
Readable(j) ==
  LET want == remaining[j] - fed[j]
      left == disk[TrainPath].len - (offset[j] + fed[j])
      most == IF want < BUF_SIZE THEN want ELSE BUF_SIZE
  IN  IF left < most THEN left ELSE most

FeedFromStart(j) ==   \* pread at the position in the slice, not in the file
  /\ Running
  /\ compute[j] = "feed"
  /\ trainfd[j]
  /\ Readable(j) > 0
  /\ fed' = [fed EXCEPT ![j] = @ + Readable(j)]
  /\ slice' = [slice EXCEPT ![j] =
                 @ \cup BytesAt(disk[TrainPath], fed[j], Readable(j))]
  /\ UNCHANGED <<globals, program, compute, final_result, offset, remaining,
                 trainfd, stderr, Others>>

\* pread and the writes to the child.  A pread that returns 0 changes nothing and
\* the loop tries again.
Feed(j) ==
  /\ Running
  /\ compute[j] = "feed"
  /\ trainfd[j]
  /\ Readable(j) > 0
  /\ fed' = [fed EXCEPT ![j] = @ + Readable(j)]
  /\ slice' = [slice EXCEPT ![j] =
                 @ \cup BytesAt(disk[TrainPath], offset[j] + fed[j], Readable(j))]
  /\ UNCHANGED <<globals, program, compute, final_result, offset, remaining,
                 trainfd, stderr, Others>>

EndSliceAtProgress(j) ==   \* goes on from what has been published meanwhile
  /\ Running
  /\ fed[j] >= remaining[j]
  /\ toCompute(j, "feed", "test")
  /\ final_result' = [final_result EXCEPT ![j] = xor(@, Output(slice[j]))]
  /\ offset' = [offset EXCEPT ![j] = processedBytes]
  /\ UNCHANGED <<globals, program, remaining, fed, slice, trainfd, stderr, Others>>

\* The slice is through: final_result ^= temp.  A program that prints nothing
\* readable for no input is "Invalid output".
EndSlice(j) ==
  /\ Running
  /\ fed[j] >= remaining[j]
  /\ toCompute(j, "feed", "test")
  /\ final_result' = [final_result EXCEPT ![j] = xor(@, Output(slice[j]))]
  /\ offset' = [offset EXCEPT ![j] = @ + remaining[j]]
  /\ stderr' = [stderr EXCEPT ![j] = @ \/ Failed \in Output(slice[j])]
  /\ UNCHANGED <<globals, program, remaining, fed, slice, trainfd, Others>>

\* pread returns -1, as it always does when the descriptor is not open: the loop is
\* left, what the program prints for the bytes fed so far is the slice's number,
\* and the slice counts as done.
PreadFails(j) ==
  /\ Running
  /\ fed[j] < remaining[j]
  /\ toCompute(j, "feed", "test")
  /\ final_result' = [final_result EXCEPT ![j] = xor(@, Output(slice[j]))]
  /\ offset' = [offset EXCEPT ![j] = @ + remaining[j]]
  /\ stderr' = [stderr EXCEPT ![j] = TRUE]
  /\ UNCHANGED <<globals, program, remaining, fed, slice, trainfd, Others>>

\* The slice's number is not the program's: distributiveComputing returns -1,
\* because pipe, fork, a write or the child failed, or it takes part of an output
\* for the whole.  The slice counts as done.  If it was a write, the train file is
\* closed, too, and the signal that comes with it may end the process.
SliceFails(j) ==
  /\ Running
  /\ toCompute(j, "feed", "test")
  /\ final_result' = [final_result EXCEPT ![j] = xor(@, {Failed})]
  /\ offset' = [offset EXCEPT ![j] = @ + remaining[j]]
  /\ trainfd' \in {trainfd, [trainfd EXCEPT ![j] = FALSE]}
  /\ exited' \in BOOLEAN
  /\ stderr' = [stderr EXCEPT ![j] = TRUE]
  /\ UNCHANGED <<globals, binary, remaining, fed, slice, Others>>

\* Send final_result to the coordinator ...
Report(j) ==
  /\ Running
  /\ toCompute(j, "report", "closing")
  /\ UNCHANGED <<globals, program, final_result, offset, remaining, fed, slice,
                 trainfd, stderr, Others>>

LeaveGate(j) ==   \* the node stays open
  /\ Running
  /\ toCompute(j, "closing", "done")
  /\ UNCHANGED <<globals, program, final_result, offset, remaining, fed, slice,
                 trainfd, stderr, Others>>

\* ... and close the node for transfers, its own or not.
CloseGate(j) ==
  /\ Running
  /\ toCompute(j, "closing", "done")
  /\ OPEN_RECEIVE_FILE_CONNECTION' = 0
  /\ UNCHANGED <<mesh_info_1, mesh_info_2, Shared_fileSize, processedBytes,
                 shared_outpath, program, final_result, offset, remaining, fed,
                 slice, trainfd, stderr, Others>>

\* The steps of the thread on a machine that does not fail.
work(j) ==
  \/ OpenGate(j) \/ TakeCode(j) \/ compileCode(j) \/ TakeTrain(j)
  \/ OpenTrain(j) \/ Test(j) \/ Measure(j) \/ Feed(j) \/ EndSlice(j)
  \/ ~trainfd[j] /\ PreadFails(j)
  \/ Report(j) \/ CloseGate(j)

handle_distributive_systems(j) ==
  work(j) \/ CannotOpenTrain(j) \/ PreadFails(j) \/ SliceFails(j)
=============================================================================
