--------------------------- MODULE ComputeClient ---------------------------
(***************************************************************************)
(* The coordinator's side of a job: distributiveComputingOverNetwork of    *)
(* src/Clients Commands/distributedcomputing/linuxdistributivecomputing    *)
(* .cpp, which starts one sending thread per file, joins them all and then *)
(* reads the result from the job's own connection.                         *)
(***************************************************************************)
EXTENDS Node

CONSTANTS
  After,   \* After[j]: the jobs whose command the same user finished before j
  Dying    \* the jobs whose coordinator may be killed

ASSUME AfterAssumption == After \in [Jobs -> SUBSET Jobs]

Elsewhere == <<globals, program, serverVars, computeVars>>

Over(j) == caller[j] \in {"done", "failed"}

StartJob(j) ==
  /\ \A k \in After[j] : Over(k)
  /\ toCaller(j, "idle", "asking")
  /\ UNCHANGED <<Elsewhere, clientVars>>

\* "Share file connection open" arrived: the three sending threads start.
ReadOpen(j) ==
  /\ compute[j] # "none"
  /\ toCaller(j, "asking", "joining")
  /\ client' = [t \in Transfers |->
                  IF t \in {j} \X Kinds THEN "asking" ELSE client[t]]
  /\ UNCHANGED <<Elsewhere, sent>>

\* One recv returned the answer and the result together: strcmp differs.
ReadOpenAndResult(j) ==
  /\ compute[j] \in {"closing", "done"}
  /\ toCaller(j, "asking", "failed")
  /\ UNCHANGED <<Elsewhere, clientVars>>

\* A sending thread that failed is joined like the others.
JoinSends(j) ==
  /\ \A t \in {j} \X Kinds : client[t] \in {"sent", "failed"}
  /\ toCaller(j, "joining", "awaiting")
  /\ UNCHANGED <<Elsewhere, clientVars>>

ReadResult(j) ==
  /\ compute[j] \in {"closing", "done"}
  /\ toCaller(j, "awaiting", "done")
  /\ UNCHANGED <<Elsewhere, clientVars>>

ConnectionLost(j) ==
  /\ exited
  /\ compute[j] \notin {"closing", "done"}
  /\ \/ toCaller(j, "asking", "failed")
     \/ toCaller(j, "awaiting", "failed")
  /\ UNCHANGED <<Elsewhere, clientVars>>

\* The coordinator's process ends, and with it every connection it had.  It may be
\* killed, or kill itself by a send on a connection that was refused.
CoordinatorDies(j) ==
  /\ j \in Dying
  /\ caller[j] \in {"asking", "joining", "awaiting"}
  /\ caller' = [caller EXCEPT ![j] = "failed"]
  /\ client' = [t \in Transfers |->
                  IF t \in {j} \X Kinds /\ client[t] # "sent"
                  THEN "failed" ELSE client[t]]
  /\ UNCHANGED <<Elsewhere, sent>>

distributiveComputingOverNetwork(j) ==
  \/ StartJob(j) \/ ReadOpen(j) \/ ReadOpenAndResult(j) \/ JoinSends(j)
  \/ ReadResult(j) \/ ConnectionLost(j)
=============================================================================
