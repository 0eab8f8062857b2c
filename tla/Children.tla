------------------------------ MODULE Children ------------------------------
(***************************************************************************)
(* The pipes and children of one process: distributiveComputing of its job *)
(* handlers (src/server commands/distributivecomputing/linuxdistributive-  *)
(* computing.cpp) beside distributiveComputingLocal of its console         *)
(* (src/Clients Commands/distributedcomputing/linuxdistributivecomputing   *)
(* .cpp).  Each feeds a slice of the train file to a child and reads what  *)
(* the child prints.  A fork copies every descriptor of the process, also  *)
(* the ends of the pipes of the other slices, and execl keeps them open.   *)
(*                                                                         *)
(* The train file is counted in units that a pipe takes one by one.        *)
(***************************************************************************)
EXTENDS Naturals

CONSTANTS
  Slices,    \* the calls of the two functions
  Local,     \* those of distributiveComputingLocal
  Lengths,   \* the units in a slice
  BUF_SIZE,  \* the units of one pread
  InCap,     \* the units that a child's input holds before write blocks
  OutCap,    \* and its output
  Node,      \* the process, as an owner of descriptors
  Failed     \* the -1 that stands for a failed slice

ASSUME SlicesAssumption == Local \subseteq Slices /\ Node \notin Slices
ASSUME UnitsAssumption ==
  /\ Lengths \subseteq Nat /\ Failed \notin Nat
  /\ BUF_SIZE \in Nat \ {0} /\ InCap \in Nat \ {0} /\ OutCap \in Nat \ {0}

VARIABLES
  length,    \* the units of a slice
  chatty,    \* the slices whose program prints while it reads, not only at the end
  ended,     \* the process was ended by a signal
  at,        \* where the function is
  holds,     \* the pipe ends that the process or a child has open
  position,  \* the units that were read from the train file
  buffer,    \* those of them that were not written yet
  input,     \* the units in the pipe to the child
  output,    \* and in the pipe from it
  child,     \* the program: "none" before fork
  got,       \* the units that it has read
  value      \* what the function returns

pipes == <<holds, input, output>>
data == <<position, buffer>>
program == <<child, got>>
given == <<length, chatty>>
vars == <<given, ended, at, pipes, data, program, value>>

InputOf(s) == {<<s, "inpipe[0]">>, <<s, "inpipe[1]">>}
OutputOf(s) == {<<s, "outpipe[0]">>, <<s, "outpipe[1]">>}
EndsOf(s) == InputOf(s) \cup OutputOf(s)
ChildEnds(s) == {<<s, "inpipe[0]">>, <<s, "outpipe[1]">>}
Ends == UNION {EndsOf(s) : s \in Slices}
Owners == Slices \cup {Node}

\* Somebody has this end of a pipe of s open.
IsOpen(s, end) == \E p \in Owners : <<s, end>> \in holds[p]

Alive(s) == child[s] \in {"reading", "printing"}

goes(s, from, to) == ~ended /\ at[s] = from /\ at' = [at EXCEPT ![s] = to]
acquire(ends) == holds' = [holds EXCEPT ![Node] = @ \cup ends]
close(ends) == holds' = [holds EXCEPT ![Node] = @ \ ends]
returns(s, v) == value' = [value EXCEPT ![s] = v]

Init ==
  /\ length \in [Slices -> Lengths] /\ chatty \in SUBSET Slices
  /\ ended = FALSE
  /\ at = [s \in Slices |-> "pipe"]
  /\ holds = [p \in Owners |-> {}]
  /\ position = [s \in Slices |-> 0] /\ buffer = [s \in Slices |-> 0]
  /\ input = [s \in Slices |-> 0] /\ output = [s \in Slices |-> 0]
  /\ child = [s \in Slices |-> "none"] /\ got = [s \in Slices |-> 0]
  /\ value = [s \in Slices |-> Failed]

-----------------------------------------------------------------------------
(* distributiveComputing and distributiveComputingLocal *)

MakeInput(s) ==
  /\ goes(s, "pipe", "second pipe")
  /\ acquire(InputOf(s))
  /\ UNCHANGED <<given, ended, input, output, data, program, value>>

MakeOutput(s) ==
  /\ goes(s, "second pipe", "fork")
  /\ acquire(OutputOf(s))
  /\ UNCHANGED <<given, ended, input, output, data, program, value>>

\* What was opened so far stays open.
CannotStart(s) ==
  /\ \E from \in {"pipe", "second pipe", "fork"} : goes(s, from, "returned")
  /\ UNCHANGED <<given, ended, pipes, data, program, value>>

\* The child closes its own copies of the parent's ends, and nobody else's.
Fork(s) ==
  /\ goes(s, "fork", "forked")
  /\ holds' = [holds EXCEPT ![s] = holds[Node] \ (EndsOf(s) \ ChildEnds(s))]
  /\ child' = [child EXCEPT ![s] = "reading"]
  /\ UNCHANGED <<given, ended, input, output, data, got, value>>

CloseInputOnly(s) ==   \* the parent keeps its copy of the child's output
  /\ goes(s, "forked", IF s \in Local THEN "open" ELSE "read file")
  /\ close({<<s, "inpipe[0]">>})
  /\ UNCHANGED <<given, ended, input, output, data, program, value>>

CloseChildEnds(s) ==
  /\ goes(s, "forked", IF s \in Local THEN "open" ELSE "read file")
  /\ close(ChildEnds(s))
  /\ UNCHANGED <<given, ended, input, output, data, program, value>>

OpenTrain(s) ==
  /\ goes(s, "open", "read file")
  /\ UNCHANGED <<given, ended, pipes, data, program, value>>

\* The parent's ends are left open, and the child is left alone.
OpenTrainFails(s) ==
  /\ goes(s, "open", "returned")
  /\ UNCHANGED <<given, ended, pipes, data, program, value>>

Smaller(a, b) == IF a < b THEN a ELSE b

PreadWhole(s) ==   \* as much as is left, whatever the buffer takes
  /\ goes(s, "read file", "write")
  /\ position[s] < length[s]
  /\ position' = [position EXCEPT ![s] = length[s]]
  /\ buffer' = [buffer EXCEPT ![s] = length[s] - position[s]]
  /\ UNCHANGED <<given, ended, pipes, program, value>>

Pread(s) ==
  /\ goes(s, "read file", "write")
  /\ position[s] < length[s]
  /\ LET n == Smaller(BUF_SIZE, length[s] - position[s])
     IN  /\ position' = [position EXCEPT ![s] = @ + n]
         /\ buffer' = [buffer EXCEPT ![s] = n]
  /\ UNCHANGED <<given, ended, pipes, program, value>>

WriteOnce(s) ==   \* a write that takes less than the buffer is not continued
  /\ goes(s, "write", "read file")
  /\ buffer[s] > 0 /\ input[s] < InCap
  /\ IsOpen(s, "inpipe[0]")
  /\ input' = [input EXCEPT ![s] = @ + 1]
  /\ buffer' = [buffer EXCEPT ![s] = 0]
  /\ UNCHANGED <<given, ended, holds, output, position, program, value>>

\* One unit goes into the pipe; write blocks while it is full.
Write(s) ==
  /\ goes(s, "write", IF buffer[s] = 1 THEN "read file" ELSE "write")
  /\ input[s] < InCap
  /\ IsOpen(s, "inpipe[0]")
  /\ input' = [input EXCEPT ![s] = @ + 1]
  /\ buffer' = [buffer EXCEPT ![s] = @ - 1]
  /\ UNCHANGED <<given, ended, holds, output, position, program, value>>

\* Nobody can read it any more: SIGPIPE ends the process, unless it was started with
\* the signal ignored.
WriteFails(s) ==
  /\ ~IsOpen(s, "inpipe[0]")
  /\ goes(s, "write", "returned")
  /\ close(EndsOf(s))
  /\ ended' \in BOOLEAN
  /\ UNCHANGED <<given, input, output, data, program, value>>

EndInputOpen(s) ==   \* the program is not told that its input is over
  /\ goes(s, "read file", "read output")
  /\ UNCHANGED <<given, ended, pipes, data, program, value>>

\* The slice is read, or pread fails and what was read so far has to do.
EndInput(s) ==
  /\ goes(s, "read file", "read output")
  /\ close(InputOf(s))
  /\ UNCHANGED <<given, ended, input, output, data, program, value>>

ReadOutput(s) ==
  /\ goes(s, "read output", "read output")
  /\ output[s] > 0
  /\ output' = [output EXCEPT ![s] = 0]
  /\ UNCHANGED <<given, ended, holds, input, data, program, value>>

EndOutputOpen(s) ==   \* the output is never closed
  /\ goes(s, "read output", "wait")
  /\ output[s] = 0 /\ ~IsOpen(s, "outpipe[1]")
  /\ UNCHANGED <<given, ended, pipes, data, program, value>>

EndOutput(s) ==
  /\ goes(s, "read output", "wait")
  /\ output[s] = 0 /\ ~IsOpen(s, "outpipe[1]")
  /\ close(OutputOf(s))
  /\ UNCHANGED <<given, ended, input, output, data, program, value>>

\* waitpid, and stoll if the child exited.
Wait(s) ==
  /\ goes(s, "wait", "returned")
  /\ child[s] \in {"exited", "crashed"}
  /\ IF child[s] = "exited" THEN returns(s, got[s]) ELSE UNCHANGED value
  /\ UNCHANGED <<given, ended, pipes, data, program>>

parent(s) ==
  \/ MakeInput(s) \/ MakeOutput(s) \/ CannotStart(s) \/ Fork(s) \/ CloseChildEnds(s)
  \/ OpenTrain(s) \/ OpenTrainFails(s) \/ Pread(s) \/ Write(s) \/ WriteFails(s)
  \/ EndInput(s) \/ ReadOutput(s) \/ EndOutput(s) \/ Wait(s)

-----------------------------------------------------------------------------
(* The program, which reads to the end of its input and prints a number *)

becomes(s, from, to) == ~ended /\ child[s] = from /\ child' = [child EXCEPT ![s] = to]

ReadInput(s) ==
  /\ becomes(s, "reading", IF s \in chatty THEN "printing" ELSE "reading")
  /\ input[s] > 0
  /\ input' = [input EXCEPT ![s] = @ - 1]
  /\ got' = [got EXCEPT ![s] = @ + 1]
  /\ UNCHANGED <<given, ended, at, holds, output, data, value>>

PrintMore(s) ==
  /\ becomes(s, "printing", "reading")
  /\ output[s] < OutCap
  /\ output' = [output EXCEPT ![s] = @ + 1]
  /\ UNCHANGED <<given, ended, at, holds, input, data, got, value>>

\* The end of the input comes when nobody can write any more.
PrintResult(s) ==
  /\ becomes(s, "reading", "exited")
  /\ input[s] = 0 /\ ~IsOpen(s, "inpipe[1]")
  /\ output[s] < OutCap
  /\ output' = [output EXCEPT ![s] = @ + 1]
  /\ holds' = [holds EXCEPT ![s] = {}]
  /\ UNCHANGED <<given, ended, at, input, data, got, value>>

\* It cannot be executed, crashes, stops without a number, or prints to nobody.
Crash(s) ==
  /\ \E from \in {"reading", "printing"} : becomes(s, from, "crashed")
  /\ holds' = [holds EXCEPT ![s] = {}]
  /\ UNCHANGED <<given, ended, at, input, output, data, got, value>>

execl(s) == ReadInput(s) \/ PrintMore(s) \/ PrintResult(s)

Next == \E s \in Slices : parent(s) \/ execl(s) \/ Crash(s)

Spec == Init /\ [][Next]_vars

\* Threads and programs run; nothing has to begin, and nothing has to fail.
Fairness ==
  \A s \in Slices : WF_vars(at[s] # "pipe" /\ parent(s)) /\ WF_vars(execl(s))

FairSpec == Spec /\ Fairness
-----------------------------------------------------------------------------
(* Properties *)

ParentSteps == {"pipe", "second pipe", "fork", "forked", "open", "read file", "write",
                "read output", "wait", "returned"}

\* Every variable keeps its type, and no buffer or pipe gets more than it takes.
TypeOK ==
  /\ length \in [Slices -> Lengths] /\ chatty \subseteq Slices
  /\ ended \in BOOLEAN
  /\ at \in [Slices -> ParentSteps]
  /\ holds \in [Owners -> SUBSET Ends]
  /\ position \in [Slices -> Nat] /\ buffer \in [Slices -> 0 .. BUF_SIZE]
  /\ input \in [Slices -> 0 .. InCap] /\ output \in [Slices -> 0 .. OutCap]
  /\ child \in [Slices -> {"none", "reading", "printing", "exited", "crashed"}]
  /\ got \in [Slices -> Nat]
  /\ value \in [Slices -> Nat \cup {Failed}]

\* A slice that returns a number returns the one for exactly the units that were read
\* from the file, whatever other slices ran and failed beside it: its child saw the end
\* of its input not before all of them.
ComputesWhatWasRead == \A s \in Slices : value[s] # Failed => value[s] = position[s]

\* What a slice leaves open in the process when it is done it left because a pipe, the
\* fork or the train file could not be had; a node may compute any number of the others.
LeaksOnlyAtStart ==
  \A s \in Slices :
    at[s] = "returned" /\ position[s] > 0 => holds[Node] \cap EndsOf(s) = {}

\* A program that prints more while it reads than the pipes hold: it waits for its
\* parent to read, and its parent for it to read.
TooLong(s) == s \in chatty /\ length[s] > InCap + OutCap + 1

\* Children none of whose inputs can end: somebody among them has the other end open,
\* or the process has it and has forgotten it.
Hostages(S) ==
  \A s \in S :
    /\ Alive(s)
    /\ \/ \E t \in S \ {s} : <<s, "inpipe[1]">> \in holds[t]
       \/ at[s] = "returned" /\ <<s, "inpipe[1]">> \in holds[Node]

\* The call that the function of s is in, write, read or waitpid, does not return now.
Blocked(s) ==
  \/ at[s] = "write" /\ input[s] = InCap /\ IsOpen(s, "inpipe[0]")
  \/ at[s] = "read output" /\ output[s] = 0 /\ IsOpen(s, "outpipe[1]")
  \/ at[s] = "wait" /\ Alive(s)

\* Its program can neither read nor print.
Starved(s) ==
  \/ child[s] = "reading" /\ input[s] = 0 /\ (IsOpen(s, "inpipe[1]") \/ output[s] = OutCap)
  \/ child[s] = "printing" /\ output[s] = OutCap

\* Slices have begun, and nothing in the process can go on.
Deadlock ==
  /\ ~ended
  /\ \E s \in Slices : Blocked(s)
  /\ \A s \in Slices : Blocked(s) \/ at[s] \in {"pipe", "returned"}
  /\ \A s \in Slices : Alive(s) => Starved(s)

\* The function and its program wait for each other, or the children of several
\* slices do, for nothing else: no close that is missing, no unit that got stuck and no
\* child that nobody waits for stops the process for good.
DeadlockHasCause ==
  Deadlock => \/ \E s \in Slices : TooLong(s)
              \/ \E S \in SUBSET Slices : S # {} /\ Hostages(S)

\* A slice that has begun returns, also next to others that fail, unless the process
\* is ended, some program prints too much, or children wait for each other.
SlicesReturn ==
  \A s \in Slices :
    (at[s] = "second pipe") ~>
       \/ at[s] = "returned" \/ ended
       \/ \E t \in Slices : TooLong(t)
       \/ \E S \in SUBSET Slices : S # {} /\ Hostages(S)
=============================================================================
