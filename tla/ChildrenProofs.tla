--------------------------- MODULE ChildrenProofs ---------------------------
(***************************************************************************)
(* What run slices checks of Children on two slices, for any number of     *)
(* slices in one process, of any lengths: a number that a slice returns is *)
(* for what was read, a slice that has begun to read leaks nothing, and    *)
(* the process comes to a stop for no other reason than two.               *)
(***************************************************************************)
EXTENDS Children, TLAPS

Starting == {"pipe", "second pipe", "fork", "forked", "open"}
Feeding == {"second pipe", "fork", "forked", "open", "read file", "write"}

\* What was read from the file is in the buffer, in the pipe or in the child.
Counted(s) ==
  /\ at[s] \in Starting => position[s] = 0
  /\ at[s] = "write" => buffer[s] > 0
  /\ at[s] \in {"read file", "read output", "wait"} => buffer[s] = 0
  /\ position[s] = buffer[s] + input[s] + got[s]
  /\ child[s] = "exited" => input[s] = 0
  /\ value[s] # Failed => at[s] = "returned" /\ child[s] = "exited" /\ value[s] = position[s]

\* The process can write to the child as long as it feeds it, and the child can come
\* to the end of its input only after that.
Held(s) ==
  /\ at[s] \in Feeding => <<s, "inpipe[1]">> \in holds[Node]
  /\ at[s] = "read output" => holds[Node] \cap InputOf(s) = {}
  /\ at[s] = "wait" => holds[Node] \cap EndsOf(s) = {}
  /\ at[s] = "returned" /\ position[s] > 0 => holds[Node] \cap EndsOf(s) = {}
  /\ at[s] \in {"pipe", "second pipe", "fork"} => child[s] = "none"
  /\ child[s] = "exited" => at[s] \in {"read output", "wait", "returned"}

Fed(s) == Counted(s) /\ Held(s)

IInv == TypeOK /\ \A s \in Slices : Fed(s)

\* The ends of one slice are not those of another, nor is the process a slice.
LEMMA EndsApart ==
  ASSUME NEW s \in Slices, NEW t \in Slices, s # t
  PROVE  EndsOf(s) \cap EndsOf(t) = {} /\ InputOf(s) \subseteq EndsOf(s)
BY DEF EndsOf, InputOf, OutputOf

\* The sizes are numbers, and so is what the slices count.
Positive == BUF_SIZE \in Nat /\ InCap \in Nat /\ OutCap \in Nat /\ Failed \notin Nat
            /\ BUF_SIZE > 0 /\ InCap > 0 /\ OutCap > 0

Numbers(s) ==
  /\ position[s] \in Nat /\ length[s] \in Nat /\ got[s] \in Nat
  /\ buffer[s] \in Nat /\ input[s] \in Nat /\ output[s] \in Nat
  /\ buffer[s] <= BUF_SIZE /\ input[s] <= InCap /\ output[s] <= OutCap

LEMMA Sizes == Positive
BY UnitsAssumption DEF Positive

LEMMA TypedNumbers ==
  ASSUME TypeOK, NEW s \in Slices
  PROVE  Numbers(s)
<1> USE Sizes DEF Positive
<1>1. buffer[s] \in 0 .. BUF_SIZE
  BY DEF TypeOK
<1>2. input[s] \in 0 .. InCap
  BY DEF TypeOK
<1>3. output[s] \in 0 .. OutCap
  BY DEF TypeOK
<1>4. length[s] \in Nat
  BY UnitsAssumption DEF TypeOK
<1>5. position[s] \in Nat /\ got[s] \in Nat
  BY DEF TypeOK
<1> QED
  BY <1>1, <1>2, <1>3, <1>4, <1>5 DEF Numbers

\* The invariant holds before the first slice.
LEMMA InitIInv == Init => IInv
<1> SUFFICES ASSUME Init PROVE IInv
  OBVIOUS
<1> USE SlicesAssumption, Sizes DEF Positive
<1>1. TypeOK
  <2>1. /\ buffer \in [Slices -> 0 .. BUF_SIZE]
        /\ input \in [Slices -> 0 .. InCap] /\ output \in [Slices -> 0 .. OutCap]
    BY DEF Init
  <2> QED
    BY <2>1 DEF Init, TypeOK, ParentSteps, Owners
<1>2. ASSUME NEW s \in Slices PROVE Fed(s)
  BY DEF Init, Fed, Counted, Held, Starting, Feeding, Owners
<1> QED
  BY <1>1, <1>2 DEF IInv

LEMMA OwnEnds ==
  ASSUME NEW s \in Slices
  PROVE  /\ EndsOf(s) \subseteq Ends /\ InputOf(s) \subseteq Ends /\ OutputOf(s) \subseteq Ends
         /\ ChildEnds(s) \subseteq Ends
         /\ <<s, "inpipe[1]">> \in InputOf(s) /\ <<s, "inpipe[1]">> \notin ChildEnds(s)
BY DEF Ends, EndsOf, InputOf, OutputOf, ChildEnds

\* Every step of a slice keeps the types.
LEMMA NextTypeOK ==
  ASSUME IInv, NEW s \in Slices, parent(s) \/ execl(s) \/ Crash(s)
  PROVE  TypeOK'
<1>types. TypeOK
  BY DEF IInv
<1>numbers. Numbers(s) /\ Positive
  BY TypedNumbers, Sizes DEF IInv
<1> USE DEF goes, becomes, pipes, data, program, given, ParentSteps, Owners
<1>1. CASE MakeInput(s)
  BY <1>1, <1>types, OwnEnds DEF MakeInput, acquire, TypeOK
<1>2. CASE MakeOutput(s)
  BY <1>2, <1>types, OwnEnds DEF MakeOutput, acquire, TypeOK
<1>3. CASE CannotStart(s)
  BY <1>3, <1>types DEF CannotStart, TypeOK
<1>4. CASE Fork(s)
  BY <1>4, <1>types DEF Fork, TypeOK
<1>5. CASE CloseChildEnds(s)
  BY <1>5, <1>types DEF CloseChildEnds, close, TypeOK
<1>6. CASE OpenTrain(s) \/ OpenTrainFails(s)
  BY <1>6, <1>types DEF OpenTrain, OpenTrainFails, TypeOK
<1>7. CASE Pread(s)
  <2> DEFINE n == Smaller(BUF_SIZE, length[s] - position[s])
  <2>1. position[s] < length[s]
    BY <1>7 DEF Pread
  <2>2. n \in 0 .. BUF_SIZE /\ position[s] + n \in Nat
    BY <1>numbers, <2>1 DEF Smaller, Numbers, Positive
  <2>3. /\ position' = [position EXCEPT ![s] = position[s] + n]
        /\ buffer' = [buffer EXCEPT ![s] = n]
    BY <1>7, <1>types DEF Pread, TypeOK
  <2>4. position' \in [Slices -> Nat] /\ buffer' \in [Slices -> 0 .. BUF_SIZE]
    BY <2>2, <2>3, <1>types DEF TypeOK
  <2> QED
    BY <1>7, <1>types, <2>4 DEF Pread, TypeOK
<1>8. CASE Write(s)
  <2>1. input[s] < InCap
    BY <1>8 DEF Write
  <2>2. buffer[s] > 0
    BY <1>8 DEF Write, IInv, Fed, Counted
  <2>3. input[s] + 1 \in 0 .. InCap /\ buffer[s] - 1 \in 0 .. BUF_SIZE
    BY <1>numbers, <2>1, <2>2 DEF Numbers, Positive
  <2>4. input' \in [Slices -> 0 .. InCap] /\ buffer' \in [Slices -> 0 .. BUF_SIZE]
    BY <1>8, <2>3, <1>types DEF Write, TypeOK
  <2> QED
    BY <1>8, <1>types, <2>4 DEF Write, TypeOK
<1>9. CASE WriteFails(s)
  BY <1>9, <1>types DEF WriteFails, close, TypeOK
<1>10. CASE EndInput(s)
  BY <1>10, <1>types DEF EndInput, close, TypeOK
<1>11. CASE ReadOutput(s)
  <2>1. 0 \in 0 .. OutCap
    BY <1>numbers DEF Positive
  <2>2. output' \in [Slices -> 0 .. OutCap]
    BY <1>11, <2>1, <1>types DEF ReadOutput, TypeOK
  <2> QED
    BY <1>11, <1>types, <2>2 DEF ReadOutput, TypeOK
<1>12. CASE EndOutput(s)
  BY <1>12, <1>types DEF EndOutput, close, TypeOK
<1>13. CASE Wait(s)
  <2>1. got[s] \in Nat
    BY <1>numbers DEF Numbers
  <2> QED
    BY <1>13, <1>types, <2>1 DEF Wait, returns, TypeOK
<1>14. CASE ReadInput(s)
  <2>1. input[s] > 0
    BY <1>14 DEF ReadInput
  <2>2. input[s] - 1 \in 0 .. InCap /\ got[s] + 1 \in Nat
    BY <1>numbers, <2>1 DEF Numbers, Positive
  <2>3. input' \in [Slices -> 0 .. InCap] /\ got' \in [Slices -> Nat]
    BY <1>14, <2>2, <1>types DEF ReadInput, TypeOK
  <2> QED
    BY <1>14, <1>types, <2>3 DEF ReadInput, TypeOK
<1>15. CASE PrintMore(s)
  <2>1. output[s] < OutCap
    BY <1>15 DEF PrintMore
  <2>2. output[s] + 1 \in 0 .. OutCap
    BY <1>numbers, <2>1 DEF Numbers, Positive
  <2>3. output' \in [Slices -> 0 .. OutCap]
    BY <1>15, <2>2, <1>types DEF PrintMore, TypeOK
  <2> QED
    BY <1>15, <1>types, <2>3 DEF PrintMore, TypeOK
<1>16. CASE PrintResult(s)
  <2>1. output[s] < OutCap
    BY <1>16 DEF PrintResult
  <2>2. output[s] + 1 \in 0 .. OutCap
    BY <1>numbers, <2>1 DEF Numbers, Positive
  <2>3. output' \in [Slices -> 0 .. OutCap]
    BY <1>16, <2>2, <1>types DEF PrintResult, TypeOK
  <2> QED
    BY <1>16, <1>types, <2>3 DEF PrintResult, TypeOK
<1>17. CASE Crash(s)
  BY <1>17, <1>types DEF Crash, TypeOK
<1> QED
  BY <1>1, <1>2, <1>3, <1>4, <1>5, <1>6, <1>7, <1>8, <1>9, <1>10, <1>11, <1>12, <1>13,
     <1>14, <1>15, <1>16, <1>17 DEF parent, execl

\* The process's ends of a slice's pipes are the slice's matter.
LEMMA OthersHolds ==
  ASSUME IInv, NEW s \in Slices, parent(s) \/ execl(s) \/ Crash(s), NEW t \in Slices, t # s
  PROVE  holds'[Node] \cap EndsOf(t) = holds[Node] \cap EndsOf(t)
<1>1. \/ holds'[Node] = holds[Node]
      \/ \E E \in SUBSET EndsOf(s) : holds'[Node] \in {holds[Node] \cup E, holds[Node] \ E}
  BY SlicesAssumption
     DEF IInv, TypeOK, Owners, parent, execl, Crash, MakeInput, MakeOutput, CannotStart,
         Fork, CloseChildEnds, OpenTrain, OpenTrainFails, Pread, Write, WriteFails,
         EndInput, ReadOutput, EndOutput, Wait, ReadInput, PrintMore, PrintResult,
         pipes, acquire, close, EndsOf, InputOf, OutputOf, ChildEnds
<1> QED
  BY <1>1, EndsApart

\* A step of one slice leaves what the others rely on.
LEMMA OthersFed ==
  ASSUME IInv, NEW s \in Slices, parent(s) \/ execl(s) \/ Crash(s), NEW t \in Slices, t # s
  PROVE  Fed(t)'
<1>1. /\ at'[t] = at[t] /\ position'[t] = position[t] /\ buffer'[t] = buffer[t]
      /\ input'[t] = input[t] /\ child'[t] = child[t] /\ got'[t] = got[t]
      /\ value'[t] = value[t]
  BY SlicesAssumption, UnitsAssumption
     DEF IInv, TypeOK, parent, execl, Crash, MakeInput, MakeOutput, CannotStart, Fork,
         CloseChildEnds, OpenTrain, OpenTrainFails, Pread, Write, WriteFails, EndInput,
         ReadOutput, EndOutput, Wait, ReadInput, PrintMore, PrintResult, goes, becomes,
         pipes, data, program, given, returns
<1>2. holds'[Node] \cap EndsOf(t) = holds[Node] \cap EndsOf(t)
  BY OthersHolds
<1>3. InputOf(t) \subseteq EndsOf(t) /\ <<t, "inpipe[1]">> \in EndsOf(t) /\ Fed(t)
  BY DEF EndsOf, InputOf, IInv
<1> QED
  BY <1>1, <1>2, <1>3 DEF Fed, Counted, Held

\* A slice's own step keeps the count.
LEMMA OwnCounted ==
  ASSUME IInv, NEW s \in Slices, parent(s) \/ execl(s) \/ Crash(s)
  PROVE  Counted(s)'
<1>types. TypeOK
  BY DEF IInv
<1>numbers. Numbers(s)
  BY TypedNumbers DEF IInv
<1>fed. Counted(s) /\ Held(s)
  BY DEF IInv, Fed
<1>sum. position[s] = buffer[s] + input[s] + got[s]
  BY <1>fed DEF Counted
<1> USE DEF goes, becomes, pipes, data, program, given, Starting
<1>1. CASE MakeInput(s) \/ MakeOutput(s) \/ CannotStart(s)
  BY <1>1, <1>types, <1>fed DEF MakeInput, MakeOutput, CannotStart, TypeOK, Counted
<1>2. CASE Fork(s)
  BY <1>2, <1>types, <1>fed DEF Fork, TypeOK, Counted
<1>3. CASE CloseChildEnds(s) \/ OpenTrain(s) \/ OpenTrainFails(s)
  <2>1. at[s] \in Starting /\ at[s] # "returned"
    BY <1>3 DEF CloseChildEnds, OpenTrain, OpenTrainFails
  <2>2. buffer[s] = 0
    <3>1. position[s] = 0
      BY <1>fed, <2>1 DEF Counted
    <3> QED
      BY <1>numbers, <1>sum, <3>1 DEF Numbers
  <2>3. at'[s] \in {"open", "read file", "returned"}
    BY <1>3, <1>types DEF CloseChildEnds, OpenTrain, OpenTrainFails, TypeOK
  <2>4. UNCHANGED <<position, buffer, input, got, child, value>>
    BY <1>3 DEF CloseChildEnds, OpenTrain, OpenTrainFails
  <2> QED
    BY <1>fed, <2>1, <2>2, <2>3, <2>4 DEF Counted
<1>4. CASE Pread(s)
  <2> DEFINE n == Smaller(BUF_SIZE, length[s] - position[s])
  <2>1. at[s] = "read file" /\ at'[s] = "write"
    BY <1>4, <1>types DEF Pread, TypeOK
  <2>2. n \in Nat /\ n > 0
    <3>1. position[s] < length[s]
      BY <1>4 DEF Pread
    <3> QED
      BY <1>numbers, Sizes, <3>1 DEF Smaller, Numbers, Positive
  <2>3. /\ position'[s] = position[s] + n /\ buffer'[s] = n
        /\ UNCHANGED <<input, got, child, value>>
    BY <1>4, <1>types DEF Pread, TypeOK
  <2> HIDE DEF n
  <2>4. position'[s] = buffer'[s] + input'[s] + got'[s]
    <3>1. buffer[s] = 0
      BY <1>fed, <2>1 DEF Counted
    <3> QED
      BY <1>numbers, <1>sum, <2>2, <2>3, <3>1 DEF Numbers
  <2> QED
    BY <1>fed, <2>1, <2>2, <2>3, <2>4 DEF Counted
<1>5. CASE Write(s)
  <2>1. at[s] = "write" /\ at'[s] = IF buffer[s] = 1 THEN "read file" ELSE "write"
    BY <1>5, <1>types DEF Write, TypeOK
  <2>2. /\ input'[s] = input[s] + 1 /\ buffer'[s] = buffer[s] - 1
        /\ UNCHANGED <<position, got>>
    BY <1>5, <1>types DEF Write, TypeOK
  <2>3. position'[s] = buffer'[s] + input'[s] + got'[s]
    BY <1>numbers, <1>sum, <2>2 DEF Numbers
  <2>4. child[s] # "exited"
    BY <1>fed, <2>1 DEF Held
  <2>5. buffer[s] > 0
    BY <1>fed, <2>1 DEF Counted
  <2>6. (buffer[s] = 1 => buffer'[s] = 0) /\ (buffer[s] # 1 => buffer'[s] > 0)
    BY <1>numbers, <2>2, <2>5 DEF Numbers
  <2>7. UNCHANGED <<child, value>>
    BY <1>5 DEF Write
  <2> QED
    BY <1>fed, <2>1, <2>3, <2>4, <2>6, <2>7 DEF Counted
<1>6. CASE WriteFails(s) \/ EndInput(s) \/ ReadOutput(s) \/ EndOutput(s)
  BY <1>6, <1>types, <1>fed DEF WriteFails, EndInput, ReadOutput, EndOutput, TypeOK, Counted
<1>7. CASE Wait(s)
  <2>1. /\ at[s] = "wait" /\ at'[s] = "returned"
        /\ value'[s] = IF child[s] = "exited" THEN got[s] ELSE value[s]
        /\ UNCHANGED <<position, buffer, input, got, child>>
    BY <1>7, <1>types DEF Wait, returns, TypeOK
  <2>2. child[s] = "exited" => got[s] = position[s]
    <3>1. child[s] = "exited" => buffer[s] = 0 /\ input[s] = 0
      BY <1>fed, <2>1 DEF Counted
    <3> QED
      BY <1>numbers, <1>sum, <3>1 DEF Numbers
  <2> QED
    BY <1>fed, <2>1, <2>2 DEF Counted
<1>8. CASE ReadInput(s)
  <2>1. /\ child[s] = "reading" /\ child'[s] # "exited"
        /\ UNCHANGED <<position, buffer, value, at>>
    BY <1>8, <1>types DEF ReadInput, TypeOK
  <2>2. position'[s] = buffer'[s] + input'[s] + got'[s]
    <3>1. /\ input'[s] = input[s] - 1 /\ got'[s] = got[s] + 1
          /\ UNCHANGED <<position, buffer>>
      BY <1>8, <1>types DEF ReadInput, TypeOK
    <3> QED
      BY <1>numbers, <1>sum, <3>1 DEF Numbers
  <2> QED
    BY <1>fed, <2>1, <2>2 DEF Counted
<1>9. CASE PrintMore(s) \/ PrintResult(s) \/ Crash(s)
  BY <1>9, <1>types, <1>fed DEF PrintMore, PrintResult, Crash, TypeOK, Counted
<1> QED
  BY <1>1, <1>2, <1>3, <1>4, <1>5, <1>6, <1>7, <1>8, <1>9 DEF parent, execl

\* A slice's own step keeps what is open.
LEMMA OwnHeld ==
  ASSUME IInv, NEW s \in Slices, parent(s) \/ execl(s) \/ Crash(s)
  PROVE  Held(s)'
<1>types. TypeOK
  BY DEF IInv
<1>fed. Counted(s) /\ Held(s)
  BY DEF IInv, Fed
<1> USE SlicesAssumption DEF goes, becomes, pipes, data, program, Owners, Feeding
<1>1. CASE MakeInput(s)
  BY <1>1, <1>types, <1>fed, OwnEnds DEF MakeInput, acquire, TypeOK, Held
<1>2. CASE MakeOutput(s)
  BY <1>2, <1>types, <1>fed DEF MakeOutput, acquire, TypeOK, Held
<1>3. CASE CannotStart(s) \/ OpenTrain(s) \/ OpenTrainFails(s)
  <2>1. UNCHANGED <<position, child, holds>>
    BY <1>3 DEF CannotStart, OpenTrain, OpenTrainFails
  <2>2. /\ at[s] \in {"pipe", "second pipe", "fork", "open"}
        /\ at'[s] = "returned" \/ (at[s] = "open" /\ at'[s] = "read file")
    <3>1. CASE CannotStart(s)
      BY <3>1, <1>types DEF CannotStart, TypeOK
    <3>2. CASE OpenTrain(s) \/ OpenTrainFails(s)
      BY <3>2, <1>types DEF OpenTrain, OpenTrainFails, TypeOK
    <3> QED
      BY <1>3, <3>1, <3>2
  <2>3. ~(position'[s] > 0)
    <3>1. position[s] = 0
      BY <1>fed, <2>2 DEF Counted, Starting
    <3> QED
      BY <2>1, <3>1
  <2>4. CASE at'[s] = "returned"
    BY <1>fed, <2>1, <2>3, <2>4 DEF Held
  <2>5. CASE at[s] = "open" /\ at'[s] = "read file"
    BY <1>fed, <2>1, <2>5 DEF Held
  <2> QED
    BY <2>2, <2>4, <2>5
<1>4. CASE Fork(s)
  BY <1>4, <1>types, <1>fed DEF Fork, TypeOK, Held
<1>5. CASE CloseChildEnds(s)
  BY <1>5, <1>types, <1>fed, OwnEnds DEF CloseChildEnds, close, TypeOK, Held
<1>6. CASE Pread(s)
  BY <1>6, <1>types, <1>fed DEF Pread, TypeOK, Held
<1>7. CASE Write(s)
  BY <1>7, <1>types, <1>fed DEF Write, TypeOK, Held
<1>8. CASE WriteFails(s)
  BY <1>8, <1>types, <1>fed DEF WriteFails, close, TypeOK, Held
<1>9. CASE EndInput(s)
  BY <1>9, <1>types, <1>fed DEF EndInput, close, TypeOK, Held
<1>10. CASE ReadOutput(s)
  BY <1>10, <1>types, <1>fed DEF ReadOutput, TypeOK, Held
<1>11. CASE EndOutput(s)
  BY <1>11, <1>types, <1>fed DEF EndOutput, close, EndsOf, TypeOK, Held
<1>12. CASE Wait(s)
  BY <1>12, <1>types, <1>fed DEF Wait, TypeOK, Held
<1>13. CASE ReadInput(s) \/ PrintMore(s)
  BY <1>13, <1>types, <1>fed DEF ReadInput, PrintMore, TypeOK, Held
<1>14. CASE PrintResult(s)
  <2>1. /\ child[s] = "reading" /\ <<s, "inpipe[1]">> \notin holds[Node]
        /\ at[s] \in ParentSteps
    BY <1>14, <1>types DEF PrintResult, IsOpen, TypeOK
  <2>2. at[s] \in {"read output", "wait", "returned"}
    BY <1>fed, <2>1 DEF Held, ParentSteps
  <2> QED
    BY <1>14, <1>types, <1>fed, <2>2 DEF PrintResult, TypeOK, Held
<1>15. CASE Crash(s)
  BY <1>15, <1>types, <1>fed DEF Crash, TypeOK, Held
<1> QED
  BY <1>1, <1>2, <1>3, <1>4, <1>5, <1>6, <1>7, <1>8, <1>9, <1>10, <1>11, <1>12, <1>13,
     <1>14, <1>15 DEF parent, execl

\* No step breaks the invariant.
LEMMA NextIInv == IInv /\ [Next]_vars => IInv'
<1> SUFFICES ASSUME IInv, [Next]_vars PROVE IInv'
  OBVIOUS
<1>1. CASE Next
  <2>1. PICK s \in Slices : parent(s) \/ execl(s) \/ Crash(s)
    BY <1>1 DEF Next
  <2> QED
    BY <2>1, NextTypeOK, OthersFed, OwnCounted, OwnHeld DEF IInv, Fed
<1>2. CASE UNCHANGED vars
  BY <1>2 DEF vars, IInv, TypeOK, Fed, Counted, Held, pipes, data, program, given
<1> QED
  BY <1>1, <1>2

LEMMA Invariance == Spec => []IInv
BY InitIInv, NextIInv, PTL DEF Spec

\* Every variable of the slices stays in its type, for any number of slices: the
\* buffers of pread and of the pipes are never overrun.
THEOREM SliceTypes == Spec => []TypeOK
<1>1. IInv => TypeOK
  BY DEF IInv
<1> QED
  BY <1>1, Invariance, PTL

\* A slice's number is for exactly what was read from the file, however many slices
\* run, fork and fail in the process.
THEOREM SliceComputesWhatWasRead == Spec => []ComputesWhatWasRead
<1>1. IInv => ComputesWhatWasRead
  BY DEF IInv, Fed, Counted, ComputesWhatWasRead
<1> QED
  BY <1>1, Invariance, PTL

\* A slice that has read from the file leaves no end of a pipe open in the process.
THEOREM SliceLeaksOnlyAtStart == Spec => []LeaksOnlyAtStart
<1>1. IInv => LeaksOnlyAtStart
  BY DEF IInv, Fed, Held, LeaksOnlyAtStart
<1> QED
  BY <1>1, Invariance, PTL
-----------------------------------------------------------------------------
(* Why a process can come to a stop *)

Forked == {"forked", "open", "read file", "write", "read output", "wait"}

\* Who has which ends open: a program its own two, which its parent has closed then, and
\* never the end by which its own input could go on.
Wired(s) ==
  /\ at[s] = "second pipe" => InputOf(s) \subseteq holds[Node]
  /\ at[s] = "fork" => EndsOf(s) \subseteq holds[Node]
  /\ at[s] \in Forked => child[s] # "none"
  /\ at[s] \in Forked \ {"forked"} => holds[Node] \cap ChildEnds(s) = {}
  /\ ~Alive(s) => holds[s] = {}
  /\ Alive(s) => ChildEnds(s) \subseteq holds[s] /\ <<s, "inpipe[1]">> \notin holds[s]
  /\ at[s] = "wait" => ~Alive(s)
  /\ at[s] = "returned" /\ Alive(s) => position[s] = 0

\* A program prints no more than it has read, and that is no more than the slice has.
Printed(s) ==
  /\ child[s] = "none" => output[s] = 0
  /\ child[s] = "reading" => output[s] <= got[s]
  /\ child[s] = "printing" => output[s] < got[s] /\ s \in chatty
  /\ position[s] <= length[s]

\* Nothing is open or printed before the first slice.
LEMMA InitWired ==
  ASSUME Init, NEW s \in Slices
  PROVE  Wired(s) /\ Printed(s)
<1>1. Wired(s)
  BY SlicesAssumption DEF Init, Wired, Forked, Alive, Owners
<1>2. length[s] \in Nat /\ position[s] = 0 /\ output[s] = 0 /\ child[s] = "none"
  BY UnitsAssumption DEF Init
<1> QED
  BY <1>1, <1>2 DEF Printed

\* A step of one slice changes neither pipes nor program of another.
LEMMA OthersWired ==
  ASSUME IInv, NEW s \in Slices, parent(s) \/ execl(s) \/ Crash(s), NEW t \in Slices, t # s,
         Wired(t), Printed(t)
  PROVE  Wired(t)' /\ Printed(t)'
<1>1. /\ at'[t] = at[t] /\ position'[t] = position[t] /\ output'[t] = output[t]
      /\ child'[t] = child[t] /\ got'[t] = got[t] /\ holds'[t] = holds[t]
      /\ length' = length /\ chatty' = chatty
  BY SlicesAssumption, UnitsAssumption
     DEF IInv, TypeOK, Owners, parent, execl, Crash, MakeInput, MakeOutput, CannotStart, Fork,
         CloseChildEnds, OpenTrain, OpenTrainFails, Pread, Write, WriteFails, EndInput,
         ReadOutput, EndOutput, Wait, ReadInput, PrintMore, PrintResult, goes, becomes,
         pipes, data, program, given, acquire, close
<1>2. holds'[Node] \cap EndsOf(t) = holds[Node] \cap EndsOf(t)
  BY OthersHolds
<1>3. InputOf(t) \subseteq EndsOf(t) /\ ChildEnds(t) \subseteq EndsOf(t)
  BY DEF EndsOf, InputOf, OutputOf, ChildEnds
<1>4. Alive(t)' <=> Alive(t)
  BY <1>1 DEF Alive
<1>5. Wired(t)'
  BY <1>1, <1>2, <1>3, <1>4 DEF Wired
<1>6. Printed(t)'
  BY <1>1 DEF Printed
<1> QED
  BY <1>5, <1>6

\* A slice's own step keeps its ends in order.
LEMMA OwnWired ==
  ASSUME IInv, NEW s \in Slices, parent(s) \/ execl(s) \/ Crash(s), Wired(s)
  PROVE  Wired(s)'
<1>types. TypeOK
  BY DEF IInv
<1>fed. Counted(s) /\ Held(s)
  BY DEF IInv, Fed
<1>node. Node \in Owners /\ s \in Owners /\ s # Node
  BY SlicesAssumption DEF Owners
<1>ends. /\ EndsOf(s) = InputOf(s) \cup OutputOf(s)
         /\ InputOf(s) \subseteq EndsOf(s) /\ ChildEnds(s) \subseteq EndsOf(s)
         /\ <<s, "inpipe[1]">> \in EndsOf(s) \ ChildEnds(s)
  BY DEF EndsOf, InputOf, OutputOf, ChildEnds
<1> USE DEF goes, becomes, pipes, data, program, Forked, Alive
<1>1. CASE MakeInput(s)
  BY <1>1, <1>types, <1>node DEF MakeInput, acquire, TypeOK, Wired
<1>2. CASE MakeOutput(s)
  BY <1>2, <1>types, <1>node, <1>ends DEF MakeOutput, acquire, TypeOK, Wired
<1>3. CASE CannotStart(s)
  <2>1. at[s] \in {"pipe", "second pipe", "fork"} /\ at'[s] = "returned"
        /\ UNCHANGED <<child, holds, position>>
    BY <1>3, <1>types DEF CannotStart, TypeOK
  <2>2. child[s] = "none"
    BY <1>fed, <2>1 DEF Held
  <2> QED
    BY <2>1, <2>2 DEF Wired
<1>4. CASE Fork(s)
  <2>1. /\ at[s] = "fork" /\ at'[s] = "forked" /\ child'[s] = "reading"
        /\ holds'[s] = holds[Node] \ (EndsOf(s) \ ChildEnds(s))
        /\ holds'[Node] = holds[Node]
    BY <1>4, <1>types, <1>node DEF Fork, TypeOK
  <2> QED
    BY <1>ends, <2>1 DEF Wired
<1>5. CASE CloseChildEnds(s)
  <2>1. /\ at[s] = "forked" /\ at'[s] \in {"open", "read file"} /\ child' = child
        /\ holds'[Node] = holds[Node] \ ChildEnds(s) /\ holds'[s] = holds[s]
    BY <1>5, <1>types, <1>node DEF CloseChildEnds, close, TypeOK
  <2> QED
    BY <2>1 DEF Wired
<1>6. CASE OpenTrain(s) \/ OpenTrainFails(s)
  <2>1. /\ at[s] = "open" /\ at'[s] \in {"read file", "returned"}
        /\ UNCHANGED <<child, holds, position>>
    BY <1>6, <1>types DEF OpenTrain, OpenTrainFails, TypeOK
  <2>2. position[s] = 0
    BY <1>fed, <2>1 DEF Counted, Starting
  <2> QED
    BY <2>1, <2>2 DEF Wired
<1>7. CASE Pread(s) \/ Write(s)
  <2>1. /\ at[s] \in {"read file", "write"} /\ at'[s] \in {"read file", "write"}
        /\ UNCHANGED <<child, holds>>
    <3>1. CASE Pread(s)
      BY <3>1, <1>types DEF Pread, TypeOK
    <3>2. CASE Write(s)
      BY <3>2, <1>types DEF Write, TypeOK
    <3> QED
      BY <1>7, <3>1, <3>2
  <2> QED
    BY <2>1 DEF Wired
<1>8. CASE WriteFails(s)
  <2>1. /\ at[s] = "write" /\ at'[s] = "returned" /\ child' = child
        /\ holds'[s] = holds[s] /\ <<s, "inpipe[0]">> \notin holds[s]
    BY <1>8, <1>types, <1>node DEF WriteFails, close, IsOpen, TypeOK
  <2>2. ~Alive(s)
    BY <2>1 DEF Wired, ChildEnds
  <2> QED
    BY <2>1, <2>2 DEF Wired
<1>9. CASE EndInput(s)
  <2>1. /\ at[s] = "read file" /\ at'[s] = "read output" /\ child' = child
        /\ holds'[Node] = holds[Node] \ InputOf(s) /\ holds'[s] = holds[s]
    BY <1>9, <1>types, <1>node DEF EndInput, close, TypeOK
  <2> QED
    BY <2>1 DEF Wired
<1>10. CASE ReadOutput(s)
  <2>1. at'[s] = at[s] /\ UNCHANGED <<child, holds, position>>
    BY <1>10, <1>types DEF ReadOutput, TypeOK
  <2> QED
    BY <2>1 DEF Wired
<1>11. CASE EndOutput(s)
  <2>1. /\ at[s] = "read output" /\ at'[s] = "wait" /\ child' = child
        /\ holds'[Node] = holds[Node] \ OutputOf(s) /\ holds'[s] = holds[s]
        /\ <<s, "outpipe[1]">> \notin holds[s]
    BY <1>11, <1>types, <1>node DEF EndOutput, close, IsOpen, TypeOK
  <2>2. ~Alive(s)
    BY <2>1 DEF Wired, ChildEnds
  <2> QED
    BY <2>1, <2>2 DEF Wired
<1>12. CASE Wait(s)
  <2>1. at[s] = "wait" /\ at'[s] = "returned" /\ UNCHANGED <<child, holds, position>>
    BY <1>12, <1>types DEF Wait, TypeOK
  <2> QED
    BY <2>1 DEF Wired
<1>13. CASE ReadInput(s) \/ PrintMore(s)
  <2>1. /\ child[s] \in {"reading", "printing"} /\ child'[s] \in {"reading", "printing"}
        /\ UNCHANGED <<at, holds, position>>
    BY <1>13, <1>types DEF ReadInput, PrintMore, TypeOK
  <2> QED
    BY <2>1 DEF Wired
<1>14. CASE PrintResult(s) \/ Crash(s)
  <2>1. /\ child[s] \in {"reading", "printing"} /\ child'[s] \in {"exited", "crashed"}
        /\ UNCHANGED <<at, position>> /\ holds'[s] = {} /\ holds'[Node] = holds[Node]
    BY <1>14, <1>types, <1>node DEF PrintResult, Crash, TypeOK
  <2> QED
    BY <2>1 DEF Wired
<1> QED
  BY <1>1, <1>2, <1>3, <1>4, <1>5, <1>6, <1>7, <1>8, <1>9, <1>10, <1>11, <1>12, <1>13,
     <1>14 DEF parent, execl

\* A slice's own step keeps what its program may have printed.
LEMMA OwnPrinted ==
  ASSUME IInv, NEW s \in Slices, parent(s) \/ execl(s) \/ Crash(s), Printed(s)
  PROVE  Printed(s)'
<1>types. TypeOK
  BY DEF IInv
<1>numbers. Numbers(s)
  BY TypedNumbers DEF IInv
<1> USE DEF goes, becomes, pipes, data, program, given
<1>1. CASE Fork(s)
  <2>1. /\ at[s] = "fork" /\ child'[s] = "reading"
        /\ UNCHANGED <<length, position, output, got>>
    BY <1>1, <1>types DEF Fork, TypeOK
  <2>2. child[s] = "none"
    BY <2>1 DEF IInv, Fed, Held
  <2> QED
    BY <1>numbers, <2>1, <2>2 DEF Printed, Numbers
<1>2. CASE Pread(s)
  <2>1. /\ position[s] < length[s] /\ UNCHANGED <<length, chatty, child, output, got>>
        /\ position'[s] = position[s] + Smaller(BUF_SIZE, length[s] - position[s])
    BY <1>2, <1>types DEF Pread, TypeOK
  <2>2. position'[s] <= length[s]
    BY <1>numbers, Sizes, <2>1 DEF Smaller, Numbers, Positive
  <2> QED
    BY <2>1, <2>2 DEF Printed
<1>3. CASE ReadOutput(s)
  <2>1. /\ output'[s] = 0 /\ output[s] > 0
        /\ UNCHANGED <<length, chatty, child, got, position>>
    BY <1>3, <1>types DEF ReadOutput, TypeOK
  <2> QED
    BY <1>numbers, <2>1 DEF Printed, Numbers
<1>4. CASE ReadInput(s)
  <2>1. /\ child[s] = "reading" /\ got'[s] = got[s] + 1
        /\ child'[s] = (IF s \in chatty THEN "printing" ELSE "reading")
        /\ UNCHANGED <<length, chatty, output, position>>
    BY <1>4, <1>types DEF ReadInput, TypeOK
  <2> QED
    BY <1>numbers, <2>1 DEF Printed, Numbers
<1>5. CASE PrintMore(s)
  <2>1. /\ child[s] = "printing" /\ child'[s] = "reading" /\ output'[s] = output[s] + 1
        /\ UNCHANGED <<length, got, position>>
    BY <1>5, <1>types DEF PrintMore, TypeOK
  <2> QED
    BY <1>numbers, <2>1 DEF Printed, Numbers
<1>6. CASE PrintResult(s) \/ Crash(s)
  <2>1. child'[s] \in {"exited", "crashed"} /\ UNCHANGED <<length, position>>
    BY <1>6, <1>types DEF PrintResult, Crash, TypeOK
  <2> QED
    BY <2>1 DEF Printed
<1>7. CASE UNCHANGED <<length, chatty, child, output, got, position>>
  BY <1>7 DEF Printed
<1>8. \/ Fork(s) \/ Pread(s) \/ ReadOutput(s) \/ ReadInput(s) \/ PrintMore(s)
      \/ PrintResult(s) \/ Crash(s)
      \/ UNCHANGED <<length, chatty, child, output, got, position>>
  BY DEF parent, execl, MakeInput, MakeOutput, CannotStart, CloseChildEnds, OpenTrain,
     OpenTrainFails, Write, WriteFails, EndInput, EndOutput, Wait
<1> QED
  BY <1>1, <1>2, <1>3, <1>4, <1>5, <1>6, <1>7, <1>8

\* Ends and programs stay in order in the whole process.
LEMMA WiredInvariance == Spec => [](IInv /\ \A s \in Slices : Wired(s) /\ Printed(s))
<1> DEFINE Order == \A s \in Slices : Wired(s) /\ Printed(s)
<1>1. Init => Order
  BY InitWired
<1>2. IInv /\ Order /\ [Next]_vars => Order'
  <2> SUFFICES ASSUME IInv, Order, [Next]_vars, NEW t \in Slices
               PROVE  Wired(t)' /\ Printed(t)'
    OBVIOUS
  <2>1. CASE Next
    <3>1. PICK s \in Slices : parent(s) \/ execl(s) \/ Crash(s)
      BY <2>1 DEF Next
    <3>2. CASE s = t
      BY <3>1, <3>2, OwnWired, OwnPrinted
    <3>3. CASE s # t
      BY <3>1, <3>3, OthersWired
    <3> QED
      BY <3>2, <3>3
  <2>2. CASE UNCHANGED vars
    BY <2>2 DEF vars, Wired, Printed, Alive, pipes, data, program, given
  <2> QED
    BY <2>1, <2>2
<1> HIDE DEF Order
<1>3. Spec => [](IInv /\ Order)
  BY <1>1, <1>2, Invariance, PTL DEF Spec
<1> QED
  BY <1>3 DEF Order

\* A program that cannot go on for want of room waits for a parent that waits for it,
\* and has printed more than the pipes hold.
LEMMA FullOutput ==
  ASSUME Deadlock, IInv, NEW t \in Slices, Wired(t), Printed(t), Alive(t), output[t] = OutCap
  PROVE  TooLong(t) /\ child[t] = "printing"
<1>numbers. Numbers(t) /\ Positive
  BY TypedNumbers, Sizes DEF IInv
<1>1. position[t] = buffer[t] + input[t] + got[t]
  BY DEF IInv, Fed, Counted
<1>2. got[t] > 0 /\ got[t] >= OutCap
  BY <1>numbers DEF Printed, Alive, Numbers, Positive
<1>3. at[t] \notin {"pipe", "returned", "wait", "read output"}
  <2>1. at[t] # "returned"
    <3>1. at[t] = "returned" => position[t] = 0
      BY DEF Wired
    <3>2. position[t] # 0
      BY <1>numbers, <1>1, <1>2 DEF Numbers
    <3> QED
      BY <3>1, <3>2
  <2>2. at[t] # "wait"
    BY DEF Wired
  <2>3. at[t] # "pipe"
    BY DEF IInv, Fed, Held, Alive
  <2>4. at[t] # "read output"
    <3>1. at[t] = "read output" => output[t] = 0
      BY DEF Deadlock, Blocked
    <3>2. output[t] # 0
      BY <1>numbers DEF Positive
    <3> QED
      BY <3>1, <3>2
  <2> QED
    BY <2>1, <2>2, <2>3, <2>4
<1>4. at[t] = "write" /\ input[t] = InCap
  BY <1>3 DEF Deadlock, Blocked
<1>5. buffer[t] > 0
  BY <1>4 DEF IInv, Fed, Counted
<1>6. child[t] = "printing" /\ t \in chatty
  BY <1>4, <1>numbers DEF Deadlock, Starved, Printed, Positive
<1>7. length[t] > InCap + OutCap + 1
  BY <1>numbers, <1>1, <1>4, <1>5, <1>6 DEF Printed, Numbers, Positive
<1> QED
  BY <1>6, <1>7 DEF TooLong

\* Where nobody prints too much, every program that is left waits for the end of its
\* input, and some other one of them holds it open, or a slice that has forgotten it.
LEMMA AllHostages ==
  ASSUME Deadlock, IInv, \A s \in Slices : Wired(s) /\ Printed(s) /\ ~TooLong(s)
  PROVE  Hostages({s \in Slices : Alive(s)})
<1> DEFINE S == {s \in Slices : Alive(s)}
<1> SUFFICES ASSUME NEW t \in Slices, Alive(t)
             PROVE  \/ \E u \in S \ {t} : <<t, "inpipe[1]">> \in holds[u]
                    \/ at[t] = "returned" /\ <<t, "inpipe[1]">> \in holds[Node]
  BY DEF Hostages
<1>1. output[t] # OutCap
  BY FullOutput
<1>2. input[t] = 0 /\ IsOpen(t, "inpipe[1]")
  BY <1>1 DEF Deadlock, Starved
<1>3. PICK p \in Owners : <<t, "inpipe[1]">> \in holds[p]
  BY <1>2 DEF IsOpen
<1>4. CASE p = Node
  <2>1. at[t] # "pipe" /\ at[t] # "read output"
    <3>1. at[t] # "pipe"
      BY DEF IInv, Fed, Held, Alive
    <3>2. at[t] # "read output"
      BY <1>3, <1>4 DEF IInv, Fed, Held, InputOf
    <3> QED
      BY <3>1, <3>2
  <2>2. at[t] # "wait"
    BY DEF Wired
  <2>3. at[t] # "write"
    <3>1. at[t] = "write" => input[t] = InCap
      BY DEF Deadlock, Blocked
    <3>2. InCap # 0
      BY Sizes DEF Positive
    <3> QED
      BY <1>2, <3>1, <3>2
  <2>4. at[t] = "returned"
    BY <2>1, <2>2, <2>3 DEF Deadlock, Blocked
  <2> QED
    BY <1>3, <1>4, <2>4
<1>5. CASE p \in Slices
  <2>1. p # t
    BY <1>3 DEF Wired
  <2>2. Alive(p)
    BY <1>3, <1>5 DEF Wired
  <2> QED
    BY <1>3, <1>5, <2>1, <2>2
<1> QED
  BY <1>4, <1>5 DEF Owners

\* A slice that is blocked is blocked by a program that lives.
LEMMA SomeoneAlive ==
  ASSUME \A s \in Slices : Wired(s), NEW s \in Slices, Blocked(s)
  PROVE  \E t \in Slices : Alive(t)
<1>1. CASE at[s] = "wait"
  BY <1>1 DEF Wired, Blocked
<1>2. CASE at[s] \in {"write", "read output"}
  <2>1. PICK end \in {"inpipe[0]", "outpipe[1]"} : IsOpen(s, end)
    BY <1>2 DEF Blocked
  <2>2. PICK p \in Owners : <<s, end>> \in holds[p]
    BY <2>1 DEF IsOpen
  <2>3. p # Node
    BY <1>2, <2>2 DEF Wired, Forked, ChildEnds
  <2>4. p \in Slices /\ Alive(p)
    BY <2>2, <2>3 DEF Owners, Wired
  <2> QED
    BY <2>4
<1> QED
  BY <1>1, <1>2 DEF Blocked

\* However many slices a process runs, of whatever length and with whatever failures: if
\* it comes to a stop, a program has printed more than its pipes hold, or the children
\* that are left hold each other's input.  Nothing else can keep slices from returning.
THEOREM SliceDeadlockHasCause == Spec => []DeadlockHasCause
<1>1. IInv /\ (\A s \in Slices : Wired(s) /\ Printed(s)) => DeadlockHasCause
  <2> SUFFICES ASSUME IInv, \A s \in Slices : Wired(s) /\ Printed(s), Deadlock,
                      \A s \in Slices : ~TooLong(s)
               PROVE  \E S \in SUBSET Slices : S # {} /\ Hostages(S)
    BY DEF DeadlockHasCause
  <2> DEFINE S == {s \in Slices : Alive(s)}
  <2>1. Hostages(S)
    BY AllHostages
  <2>2. S # {}
    <3>1. PICK s \in Slices : Blocked(s)
      BY DEF Deadlock
    <3> QED
      BY <3>1, SomeoneAlive
  <2>3. S \in SUBSET Slices
    OBVIOUS
  <2> QED
    BY <2>1, <2>2, <2>3
<1> QED
  BY <1>1, WiredInvariance, PTL
=============================================================================
