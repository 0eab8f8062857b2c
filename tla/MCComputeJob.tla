---------------------------- MODULE MCComputeJob ----------------------------
(* Instances of ComputeJob for TLC. *)
EXTENDS ComputeJob, TLC

CONSTANTS j1, j2, s1

\* The files of a job: a code file of one byte, and a train chunk of TrainSize.
Sizes(TrainSize) ==
  [t \in Transfers |-> IF folder(t) = "train" THEN TrainSize ELSE 1]
OneByteChunks == Sizes(1)
TwoByteChunks == Sizes(2)
ThreeByteChunks == Sizes(3)

\* j2 has a byte more than j1, and finds its progress.
GrowingChunks ==
  [t \in Transfers |-> IF t[1] = j2 /\ folder(t) = "train" THEN 2 ELSE 1]

\* The names that the node expects.
ExpectedNames ==
  [t \in Transfers |->
     CASE folder(t) = "code" -> "main.cpp"
       [] folder(t) = "train" -> "test.txt"
       [] OTHER -> "other"]

\* No job waits for another one, or j2 comes after j1.
Independent == [j \in Jobs |-> {}]
OneAfterTheOther == [j \in Jobs |-> IF j = j2 THEN {j1} ELSE {}]

\* Two parties meet at the node: the files of one job travel while the other one
\* waits, or two codes travel, or a code and an interactive file.
Begun(S) == {t[1] : t \in {t \in S : server[t] # "none"}}
TwoAtOnce ==
  \/ Cardinality(Begun(Transfers)) <= 1
  \/ Begun(Train) = {} /\ (Begun(Manual) = {} \/ \E j \in Jobs : caller[j] = "idle")

\* The jobs are interchangeable.
JobSymmetry == Permutations(Jobs)

AllTransfers == Transfers
=============================================================================
