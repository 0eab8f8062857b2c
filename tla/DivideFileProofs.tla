-------------------------- MODULE DivideFileProofs --------------------------
(***************************************************************************)
(* What the runs check of the division on small files, for every file      *)
(* size, number of nodes, placement of newlines and scan window.           *)
(***************************************************************************)
EXTENDS DivideFile, WellFoundedInduction, TLAPS

\* A nonempty set of naturals has a least element, and Min is that element.
LEMMA MinOfNaturals ==
  ASSUME NEW S, S \subseteq Nat, S # {}
  PROVE  Min(S) \in S /\ \A y \in S : Min(S) <= y
<1> DEFINE Less == {p \in Nat \X Nat : p[1] < p[2]}
<1>1. IsWellFoundedOn(Less, Nat)
  BY NatLessThanWellFounded DEF OpToRel
<1> HIDE DEF Less
<1>2. PICK x \in S : \A y \in S : ~(<<y, x>> \in Less)
  BY <1>1, WFMin
<1>3. ASSUME NEW y \in S PROVE x <= y
  <2>1. x \in Nat /\ y \in Nat /\ <<y, x>> \notin Less
    BY <1>2
  <2>2. y < x => <<y, x>> \in Less
    BY <2>1 DEF Less
  <2> QED
    BY <2>1, <2>2
<1> QED
  BY <1>3 DEF Min

\* Division by a positive weight.
LEMMA DivBounds ==
  ASSUME NEW a \in Nat, NEW b \in Nat, b > 0
  PROVE  a \div b \in Nat /\ b * (a \div b) <= a
BY SMT

\* What the weights add up to: 3 for the first node and 1 for every other one.
WeightOf(n) == IF n = 0 THEN 0 ELSE n + 2

Weights ==
  /\ pc = "open" => i = 0 /\ totalWeight = 0
  /\ pc = "weigh" => totalWeight = WeightOf(i)
  /\ pc = "divide" => totalWeight = WeightOf(totalConnections)
  /\ pc = "returned" => i = 0 \/ totalWeight = WeightOf(totalConnections)

\* The entries behind the loop variable have been assigned.
Filled ==
  pc \in {"divide", "returned"} =>
    \A k \in 0 .. i - 1 : train_offset[k] \in Nat /\ train_chunk_size[k] \in Int

\* The inductive invariant: the cut that the last iteration made is the end of
\* the file, and nothing has been returned before it.
IInv ==
  /\ TypeOK
  /\ Weights
  /\ pc \in {"open", "weigh"} => offset = 0
  /\ pc \in {"weigh", "divide"} => readable /\ fileSize > 0
  /\ pc = "divide" /\ i = 0 => offset = 0
  /\ pc = "divide" /\ i = totalConnections /\ i > 0 => offset = fileSize
  /\ Filled
  /\ ChunksTile
  /\ SkewBounded
  /\ Divided => i = totalConnections

\* The share of a node is a number of bytes.
LEMMA IdealChunkType ==
  ASSUME IInv, pc = "divide", NEW k \in Nodes
  PROVE  ideal_chunk(k) \in Nat
<1>1. totalConnections \in Nat /\ totalConnections > 0
  BY CountsAssumption DEF IInv, TypeOK, Nodes
<1>2. totalWeight \in Nat /\ totalWeight > 0
  BY <1>1 DEF IInv, Weights, WeightOf
<1>3. fileSize * currWeight(k) \in Nat
  BY SizesAssumption DEF IInv, TypeOK, currWeight
<1> QED
  BY <1>2, <1>3, DivBounds DEF ideal_chunk

\* adjustToNextLine never moves a position back, and stops at the end of the line.
LEMMA AdjustBounds ==
  ASSUME IInv, NEW pos \in Nat
  PROVE  /\ adjustToNextLine(pos) \in Nat
         /\ pos < fileSize => pos <= adjustToNextLine(pos)
         /\ pos < fileSize => \A q \in NewlinesAhead(pos) : adjustToNextLine(pos) <= q + 1
<1>1. fileSize \in Nat /\ NewlinesAhead(pos) \subseteq Nat
  <2>1. fileSize \in Nat /\ newlines \subseteq 0 .. fileSize - 1
    BY SizesAssumption DEF IInv, TypeOK
  <2>2. ASSUME NEW q \in newlines PROVE q \in Nat
    <3>1. q \in 0 .. fileSize - 1
      BY <2>1
    <3> QED
      BY <2>1, <3>1
  <2> QED
    BY <2>1, <2>2 DEF NewlinesAhead
<1>2. ASSUME NewlinesAhead(pos) # {}
      PROVE  /\ Min(NewlinesAhead(pos)) \in Nat
             /\ Min(NewlinesAhead(pos)) >= pos
             /\ \A q \in NewlinesAhead(pos) : Min(NewlinesAhead(pos)) <= q
  BY <1>1, <1>2, MinOfNaturals DEF NewlinesAhead
<1> QED
  BY <1>1, <1>2 DEF adjustToNextLine

\* A range that is not the last one is no negative range and at most twice its share.
LEMMA CutBounds ==
  ASSUME IInv, pc = "divide", NEW k \in Nodes
  PROVE  /\ adjusted_end(k) \in Nat
         /\ k = Last => adjusted_end(k) = fileSize
         /\ k # Last => adjusted_end(k) - offset \in 0 .. 2 * ideal_chunk(k)
<1>1. offset \in Nat /\ fileSize \in Nat
  BY SizesAssumption DEF IInv, TypeOK
<1>2. ideal_chunk(k) \in Nat
  BY IdealChunkType
<1>3. offset + ideal_chunk(k) \in Nat
  BY <1>1, <1>2
<1>4. adjustToNextLine(offset + ideal_chunk(k)) \in Nat
  BY <1>3, AdjustBounds
<1> QED
  BY <1>1, <1>2, <1>4 DEF adjusted_end

\* The state before the call satisfies the invariant.
LEMMA InitIInv == Init => IInv
BY SizesAssumption, CountsAssumption, LayoutsAssumption
   DEF Init, IInv, TypeOK, Weights, Filled, ChunksTile, SkewBounded, Divided, WeightOf, Nodes

\* Every step of the two loops keeps it.
LEMMA NextIInv == IInv /\ [Next]_vars => IInv'
<1> SUFFICES ASSUME IInv, [Next]_vars PROVE IInv'
  OBVIOUS
<1>n. totalConnections \in Nat /\ fileSize \in Nat
  BY SizesAssumption, CountsAssumption DEF IInv, TypeOK
<1>1. CASE OpenFails
  BY <1>1, <1>n DEF OpenFails, arguments, IInv, TypeOK, Weights, Filled, ChunksTile,
     SkewBounded, Divided, WeightOf, Nodes, Last
<1>2. CASE OpenSucceeds
  <2>1. pc = "open" /\ i = 0 /\ totalWeight = 0 /\ pc' = "weigh"
    BY <1>2 DEF OpenSucceeds, IInv, Weights
  <2> QED
    BY <1>2, <1>n, <2>1 DEF OpenSucceeds, arguments, IInv, TypeOK, Weights,
       Filled, ChunksTile, SkewBounded, Divided, WeightOf, Nodes
<1>3. CASE Weigh
  <2>1. CASE i < totalConnections
    <3>1. TypeOK'
      BY <1>3, <1>n, <2>1 DEF Weigh, arguments, IInv, TypeOK, Nodes, currWeight
    <3>2. Weights'
      BY <1>3, <1>n, <2>1 DEF Weigh, arguments, IInv, TypeOK, Weights, WeightOf, currWeight
    <3> QED
      BY <1>3, <2>1, <3>1, <3>2
         DEF Weigh, arguments, IInv, Filled, ChunksTile, SkewBounded, Divided
  <2>2. CASE ~(i < totalConnections)
    <3>1. TypeOK'
      BY <1>3, <1>n, <2>2 DEF Weigh, arguments, IInv, TypeOK, Nodes
    <3>2. Weights' /\ i' = 0 /\ pc' = "divide"
      BY <1>3, <1>n, <2>2 DEF Weigh, arguments, IInv, TypeOK, Weights, WeightOf
    <3> QED
      BY <1>3, <2>2, <3>1, <3>2
         DEF Weigh, arguments, IInv, Filled, ChunksTile, SkewBounded, Divided
  <2> QED
    BY <2>1, <2>2
<1>4. CASE Divide
  <2>1. i \in Nodes /\ i \in Nat
    BY <1>4, <1>n DEF Divide, IInv, TypeOK, Nodes
  <2>2. /\ adjusted_end(i) \in Nat
        /\ i = Last => adjusted_end(i) = fileSize
        /\ i # Last => adjusted_end(i) - offset \in 0 .. 2 * ideal_chunk(i)
    BY <1>4, <2>1, CutBounds DEF Divide
  <2>3. TypeOK'
    BY <1>4, <1>n, <2>1, <2>2 DEF Divide, arguments, IInv, TypeOK, Nodes
  <2>4. Weights'
    BY <1>4, <1>n, <2>1 DEF Divide, arguments, IInv, Weights, WeightOf
  <2>5. offset \in Nat
    BY DEF IInv, TypeOK
  <2>6. /\ train_offset'[i] = offset
        /\ train_chunk_size'[i] = adjusted_end(i) - offset
        /\ \A k \in Nodes : k # i => /\ train_offset'[k] = train_offset[k]
                                     /\ train_chunk_size'[k] = train_chunk_size[k]
    BY <1>4, <2>1 DEF Divide, IInv, TypeOK
  <2>7. ChunksTile'
    <3>1. i' = i + 1 /\ offset' = adjusted_end(i) /\ pc' = "divide"
      BY <1>4, <1>n DEF Divide, IInv, TypeOK
    <3>2. train_offset'[0] = 0
      BY <1>4, <1>n, <2>1, <2>6 DEF Divide, IInv, ChunksTile, Nodes
    <3>3. ASSUME NEW k \in 1 .. i
          PROVE  train_offset'[k] = train_offset'[k - 1] + train_chunk_size'[k - 1]
      <4>1. k \in Nodes /\ k - 1 \in Nodes /\ k - 1 # i
        BY <1>n, <2>1, <3>3 DEF Nodes
      <4>2. CASE k = i
        BY <1>4, <2>1, <2>6, <4>1, <4>2 DEF IInv, ChunksTile, Divide
      <4>3. CASE k # i
        BY <1>4, <2>1, <2>6, <3>3, <4>1, <4>3 DEF IInv, ChunksTile, Divide
      <4> QED
        BY <4>2, <4>3
    <3>4. offset' = train_offset'[i] + train_chunk_size'[i]
      BY <2>2, <2>5, <2>6, <3>1
    <3> QED
      BY <2>1, <3>1, <3>2, <3>3, <3>4 DEF ChunksTile, Divided
  <2>8. SkewBounded'
    <3>1. ASSUME NEW k \in 0 .. i, k # Last
          PROVE  train_chunk_size'[k] \in 0 .. 2 * ideal_chunk(k)
      <4>1. k \in Nodes
        BY <1>n, <2>1, <3>1 DEF Nodes
      <4>2. CASE k = i
        BY <2>2, <2>6, <3>1, <4>2
      <4>3. CASE k # i
        BY <1>4, <2>1, <2>6, <3>1, <4>1, <4>3 DEF IInv, SkewBounded, Divide
      <4> QED
        BY <4>2, <4>3
    <3>2. i' = i + 1 /\ Last' = Last /\ \A k : ideal_chunk(k)' = ideal_chunk(k)
      BY <1>4 DEF Divide, Last, ideal_chunk, arguments, currWeight
    <3> QED
      BY <2>1, <3>1, <3>2 DEF SkewBounded
  <2>9. Filled'
    <3>1. ASSUME NEW k \in 0 .. i
          PROVE  train_offset'[k] \in Nat /\ train_chunk_size'[k] \in Int
      <4>1. k \in Nodes
        BY <1>n, <2>1, <3>1 DEF Nodes
      <4> QED
        BY <1>4, <2>1, <2>2, <2>5, <2>6, <4>1 DEF IInv, Filled, Divide
    <3> QED
      BY <1>4, <2>1, <3>1 DEF Filled, Divide
  <2> QED
    BY <1>4, <1>n, <2>1, <2>2, <2>3, <2>4, <2>7, <2>8, <2>9
       DEF Divide, IInv, Divided, Last, arguments
<1>5. CASE Return
  BY <1>5, <1>n DEF Return, arguments, IInv, TypeOK, Weights, Filled, ChunksTile,
     SkewBounded, Divided, WeightOf, Nodes, Last, ideal_chunk, currWeight
<1>6. CASE UNCHANGED vars
  BY <1>6 DEF vars, arguments, IInv, TypeOK, Weights, Filled, ChunksTile,
     SkewBounded, Divided, WeightOf, Nodes, Last, ideal_chunk, currWeight
<1> QED
  BY <1>1, <1>2, <1>3, <1>4, <1>5, <1>6 DEF Next

\* Every reachable state satisfies the invariant.
LEMMA Invariance == Spec => []IInv
BY InitIInv, NextIInv, PTL DEF Spec

\* The variables of a division stay in their types for every file.
THEOREM DivideTypes == Spec => []TypeOK
<1>1. IInv => TypeOK
  BY DEF IInv
<1> QED
  BY <1>1, Invariance, PTL

\* Whatever the file and the number of nodes, the ranges follow each other from
\* byte 0 to the end of the file (divideFileIntoChunks, lines 107-139).
THEOREM DivideTiles == Spec => []ChunksTile
<1>1. IInv => ChunksTile
  BY DEF IInv
<1> QED
  BY <1>1, Invariance, PTL

\* Wherever the lines end, no node but the last gets a negative range or more
\* than twice its share (the safeguard of lines 126-130).
THEOREM DivideSkewBounded == Spec => []SkewBounded
<1>1. IInv => SkewBounded
  BY DEF IInv
<1> QED
  BY <1>1, Invariance, PTL

-----------------------------------------------------------------------------
(* The forward moves of the cuts *)

\* The end of a range moves by less than n past the end of its ideal chunk.
LEMMA AdjustMovesLittle ==
  ASSUME IInv, NEW n \in Nat, ShortLines(n), NEW pos \in Nat
  PROVE  adjustToNextLine(pos) \in Nat /\ adjustToNextLine(pos) <= pos + n
<1>1. fileSize \in Nat /\ newlines \subseteq 0 .. fileSize - 1
  BY SizesAssumption DEF IInv, TypeOK
<1>2. adjustToNextLine(pos) \in Nat
  BY AdjustBounds
<1>3. CASE pos >= fileSize
  BY <1>1, <1>3 DEF adjustToNextLine
<1>4. CASE pos < fileSize /\ NewlinesAhead(pos) = {}
  BY <1>1, <1>4 DEF adjustToNextLine
<1>5. CASE pos < fileSize /\ NewlinesAhead(pos) # {}
  <2>1. pos \in 0 .. fileSize - 1
    BY <1>1, <1>5
  <2>2. PICK q \in newlines : pos <= q /\ q < pos + n
    BY <1>5, <2>1 DEF ShortLines
  <2>3. PICK r \in NewlinesAhead(pos) : TRUE
    BY <1>5
  <2>4. q \in Int /\ r \in newlines /\ r \in Int /\ r < pos + ScanWindow
    BY <1>1, <2>2, <2>3 DEF NewlinesAhead
  <2>5. q \in NewlinesAhead(pos) \/ r <= q
    BY <2>2, <2>4, WindowAssumption DEF NewlinesAhead
  <2>6. adjustToNextLine(pos) <= q + 1 \/ (adjustToNextLine(pos) <= r + 1 /\ r <= q)
    BY <1>5, <2>3, <2>5, AdjustBounds
  <2> QED
    BY <1>2, <2>2, <2>4, <2>6
<1> QED
  BY <1>1, <1>2, <1>3, <1>4, <1>5

\* The ranges up to node k end within the share of k + 3 weights, plus a line each.
EndOf(k) == train_offset[k] + train_chunk_size[k]

Drift(n) ==
  ShortLines(n) /\ pc \in {"divide", "returned"} =>
    \A k \in 0 .. i - 1 :
      k # Last =>
        totalWeight * EndOf(k) <= (k + 3) * fileSize + (k + 1) * (totalWeight * n)

\* The arithmetic of one more range: d is its ideal chunk, n its last move.
LEMMA DriftStep ==
  ASSUME NEW w \in Nat, NEW o \in Nat, NEW d \in Nat, NEW n \in Nat, NEW f \in Nat,
         NEW k \in Nat, NEW m \in Nat, NEW e \in Nat,
         w * o <= m * f + k * (w * n), w * d <= f, e <= o + d + n
  PROVE  w * e <= (m + 1) * f + (k + 1) * (w * n)
<1>1. w * e <= w * (o + d + n)
  BY SMT
<1>2. w * (o + d + n) = w * o + w * d + w * n
  BY SMT
<1>3. (k + 1) * (w * n) = k * (w * n) + w * n /\ (m + 1) * f = m * f + f
  <2>1. w * n \in Nat
    BY SMT
  <2> QED
    BY <2>1, SMT
<1>4. w * o \in Nat /\ w * d \in Nat /\ w * n \in Nat /\ w * e \in Nat
      /\ m * f \in Nat /\ k * (w * n) \in Nat
  <2>1. w * n \in Nat
    BY SMT
  <2> QED
    BY <2>1, SMT
<1> QED
  BY <1>1, <1>2, <1>3, <1>4

\* One more range keeps the drift within its bound.
LEMMA DivideDrift ==
  ASSUME IInv, IInv', NEW n \in Nat, Drift(n), Divide
  PROVE  Drift(n)'
<1> SUFFICES ASSUME ShortLines(n)', NEW k \in 0 .. i' - 1, k # Last'
             PROVE  totalWeight' * EndOf(k)' <=
                      (k + 3) * fileSize' + (k + 1) * (totalWeight' * n)
  BY DEF Drift
<1>1. /\ totalConnections \in Nat /\ fileSize \in Nat /\ offset \in Nat
      /\ i \in Nodes /\ i \in Nat /\ pc = "divide"
      /\ totalWeight \in Nat /\ totalWeight > 0
  BY SizesAssumption, CountsAssumption
     DEF IInv, TypeOK, Divide, Nodes, Weights, WeightOf
<1>2. /\ i' = i + 1 /\ fileSize' = fileSize /\ totalWeight' = totalWeight
      /\ Last' = Last /\ ShortLines(n)
  BY DEF Divide, arguments, Last, ShortLines, NewlinesAhead
<1>3. k \in Nat /\ k <= i /\ k # Last
  BY <1>1, <1>2
<1>4. CASE k < i
  <2>1. EndOf(k)' = EndOf(k)
    BY <1>1, <1>3, <1>4 DEF EndOf, Divide, IInv, TypeOK, Nodes
  <2> QED
    BY <1>1, <1>2, <1>3, <1>4, <2>1 DEF Drift
<1>5. CASE k = i
  <2>1. EndOf(k)' = adjusted_end(i)
    <3>1. adjusted_end(i) \in Nat
      BY <1>1, CutBounds
    <3>2. train_offset'[i] = offset /\ train_chunk_size'[i] = adjusted_end(i) - offset
      BY <1>1 DEF Divide, IInv, TypeOK
    <3> QED
      BY <1>1, <1>5, <3>1, <3>2 DEF EndOf
  <2>2. ideal_chunk(i) \in Nat
    BY <1>1, IdealChunkType
  <2>3. totalWeight * ideal_chunk(i) <= fileSize * currWeight(i)
    <3>1. fileSize * currWeight(i) \in Nat
      BY <1>1 DEF currWeight
    <3> QED
      BY <1>1, <3>1, DivBounds DEF ideal_chunk
  <2>4. adjusted_end(i) \in Nat /\ adjusted_end(i) <= offset + ideal_chunk(i) + n
    <3>1. offset + ideal_chunk(i) \in Nat
      BY <1>1, <2>2
    <3>2. /\ adjustToNextLine(offset + ideal_chunk(i)) \in Nat
          /\ adjustToNextLine(offset + ideal_chunk(i)) <= offset + ideal_chunk(i) + n
      BY <1>2, <3>1, AdjustMovesLittle
    <3> QED
      BY <1>1, <1>3, <1>5, <2>2, <3>2 DEF adjusted_end
  <2>5. CASE i = 0
    <3>1. offset = 0 /\ currWeight(i) = 3
      BY <1>1, <2>5 DEF IInv, currWeight
    <3>2. adjusted_end(i) <= ideal_chunk(i) + n
      BY <1>1, <2>2, <2>4, <3>1
    <3>3. totalWeight * adjusted_end(i) <= totalWeight * ideal_chunk(i) + totalWeight * n
      <4> DEFINE e == adjusted_end(i)
                 d == ideal_chunk(i)
                 w == totalWeight
      <4>1. e \in Nat /\ d \in Nat /\ w \in Nat /\ e <= d + n
        BY <1>1, <2>2, <2>4, <3>2
      <4> HIDE DEF e, d, w
      <4>2. w * e <= w * (d + n) /\ w * (d + n) = w * d + w * n
        BY <4>1, SMT
      <4> QED
        BY <4>1, <4>2 DEF e, d, w
    <3>4. totalWeight * ideal_chunk(i) <= 3 * fileSize
      BY <1>1, <2>2, <2>3, <3>1
    <3> QED
      BY <1>1, <1>2, <1>5, <2>1, <2>2, <2>4, <2>5, <3>3, <3>4, SMT
  <2>6. CASE i # 0
    <3>1. i - 1 \in 0 .. i - 1 /\ i - 1 # Last /\ i - 1 \in Nodes
      BY <1>1, <2>6 DEF Nodes, Last
    <3>2. offset = EndOf(i - 1)
      BY <1>1, <2>6 DEF IInv, ChunksTile, EndOf
    <3>3. totalWeight * offset <= (i + 2) * fileSize + i * (totalWeight * n)
      <4>1. totalWeight * EndOf(i - 1) <=
              ((i - 1) + 3) * fileSize + ((i - 1) + 1) * (totalWeight * n)
        BY <1>1, <1>2, <3>1 DEF Drift
      <4>2. (i - 1) + 3 = i + 2 /\ (i - 1) + 1 = i
        BY <1>1
      <4> QED
        BY <3>2, <4>1, <4>2
    <3>4. totalWeight * ideal_chunk(i) <= fileSize
      <4>1. fileSize * currWeight(i) = fileSize
        BY <1>1, <2>6 DEF currWeight
      <4> QED
        BY <2>3, <4>1
    <3>5. totalWeight * adjusted_end(i) <=
            ((i + 2) + 1) * fileSize + (i + 1) * (totalWeight * n)
      BY <1>1, <2>2, <2>4, <3>3, <3>4, DriftStep
    <3>6. (i + 2) + 1 = i + 3
      BY <1>1
    <3> QED
      BY <1>2, <1>5, <2>1, <3>5, <3>6
  <2> QED
    BY <2>5, <2>6
<1> QED
  BY <1>1, <1>3, <1>4, <1>5

\* The bound on the drift holds in every reachable state, for every length n.
LEMMA DriftInvariance == Spec => [](\A n \in Nat : Drift(n))
<1>1. Init => \A n \in Nat : Drift(n)
  BY DEF Init, Drift
<1>2. ASSUME IInv, IInv', \A n \in Nat : Drift(n), [Next]_vars
      PROVE  (\A n \in Nat : Drift(n))'
  <2> SUFFICES ASSUME NEW n \in Nat PROVE Drift(n)'
    OBVIOUS
  <2>1. CASE Divide
    BY <1>2, <2>1, DivideDrift
  <2>2. CASE OpenFails \/ OpenSucceeds
    <3>1. i' = 0
      BY <1>2, <2>2 DEF OpenFails, OpenSucceeds, IInv, Weights
    <3> QED
      BY <3>1 DEF Drift
  <2>3. CASE Weigh
    <3>1. i' = 0 \/ pc' = "weigh"
      BY <2>3 DEF Weigh
    <3> QED
      BY <3>1 DEF Drift
  <2>4. CASE Return \/ UNCHANGED vars
    BY <1>2, <2>4 DEF Return, vars, arguments, Drift, ShortLines, NewlinesAhead,
       Last, EndOf
  <2> QED
    BY <1>2, <2>1, <2>2, <2>3, <2>4 DEF Next
<1> QED
  BY <1>1, <1>2, Invariance, PTL DEF Spec

\* Lines that are short against the share of a node keep every range, the last one
\* included, inside the file: the cuts' forward moves do not add up past its end,
\* for every file, number of nodes and line length (lines 107-139).
THEOREM DivideShortLines == Spec => []ShortLinesStayInside
<1>1. ASSUME IInv, \A n \in Nat : Drift(n) PROVE ShortLinesStayInside
  <2> SUFFICES ASSUME NEW n \in 1 .. fileSize, Divided, ShortLines(n),
                      (totalConnections - 1) * (totalConnections + 2) * n <= fileSize,
                      NEW k \in Nodes
               PROVE  InsideFile(k)
    BY DEF ShortLinesStayInside
  <2>1. /\ totalConnections \in Nat /\ totalConnections > 0 /\ fileSize \in Nat
        /\ n \in Nat /\ k \in Nat /\ i = totalConnections /\ pc = "returned"
        /\ totalWeight = totalConnections + 2
    BY <1>1, SizesAssumption, CountsAssumption
       DEF IInv, TypeOK, Divided, Nodes, Weights, WeightOf
  <2>a. /\ offset = fileSize
        /\ train_offset[0] = 0
        /\ \A m \in 1 .. i - 1 : train_offset[m] = EndOf(m - 1)
        /\ offset = EndOf(i - 1)
    BY <1>1, <2>1 DEF IInv, ChunksTile, EndOf
  <2>b. \A m \in 0 .. i - 1 : m # Last => train_chunk_size[m] \in Nat
    <3>1. ASSUME NEW m \in 0 .. i - 1, m # Last PROVE train_chunk_size[m] \in Nat
      BY <1>1, <2>1, <3>1 DEF IInv, SkewBounded
    <3> QED
      BY <3>1
  <2>2. ASSUME NEW m \in 0 .. i - 1, m # Last PROVE EndOf(m) <= fileSize
    <3> DEFINE w == totalWeight
               e == EndOf(m)
               c == totalConnections
    <3>1. w * e <= (m + 3) * fileSize + (m + 1) * (w * n)
      BY <1>1, <2>1, <2>2 DEF Drift
    <3>2. m \in Nat /\ m + 1 <= c - 1 /\ c \in Nat /\ w = c + 2 /\ e \in Int
      BY <1>1, <2>1, <2>2 DEF Last, IInv, Filled, EndOf
    <3> HIDE DEF w, e
    <3>3. (m + 1) * (w * n) <= fileSize
      <4>1. w * n \in Nat /\ c - 1 \in Nat
        BY <2>1, <3>2, SMT
      <4>2. (m + 1) * (w * n) <= (c - 1) * (w * n)
        BY <3>2, <4>1, SMT
      <4>3. (c - 1) * (w * n) = (c - 1) * (c + 2) * n
        BY <2>1, <3>2, SMT
      <4> QED
        BY <2>1, <3>2, <4>1, <4>2, <4>3, SMT
    <3>4. (m + 3) * fileSize + fileSize <= w * fileSize
      BY <2>1, <3>2, SMT
    <3>5. w * e <= w * fileSize
      <4>1. w * n \in Nat
        BY <2>1, <3>2, SMT
      <4>2. w * e \in Int /\ (m + 3) * fileSize \in Nat /\ (m + 1) * (w * n) \in Nat
            /\ w * fileSize \in Nat
        BY <2>1, <3>2, <4>1, SMT
      <4> QED
        BY <2>1, <3>1, <3>3, <3>4, <4>2
    <3> QED
      BY <2>1, <3>2, <3>5, SMT DEF e
  <2>3. train_offset[k] \in Nat /\ train_chunk_size[k] \in Int /\ k \in 0 .. i - 1
    BY <1>1, <2>1 DEF IInv, Filled, Nodes
  <2>4. CASE k # Last
    BY <2>2, <2>3, <2>4, <2>b DEF InsideFile, EndOf
  <2>5. CASE k = Last /\ k = 0
    BY <2>1, <2>3, <2>5, <2>a DEF InsideFile, EndOf, Last
  <2>6. CASE k = Last /\ k # 0
    <3>1. k \in 1 .. i - 1 /\ k - 1 \in 0 .. i - 1 /\ k - 1 # Last /\ k = i - 1
      BY <2>1, <2>3, <2>6 DEF Last
    <3>2. train_offset[k] <= fileSize
      BY <2>2, <2>a, <3>1
    <3> QED
      BY <2>1, <2>3, <2>a, <3>1, <3>2 DEF InsideFile, EndOf
  <2> QED
    BY <2>4, <2>5, <2>6
<1> QED
  BY <1>1, Invariance, DriftInvariance, PTL
-----------------------------------------------------------------------------
(* Which lines a cut may go through *)

\* A cut at b after node k goes through no line but one that goes on for the
\* scan window or for the share of node k.
CutOk(b, k) ==
  b < fileSize /\ b > 0 /\ b - 1 \notin newlines =>
    \A q \in newlines : q >= b => q - b >= ScanWindow \/ q - b >= ideal_chunk(k)

\* The cut that the next range starts at counts before the range is recorded.
CutsOk == pc = "divide" /\ i > 0 => CutOk(offset, i - 1)

\* Where an iteration puts its cut: at a line's end, or in a long line.
LEMMA AdjustedEndCutOk ==
  ASSUME IInv, pc = "divide", NEW k \in Nodes
  PROVE  CutOk(adjusted_end(k), k)
<1> DEFINE t == offset + ideal_chunk(k)
           ahead == NewlinesAhead(t)
           cut == adjusted_end(k)
<1>1. fileSize \in Nat /\ offset \in Nat /\ newlines \subseteq 0 .. fileSize - 1
  BY SizesAssumption DEF IInv, TypeOK
<1>2. ideal_chunk(k) \in Nat /\ t \in Nat
  BY <1>1, IdealChunkType
<1>3. CASE k = Last \/ t >= fileSize
  <2>1. cut >= fileSize /\ cut \in Nat
    BY <1>1, <1>2, <1>3 DEF adjusted_end, adjustToNextLine
  <2> QED
    BY <1>1, <2>1 DEF CutOk
<1>4. CASE k # Last /\ t < fileSize /\ ahead = {}
  <2>1. cut = t
    BY <1>1, <1>2, <1>4 DEF adjusted_end, adjustToNextLine
  <2>2. ASSUME NEW q \in newlines, q >= t PROVE q - t >= ScanWindow
    <3>1. q \in Int
      BY <1>1
    <3>2. ~(t <= q /\ q < t + ScanWindow)
      BY <1>4 DEF NewlinesAhead
    <3> QED
      BY <1>2, <2>2, <3>1, <3>2, WindowAssumption
  <2> QED
    BY <2>1, <2>2 DEF CutOk
<1>5. CASE k # Last /\ t < fileSize /\ ahead # {}
  <2> DEFINE m == Min(ahead)
  <2>1. ahead \subseteq newlines /\ ahead \subseteq Nat
    <3>1. ASSUME NEW q \in newlines PROVE q \in Nat
      <4>1. q \in 0 .. fileSize - 1
        BY <1>1
      <4> QED
        BY <1>1, <4>1
    <3> QED
      BY <3>1 DEF NewlinesAhead
  <2>2. m \in ahead /\ \A y \in ahead : m <= y
    BY <1>5, <2>1, MinOfNaturals
  <2>3. m \in Nat /\ m \in newlines /\ t <= m
    BY <2>1, <2>2 DEF NewlinesAhead
  <2>4. adjustToNextLine(t) = m + 1
    BY <1>1, <1>2, <1>5 DEF adjustToNextLine
  <2>5. CASE m + 1 > t + ideal_chunk(k)
    <3>1. cut = t
      BY <1>5, <2>4, <2>5 DEF adjusted_end
    <3>2. ASSUME NEW q \in newlines, q >= t
          PROVE  q - t >= ScanWindow \/ q - t >= ideal_chunk(k)
      <4>1. q \in Int
        BY <1>1
      <4>2. CASE q \in ahead
        <5>1. m <= q
          BY <2>2, <4>2
        <5> QED
          BY <1>2, <2>3, <2>5, <4>1, <5>1
      <4>3. CASE q \notin ahead
        <5>1. ~(t <= q /\ q < t + ScanWindow)
          BY <4>3 DEF NewlinesAhead
        <5> QED
          BY <1>2, <3>2, <4>1, <5>1, WindowAssumption
      <4> QED
        BY <4>2, <4>3
    <3> QED
      BY <3>1, <3>2 DEF CutOk
  <2>6. CASE ~(m + 1 > t + ideal_chunk(k))
    <3>1. ~(m + 1 <= offset)
      BY <1>1, <1>2, <2>3
    <3>2. cut = m + 1
      BY <1>5, <2>4, <2>6, <3>1 DEF adjusted_end
    <3>3. cut - 1 \in newlines
      BY <2>3, <3>2
    <3> QED
      BY <3>3 DEF CutOk
  <2> QED
    BY <2>5, <2>6
<1> QED
  BY <1>1, <1>2, <1>3, <1>4, <1>5

\* One more range starts at the last cut and makes the next one.
LEMMA DivideCuts ==
  ASSUME IInv, IInv', CutsOk, CutsOnlyLongLines, Divide
  PROVE  CutsOk' /\ CutsOnlyLongLines'
<1>1. i \in Nodes /\ i \in Nat /\ pc = "divide" /\ totalConnections \in Nat
  BY CountsAssumption DEF IInv, TypeOK, Divide, Nodes
<1>2. /\ i' = i + 1 /\ pc' = "divide" /\ fileSize' = fileSize /\ newlines' = newlines
      /\ offset' = adjusted_end(i)
      /\ \A k : ideal_chunk(k)' = ideal_chunk(k)
  BY <1>1 DEF Divide, arguments, ideal_chunk, currWeight
<1>3. CutOk(adjusted_end(i), i)
  BY <1>1, AdjustedEndCutOk
<1>4. CutsOk'
  <2>1. i' - 1 = i
    BY <1>1, <1>2
  <2> QED
    BY <1>2, <1>3, <2>1 DEF CutsOk, CutOk
<1>5. ASSUME NEW k \in 1 .. i PROVE CutOk(train_offset'[k], k - 1)
  <2>1. k \in Nodes /\ k \in Nat
    BY <1>1 DEF Nodes
  <2>2. CASE k = i
    <3>1. train_offset'[k] = offset /\ i > 0
      BY <1>1, <2>1, <2>2 DEF Divide, IInv, TypeOK
    <3> QED
      BY <1>1, <2>2, <3>1 DEF CutsOk
  <2>3. CASE k # i
    <3>1. train_offset'[k] = train_offset[k] /\ k \in 1 .. i - 1
      BY <1>1, <2>1, <2>3 DEF Divide, IInv, TypeOK
    <3> QED
      BY <1>1, <3>1 DEF CutsOnlyLongLines, CutOk
  <2> QED
    BY <2>2, <2>3
<1>6. CutsOnlyLongLines'
  <2>1. 1 .. i' - 1 = 1 .. i
    BY <1>1, <1>2
  <2> QED
    BY <1>2, <1>5, <2>1 DEF CutsOnlyLongLines, CutOk
<1> QED
  BY <1>4, <1>6

\* A range starts in the middle of a line only when that line goes on for the
\* whole scan window or the whole share of the node before: the fallback of line
\* 78 and the safeguard of lines 126-130 are the only reasons to cut a line.
THEOREM DivideCutsOnlyLongLines == Spec => []CutsOnlyLongLines
<1>1. Init => CutsOk /\ CutsOnlyLongLines
  BY DEF Init, CutsOk, CutsOnlyLongLines
<1>2. ASSUME IInv, IInv', CutsOk, CutsOnlyLongLines, [Next]_vars
      PROVE  CutsOk' /\ CutsOnlyLongLines'
  <2>1. CASE Divide
    BY <1>2, <2>1, DivideCuts
  <2>2. CASE OpenFails \/ OpenSucceeds
    <3>1. i' = 0
      BY <1>2, <2>2 DEF OpenFails, OpenSucceeds, IInv, Weights
    <3> QED
      BY <3>1 DEF CutsOk, CutsOnlyLongLines
  <2>3. CASE Weigh
    <3>1. i' = 0 \/ pc' = "weigh"
      BY <2>3 DEF Weigh
    <3> QED
      BY <3>1 DEF CutsOk, CutsOnlyLongLines
  <2>4. CASE Return
    BY <1>2, <2>4 DEF Return, arguments, CutsOk, CutsOnlyLongLines, ideal_chunk, currWeight
  <2>5. CASE UNCHANGED vars
    BY <1>2, <2>5 DEF vars, arguments, CutsOk, CutOk, CutsOnlyLongLines,
       ideal_chunk, currWeight
  <2> QED
    BY <1>2, <2>1, <2>2, <2>3, <2>4, <2>5 DEF Next
<1> QED
  BY <1>1, <1>2, Invariance, PTL DEF Spec
=============================================================================
