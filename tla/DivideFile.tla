----------------------------- MODULE DivideFile -----------------------------
(***************************************************************************)
(* divideFileIntoChunks and adjustToNextLine of the Linux coordinator      *)
(* (src/Clients Commands/distributedcomputing/linuxdistributivecomputing   *)
(* .cpp): the train file is cut into one byte range per discovered node,   *)
(* the first node with weight 3 and every other one with weight 1, and     *)
(* each cut is moved forward to the end of the line it falls in.           *)
(*                                                                         *)
(* The arguments of a call (file size, number of nodes, where the newlines *)
(* are) are variables that Init chooses and no step changes, so that one   *)
(* run covers many calls.  The file's text is abstracted to the positions  *)
(* of its newlines.                                                        *)
(***************************************************************************)
EXTENDS Integers, FiniteSetsExt

CONSTANTS
  FileSizes,        \* sizes of the train file
  ConnectionCounts, \* numbers of nodes that answered the discovery
  Layouts(_),       \* Layouts(n): the sets of newline positions of a file of n bytes
  ScanWindow,       \* BUF_SIZE * 4, how far adjustToNextLine looks
  Garbage           \* what malloc left in the two arrays

ASSUME SizesAssumption == FileSizes \subseteq Nat
ASSUME CountsAssumption == ConnectionCounts \subseteq Nat
ASSUME LayoutsAssumption == \A n \in FileSizes : Layouts(n) \subseteq SUBSET (0 .. n - 1)
ASSUME WindowAssumption == ScanWindow \in Nat \ {0}
ASSUME GarbageAssumption == Garbage \notin Int

VARIABLES
  fileSize, totalConnections, newlines,   \* the call's arguments
  readable,           \* open and stat of the train file succeed
  pc,                 \* "open", "weigh", "divide", "returned"
  i,                  \* the loop variable of both loops
  totalWeight,
  offset,
  train_offset, train_chunk_size

arguments == <<fileSize, totalConnections, newlines, readable>>
vars == <<arguments, pc, i, totalWeight, offset, train_offset, train_chunk_size>>

Nodes == 0 .. totalConnections - 1
Last == totalConnections - 1

-----------------------------------------------------------------------------
\* The newline that ends the line at pos is the smallest of these, if any.
NewlinesAhead(pos) == {q \in newlines : pos <= q /\ q < pos + ScanWindow}

adjustToNewline(pos) ==   \* keeps the newline for the next node
  IF pos >= fileSize THEN fileSize
  ELSE IF NewlinesAhead(pos) = {} THEN pos
  ELSE Min(NewlinesAhead(pos))

adjustToNextLine(pos) ==
  IF pos >= fileSize THEN fileSize
  ELSE IF NewlinesAhead(pos) = {} THEN pos
  ELSE Min(NewlinesAhead(pos)) + 1

currWeight(k) == IF k = 0 THEN 3 ELSE 1

ideal_chunk(k) == (fileSize * currWeight(k)) \div totalWeight

adjusted_end_unbounded(k) ==   \* without the safeguard against long lines
  LET lineEnd == adjustToNextLine(offset + ideal_chunk(k))
  IN  IF k = Last THEN fileSize
      ELSE IF lineEnd <= offset THEN offset + ideal_chunk(k)
      ELSE lineEnd

adjusted_end_last(k) ==   \* the last node gets its share, not the remaining bytes
  IF k = Last THEN offset + ideal_chunk(k)
  ELSE adjustToNextLine(offset + ideal_chunk(k))

\* Where the range of node k ends when it starts at offset.
adjusted_end(k) ==
  LET tentative_end == offset + ideal_chunk(k)
      lineEnd == adjustToNextLine(tentative_end)
      rejected == lineEnd <= offset \/ lineEnd > tentative_end + ideal_chunk(k)
  IN  IF k = Last THEN fileSize
      ELSE IF rejected THEN tentative_end
      ELSE lineEnd

-----------------------------------------------------------------------------
Init ==
  /\ fileSize \in FileSizes
  /\ totalConnections \in ConnectionCounts
  /\ newlines \in Layouts(fileSize)
  /\ readable \in BOOLEAN
  /\ pc = "open"
  /\ i = 0
  /\ totalWeight = 0
  /\ offset = 0
  /\ train_offset = [k \in Nodes |-> Garbage]
  /\ train_chunk_size = [k \in Nodes |-> Garbage]

\* The two early returns: the arrays stay as malloc left them.
OpenFails ==
  /\ pc = "open"
  /\ ~readable \/ fileSize <= 0
  /\ pc' = "returned"
  /\ UNCHANGED <<arguments, i, totalWeight, offset, train_offset, train_chunk_size>>

OpenSucceeds ==
  /\ pc = "open"
  /\ readable /\ fileSize > 0
  /\ pc' = "weigh"
  /\ UNCHANGED <<arguments, i, totalWeight, offset, train_offset, train_chunk_size>>

WeighOneMore ==   \* i <= totalConnections
  /\ pc = "weigh"
  /\ IF i <= totalConnections
     THEN /\ totalWeight' = totalWeight + currWeight(i)
          /\ i' = i + 1
          /\ pc' = pc
     ELSE /\ i' = 0
          /\ pc' = "divide"
          /\ totalWeight' = totalWeight
  /\ UNCHANGED <<arguments, offset, train_offset, train_chunk_size>>

\* One iteration of the loop that sums the weights, or its exit.
Weigh ==
  /\ pc = "weigh"
  /\ IF i < totalConnections
     THEN /\ totalWeight' = totalWeight + currWeight(i)
          /\ i' = i + 1
          /\ pc' = pc
     ELSE /\ i' = 0
          /\ pc' = "divide"
          /\ totalWeight' = totalWeight
  /\ UNCHANGED <<arguments, offset, train_offset, train_chunk_size>>

DivideByIdeal ==   \* the next range starts where the ideal chunk ends
  /\ pc = "divide"
  /\ i < totalConnections
  /\ train_offset' = [train_offset EXCEPT ![i] = offset]
  /\ train_chunk_size' = [train_chunk_size EXCEPT ![i] = adjusted_end(i) - offset]
  /\ offset' = offset + ideal_chunk(i)
  /\ i' = i + 1
  /\ UNCHANGED <<arguments, pc, totalWeight>>

\* One iteration of the loop that fixes the ranges.
Divide ==
  /\ pc = "divide"
  /\ i < totalConnections
  /\ train_offset' = [train_offset EXCEPT ![i] = offset]
  /\ train_chunk_size' = [train_chunk_size EXCEPT ![i] = adjusted_end(i) - offset]
  /\ offset' = adjusted_end(i)
  /\ i' = i + 1
  /\ UNCHANGED <<arguments, pc, totalWeight>>

Return ==
  /\ pc = "divide"
  /\ i >= totalConnections
  /\ pc' = "returned"
  /\ UNCHANGED <<arguments, i, totalWeight, offset, train_offset, train_chunk_size>>

Next == OpenFails \/ OpenSucceeds \/ Weigh \/ Divide \/ Return

Spec == Init /\ [][Next]_vars

-----------------------------------------------------------------------------
(* Properties *)

\* The variables stay in their types; the arrays hold integers or what malloc left.
TypeOK ==
  /\ fileSize \in FileSizes
  /\ totalConnections \in ConnectionCounts
  /\ newlines \subseteq 0 .. fileSize - 1
  /\ readable \in BOOLEAN
  /\ pc \in {"open", "weigh", "divide", "returned"}
  /\ i \in 0 .. totalConnections
  /\ totalWeight \in Nat
  /\ offset \in Nat
  /\ train_offset \in [Nodes -> Int \cup {Garbage}]
  /\ train_chunk_size \in [Nodes -> Int \cup {Garbage}]

Divided == pc = "returned" /\ readable /\ fileSize > 0

\* The ranges fixed so far follow each other without a gap or an overlap from
\* byte 0 on, and once the division is complete the last one ends at the end of
\* the file: every byte is assigned to one node (lines 107-139).
ChunksTile ==
  /\ pc \in {"divide", "returned"} /\ i > 0 =>
       /\ train_offset[0] = 0
       /\ \A k \in 1 .. i - 1 :
            train_offset[k] = train_offset[k - 1] + train_chunk_size[k - 1]
       /\ offset = train_offset[i - 1] + train_chunk_size[i - 1]
  /\ Divided /\ totalConnections > 0 => offset = fileSize

\* The safeguard of lines 126-130: no node but the last gets a negative range
\* or more than twice the share its weight entitles it to, wherever the lines end.
SkewBounded ==
  pc \in {"divide", "returned"} =>
    \A k \in 0 .. i - 1 :
      k # Last => train_chunk_size[k] \in 0 .. 2 * ideal_chunk(k)

\* A range may start in the middle of a line only when that line goes on for
\* the whole scan window or for a whole ideal chunk: the fallback of line 78 and
\* the safeguard are the only reasons to cut a line.
CutsOnlyLongLines ==
  pc \in {"divide", "returned"} =>
    \A k \in 1 .. i - 1 :
      LET b == train_offset[k]
      IN  b < fileSize /\ b > 0 /\ b - 1 \notin newlines =>
            \A q \in newlines :
              q >= b => q - b >= ScanWindow \/ q - b >= ideal_chunk(k - 1)

\* No line within reach of a scan is longer than n bytes.
ShortLines(n) ==
  \A p \in 0 .. fileSize - 1 :
    NewlinesAhead(p) # {} => \E q \in newlines : p <= q /\ q < p + n

\* A range a node can be sent: it lies inside the file.
InsideFile(k) ==
  /\ train_offset[k] >= 0
  /\ train_chunk_size[k] >= 0
  /\ train_offset[k] + train_chunk_size[k] <= fileSize

\* When every line is short against the file's share per node, the forward
\* moves of the cuts cannot add up past the end of the file: every node,
\* the last one included, gets a range inside the file.
ShortLinesStayInside ==
  \A n \in 1 .. fileSize :
    /\ Divided
    /\ ShortLines(n)
    /\ (totalConnections - 1) * (totalConnections + 2) * n <= fileSize
    => \A k \in Nodes : InsideFile(k)

\* "last node gets remaining" (line 119): what is left for the last node is a
\* number of bytes, so it cannot be negative.
LastNodeGetsRemaining ==
  Divided /\ totalConnections > 0 => train_chunk_size[Last] >= 0
=============================================================================
