----------------------------- MODULE Suggestion -----------------------------
(***************************************************************************)
(* What the console makes of a line that names no command: levenshtein and *)
(* find_closest_command of src/clientsCommand.cpp.  A word is a sequence   *)
(* of letters in lower case, to which both sides are converted before they *)
(* are compared; a command is its index in client_dispatch_table.          *)
(***************************************************************************)
EXTENDS Integers, Sequences, FiniteSets

CONSTANT Table   \* the names of client_dispatch_table

Commands == DOMAIN Table
NoCommand == 0

Least(S) == CHOOSE m \in S : \A x \in S : m <= x

-----------------------------------------------------------------------------
levenshteinIndel(s1, s2) ==   \* a substitution costs as much as two edits
  LET dp[i \in 0 .. Len(s1), j \in 0 .. Len(s2)] ==
        IF i = 0 THEN j
        ELSE IF j = 0 THEN i
        ELSE Least({dp[i - 1, j] + 1, dp[i, j - 1] + 1,
                    dp[i - 1, j - 1] + (IF s1[i] = s2[j] THEN 0 ELSE 2)})
  IN  dp[Len(s1), Len(s2)]

\* The table dp, row by row.
levenshtein(s1, s2) ==
  LET dp[i \in 0 .. Len(s1), j \in 0 .. Len(s2)] ==
        IF i = 0 THEN j
        ELSE IF j = 0 THEN i
        ELSE Least({dp[i - 1, j] + 1, dp[i, j - 1] + 1,
                    dp[i - 1, j - 1] + (IF s1[i] = s2[j] THEN 0 ELSE 1)})
  IN  dp[Len(s1), Len(s2)]

\* strstr(name, word) # NULL
Inside(word, name) ==
  \E from \in 1 .. Len(name) - Len(word) + 1 :
    word = SubSeq(name, from, from + Len(word) - 1)

threshold(word) == IF Len(word) \div 2 > 3 THEN Len(word) \div 2 ELSE 3

\* The first command whose name contains the word; otherwise the first of those
\* that are nearest to it, if they are near enough.
find_closest_command(word) ==
  LET containing == {c \in Commands : Inside(word, Table[c])}
      dist == [c \in Commands |-> levenshtein(word, Table[c])]
      nearest == {c \in Commands : \A d \in Commands : dist[c] <= dist[d]}
  IN  IF containing # {} THEN Least(containing)
      ELSE IF dist[Least(nearest)] <= threshold(word) THEN Least(nearest)
      ELSE NoCommand

-----------------------------------------------------------------------------
(* What it is meant to compute *)

\* The letters of s that stay, in place or changed, are matched in order with as
\* many letters of t; every other letter is deleted or inserted.
Ranked(S, n) == CHOOSE x \in S : Cardinality({y \in S : y < x}) = n - 1

Alignments(s, t) ==
  {st \in (SUBSET DOMAIN s) \X (SUBSET DOMAIN t) : Cardinality(st[1]) = Cardinality(st[2])}

Cost(s, t, st) ==
  LET kept == Cardinality(st[1])
  IN  (Len(s) - kept) + (Len(t) - kept)
        + Cardinality({n \in 1 .. kept : s[Ranked(st[1], n)] # t[Ranked(st[2], n)]})

\* The least number of single-letter edits that turn s into t.
EditDistance(s, t) == Least({Cost(s, t, st) : st \in Alignments(s, t)})

\* A command is a fair suggestion for the word if its name contains the word, or
\* none does and no other command can be reached with fewer edits.  Nothing is
\* suggested only if every command is more than the threshold away.
FairSuggestion(word, offered) ==
  IF \E c \in Commands : Inside(word, Table[c])
  THEN offered \in Commands /\ Inside(word, Table[offered])
  ELSE IF offered = NoCommand
       THEN \A c \in Commands : EditDistance(word, Table[c]) > threshold(word)
       ELSE /\ EditDistance(word, Table[offered]) <= threshold(word)
            /\ \A c \in Commands :
                 EditDistance(word, Table[offered]) <= EditDistance(word, Table[c])
=============================================================================
