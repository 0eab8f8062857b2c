----------------------------- MODULE MCConsole -----------------------------
EXTENDS Console

\* Names and lines over four letters.  As in client_dispatch_table the fourth name,
\* connect, lies within the first, listConnections.
MCTable == << <<"b","a","c","a">>, <<"c","a","b">>, <<"a","b","b">>, <<"a","c","a">>,
              <<"b","b","c">>, <<"c","c","b">>, <<"b","c","b">> >>

\* All names but that of connect, an empty line, lines that are nearest to exit and to
\* status, one that nothing is near to, and a long one, which may be farther from the
\* name that is suggested.
MCLines == {MCTable[1], MCTable[2], MCTable[3], MCTable[5], MCTable[6], MCTable[7],
            <<>>, <<"a","d","d">>, <<"d","a","d">>, <<"d","d","d","d">>,
            <<"b","a","c","a","d","d","d","d">>}

CONSTANTS c1, c2, o1, o2

\* Any two connections: two clients, a client and a call, or two calls.
MCInit ==
  /\ ConsoleInit
  /\ <<{c \in Clients : peer[c] = "idle"}, left>>
       \in {<<{c1, c2}, {}>>, <<{c1}, {o1}>>, <<{}, {o1, o2}>>}

Asks(c) == IF peer'[c] \in Requests /\ peer'[c] # peer[c] THEN {peer'[c]} ELSE {}

\* The first client begins with any command, the second with a short one.  What a
\* session types afterwards is all the same to the process, and the session waits for
\* an answer whatever it is: it is an unknown command.  The process's user mistypes a
\* command only as long as there is a connection for one.
Bounded ==
  /\ left = {} => suggestion' = NoCommand
  /\ peer[c1] = "answered" => Asks(c1) \subseteq {"hello"}
  /\ Asks(c2) \subseteq IF peer[c2] = "connected" THEN {"receiveFile"} ELSE {}

MCSpec == MCInit /\ [][Next]_vars /\ Fairness
=============================================================================
