----------------------------- MODULE Discovery -----------------------------
(***************************************************************************)
(* How a console finds nodes: sendRequest of src/Clients Commands/list     *)
(* connections.cpp broadcasts "status" and collects replies for as long as *)
(* they come within a second of each other, and udp_discovery_responder of *)
(* src/udpServer.cpp answers on every node.  Datagrams may be lost and     *)
(* delivered twice.  Each request has a socket of its own, so a reply that *)
(* comes after it was closed reaches nobody.  A socket that refuses the    *)
(* timeout is used without one: then only a reply ends the wait for it.    *)
(***************************************************************************)
EXTENDS Naturals, Sequences

CONSTANTS
  Hosts,     \* the nodes that the broadcast can reach, the console's own one too
  MAX_IPS    \* entries of ip_list

ASSUME LimitAssumption == MAX_IPS \in Nat \ {0}

VARIABLES
  step,       \* where the console's thread is
  ended,      \* the console's process is gone
  heard,      \* the nodes whose responder has yet to read the broadcast
  replies,    \* the nodes whose reply is on its way
  ip_list,    \* the entries of ip_list, ip_status has as many
  memory,     \* what the two pointers point to: "null", "live" or "freed"
  terminated  \* a NULL follows the entries

datagrams == <<heard, replies>>
list == <<ip_list, memory, terminated>>

Running == ~ended
goes(from, to) == step = from /\ step' = to

DiscoveryInit ==
  /\ step = "idle" /\ ended = FALSE
  /\ heard = {} /\ replies = {}
  /\ ip_list = <<>> /\ memory = "null" /\ terminated = FALSE

-----------------------------------------------------------------------------
(* udp_discovery_responder *)

Respond(h) ==
  /\ h \in heard
  /\ heard' = heard \ {h}
  /\ replies' = replies \cup {h}
  /\ UNCHANGED <<step, ended, list>>

LoseReply(h) ==
  /\ h \in replies
  /\ replies' = replies \ {h}
  /\ UNCHANGED <<step, ended, heard, list>>

-----------------------------------------------------------------------------
(* sendRequest *)

\* setsockopt or sendto fails: the two pointers keep the last command's value.
RequestFails ==
  /\ Running
  /\ goes("asking", "answered")
  /\ UNCHANGED <<ended, datagrams, list>>

\* One of the two mallocs fails, and both pointers are freed.
AllocationFails ==
  /\ Running
  /\ goes("asking", "answered")
  /\ memory' \in {"null", "freed"}
  /\ ip_list' = <<>> /\ terminated' = FALSE
  /\ UNCHANGED <<ended, datagrams>>

\* setsockopt of SO_RCVTIMEO may fail, and is only complained about: "waiting" is
\* collecting without a timeout.
Broadcast ==
  /\ Running
  /\ goes("asking", "collecting") \/ goes("asking", "waiting")
  /\ heard' \in SUBSET Hosts
  /\ ip_list' = <<>> /\ memory' = "live" /\ terminated' = FALSE
  /\ UNCHANGED <<ended, replies>>

Receiving == step \in {"collecting", "waiting"}

ReceiveOneMore(h) ==   \* count > MAX_IPS
  /\ Running /\ Receiving
  /\ h \in replies
  /\ replies' \in {replies, replies \ {h}}
  /\ \/ /\ Len(ip_list) <= MAX_IPS
        /\ ip_list' = Append(ip_list, h)
        /\ UNCHANGED step
     \/ /\ Len(ip_list) > MAX_IPS
        /\ step' = "closing"
        /\ UNCHANGED ip_list
  /\ UNCHANGED <<ended, heard, memory, terminated>>

\* A reply is recvfrom's next datagram, and may come again; the one after the last
\* that fits ends the loop.
ReceiveReply(h) ==
  /\ Running /\ Receiving
  /\ h \in replies
  /\ replies' \in {replies, replies \ {h}}
  /\ \/ /\ Len(ip_list) < MAX_IPS
        /\ ip_list' = Append(ip_list, h)
        /\ UNCHANGED step
     \/ /\ Len(ip_list) >= MAX_IPS
        /\ step' = "closing"
        /\ UNCHANGED ip_list
  /\ UNCHANGED <<ended, heard, memory, terminated>>

\* There is no memory for the entry: the list ends before it.
NoMemory(h) ==
  /\ Running /\ Receiving
  /\ h \in replies /\ Len(ip_list) < MAX_IPS
  /\ replies' \in {replies, replies \ {h}}
  /\ step' = "closing"
  /\ UNCHANGED <<ended, heard, list>>

\* A second without a reply, if the socket has a timeout.
Timeout ==
  /\ Running
  /\ goes("collecting", "closing")
  /\ UNCHANGED <<ended, datagrams, list>>

\* Close the socket and terminate the list, if there is room for it.
EndRequest ==
  /\ Running
  /\ goes("closing", "answered")
  /\ terminated' = (Len(ip_list) < MAX_IPS)
  /\ heard' = {} /\ replies' = {}
  /\ UNCHANGED <<ended, ip_list, memory>>

sendRequest ==
  \/ RequestFails \/ AllocationFails \/ Broadcast
  \/ \E h \in Hosts : ReceiveReply(h) \/ NoMemory(h)
  \/ Timeout \/ EndRequest

udp_discovery_responder == \E h \in Hosts : Respond(h) \/ LoseReply(h)
=============================================================================
