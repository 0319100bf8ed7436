----------------------------- MODULE HostQueues -----------------------------
(***************************************************************************)
(* The packets of one host on their way to the message queues.  A raw      *)
(* socket gets a copy of every packet sent to its address, whatever the    *)
(* ports; so each reader of a raw socket, a thread in next_msg or the      *)
(* accept loop of a server, puts each packet into the queue of the socket  *)
(* it is for, and takes from the queue of its own socket only.  mq_send    *)
(* blocks on a full queue.                                                 *)
(*                                                                         *)
(* The sockets are clients, open from the start, and those a server        *)
(* accepts.  Packets are numbered in the order in which they are sent.     *)
(***************************************************************************)
EXTENDS Naturals, Sequences, Functions, FiniteSets

CONSTANTS Clients, Peers,  \* sockets of clients, and the ones of a server
          Listener,        \* the raw socket and the thread of socket_serv
          Threads, SockOf, \* threads that call next_msg, and their sockets
          Capacity,        \* TCP_INPUT_MQ_MAXMSG, 100 in the code
          Dests,           \* the sockets the packets 1, 2, ... are for
          Corrupt,         \* packets with a wrong checksum
          Strays,          \* packets the receive worker has no case for
          Idlers,          \* sockets whose application may stop reading
          MaxAccepts,      \* bound: calls of accept_one_client
          MaxCloses        \* bound: sockets destroyed

Socks == Clients \cup Peers
Raws == Socks \cup {Listener}
Packets == 1 .. Len(Dests)

ASSUME HostAssumption ==
    /\ Clients \cap Peers = {} /\ Listener \notin Socks \cup Threads
    /\ SockOf \in [Threads -> Socks] /\ Dests \in Seq(Socks)
    /\ Capacity \in Nat \ {0} /\ Corrupt \cup Strays \subseteq Packets
    /\ Idlers \subseteq Socks /\ MaxAccepts \in Nat /\ MaxCloses \in Nat

VARIABLES open,     \* sockets whose label names a queue
          raw, q,   \* what a raw socket and a queue hold
          pc, cur,  \* a thread, and the packet it has in hand
          mq_set,   \* FD_ISSET(mqd) after its select
          sent,     \* number of the last packet sent
          arrived,  \* history: packets queued for a socket, first copies only
          late,     \* history: sockets that a reader came too late for
          accepts, closes

threads == <<pc, cur, mq_set>>
history == <<arrived, late>>
vars == <<open, raw, q, threads, sent, history, accepts, closes>>

Readers == Threads \cup {Listener}
RawOf(t) == IF t = Listener THEN Listener ELSE SockOf[t]
Full(s) == Len(q[s]) >= Capacity
NoPacket == 0

\* accept_one_client has returned s: its threads run
HandedOut(s) == ~(pc[Listener] = "enqueue" /\ Dests[cur[Listener]] = s)

Init ==
    /\ open = Clients
    /\ raw = [r \in Raws |-> <<>>] /\ q = [s \in Socks |-> <<>>]
    /\ pc = [t \in Readers |-> "idle"]
    /\ cur = [t \in Readers |-> NoPacket]
    /\ mq_set = [t \in Readers |-> FALSE]
    /\ sent = 0
    /\ arrived = [s \in Socks |-> <<>>] /\ late = {}
    /\ accepts = 0 /\ closes = 0

Goto(t, l) == pc' = [pc EXCEPT ![t] = l]

\* mq_send of a packet to the queue of s
Queue(s, p) ==
    /\ q' = [q EXCEPT ![s] = Append(@, p)]
    /\ arrived' = [arrived EXCEPT ![s] = IF p \in Range(@) THEN @ ELSE Append(@, p)]

\* Packets sent to s, other than p, that have not come to its queue
Missing(s, p) == {n \in 1 .. sent : Dests[n] = s} \ (Range(arrived[s]) \cup Corrupt \cup {p})

----------------------------------------------------------------------------

\* transfer_send_to: the kernel copies the packet to every raw socket
send ==
    /\ sent < Len(Dests)
    /\ sent' = sent + 1
    /\ raw' = [r \in Raws |-> IF r \in open \cup {Listener}
                              THEN Append(raw[r], sent + 1) ELSE raw[r]]
    /\ late' = IF pc[Listener] = "enqueue" /\ Dests[cur[Listener]] = Dests[sent + 1]
               THEN late \cup {Dests[sent + 1]} ELSE late
    /\ UNCHANGED <<open, q, threads, arrived, accepts, closes>>

(* next_msg, with s the socket of t. *)

(* Mutant: the queue is left out of the descriptors of select. *)
select_RawOnly(t) ==
    LET s == SockOf[t] IN
    /\ pc[t] = "idle" /\ s \in open /\ HandedOut(s)
    /\ raw[s] # <<>>
    /\ mq_set' = [mq_set EXCEPT ![t] = q[s] # <<>>]
    /\ Goto(t, "recvfrom")
    /\ UNCHANGED <<open, raw, q, cur, sent, history, accepts, closes>>

\* select returns: one of the two descriptors can be read
select(t) ==
    LET s == SockOf[t] IN
    /\ pc[t] = "idle" /\ s \in open /\ HandedOut(s)
    /\ raw[s] # <<>> \/ q[s] # <<>>
    /\ mq_set' = [mq_set EXCEPT ![t] = q[s] # <<>>]
    /\ Goto(t, IF raw[s] # <<>> THEN "recvfrom" ELSE "get_msg")
    /\ UNCHANGED <<open, raw, q, cur, sent, history, accepts, closes>>

(* Mutant: get_msg is called whatever select has said of the queue. *)
AfterPut_Get(t) == IF t = Listener THEN "recvfrom" ELSE "get_msg"

\* Where a thread goes when it has put a packet: get_msg or throw timeout(),
\* and for the listener the next turn of its loop
AfterPut(t) ==
    IF t = Listener THEN "recvfrom" ELSE IF mq_set[t] THEN "get_msg" ELSE "idle"

\* transfer_recvfrom and check_msg_corruption
recvfrom(t) ==
    /\ pc[t] = "recvfrom" /\ raw[RawOf(t)] # <<>>
    /\ LET p == Head(raw[RawOf(t)]) IN
         /\ raw' = [raw EXCEPT ![RawOf(t)] = Tail(@)]
         /\ IF p \in Corrupt
            THEN Goto(t, AfterPut(t)) /\ UNCHANGED cur
            ELSE /\ cur' = [cur EXCEPT ![t] = p]
                 /\ Goto(t, IF t = Listener /\ Dests[p] \in Peers
                            THEN "accept" ELSE "put_msg")
    /\ UNCHANGED <<open, q, mq_set, sent, history, accepts, closes>>

(* Mutant: the queue is opened with O_NONBLOCK, and the error is caught. *)
put_msg_NonBlocking(t) ==
    LET s == Dests[cur[t]] IN
    /\ pc[t] = "put_msg"
    /\ IF s \in open /\ ~Full(s) THEN Queue(s, cur[t]) ELSE UNCHANGED <<q, arrived>>
    /\ Goto(t, AfterPut(t)) /\ cur' = [cur EXCEPT ![t] = NoPacket]
    /\ UNCHANGED <<open, raw, mq_set, sent, late, accepts, closes>>

\* put_msg_to_q: the queue is opened by its label, if there is one
put_msg(t) ==
    LET s == Dests[cur[t]] IN
    /\ pc[t] = "put_msg"
    /\ IF s \in open /\ Full(s)
       THEN Goto(t, "mq_send") /\ UNCHANGED <<q, arrived, cur>>
       ELSE /\ IF s \in open THEN Queue(s, cur[t]) ELSE UNCHANGED <<q, arrived>>
            /\ Goto(t, AfterPut(t)) /\ cur' = [cur EXCEPT ![t] = NoPacket]
    /\ UNCHANGED <<open, raw, mq_set, sent, late, accepts, closes>>

\* A blocked mq_send goes on when the queue has room again
mq_send(t) ==
    LET s == Dests[cur[t]] IN
    /\ pc[t] = "mq_send" /\ ~Full(s)
    /\ Queue(s, cur[t])
    /\ Goto(t, AfterPut(t)) /\ cur' = [cur EXCEPT ![t] = NoPacket]
    /\ UNCHANGED <<open, raw, mq_set, sent, late, accepts, closes>>

\* mq_receive; a packet that is none of the worker's is enqueued again
get_msg(t) ==
    LET s == SockOf[t]  p == Head(q[s]) IN
    /\ pc[t] = "get_msg" /\ q[s] # <<>>
    /\ q' = [q EXCEPT ![s] = Tail(@)]
    /\ mq_set' = [mq_set EXCEPT ![t] = FALSE]
    /\ IF p \in Strays
       THEN Goto(t, "put_msg") /\ cur' = [cur EXCEPT ![t] = p]
       ELSE Goto(t, "idle") /\ UNCHANGED cur
    /\ UNCHANGED <<open, raw, sent, history, accepts, closes>>

\* The receive worker waits for an application that reads no more
stop_reading(t) ==
    /\ pc[t] = "idle" /\ SockOf[t] \in Idlers \cap open /\ HandedOut(SockOf[t])
    /\ Goto(t, "parked")
    /\ UNCHANGED <<open, raw, q, cur, mq_set, sent, history, accepts, closes>>

----------------------------------------------------------------------------
(* accept_one_client.                                                      *)

accept_call ==
    /\ pc[Listener] = "idle" /\ accepts < MaxAccepts
    /\ accepts' = accepts + 1
    /\ Goto(Listener, "recvfrom")
    /\ UNCHANGED <<open, raw, q, cur, mq_set, sent, history, closes>>

\* new socket_full_impl(id): a new raw socket and a new queue
accept_new(s) ==
    /\ pc[Listener] = "accept" /\ Dests[cur[Listener]] = s /\ s \notin open
    /\ open' = open \cup {s}
    /\ late' = late \cup {x \in open : Missing(x, NoPacket) # {}}
                    \cup {x \in {s} : Missing(s, cur[Listener]) # {}}
    /\ Goto(Listener, "enqueue")
    /\ UNCHANGED <<raw, q, cur, mq_set, sent, arrived, accepts, closes>>

\* The label is in use: the sock is loaded, it has no queue, and enqueue_msg
\* goes through a null pointer
accept_live(s) ==
    /\ pc[Listener] = "accept" /\ Dests[cur[Listener]] = s /\ s \in open
    /\ pc' = [t \in Readers |-> IF t = Listener \/ SockOf[t] \in Peers
                                THEN "crashed" ELSE pc[t]]
    /\ UNCHANGED <<open, raw, q, cur, mq_set, sent, history, accepts, closes>>

\* ret->enqueue_msg(*input_msg), which may block like any mq_send
enqueue(s) ==
    /\ pc[Listener] = "enqueue" /\ Dests[cur[Listener]] = s /\ ~Full(s)
    /\ Queue(s, cur[Listener])
    /\ Goto(Listener, "idle") /\ cur' = [cur EXCEPT ![Listener] = NoPacket]
    /\ UNCHANGED <<open, raw, mq_set, sent, late, accepts, closes>>

\* The socket is destroyed: its threads have ended, its queue has no name any
\* more, and who is blocked on that queue stays so
close(s) ==
    /\ s \in open /\ closes < MaxCloses
    /\ \A t \in Threads : SockOf[t] = s => pc[t] = "idle"
    /\ HandedOut(s)
    /\ closes' = closes + 1
    /\ open' = open \ {s}
    /\ raw' = [raw EXCEPT ![s] = <<>>] /\ q' = [q EXCEPT ![s] = <<>>]
    /\ arrived' = [arrived EXCEPT ![s] = <<>>]
    /\ pc' = [t \in Readers |-> IF pc[t] = "mq_send" /\ Dests[cur[t]] = s
                                THEN "stuck" ELSE pc[t]]
    /\ UNCHANGED <<cur, mq_set, sent, late, accepts>>

----------------------------------------------------------------------------

Step(t) ==
    \/ t \in Threads /\ (select(t) \/ get_msg(t))
    \/ recvfrom(t) \/ put_msg(t) \/ mq_send(t)

Accept == \E s \in Peers : accept_new(s) \/ accept_live(s) \/ enqueue(s)

Next ==
    \/ send \/ accept_call \/ Accept
    \/ \E t \in Readers : Step(t)
    \/ \E t \in Threads : stop_reading(t)
    \/ \E s \in Socks : close(s)

Spec == Init /\ [][Next]_vars

(* A thread that can run does; a blocked mq_send that finds room again and  *)
(* again gets in (the kernel wakes the senders of a queue in turn).         *)
FairSpec ==
    /\ Spec /\ WF_vars(Accept)
    /\ \A t \in Readers : WF_vars(Step(t)) /\ SF_vars(mq_send(t))

----------------------------------------------------------------------------
(* Properties.                                                             *)

(* Every variable has its type: no queue ever holds more than its capacity, *)
(* and a packet in hand or queued is one that was sent and is not corrupt.   *)
TypeOK ==
    /\ open \subseteq Socks /\ late \subseteq Socks
    /\ raw \in [Raws -> Seq(1 .. sent)]
    /\ q \in [Socks -> Seq((1 .. sent) \ Corrupt)]
    /\ \A s \in Socks : Len(q[s]) <= Capacity
    /\ pc \in [Readers -> {"idle", "recvfrom", "put_msg", "mq_send", "get_msg",
                           "accept", "enqueue", "parked", "stuck", "crashed"}]
    /\ cur \in [Readers -> 0 .. sent]
    /\ mq_set \in [Readers -> BOOLEAN]
    /\ sent \in 0 .. Len(Dests)

(* However many readers race to queue a packet, and however late the slow    *)
(* ones are with their copies, the first copies of the packets for a socket  *)
(* come to its queue in the order in which they were sent, unless a reader   *)
(* came into being while some of them were still on their way, or two        *)
(* threads take turns at one raw socket.                                    *)
FirstCopiesInOrder ==
    (\A t, u \in Threads : SockOf[t] = SockOf[u] => t = u) =>
        \A s \in Socks \ late : \A i, j \in DOMAIN arrived[s] :
            i < j => arrived[s][i] < arrived[s][j]

(* The two reads of next_msg do not block: what select has reported is there *)
(* when recvfrom and get_msg ask for it, as long as one thread reads for the *)
(* socket.  Its mq_send to another socket may still block.                   *)
SelectedIsThere ==
    \A t \in Threads :
        (\A u \in Threads : SockOf[u] = SockOf[t] => u = t) =>
            /\ pc[t] = "recvfrom" => raw[SockOf[t]] # <<>>
            /\ pc[t] = "get_msg" => q[SockOf[t]] # <<>>

Sending == {"put_msg", "mq_send"}

(* Readers that block each other: each of W does nothing more, or waits for  *)
(* room in a queue that only others of W read.                              *)
Wedge(W) ==
    \A t \in W :
        \/ pc[t] \in {"parked", "stuck", "crashed"}
        \/ /\ pc[t] \in {"mq_send", "enqueue"} /\ Full(Dests[cur[t]])
           /\ IF HandedOut(Dests[cur[t]])
              THEN \A u \in Threads : SockOf[u] = Dests[cur[t]] => u \in W
              ELSE Listener \in W

Wedged(t) == \E W \in SUBSET Readers : t \in W /\ Wedge(W)

(* put_msg_to_q returns, although it blocks on a full queue, unless its      *)
(* caller is one of a group of readers that wait for each other, or for one   *)
(* that has stopped for good.                                              *)
PutReturns ==
    \A t \in Readers :
        pc[t] \in Sending ~> pc[t] \notin Sending \/ Wedged(t)

(* A packet for a client comes to its queue whoever reads it first, unless   *)
(* the client is closed or its reader cannot go on.                        *)
Delivered ==
    \A n \in Packets \ Corrupt :
        sent >= n /\ Dests[n] \in Clients
          ~> \/ n \in Range(arrived[Dests[n]]) \/ Dests[n] \notin open
             \/ \E t \in Threads : SockOf[t] = Dests[n] /\ Wedged(t)
=============================================================================
