------------------------------ MODULE Handshake ------------------------------
(***************************************************************************)
(* Opening a connection: socket_full_impl::handshake (src/src/newimpl.cpp) *)
(* and establish_handshaker (src/src/tcp_proto_handshaker.h) on both ends. *)
(*                                                                         *)
(* Each direction has its own three-way exchange: send() (or connect())    *)
(* asks with a SYN, the peer's recv() answers.  At one socket the thread   *)
(* in send(), the thread in recv() and the receive worker all take their   *)
(* messages from the one message queue of the socket, and share the one    *)
(* INTERNAL_STATE.  What a thread takes and does not want is dropped.      *)
(*                                                                         *)
(* The network may lose (a message stays in net for ever), repeat and      *)
(* reorder.  A socket may be closed and opened again under the same pair   *)
(* of addresses, while messages of its earlier life are still under way.   *)
(***************************************************************************)
EXTENDS SeqWindow, Sequences

CONSTANTS
    A, B,          \* the two ends
    Servers,       \* ends whose socket comes from accept_one_client
    SendCallers,   \* ends whose application calls send() (or connect())
    RecvCallers,   \* ends whose application calls recv()
    MaxDups,       \* bound: messages delivered once more
    MaxLosses,     \* bound: messages lost by the Lose action
    MaxCloses      \* bound: sockets closed

ASSUME HandshakeAssumption ==
    /\ A # B
    /\ Servers \subseteq {A, B} /\ SendCallers \subseteq {A, B}
    /\ RecvCallers \subseteq {A, B}
    /\ MaxDups \in Nat /\ MaxLosses \in Nat /\ MaxCloses \in Nat

VARIABLES
    open,       \* the socket exists
    state,      \* INTERNAL_STATE area, shared by both directions
    send_seq,   \* send_remebered_seq
    recv_seq,   \* recv_remebered_seq
    recv_ack,   \* recv_remebered_ack_seq
    spc, rpc,   \* handshake(false) and handshake(true): where they are
    wpc,        \* the receive worker
    swin, rwin, \* where the send and the receive window start
    sest, rest, \* the window was put there by a handshake
    queue,      \* the message queue of the socket
    net,        \* messages on their way
    drawn,      \* history: what rand32 has returned
    begun,      \* history: <<end, start>> of every established send window
    answered,   \* history: <<end, start, ack>> of every SYN ACK sent
    dups, losses, closes

memVars == <<open, state, send_seq, recv_seq, recv_ack>>
pcVars  == <<spc, rpc, wpc>>
winVars == <<swin, rwin, sest, rest, begun, answered>>
boundVars == <<dups, losses, closes>>
vars == <<memVars, pcVars, winVars, queue, net, drawn, boundVars>>

Nodes == {A, B}
Peer(n) == IF n = A THEN B ELSE A

(* seq + 1, in a tcp_seq. *)
SuccSeq(s) == tcp_seq(s + 1)

(* The messages send_syn, send_syn_ack and output_send_ack build. *)
SynMsg(to, s)       == [to |-> to, kind |-> "syn", seq |-> s, ack |-> 0]
SynAckMsg(to, s, a) == [to |-> to, kind |-> "syn_ack", seq |-> s, ack |-> a]
AckMsg(to, s, a)    == [to |-> to, kind |-> "ack", seq |-> s, ack |-> a]

(* rand32 returns no number twice. *)
Rand(s) == s \notin drawn /\ drawn' = drawn \cup {s}

-----------------------------------------------------------------------------
Init ==
    /\ open = [n \in Nodes |-> n \notin Servers]
    /\ state = [n \in Nodes |-> "CLOSED"]
    /\ send_seq = [n \in Nodes |-> 0]
    /\ recv_seq = [n \in Nodes |-> 0] /\ recv_ack = [n \in Nodes |-> 0]
    /\ spc = [n \in Nodes |-> "idle"] /\ rpc = [n \in Nodes |-> "idle"]
    /\ wpc = [n \in Nodes |-> "off"]
    /\ swin = [n \in Nodes |-> 0] /\ rwin = [n \in Nodes |-> 0]
    /\ sest = [n \in Nodes |-> FALSE] /\ rest = [n \in Nodes |-> FALSE]
    /\ queue = [n \in Nodes |-> << >>]
    /\ net = {} /\ drawn = {} /\ begun = {} /\ answered = {}
    /\ dups = 0 /\ losses = 0 /\ closes = 0

-----------------------------------------------------------------------------
(* Messages between network and queue *)

(* put_msg_to_q: a message that arrives at the host goes to the queue of   *)
(* the socket it is for, by whichever socket's next_msg reads it from the  *)
(* raw socket; every one of them may, so it may be queued repeatedly.      *)
Deliver(m) ==
    /\ open[m.to]
    /\ queue' = [queue EXCEPT ![m.to] = Append(@, m)]
    /\ \/ net' = net \ {m} /\ UNCHANGED dups
       \/ dups < MaxDups /\ dups' = dups + 1 /\ UNCHANGED net
    /\ UNCHANGED <<memVars, pcVars, winVars, drawn, losses, closes>>

(* accept_one_client: the first message from a client makes the socket and *)
(* is queued to it.                                                        *)
Accept(m) ==
    /\ m.to \in Servers /\ ~open[m.to]
    /\ open' = [open EXCEPT ![m.to] = TRUE]
    /\ queue' = [queue EXCEPT ![m.to] = <<m>>]
    /\ \/ net' = net \ {m} /\ UNCHANGED dups
       \/ dups < MaxDups /\ dups' = dups + 1 /\ UNCHANGED net
    /\ UNCHANGED <<state, send_seq, recv_seq, recv_ack, pcVars, winVars, drawn,
                   losses, closes>>

Lose(m) ==
    /\ losses < MaxLosses
    /\ losses' = losses + 1
    /\ net' = net \ {m}
    /\ UNCHANGED <<memVars, pcVars, winVars, queue, drawn, dups, closes>>

(* next_msg: the oldest message of the queue, whoever asks for it. *)
NextMsg(n) ==
    /\ queue[n] # << >>
    /\ queue' = [queue EXCEPT ![n] = Tail(@)]

-----------------------------------------------------------------------------
(* The thread in send() or connect(): handshake(false) *)

(* send_establish: the SYN. *)
SendEstablish(n) ==
    \E s \in Seqs :
        /\ Rand(s)
        /\ send_seq' = [send_seq EXCEPT ![n] = s]
        /\ net' = net \cup {SynMsg(Peer(n), s)}

SendCall(n) ==
    /\ n \in SendCallers /\ open[n] /\ spc[n] = "idle"
    /\ IF state[n] = "CLOSED"
         THEN SendEstablish(n) /\ spc' = [spc EXCEPT ![n] = "next_syn_ack"]
         ELSE /\ spc' = [spc EXCEPT ![n] = "done"]
              /\ UNCHANGED <<drawn, send_seq, net>>
    /\ UNCHANGED <<open, state, recv_seq, recv_ack, rpc, wpc, winVars, queue,
                   boundVars>>

(* Mutant: any SYN ACK will do. *)
IsMySynAck_Any(n, m) == m.kind = "syn_ack"

(* send_on_syn_ack takes the answer to the SYN of this socket only. *)
IsMySynAck(n, m) == m.kind = "syn_ack" /\ m.ack = SuccSeq(send_seq[n])

(* send_established *)
SendEstablished(n, s) ==
    /\ swin' = [swin EXCEPT ![n] = s]
    /\ sest' = [sest EXCEPT ![n] = TRUE]
    /\ begun' = begun \cup {<<n, s>>}
    /\ state' = [state EXCEPT ![n] = "ESTABLISHED"]

(* One turn of next_syn_ack. *)
TakeSynAck(n) ==
    /\ spc[n] = "next_syn_ack"
    /\ NextMsg(n)
    /\ LET m == Head(queue[n]) IN
         IF IsMySynAck(n, m)
           THEN /\ net' = net \cup {AckMsg(Peer(n), m.ack, SuccSeq(m.seq))}
                /\ SendEstablished(n, SuccSeq(m.seq))
                /\ spc' = [spc EXCEPT ![n] = "done"]
           ELSE UNCHANGED <<net, swin, sest, begun, state, spc>>
    /\ UNCHANGED <<open, send_seq, recv_seq, recv_ack, rpc, wpc, rwin, rest,
                   answered, drawn, boundVars>>

-----------------------------------------------------------------------------
(* The thread in recv(): handshake(true) *)

RecvCall(n) ==
    /\ n \in RecvCallers /\ open[n] /\ rpc[n] = "idle"
    /\ rpc' = [rpc EXCEPT ![n] = IF state[n] = "CLOSED" THEN "next_syn" ELSE "done"]
    /\ UNCHANGED <<memVars, spc, wpc, winVars, queue, net, drawn, boundVars>>

(* recv_on_syn answers the SYN m. *)
RecvOnSyn(n, m) ==
    \E s \in Seqs :
        /\ Rand(s)
        /\ recv_seq' = [recv_seq EXCEPT ![n] = s]
        /\ recv_ack' = [recv_ack EXCEPT ![n] = SuccSeq(m.seq)]
        /\ net' = net \cup {SynAckMsg(Peer(n), s, SuccSeq(m.seq))}
        /\ answered' = answered \cup {<<n, SuccSeq(s), SuccSeq(m.seq)>>}

(* One turn of next_syn. *)
TakeSyn(n) ==
    /\ rpc[n] = "next_syn"
    /\ NextMsg(n)
    /\ LET m == Head(queue[n]) IN
         IF m.kind = "syn"
           THEN RecvOnSyn(n, m) /\ rpc' = [rpc EXCEPT ![n] = "next_ack"]
           ELSE UNCHANGED <<drawn, recv_seq, recv_ack, net, answered, rpc>>
    /\ UNCHANGED <<open, state, send_seq, spc, wpc, swin, rwin, sest, rest, begun,
                   boundVars>>

(* Mutant: the number acknowledged is not looked at. *)
IsMyAck_SeqOnly(n, m) == m.kind = "ack" /\ m.seq = recv_ack[n]

(* Mutant: the SYN is not counted. *)
IsMyAck_NoSucc(n, m) ==
    m.kind = "ack" /\ m.seq = recv_ack[n] /\ m.ack = recv_seq[n]

(* recv_on_ack takes the answer to its own SYN ACK only. *)
IsMyAck(n, m) ==
    m.kind = "ack" /\ m.seq = recv_ack[n] /\ m.ack = SuccSeq(recv_seq[n])

(* Mutant: the window starts at the number itself. *)
RecvEstablished_AtSyn(n, s) ==
    /\ rwin' = [rwin EXCEPT ![n] = recv_seq[n]]
    /\ rest' = [rest EXCEPT ![n] = TRUE]
    /\ state' = [state EXCEPT ![n] = "ESTABLISHED"]

(* recv_established *)
RecvEstablished(n, s) ==
    /\ rwin' = [rwin EXCEPT ![n] = s]
    /\ rest' = [rest EXCEPT ![n] = TRUE]
    /\ state' = [state EXCEPT ![n] = "ESTABLISHED"]

(* One turn of next_ack. *)
TakeAck(n) ==
    /\ rpc[n] = "next_ack"
    /\ NextMsg(n)
    /\ LET m == Head(queue[n]) IN
         IF IsMyAck(n, m)
           THEN /\ RecvEstablished(n, m.ack)
                /\ rpc' = [rpc EXCEPT ![n] = "done"]
           ELSE UNCHANGED <<rwin, rest, state, rpc>>
    /\ UNCHANGED <<open, send_seq, recv_seq, recv_ack, spc, wpc, swin, sest, begun,
                   answered, net, drawn, boundVars>>

-----------------------------------------------------------------------------
(* The receive worker and the life of a socket *)

(* send() and recv() start the worker once their handshake is over. *)
StartWorker(n) ==
    /\ wpc[n] = "off"
    /\ spc[n] = "done" \/ rpc[n] = "done"
    /\ wpc' = [wpc EXCEPT ![n] = "next_msg"]
    /\ UNCHANGED <<memVars, spc, rpc, winVars, queue, net, drawn, boundVars>>

(* input_recv_worker: a SYN goes back to the end of the queue; anything    *)
(* with an ACK goes to output_on_ack, which needs send_worker_lock, which  *)
(* handshake(false) keeps while it waits.                                  *)
WorkerTake(n) ==
    /\ wpc[n] = "next_msg" /\ queue[n] # << >>
    /\ LET m == Head(queue[n]) IN
         IF m.kind = "syn"
           THEN /\ queue' = [queue EXCEPT ![n] = Append(Tail(@), m)]
                /\ UNCHANGED wpc
           ELSE NextMsg(n) /\ wpc' = [wpc EXCEPT ![n] = "output_on_ack"]
    /\ UNCHANGED <<memVars, spc, rpc, winVars, net, drawn, boundVars>>

WorkerOnAck(n) ==
    /\ wpc[n] = "output_on_ack"
    /\ spc[n] # "next_syn_ack"
    /\ wpc' = [wpc EXCEPT ![n] = "next_msg"]
    /\ UNCHANGED <<memVars, spc, rpc, winVars, queue, net, drawn, boundVars>>

(* The application destroys its socket, once no call is under way; the     *)
(* queue and the shared memory go.  A client opens a new one at once.      *)
Close(n) ==
    /\ open[n] /\ closes < MaxCloses
    /\ spc[n] \in {"idle", "done"} /\ rpc[n] \in {"idle", "done"}
    /\ wpc[n] # "output_on_ack"
    /\ closes' = closes + 1
    /\ open' = [open EXCEPT ![n] = n \notin Servers]
    /\ state' = [state EXCEPT ![n] = "CLOSED"]
    /\ send_seq' = [send_seq EXCEPT ![n] = 0]
    /\ recv_seq' = [recv_seq EXCEPT ![n] = 0]
    /\ recv_ack' = [recv_ack EXCEPT ![n] = 0]
    /\ spc' = [spc EXCEPT ![n] = "idle"]
    /\ rpc' = [rpc EXCEPT ![n] = "idle"]
    /\ wpc' = [wpc EXCEPT ![n] = "off"]
    /\ swin' = [swin EXCEPT ![n] = 0] /\ rwin' = [rwin EXCEPT ![n] = 0]
    /\ sest' = [sest EXCEPT ![n] = FALSE] /\ rest' = [rest EXCEPT ![n] = FALSE]
    /\ queue' = [queue EXCEPT ![n] = << >>]
    /\ UNCHANGED <<begun, answered, net, drawn, dups, losses>>

Next ==
    \/ \E m \in net : Deliver(m) \/ Accept(m) \/ Lose(m)
    \/ \E n \in Nodes :
         \/ SendCall(n) \/ TakeSynAck(n)
         \/ RecvCall(n) \/ TakeSyn(n) \/ TakeAck(n)
         \/ StartWorker(n) \/ WorkerTake(n) \/ WorkerOnAck(n) \/ Close(n)

Spec == Init /\ [][Next]_vars

(* Threads that stay runnable run, an application that was given a socket  *)
(* makes its calls, and a message that Lose does not take arrives.         *)
Fairness ==
    /\ WF_vars(\E m \in net : Deliver(m))
    /\ WF_vars(\E m \in net : Accept(m))
    /\ \A n \in Nodes :
         /\ WF_vars(SendCall(n)) /\ SF_vars(TakeSynAck(n))
         /\ WF_vars(RecvCall(n)) /\ SF_vars(TakeSyn(n)) /\ SF_vars(TakeAck(n))
         /\ WF_vars(StartWorker(n)) /\ WF_vars(WorkerOnAck(n))

FairSpec == Spec /\ Fairness

-----------------------------------------------------------------------------
Msgs == [to : Nodes, kind : {"syn", "syn_ack", "ack"}, seq : Seqs, ack : Seqs]

TypeOK ==
    /\ open \in [Nodes -> BOOLEAN]
    /\ state \in [Nodes -> {"CLOSED", "ESTABLISHED"}]
    /\ send_seq \in [Nodes -> Seqs] /\ recv_seq \in [Nodes -> Seqs]
    /\ recv_ack \in [Nodes -> Seqs]
    /\ spc \in [Nodes -> {"idle", "next_syn_ack", "done"}]
    /\ rpc \in [Nodes -> {"idle", "next_syn", "next_ack", "done"}]
    /\ wpc \in [Nodes -> {"off", "next_msg", "output_on_ack"}]
    /\ swin \in [Nodes -> Seqs] /\ rwin \in [Nodes -> Seqs]
    /\ sest \in [Nodes -> BOOLEAN] /\ rest \in [Nodes -> BOOLEAN]
    /\ queue \in [Nodes -> Seq(Msgs)] /\ net \subseteq Msgs
    /\ drawn \subseteq Seqs /\ begun \subseteq Nodes \X Seqs
    /\ answered \subseteq Nodes \X Seqs \X Seqs
    /\ dups \in 0 .. MaxDups /\ losses \in 0 .. MaxLosses /\ closes \in 0 .. MaxCloses

(* A receive window that recv_established placed and the send window that  *)
(* send_established placed at the other end start at the same number, also *)
(* when messages of an earlier socket of these addresses arrive late.      *)
EstablishedAgree ==
    \A n \in Nodes : rest[n] /\ sest[Peer(n)] => rwin[n] = swin[Peer(n)]

(* recv() passes its handshake only when the other end has placed its send *)
(* window at the number this very socket drew: an acknowledgement meant    *)
(* for an earlier socket of these addresses does not open a new one.       *)
ReceiverFollowsSender ==
    \A n \in Nodes : rest[n] => /\ rwin[n] = SuccSeq(recv_seq[n])
                                /\ <<Peer(n), rwin[n]>> \in begun

(* send() passes its handshake only when the other end has answered the    *)
(* SYN of this very socket, and places its window where the answer said.   *)
SenderFollowsReceiver ==
    \A n \in Nodes : sest[n] =>
        <<Peer(n), swin[n], SuccSeq(send_seq[n])>> \in answered

(* INTERNAL_STATE is one for both directions, so the second direction skips*)
(* its exchange and starts at 0.  Whatever the order of the calls, once    *)
(* send() here and recv() there are past their handshakes, the two windows *)
(* start at the same number.                                               *)
DirectionsAgree ==
    closes = 0 => \A n \in Nodes :
        spc[n] = "done" /\ rpc[Peer(n)] = "done" => swin[n] = rwin[Peer(n)]

(* send() and recv() come out of their handshake (stream_socket.h: they    *)
(* send, or read, all the data or throw): one end calls send() and the     *)
(* other recv(), nothing is lost and nobody closes.  A lost message is not *)
(* sent again, and two calls of one end take each other's messages.        *)
HandshakesEnd ==
    \A n \in Nodes : /\ spc[n] = "next_syn_ack" ~> spc[n] = "done"
                     /\ rpc[n] \in {"next_syn", "next_ack"} ~> rpc[n] = "done"
=============================================================================
