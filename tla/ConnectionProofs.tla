-------------------------- MODULE ConnectionProofs --------------------------
(***************************************************************************)
(* How a connection opens, and the numbers it then works with.             *)
(*                                                                         *)
(* Handshake: no message of an earlier socket opens a new one; what a      *)
(* socket takes for established was drawn or answered for it.  Proved for  *)
(* every modulus, any number of repeated, lost and reordered messages and  *)
(* any number of sockets closed and opened again.  The properties are      *)
(* about the state of a socket and the past of the other end.  What        *)
(* carries the past is the messages: a SYN ACK that is under way or queued *)
(* was sent for an answer, an ACK for an established send window (Backed), *)
(* and a queue holds only messages for its socket.                         *)
(*                                                                         *)
(* WindowArith, for every sequence space and every window smaller than it. *)
(* Everything rests on one fact: as long as the window starts no later     *)
(* than Modulo, all its positions are below 2 * Modulo, where tcp_seq      *)
(* subtracts Modulo at most once.                                          *)
(*                                                                         *)
(* Rto, for every set of round-trip times, every width of size_t that      *)
(* holds them and every Gkof from 28 on (the code has 300).  The invariant *)
(* is about the averages alone; that the timeout covers the last sample is *)
(* shown from one step of the averages, with the rounding of each division *)
(* written out.                                                            *)
(***************************************************************************)
EXTENDS Handshake, WindowArith, Rto, TLAPS

-----------------------------------------------------------------------------
(* The facts on sequences that the proofs below cite: those of the library's *)
(* SequenceTheorems, without the weight of that module on every obligation.  *)

LEMMA EmptySeq ==
    ASSUME NEW S
    PROVE  /\ <<>> \in Seq(S)
           /\ Len(<<>>) = 0
           /\ \A sq \in Seq(S) : sq # <<>> => Len(sq) \in Nat \ {0}
  OBVIOUS

LEMMA LenProperties ==
    ASSUME NEW S, NEW sq \in Seq(S)
    PROVE  /\ Len(sq) \in Nat
           /\ sq \in [1 .. Len(sq) -> S]
           /\ DOMAIN sq = 1 .. Len(sq)
  OBVIOUS

LEMMA AppendProperties ==
    ASSUME NEW S, NEW sq \in Seq(S), NEW e \in S
    PROVE  /\ Append(sq, e) \in Seq(S)
           /\ Append(sq, e) # <<>>
           /\ Len(Append(sq, e)) = Len(sq) + 1
           /\ \A i \in 1 .. Len(sq) : Append(sq, e)[i] = sq[i]
           /\ Append(sq, e)[Len(sq) + 1] = e
  OBVIOUS

-----------------------------------------------------------------------------
(* The handshake. *)

Backed(m) ==
    /\ m.kind = "syn" => m.seq \in drawn
    /\ m.kind = "syn_ack" => <<Peer(m.to), SuccSeq(m.seq), m.ack>> \in answered
    /\ m.kind = "ack" => <<Peer(m.to), m.ack>> \in begun

(* drawn, answered and begun are histories. *)
HistoryGrows ==
    drawn \subseteq drawn' /\ answered \subseteq answered' /\ begun \subseteq begun'

InNet == \A m \in net : Backed(m)

Queued ==
    \A n \in Nodes : \A i \in 1 .. Len(queue[n]) :
        queue[n][i].to = n /\ Backed(queue[n][i])

Placed ==
    \A n \in Nodes : /\ sest[n] => state[n] = "ESTABLISHED"
                     /\ rest[n] => rpc[n] = "done"

HInv ==
    /\ TypeOK /\ InNet /\ Queued /\ Placed
    /\ ReceiverFollowsSender /\ SenderFollowsReceiver

-----------------------------------------------------------------------------
(* The cast to tcp_seq. *)
LEMMA SuccSeqType == ASSUME NEW s \in Seqs PROVE SuccSeq(s) \in Seqs
  BY HandshakeAssumption, ModuloAssumption DEF Seqs, SuccSeq, tcp_seq

(* The other end of the other end. *)
LEMMA PeerType ==
  ASSUME NEW n \in Nodes PROVE Peer(n) \in Nodes /\ Peer(Peer(n)) = n
  BY HandshakeAssumption, ModuloAssumption, Zenon DEF Nodes, Peer

(* The messages the handshake builds are messages. *)
LEMMA MsgTypes ==
  ASSUME NEW n \in Nodes, NEW s \in Seqs, NEW a \in Seqs
  PROVE  /\ SynMsg(n, s) \in Msgs /\ SynAckMsg(n, s, a) \in Msgs
         /\ AckMsg(n, s, a) \in Msgs
  BY HandshakeAssumption, ModuloAssumption DEF Msgs, SynMsg, SynAckMsg, AckMsg, Seqs

(* answered and begun are histories: a message stays backed. *)
LEMMA StaysBacked ==
  ASSUME NEW m, Backed(m), HistoryGrows
  PROVE  /\ m.kind = "syn" => m.seq \in drawn'
         /\ m.kind = "syn_ack" => <<Peer(m.to), SuccSeq(m.seq), m.ack>> \in answered'
         /\ m.kind = "ack" => <<Peer(m.to), m.ack>> \in begun'
  BY Zenon DEF Backed, HistoryGrows

(* A step that leaves the queues alone. *)
LEMMA QueueKept ==
  ASSUME Queued, UNCHANGED queue, HistoryGrows
  PROVE  Queued'
  BY DEF Queued, Backed, HistoryGrows

(* One queue changed to another with backed messages for its socket. *)
LEMMA QueueSet ==
  ASSUME Queued, NEW n \in Nodes, NEW q,
         \A k \in Nodes : queue'[k] = IF k = n THEN q ELSE queue[k],
         \A i \in 1 .. Len(q) : q[i].to = n /\ Backed(q[i]),
         HistoryGrows
  PROVE  Queued'
<1> SUFFICES ASSUME NEW k \in Nodes, NEW i \in 1 .. Len(queue'[k])
             PROVE  (queue[k][i])'.to = k /\ Backed(queue[k][i])'
  BY Zenon DEF Queued
<1>1. (queue[k][i])'.to = k /\ Backed(queue'[k][i])
  <2>1. CASE k = n
    BY <2>1, Zenon
  <2>2. CASE k # n
    BY <2>2, Zenon DEF Queued
  <2> QED BY <2>1, <2>2, Zenon
<1> QED BY <1>1, StaysBacked, Zenon DEF Backed

(* A message taken from a queue was for this socket, and the rest of the   *)
(* queue is as before.                                                     *)
LEMMA QueueTail ==
  ASSUME TypeOK, Queued, NEW n \in Nodes, NextMsg(n),
         HistoryGrows
  PROVE  /\ Queued' /\ queue' \in [Nodes -> Seq(Msgs)]
         /\ Head(queue[n]) \in Msgs /\ Head(queue[n]).to = n
         /\ Backed(Head(queue[n]))
<1>1. queue \in [Nodes -> Seq(Msgs)]
  BY Zenon DEF TypeOK
<1>2. queue[n] # << >> /\ queue' = [queue EXCEPT ![n] = Tail(@)]
  BY Zenon DEF NextMsg
<1>3. queue[n] \in Seq(Msgs)
  BY <1>1, Zenon
<1>4. /\ Head(queue[n]) \in Msgs /\ Tail(queue[n]) \in Seq(Msgs)
      /\ Head(queue[n]) = queue[n][1] /\ 1 \in 1 .. Len(queue[n])
      /\ Len(Tail(queue[n])) = Len(queue[n]) - 1
      /\ \A i \in 1 .. Len(queue[n]) - 1 : Tail(queue[n])[i] = queue[n][i + 1]
  BY <1>2, <1>3
<1>5. queue' \in [Nodes -> Seq(Msgs)]
  BY <1>1, <1>2, <1>4, Zenon
<1>6. Queued'
  <2> SUFFICES ASSUME NEW k \in Nodes, NEW i \in 1 .. Len(queue'[k])
               PROVE  (queue[k][i].to = k /\ Backed(queue[k][i]))'
    BY Zenon DEF Queued
  <2>1. CASE k # n
    <3>1. queue'[k] = queue[k]
      BY <1>1, <1>2, <2>1, Zenon
    <3> QED BY <3>1 DEF Queued, Backed, HistoryGrows
  <2>2. CASE k = n
    <3>1. queue'[k] = Tail(queue[n])
      BY <1>1, <1>2, <2>2, Zenon
    <3>2. i \in 1 .. Len(queue[n]) - 1 /\ i + 1 \in 1 .. Len(queue[n])
      BY <1>3, <1>4, <3>1
    <3>3. queue'[k][i] = queue[n][i + 1]
      BY <1>4, <3>1, <3>2, Zenon
    <3>4. queue[n][i + 1].to = n /\ Backed(queue[n][i + 1])
      BY <3>2, Zenon DEF Queued
    <3> QED BY <2>2, <3>3, <3>4, Zenon DEF Backed, HistoryGrows
  <2> QED BY <2>1, <2>2, Zenon
<1> QED BY <1>4, <1>5, <1>6 DEF Queued

(* put_msg_to_q adds a message for this socket at the end. *)
LEMMA QueueAppend ==
  ASSUME TypeOK, NEW n \in Nodes, NEW m \in Msgs, m.to = n, Backed(m),
         NEW q \in Seq(Msgs),
         \A i \in 1 .. Len(q) : q[i].to = n /\ Backed(q[i])
  PROVE  /\ Append(q, m) \in Seq(Msgs)
         /\ \A i \in 1 .. Len(Append(q, m)) :
               Append(q, m)[i].to = n /\ Backed(Append(q, m)[i])
<1>1. /\ Append(q, m) \in Seq(Msgs) /\ Len(Append(q, m)) = Len(q) + 1
      /\ \A i \in 1 .. Len(q) : Append(q, m)[i] = q[i]
      /\ Append(q, m)[Len(q) + 1] = m
  BY AppendProperties
<1>2. Len(q) \in Nat
  BY LenProperties, Zenon
<1>3. ASSUME NEW i \in 1 .. Len(q) + 1
      PROVE  Append(q, m)[i].to = n /\ Backed(Append(q, m)[i])
  <2>1. CASE i \in 1 .. Len(q)
    BY <1>1, <2>1, Zenon
  <2>2. CASE i = Len(q) + 1
    BY <1>1, <2>2, Zenon
  <2> QED BY <1>2, <2>1, <2>2
<1> QED BY <1>1, <1>3, Zenon
-----------------------------------------------------------------------------
(* The initial state: nothing is open that was not just made. *)
LEMMA InitHInv == Init => HInv
<1> SUFFICES ASSUME Init PROVE HInv
  BY Zenon
<1> USE HandshakeAssumption, ModuloAssumption DEF Init
<1>1. 0 \in Seqs
  BY DEF Seqs
<1>2. << >> \in Seq(Msgs) /\ Len(<< >>) = 0
  BY EmptySeq, Zenon
<1>3. TypeOK
  BY <1>1, <1>2 DEF TypeOK
<1>4. InNet /\ Queued /\ Placed
  BY <1>2 DEF InNet, Queued, Placed
<1>5. ReceiverFollowsSender /\ SenderFollowsReceiver
  BY Zenon DEF ReceiverFollowsSender, SenderFollowsReceiver
<1> QED BY <1>3, <1>4, <1>5, Zenon DEF HInv

(* put_msg_to_q *)
LEMMA DeliverPreserves ==
  ASSUME HInv, NEW m \in net, Deliver(m) PROVE HInv'
<1> USE DEF HInv
<1>1. UNCHANGED <<memVars, pcVars, winVars, drawn, losses, closes>>
  BY Zenon DEF Deliver
<1> USE <1>1 DEF memVars, pcVars, winVars
<1>2. /\ m \in Msgs /\ Backed(m) /\ m.to \in Nodes
      /\ queue \in [Nodes -> Seq(Msgs)]
      /\ queue' = [queue EXCEPT ![m.to] = Append(@, m)]
  BY Zenon DEF TypeOK, InNet, Deliver, Msgs
<1>3. net' \subseteq net /\ dups' \in 0 .. MaxDups
  BY HandshakeAssumption, ModuloAssumption DEF Deliver, TypeOK
<1> DEFINE q == Append(queue[m.to], m)
<1>4. /\ q \in Seq(Msgs)
      /\ \A i \in 1 .. Len(q) : q[i].to = m.to /\ Backed(q[i])
  BY <1>2, QueueAppend, Zenon DEF Queued
<1>5. \A k \in Nodes : queue'[k] = IF k = m.to THEN q ELSE queue[k]
  BY <1>2, Zenon
<1> HIDE DEF q
<1>6. queue' \in [Nodes -> Seq(Msgs)]
  BY <1>2, <1>4, Zenon DEF q
<1>7. TypeOK'
  BY <1>3, <1>6, Zenon DEF TypeOK
<1>8. Queued'
  BY <1>2, <1>4, <1>5, QueueSet, Zenon DEF HistoryGrows
<1>9. InNet' /\ Placed'
  BY <1>3, Zenon DEF InNet, Backed, Placed
<1>10. ReceiverFollowsSender' /\ SenderFollowsReceiver'
  BY Zenon DEF ReceiverFollowsSender, SenderFollowsReceiver
<1> QED BY <1>7, <1>8, <1>9, <1>10, Zenon

(* accept_one_client *)
LEMMA AcceptPreserves ==
  ASSUME HInv, NEW m \in net, Accept(m) PROVE HInv'
<1> USE DEF HInv
<1>1. UNCHANGED <<state, send_seq, recv_seq, recv_ack, pcVars, winVars, drawn,
                  losses, closes>>
  BY Zenon DEF Accept
<1> USE <1>1 DEF pcVars, winVars
<1>2. /\ m \in Msgs /\ Backed(m) /\ m.to \in Nodes
      /\ queue \in [Nodes -> Seq(Msgs)]
      /\ queue' = [queue EXCEPT ![m.to] = <<m>>]
      /\ open' = [open EXCEPT ![m.to] = TRUE]
  BY Zenon DEF TypeOK, InNet, Accept, Msgs
<1>3. net' \subseteq net /\ dups' \in 0 .. MaxDups
  BY HandshakeAssumption, ModuloAssumption DEF Accept, TypeOK
<1>4. /\ <<m>> \in Seq(Msgs)
      /\ \A i \in 1 .. Len(<<m>>) : <<m>>[i] = m
  BY <1>2
<1>5. \A k \in Nodes : queue'[k] = IF k = m.to THEN <<m>> ELSE queue[k]
  BY <1>2, Zenon
<1>6. queue' \in [Nodes -> Seq(Msgs)] /\ open' \in [Nodes -> BOOLEAN]
  BY <1>2, <1>4, Zenon DEF TypeOK
<1>7. TypeOK'
  BY <1>3, <1>6, Zenon DEF TypeOK
<1>8. Queued'
  <2> SUFFICES ASSUME NEW k \in Nodes, NEW i \in 1 .. Len(queue'[k])
               PROVE  (queue[k][i].to = k /\ Backed(queue[k][i]))'
    BY Zenon DEF Queued
  <2>1. CASE k = m.to
    BY <1>2, <1>4, <1>5, <2>1, Zenon DEF Backed
  <2>2. CASE k # m.to
    BY <1>5, <2>2 DEF Queued, Backed
  <2> QED BY <2>1, <2>2, Zenon
<1>9. InNet' /\ Placed'
  BY <1>3, Zenon DEF InNet, Backed, Placed
<1>10. ReceiverFollowsSender' /\ SenderFollowsReceiver'
  BY Zenon DEF ReceiverFollowsSender, SenderFollowsReceiver
<1> QED BY <1>7, <1>8, <1>9, <1>10, Zenon

(* A message is lost. *)
LEMMA LosePreserves ==
  ASSUME HInv, NEW m \in net, Lose(m) PROVE HInv'
<1> USE DEF HInv
<1>1. UNCHANGED <<memVars, pcVars, winVars, queue, drawn, dups, closes>>
  BY Zenon DEF Lose
<1> USE <1>1 DEF memVars, pcVars, winVars
<1>2. net' \subseteq net /\ losses' \in 0 .. MaxLosses
  BY HandshakeAssumption, ModuloAssumption DEF Lose, TypeOK
<1>3. TypeOK'
  BY <1>2, Zenon DEF TypeOK
<1>4. InNet' /\ Queued' /\ Placed'
  BY <1>2 DEF InNet, Queued, Backed, Placed
<1>5. ReceiverFollowsSender' /\ SenderFollowsReceiver'
  BY Zenon DEF ReceiverFollowsSender, SenderFollowsReceiver
<1> QED BY <1>3, <1>4, <1>5, Zenon
-----------------------------------------------------------------------------
(* handshake(false): a SYN for a new number, or nothing. *)
LEMMA SendCallPreserves ==
  ASSUME HInv, NEW n \in Nodes, SendCall(n) PROVE HInv'
<1> USE DEF HInv
<1>1. UNCHANGED <<open, state, recv_seq, recv_ack, rpc, wpc, winVars, queue, boundVars>>
  BY Zenon DEF SendCall
<1> USE <1>1 DEF winVars, boundVars
<1>2. CASE state[n] # "CLOSED"
  <2>1. spc' = [spc EXCEPT ![n] = "done"] /\ UNCHANGED <<drawn, send_seq, net>>
    BY <1>2, Zenon DEF SendCall
  <2>2. TypeOK'
    BY <2>1, Zenon DEF TypeOK
  <2>3. InNet' /\ Queued' /\ Placed'
    BY <2>1 DEF InNet, Queued, Backed, Placed
  <2>4. ReceiverFollowsSender' /\ SenderFollowsReceiver'
    BY <2>1, Zenon DEF ReceiverFollowsSender, SenderFollowsReceiver
  <2> QED BY <2>2, <2>3, <2>4, Zenon
<1>3. CASE state[n] = "CLOSED"
  <2>1. PICK s \in Seqs : /\ Rand(s)
                          /\ send_seq' = [send_seq EXCEPT ![n] = s]
                          /\ net' = net \cup {SynMsg(Peer(n), s)}
    BY <1>3, Zenon DEF SendCall, SendEstablish
  <2>2. spc' = [spc EXCEPT ![n] = "next_syn_ack"] /\ drawn' = drawn \cup {s}
    BY <1>3, <2>1, Zenon DEF SendCall, Rand
  <2>3. SynMsg(Peer(n), s) \in Msgs
    BY PeerType, MsgTypes, Zenon
  <2>4. TypeOK'
    BY <2>1, <2>2, <2>3, Zenon DEF TypeOK
  <2>5. InNet'
    BY <2>1, <2>2 DEF InNet, Backed, SynMsg
  <2>6. Queued' /\ Placed'
    BY <2>2, QueueKept, Zenon DEF HistoryGrows, Placed
  <2>7. ReceiverFollowsSender'
    BY Zenon DEF ReceiverFollowsSender
  <2>8. SenderFollowsReceiver'
    <3>1. ~sest[n]
      BY <1>3, Zenon DEF Placed
    <3>2. \A k \in Nodes : k # n => send_seq'[k] = send_seq[k]
      BY <2>1, Zenon DEF TypeOK
    <3> QED BY <3>1, <3>2, Zenon DEF SenderFollowsReceiver
  <2> QED BY <2>4, <2>5, <2>6, <2>7, <2>8, Zenon
<1> QED BY <1>2, <1>3, Zenon

(* next_syn_ack: a SYN ACK that answers the SYN of this socket places its  *)
(* send window; any other message is dropped.                              *)
LEMMA TakeSynAckPreserves ==
  ASSUME HInv, NEW n \in Nodes, TakeSynAck(n) PROVE HInv'
<1> USE DEF HInv
<1>1. /\ UNCHANGED <<open, send_seq, recv_seq, recv_ack, rpc, wpc, rwin, rest,
                     answered, drawn, boundVars>>
      /\ NextMsg(n)
  BY Zenon DEF TakeSynAck
<1> USE <1>1 DEF boundVars
<1> DEFINE m == Head(queue[n])
<1>2. HistoryGrows
  BY Zenon DEF TakeSynAck, SendEstablished, HistoryGrows
<1>3. /\ Queued' /\ queue' \in [Nodes -> Seq(Msgs)]
      /\ m \in Msgs /\ m.to = n /\ Backed(m)
  BY <1>2, QueueTail, Zenon
<1> HIDE DEF m
<1>4. CASE ~IsMySynAck(n, m)
  <2>1. UNCHANGED <<net, swin, sest, begun, state, spc>>
    BY <1>4, Zenon DEF TakeSynAck, m
  <2>2. TypeOK'
    BY <1>3, <2>1, Zenon DEF TypeOK
  <2>3. InNet' /\ Placed'
    BY <2>1, Zenon DEF InNet, Backed, Placed
  <2>4. ReceiverFollowsSender' /\ SenderFollowsReceiver'
    BY <2>1, Zenon DEF ReceiverFollowsSender, SenderFollowsReceiver
  <2> QED BY <1>3, <2>2, <2>3, <2>4, Zenon
<1>5. CASE IsMySynAck(n, m)
  <2>1. /\ net' = net \cup {AckMsg(Peer(n), m.ack, SuccSeq(m.seq))}
        /\ swin' = [swin EXCEPT ![n] = SuccSeq(m.seq)]
        /\ sest' = [sest EXCEPT ![n] = TRUE]
        /\ begun' = begun \cup {<<n, SuccSeq(m.seq)>>}
        /\ state' = [state EXCEPT ![n] = "ESTABLISHED"]
        /\ spc' = [spc EXCEPT ![n] = "done"]
    BY <1>5, Zenon DEF TakeSynAck, SendEstablished, m
  <2>2. /\ m.seq \in Seqs /\ m.ack \in Seqs /\ SuccSeq(m.seq) \in Seqs
        /\ AckMsg(Peer(n), m.ack, SuccSeq(m.seq)) \in Msgs
    BY <1>3, SuccSeqType, PeerType, MsgTypes, Zenon DEF Msgs
  <2>3. TypeOK'
    <3>1. net' \subseteq Msgs
      <4>1. net \subseteq Msgs
        BY Zenon DEF TypeOK
      <4> QED BY <2>1, <2>2, <4>1, Zenon
    <3>3. begun' \subseteq Nodes \X Seqs
      BY <2>1, <2>2 DEF TypeOK
    <3>4. swin' \in [Nodes -> Seqs]
      BY <2>1, <2>2, Zenon DEF TypeOK
    <3>2. /\ sest' \in [Nodes -> BOOLEAN]
          /\ state' \in [Nodes -> {"CLOSED", "ESTABLISHED"}]
          /\ spc' \in [Nodes -> {"idle", "next_syn_ack", "done"}]
      BY <2>1, Zenon DEF TypeOK
    <3> QED BY <1>3, <3>1, <3>2, <3>3, <3>4, Zenon DEF TypeOK
  <2>4. InNet'
    <3> SUFFICES ASSUME NEW x \in net' PROVE Backed(x)'
      BY Zenon DEF InNet
    <3>1. CASE x = AckMsg(Peer(n), m.ack, SuccSeq(m.seq))
      BY <2>1, <3>1, PeerType, Zenon DEF Backed, AckMsg
    <3>2. CASE x \in net
      BY <1>2, <3>2, Zenon DEF InNet, Backed, HistoryGrows
    <3> QED BY <2>1, <3>1, <3>2, Zenon
  <2>5. Placed'
    BY <2>1, Zenon DEF TypeOK, Placed
  <2>6. ReceiverFollowsSender'
    BY <1>2, Zenon DEF ReceiverFollowsSender, HistoryGrows
  <2>7. SenderFollowsReceiver'
    <3>1. <<Peer(n), SuccSeq(m.seq), SuccSeq(send_seq[n])>> \in answered
      BY <1>3, <1>5, Zenon DEF Backed, IsMySynAck
    <3>2. \A k \in Nodes : /\ swin'[k] = IF k = n THEN SuccSeq(m.seq) ELSE swin[k]
                           /\ k # n => sest'[k] = sest[k]
      BY <2>1, Zenon DEF TypeOK
    <3> QED BY <3>1, <3>2, Zenon DEF SenderFollowsReceiver
  <2> QED BY <1>3, <2>3, <2>4, <2>5, <2>6, <2>7, Zenon
<1> QED BY <1>4, <1>5, Zenon

(* handshake(true) begins. *)
LEMMA RecvCallPreserves ==
  ASSUME HInv, NEW n \in Nodes, RecvCall(n) PROVE HInv'
<1> USE DEF HInv
<1>1. /\ UNCHANGED <<memVars, spc, wpc, winVars, queue, net, drawn, boundVars>>
      /\ rpc[n] = "idle"
      /\ \E v \in {"next_syn", "done"} : rpc' = [rpc EXCEPT ![n] = v]
  BY Zenon DEF RecvCall
<1> USE <1>1 DEF memVars, winVars, boundVars
<1>2. TypeOK'
  BY DEF TypeOK
<1>3. InNet' /\ Queued'
  BY DEF InNet, Queued, Backed
<1>4. Placed'
  BY Zenon DEF TypeOK, Placed
<1>5. ReceiverFollowsSender' /\ SenderFollowsReceiver'
  BY Zenon DEF ReceiverFollowsSender, SenderFollowsReceiver
<1> QED BY <1>2, <1>3, <1>4, <1>5, Zenon
(* next_syn: the first SYN is answered with a new number. *)
LEMMA TakeSynPreserves ==
  ASSUME HInv, NEW n \in Nodes, TakeSyn(n) PROVE HInv'
<1> USE DEF HInv
<1>1. /\ UNCHANGED <<open, state, send_seq, spc, wpc, swin, rwin, sest, rest, begun,
                     boundVars>>
      /\ NextMsg(n) /\ rpc[n] = "next_syn"
  BY Zenon DEF TakeSyn
<1> USE <1>1 DEF boundVars
<1> DEFINE m == Head(queue[n])
<1>2. HistoryGrows
  BY Zenon DEF TakeSyn, RecvOnSyn, Rand, HistoryGrows
<1>3. /\ Queued' /\ queue' \in [Nodes -> Seq(Msgs)]
      /\ m \in Msgs /\ m.to = n
  BY <1>2, QueueTail, Zenon
<1> HIDE DEF m
<1>4. CASE m.kind # "syn"
  <2>1. UNCHANGED <<drawn, recv_seq, recv_ack, net, answered, rpc>>
    BY <1>4, Zenon DEF TakeSyn, m
  <2>2. TypeOK'
    BY <1>3, <2>1, Zenon DEF TypeOK
  <2>3. InNet' /\ Placed'
    BY <2>1, Zenon DEF InNet, Backed, Placed
  <2>4. ReceiverFollowsSender' /\ SenderFollowsReceiver'
    BY <2>1, Zenon DEF ReceiverFollowsSender, SenderFollowsReceiver
  <2> QED BY <1>3, <2>2, <2>3, <2>4, Zenon
<1>5. CASE m.kind = "syn"
  <2>1. PICK s \in Seqs :
          /\ Rand(s)
          /\ recv_seq' = [recv_seq EXCEPT ![n] = s]
          /\ recv_ack' = [recv_ack EXCEPT ![n] = SuccSeq(m.seq)]
          /\ net' = net \cup {SynAckMsg(Peer(n), s, SuccSeq(m.seq))}
          /\ answered' = answered \cup {<<n, SuccSeq(s), SuccSeq(m.seq)>>}
    BY <1>5, Zenon DEF TakeSyn, RecvOnSyn, m
  <2>2. rpc' = [rpc EXCEPT ![n] = "next_ack"] /\ drawn' = drawn \cup {s}
    BY <1>5, <2>1, Zenon DEF TakeSyn, Rand, m
  <2>3. /\ SuccSeq(m.seq) \in Seqs /\ SuccSeq(s) \in Seqs
        /\ SynAckMsg(Peer(n), s, SuccSeq(m.seq)) \in Msgs
    BY <1>3, SuccSeqType, PeerType, MsgTypes, Zenon DEF Msgs
  <2>4. TypeOK'
    <3>1. /\ recv_seq' \in [Nodes -> Seqs] /\ recv_ack' \in [Nodes -> Seqs]
          /\ rpc' \in [Nodes -> {"idle", "next_syn", "next_ack", "done"}]
      BY <2>1, <2>2, <2>3, Zenon DEF TypeOK
    <3>2. net' \subseteq Msgs /\ drawn' \subseteq Seqs
      BY <2>1, <2>2, <2>3, Zenon DEF TypeOK
    <3>3. answered' \subseteq Nodes \X Seqs \X Seqs
      BY <2>1, <2>3 DEF TypeOK
    <3> QED BY <1>3, <3>1, <3>2, <3>3, Zenon DEF TypeOK
  <2>5. InNet'
    <3> SUFFICES ASSUME NEW x \in net' PROVE Backed(x)'
      BY Zenon DEF InNet
    <3>1. CASE x = SynAckMsg(Peer(n), s, SuccSeq(m.seq))
      BY <2>1, <3>1, PeerType, Zenon DEF Backed, SynAckMsg
    <3>2. CASE x \in net
      BY <1>2, <3>2, Zenon DEF InNet, Backed, HistoryGrows
    <3> QED BY <2>1, <3>1, <3>2, Zenon
  <2>6. ~rest[n]
    BY Zenon DEF Placed
  <2>7. Placed'
    BY <2>2, <2>6, Zenon DEF TypeOK, Placed
  <2>8. ReceiverFollowsSender'
    <3>1. \A k \in Nodes : k # n => recv_seq'[k] = recv_seq[k]
      BY <2>1, Zenon DEF TypeOK
    <3> QED BY <2>6, <3>1, Zenon DEF ReceiverFollowsSender
  <2>9. SenderFollowsReceiver'
    BY <1>2, Zenon DEF SenderFollowsReceiver, HistoryGrows
  <2> QED BY <1>3, <2>4, <2>5, <2>7, <2>8, <2>9, Zenon
<1> QED BY <1>4, <1>5, Zenon

(* next_ack: only the ACK of the number this socket drew places its        *)
(* receive window, and the other end has sent it for its own window.       *)
LEMMA TakeAckPreserves ==
  ASSUME HInv, NEW n \in Nodes, TakeAck(n) PROVE HInv'
<1> USE DEF HInv
<1>1. /\ UNCHANGED <<open, send_seq, recv_seq, recv_ack, spc, wpc, swin, sest, begun,
                     answered, net, drawn, boundVars>>
      /\ NextMsg(n)
  BY Zenon DEF TakeAck
<1> USE <1>1 DEF boundVars
<1> DEFINE m == Head(queue[n])
<1>2. /\ Queued' /\ queue' \in [Nodes -> Seq(Msgs)]
      /\ m \in Msgs /\ m.to = n /\ Backed(m)
  BY QueueTail, Zenon DEF HistoryGrows
<1> HIDE DEF m
<1>3. InNet'
  BY Zenon DEF InNet, Backed
<1>4. CASE ~IsMyAck(n, m)
  <2>1. UNCHANGED <<rwin, rest, state, rpc>>
    BY <1>4, Zenon DEF TakeAck, m
  <2>2. TypeOK'
    BY <1>2, <2>1, Zenon DEF TypeOK
  <2>3. Placed' /\ ReceiverFollowsSender' /\ SenderFollowsReceiver'
    BY <2>1, Zenon DEF Placed, ReceiverFollowsSender, SenderFollowsReceiver
  <2> QED BY <1>2, <1>3, <2>2, <2>3, Zenon
<1>5. CASE IsMyAck(n, m)
  <2>1. /\ rwin' = [rwin EXCEPT ![n] = m.ack]
        /\ rest' = [rest EXCEPT ![n] = TRUE]
        /\ state' = [state EXCEPT ![n] = "ESTABLISHED"]
        /\ rpc' = [rpc EXCEPT ![n] = "done"]
    BY <1>5, Zenon DEF TakeAck, RecvEstablished, m
  <2>2. m.ack \in Seqs /\ m.ack = SuccSeq(recv_seq[n]) /\ <<Peer(n), m.ack>> \in begun
    BY <1>2, <1>5, Zenon DEF Msgs, IsMyAck, Backed
  <2>3. TypeOK'
    BY <1>2, <2>1, <2>2, Zenon DEF TypeOK
  <2>4. Placed'
    BY <2>1, Zenon DEF TypeOK, Placed
  <2>5. ReceiverFollowsSender'
    <3>1. \A k \in Nodes : /\ rwin'[k] = IF k = n THEN m.ack ELSE rwin[k]
                           /\ k # n => rest'[k] = rest[k]
      BY <2>1, Zenon DEF TypeOK
    <3> QED BY <2>2, <3>1, Zenon DEF ReceiverFollowsSender
  <2>6. SenderFollowsReceiver'
    BY Zenon DEF SenderFollowsReceiver
  <2> QED BY <1>2, <1>3, <2>3, <2>4, <2>5, <2>6, Zenon
<1> QED BY <1>4, <1>5, Zenon
-----------------------------------------------------------------------------
(* The worker starts, or goes back to its queue. *)
LEMMA WorkerMovesPreserve ==
  ASSUME HInv, NEW n \in Nodes, StartWorker(n) \/ WorkerOnAck(n) PROVE HInv'
<1> USE DEF HInv
<1>1. /\ UNCHANGED <<memVars, spc, rpc, winVars, queue, net, drawn, boundVars>>
      /\ wpc' = [wpc EXCEPT ![n] = "next_msg"]
  BY Zenon DEF StartWorker, WorkerOnAck
<1> USE <1>1 DEF memVars, winVars, boundVars
<1>2. TypeOK'
  BY Zenon DEF TypeOK
<1>3. InNet' /\ Queued' /\ Placed'
  BY DEF InNet, Queued, Backed, Placed
<1>4. ReceiverFollowsSender' /\ SenderFollowsReceiver'
  BY Zenon DEF ReceiverFollowsSender, SenderFollowsReceiver
<1> QED BY <1>2, <1>3, <1>4, Zenon

(* input_recv_worker: a SYN goes to the end of the queue, anything else is *)
(* taken from it.                                                          *)
LEMMA WorkerTakePreserves ==
  ASSUME HInv, NEW n \in Nodes, WorkerTake(n) PROVE HInv'
<1> USE DEF HInv
<1>1. /\ UNCHANGED <<memVars, spc, rpc, winVars, net, drawn, boundVars>>
      /\ queue[n] # << >>
  BY Zenon DEF WorkerTake
<1> USE <1>1 DEF memVars, winVars, boundVars
<1> DEFINE m == Head(queue[n])
<1>2. InNet' /\ Placed'
  BY Zenon DEF InNet, Backed, Placed
<1>3. ReceiverFollowsSender' /\ SenderFollowsReceiver'
  BY Zenon DEF ReceiverFollowsSender, SenderFollowsReceiver
<1>4. CASE m.kind # "syn"
  <2>1. NextMsg(n) /\ wpc' = [wpc EXCEPT ![n] = "output_on_ack"]
    BY <1>4, Zenon DEF WorkerTake
  <2>2. Queued' /\ queue' \in [Nodes -> Seq(Msgs)]
    BY <2>1, QueueTail, Zenon DEF HistoryGrows
  <2>3. TypeOK'
    BY <2>1, <2>2, Zenon DEF TypeOK
  <2> QED BY <1>2, <1>3, <2>2, <2>3, Zenon
<1>5. CASE m.kind = "syn"
  <2> DEFINE q == Append(Tail(queue[n]), m)
  <2>1. queue' = [queue EXCEPT ![n] = q] /\ UNCHANGED wpc
    BY <1>5, Zenon DEF WorkerTake
  <2>2. queue \in [Nodes -> Seq(Msgs)] /\ queue[n] \in Seq(Msgs)
    BY Zenon DEF TypeOK
  <2>3. /\ m \in Msgs /\ Tail(queue[n]) \in Seq(Msgs)
        /\ m = queue[n][1] /\ 1 \in 1 .. Len(queue[n])
        /\ Len(Tail(queue[n])) = Len(queue[n]) - 1
        /\ \A i \in 1 .. Len(queue[n]) - 1 : Tail(queue[n])[i] = queue[n][i + 1]
    BY <1>1, <2>2
  <2>4. m.to = n /\ Backed(m)
    BY <2>3 DEF Queued
  <2>5. \A i \in 1 .. Len(Tail(queue[n])) :
          Tail(queue[n])[i].to = n /\ Backed(Tail(queue[n])[i])
    <3> SUFFICES ASSUME NEW i \in 1 .. Len(Tail(queue[n]))
                 PROVE  Tail(queue[n])[i].to = n /\ Backed(Tail(queue[n])[i])
      BY Zenon
    <3>1. i \in 1 .. Len(queue[n]) - 1 /\ i + 1 \in 1 .. Len(queue[n])
      BY <2>2, <2>3
    <3>2. Tail(queue[n])[i] = queue[n][i + 1]
      BY <2>3, <3>1, Zenon
    <3>3. queue[n][i + 1].to = n /\ Backed(queue[n][i + 1])
      BY <3>1, Zenon DEF Queued
    <3> QED BY <3>2, <3>3, Zenon
  <2> HIDE DEF m
  <2>6. /\ q \in Seq(Msgs)
        /\ \A i \in 1 .. Len(q) : q[i].to = n /\ Backed(q[i])
    BY <2>3, <2>4, <2>5, QueueAppend
  <2> HIDE DEF q
  <2>7. queue' \in [Nodes -> Seq(Msgs)]
    BY <2>1, <2>2, <2>6, Zenon
  <2>8. \A k \in Nodes : queue'[k] = IF k = n THEN q ELSE queue[k]
    BY <2>1, <2>2, Zenon
  <2>9. Queued'
    BY <2>6, <2>8, QueueSet, Zenon DEF HistoryGrows
  <2>10. TypeOK'
    BY <2>1, <2>7, Zenon DEF TypeOK
  <2> QED BY <1>2, <1>3, <2>9, <2>10, Zenon
<1> QED BY <1>4, <1>5, Zenon

(* A closed socket starts from nothing. *)
LEMMA ClosePreserves ==
  ASSUME HInv, NEW n \in Nodes, Close(n) PROVE HInv'
<1> USE DEF HInv
<1>1. UNCHANGED <<begun, answered, net, drawn, dups, losses>>
  BY Zenon DEF Close
<1> USE <1>1
<1>2. 0 \in Seqs
  BY HandshakeAssumption, ModuloAssumption DEF Seqs
<1>3. << >> \in Seq(Msgs) /\ Len(<< >>) = 0
  BY EmptySeq, Zenon
<1>4. closes' \in 0 .. MaxCloses
  <2>1. closes \in 0 .. MaxCloses /\ closes < MaxCloses /\ closes' = closes + 1
    BY Zenon DEF Close, TypeOK
  <2> QED BY <2>1, HandshakeAssumption, ModuloAssumption
<1>5. queue' = [queue EXCEPT ![n] = << >>]
  BY Zenon DEF Close
<1>6. TypeOK'
  <2>1. /\ open' \in [Nodes -> BOOLEAN] /\ state' \in [Nodes -> {"CLOSED", "ESTABLISHED"}]
        /\ send_seq' \in [Nodes -> Seqs] /\ recv_seq' \in [Nodes -> Seqs]
        /\ recv_ack' \in [Nodes -> Seqs]
    BY <1>2, Zenon DEF TypeOK, Close
  <2>2. /\ spc' \in [Nodes -> {"idle", "next_syn_ack", "done"}]
        /\ rpc' \in [Nodes -> {"idle", "next_syn", "next_ack", "done"}]
        /\ wpc' \in [Nodes -> {"off", "next_msg", "output_on_ack"}]
    BY Zenon DEF TypeOK, Close
  <2>3. /\ swin' \in [Nodes -> Seqs] /\ rwin' \in [Nodes -> Seqs]
        /\ sest' \in [Nodes -> BOOLEAN] /\ rest' \in [Nodes -> BOOLEAN]
    BY <1>2, Zenon DEF TypeOK, Close
  <2>4. queue' \in [Nodes -> Seq(Msgs)]
    BY <1>3, <1>5, Zenon DEF TypeOK
  <2> QED BY <1>4, <2>1, <2>2, <2>3, <2>4, Zenon DEF TypeOK
<1>7. \A k \in Nodes : queue'[k] = IF k = n THEN << >> ELSE queue[k]
  BY <1>5, Zenon DEF TypeOK
<1>8. InNet' /\ Queued'
  <2>1. InNet'
    BY Zenon DEF InNet, Backed
  <2>2. \A i \in 1 .. Len(<< >>) : << >>[i].to = n /\ Backed(<< >>[i])
    BY <1>3
  <2>3. Queued'
    BY <1>7, <2>2, QueueSet, Zenon DEF HistoryGrows
  <2> QED BY <2>1, <2>3, Zenon
<1>9. /\ ~sest'[n] /\ ~rest'[n]
      /\ \A k \in Nodes \ {n} :
            /\ sest'[k] = sest[k] /\ rest'[k] = rest[k] /\ state'[k] = state[k]
            /\ rpc'[k] = rpc[k] /\ swin'[k] = swin[k] /\ rwin'[k] = rwin[k]
            /\ send_seq'[k] = send_seq[k] /\ recv_seq'[k] = recv_seq[k]
  BY DEF TypeOK, Close
<1>10. Placed'
  BY <1>9, Zenon DEF Placed
<1>11. ReceiverFollowsSender' /\ SenderFollowsReceiver'
  BY <1>9 DEF ReceiverFollowsSender, SenderFollowsReceiver
<1> QED BY <1>6, <1>8, <1>10, <1>11, Zenon

-----------------------------------------------------------------------------
(* Every step keeps the invariant. *)
LEMMA StepHInv == HInv /\ [Next]_vars => HInv'
<1> SUFFICES ASSUME HInv, [Next]_vars PROVE HInv'
  BY Zenon
<1>1. CASE \E m \in net : Deliver(m) \/ Accept(m) \/ Lose(m)
  BY <1>1, DeliverPreserves, AcceptPreserves, LosePreserves, Zenon
<1>2. CASE \E n \in Nodes :
             \/ SendCall(n) \/ TakeSynAck(n)
             \/ RecvCall(n) \/ TakeSyn(n) \/ TakeAck(n)
             \/ StartWorker(n) \/ WorkerTake(n) \/ WorkerOnAck(n) \/ Close(n)
  BY <1>2, SendCallPreserves, TakeSynAckPreserves, RecvCallPreserves,
     TakeSynPreserves, TakeAckPreserves, WorkerMovesPreserve,
     WorkerTakePreserves, ClosePreserves, Zenon
<1>3. CASE UNCHANGED vars
  <2> USE <1>3 DEF vars, memVars, pcVars, winVars, boundVars
  <2>1. TypeOK'
    BY Zenon DEF HInv, TypeOK
  <2>2. InNet' /\ Queued' /\ Placed'
    BY Zenon DEF HInv, InNet, Queued, Backed, Placed
  <2>3. ReceiverFollowsSender' /\ SenderFollowsReceiver'
    BY Zenon DEF HInv, ReceiverFollowsSender, SenderFollowsReceiver
  <2> QED BY <2>1, <2>2, <2>3, Zenon DEF HInv
<1> QED BY <1>1, <1>2, <1>3, Zenon DEF Next

(* The inductive invariant of the handshake: every message is backed by    *)
(* what its sender has done.                                               *)
THEOREM HandshakeInvariant == Spec => []HInv
  BY InitHInv, StepHInv, PTL DEF Spec

(* recv() passes next_ack only for the number its own socket drew, and     *)
(* only after the other end has placed its send window there.              *)
THEOREM ReceiverFollows == Spec => []ReceiverFollowsSender
  BY HandshakeInvariant, PTL DEF HInv

(* send() passes next_syn_ack only for an answer to the SYN of its own     *)
(* socket, and its window starts where that answer said.                   *)
THEOREM SenderFollows == Spec => []SenderFollowsReceiver
  BY HandshakeInvariant, PTL DEF HInv
-----------------------------------------------------------------------------
(* The two windows of a direction agree.  Backed says what an end has done *)
(* at some time; that it still holds is a matter of order.  rand32 returns *)
(* no number twice, so what is answered, or placed, for a number comes     *)
(* after the number was drawn (Numbers).  Hence once the sender has placed *)
(* its window where the socket that answers now has drawn it, a later      *)
(* socket of the sender asks with a number that this socket, which answers *)
(* only once, has never answered (Met).                                    *)

(* The socket of n has answered a SYN with the number recv_seq[n]. *)
Answering(n) == rpc[n] = "next_ack" \/ rest[n]

AnsweredDrawn ==
    \A n \in Nodes, s, a \in Seqs : <<n, s, a>> \in answered =>
        \E d, e \in drawn : s = SuccSeq(d) /\ a = SuccSeq(e)

BegunDrawn ==
    \A n \in Nodes, s \in Seqs : <<n, s>> \in begun =>
        \E d \in drawn : s = SuccSeq(d)

Numbers == AnsweredDrawn /\ BegunDrawn

(* A window no handshake has placed starts at 0. *)
Sides ==
    \A n \in Nodes : /\ sest[n] => spc[n] = "done"
                     /\ ~sest[n] => swin[n] = 0
                     /\ ~rest[n] => rwin[n] = 0

MetAt(n) ==
    Answering(n) /\ <<Peer(n), SuccSeq(recv_seq[n])>> \in begun =>
        /\ sest[Peer(n)] => swin[Peer(n)] = SuccSeq(recv_seq[n])
        /\ spc[Peer(n)] = "next_syn_ack" =>
              \A x \in Seqs : <<n, x, SuccSeq(send_seq[Peer(n)])>> \notin answered

Met == \A n \in Nodes : MetAt(n)

(* Before any socket is closed, what was placed or answered still stands. *)
FirstLife ==
    closes = 0 =>
        /\ \A n \in Nodes, s \in Seqs : <<n, s>> \in begun => sest[n]
        /\ \A n \in Nodes, s, a \in Seqs : <<n, s, a>> \in answered => Answering(n)

Agreed == Numbers /\ Sides /\ Met /\ FirstLife

(* A SYN ACK counts the SYN: different numbers have different successors. *)
LEMMA SuccSeqInjective ==
  ASSUME NEW s \in Seqs, NEW t \in Seqs, SuccSeq(s) = SuccSeq(t) PROVE s = t
<1>1. ASSUME NEW r \in Seqs
      PROVE  SuccSeq(r) = IF r = Modulo - 1 THEN 0 ELSE r + 1
  <2>1. CASE r = Modulo - 1
    BY <2>1, HandshakeAssumption, ModuloAssumption DEF Seqs, SuccSeq, tcp_seq
  <2>2. CASE r # Modulo - 1
    BY <2>2, HandshakeAssumption, ModuloAssumption DEF Seqs, SuccSeq, tcp_seq
  <2> QED BY <2>1, <2>2, Zenon
<1> QED BY <1>1, HandshakeAssumption, ModuloAssumption DEF Seqs


(* A step of the network or of the worker. *)
LEMMA AgreedKept ==
  ASSUME Agreed,
         UNCHANGED <<send_seq, recv_seq, spc, rpc, winVars, drawn, closes>>
  PROVE  Agreed'
<1> USE DEF Agreed, winVars
<1>1. Numbers'
  BY DEF Numbers, AnsweredDrawn, BegunDrawn
<1>2. Sides' /\ FirstLife'
  BY Zenon DEF Sides, FirstLife, Answering
<1>3. Met'
  BY Zenon DEF Met, MetAt, Answering
<1> QED BY <1>1, <1>2, <1>3, Zenon

(* More numbers drawn, nothing answered or placed. *)
LEMMA NumbersKept ==
  ASSUME Numbers, UNCHANGED <<answered, begun>>, drawn \subseteq drawn'
  PROVE  Numbers'
<1>1. AnsweredDrawn'
  BY DEF Numbers, AnsweredDrawn
<1>2. BegunDrawn'
  BY Zenon DEF Numbers, BegunDrawn
<1> QED BY <1>1, <1>2, Zenon DEF Numbers

(* The SYN carries a number that nobody has answered. *)
LEMMA SendCallAgreed ==
  ASSUME HInv, Agreed, NEW n \in Nodes, SendCall(n) PROVE Agreed'
<1> USE DEF HInv, Agreed
<1>1. UNCHANGED <<recv_seq, rpc, winVars, boundVars>> /\ spc[n] = "idle"
  BY Zenon DEF SendCall
<1> USE <1>1 DEF winVars, boundVars
<1>2. ~sest[n]
  BY Zenon DEF Sides
<1>3. FirstLife'
  BY Zenon DEF FirstLife, Answering
<1>4. CASE state[n] # "CLOSED"
  <2>1. spc' = [spc EXCEPT ![n] = "done"] /\ UNCHANGED <<drawn, send_seq>>
    BY <1>4, Zenon DEF SendCall
  <2>2. Numbers'
    BY <2>1, NumbersKept, Zenon
  <2>4. Sides'
    BY <1>2, <2>1, Zenon DEF Sides, TypeOK
  <2>3. Met'
    BY <2>1, Zenon DEF Met, MetAt, Answering, TypeOK
  <2> QED BY <1>3, <2>2, <2>3, <2>4, Zenon
<1>5. CASE state[n] = "CLOSED"
  <2>1. PICK s \in Seqs : Rand(s) /\ send_seq' = [send_seq EXCEPT ![n] = s]
    BY <1>5, Zenon DEF SendCall, SendEstablish
  <2>2. /\ spc' = [spc EXCEPT ![n] = "next_syn_ack"]
        /\ drawn' = drawn \cup {s} /\ s \notin drawn
    BY <1>5, <2>1, Zenon DEF SendCall, Rand
  <2>3. Numbers'
    BY <2>2, NumbersKept, Zenon
  <2>4. Sides'
    BY <1>2, <2>2, Zenon DEF Sides, TypeOK
  <2>5. ASSUME NEW k \in Nodes, NEW x \in Seqs PROVE <<k, x, SuccSeq(s)>> \notin answered
    <3>1. \A e \in drawn : SuccSeq(s) # SuccSeq(e)
      BY <2>2, SuccSeqInjective, Zenon DEF TypeOK
    <3>2. SuccSeq(s) \in Seqs
      BY SuccSeqType, Zenon
    <3> QED BY <3>1, <3>2 DEF Numbers, AnsweredDrawn
  <2>6. ASSUME NEW k \in Nodes PROVE MetAt(k)'
    <3>1. CASE Peer(k) = n
      BY <1>2, <2>1, <2>5, <3>1, Zenon DEF MetAt, TypeOK
    <3>2. CASE Peer(k) # n
      <4>1. /\ spc'[Peer(k)] = spc[Peer(k)] /\ send_seq'[Peer(k)] = send_seq[Peer(k)]
            /\ MetAt(k)
        BY <2>1, <2>2, <3>2, PeerType, Zenon DEF TypeOK, Met
      <4> QED BY <4>1, Zenon DEF MetAt, Answering
    <3> QED BY <3>1, <3>2, Zenon
  <2> QED BY <1>3, <2>3, <2>4, <2>6, Zenon DEF Met
<1> QED BY <1>4, <1>5, Zenon

(* The window of a socket whose SYN was answered is placed where the       *)
(* answer says.                                                            *)
LEMMA TakeSynAckAgreed ==
  ASSUME HInv, Agreed, NEW n \in Nodes, TakeSynAck(n) PROVE Agreed'
<1> USE DEF HInv, Agreed
<1>1. /\ UNCHANGED <<send_seq, recv_seq, rpc, rwin, rest, answered, drawn, boundVars>>
      /\ spc[n] = "next_syn_ack" /\ NextMsg(n)
  BY Zenon DEF TakeSynAck
<1> USE <1>1 DEF boundVars
<1> DEFINE m == Head(queue[n])
<1>2. m \in Msgs /\ m.to = n /\ Backed(m)
  <2>1. HistoryGrows
    BY Zenon DEF TakeSynAck, SendEstablished, HistoryGrows
  <2> QED BY <2>1, QueueTail, Zenon
<1> HIDE DEF m
<1>3. CASE ~IsMySynAck(n, m)
  <2>1. UNCHANGED <<swin, sest, begun, spc>>
    BY <1>3, Zenon DEF TakeSynAck, m
  <2> QED BY <2>1, AgreedKept, Zenon DEF winVars
<1>4. CASE IsMySynAck(n, m)
  <2> DEFINE w == SuccSeq(m.seq)
  <2>1. /\ swin' = [swin EXCEPT ![n] = w] /\ sest' = [sest EXCEPT ![n] = TRUE]
        /\ begun' = begun \cup {<<n, w>>} /\ spc' = [spc EXCEPT ![n] = "done"]
    BY <1>4, Zenon DEF TakeSynAck, SendEstablished, m
  <2>2. /\ m.seq \in Seqs /\ w \in Seqs /\ SuccSeq(send_seq[n]) \in Seqs
        /\ Peer(n) \in Nodes /\ <<Peer(n), w, SuccSeq(send_seq[n])>> \in answered
    BY <1>2, <1>4, SuccSeqType, PeerType, Zenon DEF Msgs, TypeOK, Backed, IsMySynAck
  <2> HIDE DEF w
  <2>3. Numbers'
    <3>1. \E d \in drawn : w = SuccSeq(d)
      BY <2>2 DEF Numbers, AnsweredDrawn
    <3>2. BegunDrawn'
      BY <2>1, <3>1, Zenon DEF Numbers, BegunDrawn
    <3>3. AnsweredDrawn'
      BY DEF Numbers, AnsweredDrawn
    <3> QED BY <3>2, <3>3, Zenon DEF Numbers
  <2>4. Sides'
    BY <2>1 DEF Sides, TypeOK
  <2>5. FirstLife'
    BY <2>1, Zenon DEF FirstLife, Answering, TypeOK
  <2>6. ASSUME NEW k \in Nodes PROVE MetAt(k)'
    <3>1. CASE Peer(k) = n
      <4>1. k = Peer(n) /\ SuccSeq(recv_seq[k]) \in Seqs
        BY <3>1, PeerType, SuccSeqType, Zenon DEF TypeOK
      <4>2. swin'[n] = w /\ spc'[n] = "done"
        BY <2>1, Zenon DEF TypeOK
      <4>3. CASE w = SuccSeq(recv_seq[k])
        BY <3>1, <4>2, <4>3, Zenon DEF MetAt
      <4>4. CASE w # SuccSeq(recv_seq[k])
        <5>1. ~(Answering(k) /\ <<n, SuccSeq(recv_seq[k])>> \in begun)
          BY <2>2, <3>1, <4>1, Zenon DEF Met, MetAt
        <5>2. <<n, SuccSeq(recv_seq[k])>> \in begun' => <<n, SuccSeq(recv_seq[k])>> \in begun
          BY <2>1, <4>4, Zenon
        <5> QED BY <3>1, <5>1, <5>2, Zenon DEF MetAt, Answering
      <4> QED BY <4>3, <4>4, Zenon
    <3>2. CASE Peer(k) # n
      <4>1. /\ spc'[Peer(k)] = spc[Peer(k)] /\ sest'[Peer(k)] = sest[Peer(k)]
            /\ swin'[Peer(k)] = swin[Peer(k)] /\ MetAt(k)
        BY <2>1, <3>2, PeerType, Zenon DEF TypeOK, Met
      <4>2. <<Peer(k), SuccSeq(recv_seq[k])>> \in begun' =>
              <<Peer(k), SuccSeq(recv_seq[k])>> \in begun
        BY <2>1, <3>2, Zenon
      <4> QED BY <4>1, <4>2, Zenon DEF MetAt, Answering
    <3> QED BY <3>1, <3>2, Zenon
  <2> QED BY <2>3, <2>4, <2>5, <2>6, Zenon DEF Met
<1> QED BY <1>3, <1>4, Zenon


(* handshake(true) begins: nothing is answered yet. *)
LEMMA RecvCallAgreed ==
  ASSUME HInv, Agreed, NEW n \in Nodes, RecvCall(n) PROVE Agreed'
<1> USE DEF HInv, Agreed
<1>1. /\ UNCHANGED <<send_seq, recv_seq, spc, winVars, drawn, boundVars>>
      /\ rpc[n] = "idle"
      /\ \E v \in {"next_syn", "done"} : rpc' = [rpc EXCEPT ![n] = v]
  BY Zenon DEF RecvCall, memVars
<1> USE <1>1 DEF winVars, boundVars
<1>2. ASSUME NEW k \in Nodes PROVE Answering(k)' <=> Answering(k)
  BY Zenon DEF Answering, TypeOK
<1>3. Numbers' /\ Sides'
  BY NumbersKept, Zenon DEF Sides
<1>4. Met' /\ FirstLife'
  BY <1>2, Zenon DEF Met, MetAt, FirstLife
<1> QED BY <1>3, <1>4, Zenon

(* The SYN ACK carries a number where nobody has placed a window. *)
LEMMA TakeSynAgreed ==
  ASSUME HInv, Agreed, NEW n \in Nodes, TakeSyn(n) PROVE Agreed'
<1> USE DEF HInv, Agreed
<1>1. /\ UNCHANGED <<send_seq, spc, swin, rwin, sest, rest, begun, boundVars>>
      /\ rpc[n] = "next_syn" /\ NextMsg(n)
  BY Zenon DEF TakeSyn
<1> USE <1>1 DEF boundVars
<1> DEFINE m == Head(queue[n])
<1>2. m \in Msgs /\ m.to = n /\ Backed(m)
  <2>1. HistoryGrows
    BY Zenon DEF TakeSyn, RecvOnSyn, Rand, HistoryGrows
  <2> QED BY <2>1, QueueTail, Zenon
<1> HIDE DEF m
<1>3. CASE m.kind # "syn"
  <2>1. UNCHANGED <<drawn, recv_seq, answered, rpc>>
    BY <1>3, Zenon DEF TakeSyn, m
  <2> QED BY <2>1, AgreedKept, Zenon DEF winVars
<1>4. CASE m.kind = "syn"
  <2>1. PICK s \in Seqs :
          /\ Rand(s) /\ recv_seq' = [recv_seq EXCEPT ![n] = s]
          /\ answered' = answered \cup {<<n, SuccSeq(s), SuccSeq(m.seq)>>}
    BY <1>4, Zenon DEF TakeSyn, RecvOnSyn, m
  <2>2. /\ rpc' = [rpc EXCEPT ![n] = "next_ack"]
        /\ drawn' = drawn \cup {s} /\ s \notin drawn
    BY <1>4, <2>1, Zenon DEF TakeSyn, Rand, m
  <2>3. m.seq \in drawn /\ m.seq \in Seqs
    BY <1>2, <1>4, Zenon DEF Backed, Msgs
  <2>4. Numbers'
    <3>1. AnsweredDrawn'
      BY <2>1, <2>2, <2>3 DEF Numbers, AnsweredDrawn
    <3>2. BegunDrawn'
      BY <2>2, Zenon DEF Numbers, BegunDrawn
    <3> QED BY <3>1, <3>2, Zenon DEF Numbers
  <2>5. Sides'
    BY Zenon DEF Sides
  <2>6. ASSUME NEW k \in Nodes
        PROVE  /\ k # n => (Answering(k)' <=> Answering(k))
               /\ k = n => Answering(k)'
    BY <2>2, Zenon DEF Answering, TypeOK
  <2>7. FirstLife'
    BY <2>1, <2>6, Zenon DEF FirstLife
  <2>8. ASSUME NEW k \in Nodes PROVE MetAt(k)'
    <3>1. CASE k = n
      <4>1. recv_seq'[n] = s /\ SuccSeq(s) \in Seqs /\ Peer(n) \in Nodes
        BY <2>1, SuccSeqType, PeerType, Zenon DEF TypeOK
      <4>2. <<Peer(n), SuccSeq(s)>> \notin begun
        <5>1. \A d \in drawn : SuccSeq(s) # SuccSeq(d)
          BY <2>2, SuccSeqInjective, Zenon DEF TypeOK
        <5> QED BY <4>1, <5>1, Zenon DEF Numbers, BegunDrawn
      <4> QED BY <3>1, <4>1, <4>2, Zenon DEF MetAt
    <3>2. CASE k # n
      <4>1. recv_seq'[k] = recv_seq[k] /\ (Answering(k)' <=> Answering(k)) /\ MetAt(k)
        BY <2>1, <2>6, <3>2, Zenon DEF TypeOK, Met
      <4>2. ASSUME NEW x, NEW y, <<k, x, y>> \in answered' PROVE <<k, x, y>> \in answered
        BY <2>1, <3>2, <4>2, Zenon
      <4> QED BY <4>1, <4>2, Zenon DEF MetAt
    <3> QED BY <3>1, <3>2, Zenon
  <2> QED BY <2>4, <2>5, <2>7, <2>8, Zenon DEF Met
<1> QED BY <1>3, <1>4, Zenon

(* The receive window is placed: the socket still answers as it did. *)
LEMMA TakeAckAgreed ==
  ASSUME HInv, Agreed, NEW n \in Nodes, TakeAck(n) PROVE Agreed'
<1> USE DEF HInv, Agreed
<1>1. /\ UNCHANGED <<send_seq, recv_seq, spc, swin, sest, begun, answered, drawn,
                     boundVars>>
      /\ rpc[n] = "next_ack"
  BY Zenon DEF TakeAck
<1> USE <1>1 DEF boundVars
<1> DEFINE m == Head(queue[n])
<1> HIDE DEF m
<1>2. CASE ~IsMyAck(n, m)
  <2>1. UNCHANGED <<rwin, rest, rpc>>
    BY <1>2, Zenon DEF TakeAck, m
  <2> QED BY <2>1, AgreedKept, Zenon DEF winVars
<1>3. CASE IsMyAck(n, m)
  <2>1. /\ rwin' = [rwin EXCEPT ![n] = m.ack] /\ rest' = [rest EXCEPT ![n] = TRUE]
        /\ rpc' = [rpc EXCEPT ![n] = "done"]
    BY <1>3, Zenon DEF TakeAck, RecvEstablished, m
  <2>2. ASSUME NEW k \in Nodes PROVE Answering(k)' <=> Answering(k)
    BY <2>1, Zenon DEF Answering, TypeOK
  <2>3. Numbers' /\ Sides'
    BY <2>1, NumbersKept, Zenon DEF Sides, TypeOK
  <2>4. Met' /\ FirstLife'
    BY <2>2, Zenon DEF Met, MetAt, FirstLife
  <2> QED BY <2>3, <2>4, Zenon
<1> QED BY <1>2, <1>3, Zenon

(* A closed socket has placed no window and answers nothing. *)
LEMMA CloseAgreed ==
  ASSUME HInv, Agreed, NEW n \in Nodes, Close(n) PROVE Agreed'
<1> USE DEF HInv, Agreed
<1>1. UNCHANGED <<begun, answered, drawn>> /\ closes' = closes + 1
  BY Zenon DEF Close
<1>2. /\ ~sest'[n] /\ ~rest'[n] /\ spc'[n] = "idle" /\ rpc'[n] = "idle"
      /\ swin'[n] = 0 /\ rwin'[n] = 0
  BY Zenon DEF TypeOK, Close
<1>3. ASSUME NEW k \in Nodes, k # n
      PROVE  /\ sest'[k] = sest[k] /\ rest'[k] = rest[k] /\ spc'[k] = spc[k]
             /\ rpc'[k] = rpc[k] /\ swin'[k] = swin[k] /\ rwin'[k] = rwin[k]
             /\ send_seq'[k] = send_seq[k] /\ recv_seq'[k] = recv_seq[k]
  BY <1>3 DEF TypeOK, Close
<1>4. Numbers'
  BY <1>1, NumbersKept, Zenon
<1>5. Sides'
  BY <1>2, <1>3 DEF Sides
<1>6. FirstLife'
  <2>1. closes \in 0 .. MaxCloses
    BY Zenon DEF TypeOK
  <2>2. closes' # 0
    BY <1>1, <2>1, HandshakeAssumption, ModuloAssumption
  <2> QED BY <2>2, Zenon DEF FirstLife
<1>7. ASSUME NEW k \in Nodes PROVE MetAt(k)'
  <2>1. CASE k = n
    BY <1>2, <2>1, Zenon DEF MetAt, Answering
  <2>2. CASE k # n
    <3>1. Peer(k) = n
      BY <2>2, PeerType DEF Nodes, Peer
    <3> QED BY <1>2, <3>1, Zenon DEF MetAt
  <2> QED BY <2>1, <2>2, Zenon
<1> QED BY <1>4, <1>5, <1>6, <1>7, Zenon DEF Met

(* Every step keeps the order of the numbers. *)
LEMMA StepAgreed == HInv /\ Agreed /\ [Next]_vars => Agreed'
<1> SUFFICES ASSUME HInv, Agreed, [Next]_vars PROVE Agreed'
  BY Zenon
<1>1. CASE \/ \E m \in net : Deliver(m) \/ Accept(m) \/ Lose(m)
           \/ \E n \in Nodes : StartWorker(n) \/ WorkerTake(n) \/ WorkerOnAck(n)
           \/ UNCHANGED vars
  <2>1. UNCHANGED <<send_seq, recv_seq, spc, rpc, winVars, drawn, closes>>
    BY <1>1, Zenon DEF Deliver, Accept, Lose, StartWorker, WorkerTake, WorkerOnAck,
                vars, memVars, pcVars, boundVars
  <2> QED BY <2>1, AgreedKept, Zenon
<1>2. CASE \E n \in Nodes : \/ SendCall(n) \/ TakeSynAck(n) \/ RecvCall(n)
                            \/ TakeSyn(n) \/ TakeAck(n) \/ Close(n)
  BY <1>2, SendCallAgreed, TakeSynAckAgreed, RecvCallAgreed, TakeSynAgreed,
     TakeAckAgreed, CloseAgreed, Zenon
<1> QED BY <1>1, <1>2, Zenon DEF Next

LEMMA InitAgreed == Init => Agreed
  BY Zenon DEF Init, Agreed, Numbers, AnsweredDrawn, BegunDrawn, Sides, Met, MetAt, FirstLife, Answering

(* Two placed windows of a direction start at the same number. *)
LEMMA AgreedEstablished == HInv /\ Agreed => EstablishedAgree
<1> SUFFICES ASSUME HInv, Agreed, NEW n \in Nodes, rest[n], sest[Peer(n)]
             PROVE  rwin[n] = swin[Peer(n)]
  BY Zenon DEF EstablishedAgree
<1>1. rwin[n] = SuccSeq(recv_seq[n]) /\ <<Peer(n), rwin[n]>> \in begun
  BY Zenon DEF HInv, ReceiverFollowsSender
<1>2. MetAt(n) /\ Answering(n)
  BY Zenon DEF Agreed, Met, Answering
<1> QED BY <1>1, <1>2, Zenon DEF MetAt

(* Before a socket is closed, both windows of a direction are placed by    *)
(* its exchange or neither is: a window placed was answered by the socket  *)
(* that is there, and the answer of that socket was taken by the one that  *)
(* is there.                                                               *)
LEMMA AgreedDirections == HInv /\ Agreed => DirectionsAgree
<1> SUFFICES ASSUME HInv, Agreed, closes = 0, NEW n \in Nodes,
                    spc[n] = "done", rpc[Peer(n)] = "done"
             PROVE  swin[n] = rwin[Peer(n)]
  BY Zenon DEF DirectionsAgree
<1>1. Peer(n) \in Nodes /\ Peer(Peer(n)) = n
  BY PeerType, Zenon
<1>2. sest[n] => rest[Peer(n)]
  <2>1. sest[n] => <<Peer(n), swin[n], SuccSeq(send_seq[n])>> \in answered
    BY Zenon DEF HInv, SenderFollowsReceiver
  <2>2. sest[n] => Answering(Peer(n))
    BY <2>1, SuccSeqType, <1>1, Zenon DEF HInv, TypeOK, Agreed, FirstLife
  <2> QED BY <2>2, Zenon DEF Answering
<1>3. rest[Peer(n)] => sest[n]
  BY <1>1, Zenon DEF HInv, ReceiverFollowsSender, TypeOK, Agreed, FirstLife
<1>4. CASE sest[n]
  BY <1>1, <1>2, <1>4, AgreedEstablished, Zenon DEF EstablishedAgree
<1>5. CASE ~sest[n]
  BY <1>1, <1>3, <1>5, Zenon DEF Agreed, Sides
<1> QED BY <1>4, <1>5, Zenon

(* The invariant behind the agreement of the two ends. *)
THEOREM AgreementInvariant == Spec => []Agreed
  BY InitAgreed, StepAgreed, HandshakeInvariant, PTL DEF Spec

(* recv_established and send_established place the two windows of a        *)
(* direction at the same number, whatever messages of earlier sockets of   *)
(* these addresses arrive and however often sockets are closed.            *)
THEOREM WindowsAgree == Spec => []EstablishedAgree
  BY AgreedEstablished, HandshakeInvariant, AgreementInvariant, PTL

(* The state one direction establishes lets the other skip its exchange;   *)
(* until a socket is closed, the windows of both directions agree anyway.  *)
THEOREM DirectionsAlwaysAgree == Spec => []DirectionsAgree
  BY AgreedDirections, HandshakeInvariant, AgreementInvariant, PTL

-----------------------------------------------------------------------------
(* Sequence numbers and the window. *)

(* The cast to tcp_seq in the first two laps. *)
LEMMA TcpSeqTwoLaps ==
    ASSUME NEW n \in Nat, n < 2 * Modulo
    PROVE  tcp_seq(n) = IF n < Modulo THEN n ELSE n - Modulo
BY ModuloAssumption, SMT DEF tcp_seq

WInv == WindowTypeOK /\ NeverPastTheWrap

(* The window's numbers, as the arithmetic below needs them. *)
LEMMA WindowBounds ==
    ASSUME WInv
    PROVE  /\ begin(win) \in Nat /\ end(win) \in Nat
           /\ begin(win) = win.start + win.off /\ end(win) = win.start + WinSz
           /\ begin(win) < end(win) /\ end(win) <= begin(win) + WinSz
           /\ end(win) < 2 * Modulo
BY ModuloAssumption, WindowAssumption DEF WInv, WindowTypeOK, NeverPastTheWrap, begin, end

(* contains of one sequence number, without its local definitions. *)
LEMMA ContainsSingle ==
    ASSUME NEW w, NEW s \in Nat, begin(w) \in Nat, end(w) \in Nat,
           contains(w, SINGLE_WINDOW(s))
    PROVE  \/ begin(w) <= s /\ s + 1 <= end(w)
           \/ /\ s + 1 < tcp_seq(end(w)) /\ tcp_seq(end(w)) < begin(w)
              /\ s + 1 + Modulo <= end(w)
              /\ tcp_seq(s + 1) > s => begin(w) <= s + Modulo
              /\ ~(tcp_seq(s + 1) > s) => begin(w) <= s
<1>1. begin(SINGLE_WINDOW(s)) = s /\ end(SINGLE_WINDOW(s)) = s + 1
  BY DEF begin, end, SINGLE_WINDOW, receiver_window
<1>. QED  BY <1>1, ModuloAssumption, Zenon DEF contains

(* contains accepts only sequence numbers of the window's own positions.   *)
LEMMA InvImpliesSound == WInv => ContainsIsSound
<1>. SUFFICES ASSUME WInv, NEW s \in Seqs, contains(win, SINGLE_WINDOW(s))
              PROVE  \E p \in begin(win) .. end(win) - 1 : s = tcp_seq(p)
  BY Zenon DEF ContainsIsSound
<1>1. s \in Nat /\ s < Modulo  BY ModuloAssumption DEF Seqs
<1>2. CASE begin(win) <= s /\ s + 1 <= end(win)
  <2>1. tcp_seq(s) = s  BY <1>1, TcpSeqTwoLaps, ModuloAssumption
  <2>. QED  BY <1>1, <1>2, <2>1, WindowBounds
<1>3. CASE ~(begin(win) <= s /\ s + 1 <= end(win))
  <2>1. tcp_seq(end(win)) < Modulo
    BY WindowBounds, ModuloAssumption, SMT DEF tcp_seq
  <2>2. /\ s + 1 < tcp_seq(end(win)) /\ s + 1 + Modulo <= end(win)
        /\ tcp_seq(s + 1) > s => begin(win) <= s + Modulo
    BY <1>1, <1>3, ContainsSingle, WindowBounds, Zenon
  <2>3. tcp_seq(end(win)) \in Int
    BY WindowBounds, ModuloAssumption, SMT DEF tcp_seq
  <2>4. s + 1 < Modulo  BY <1>1, <2>1, <2>2, <2>3, ModuloAssumption
  <2>5. tcp_seq(s + 1) = s + 1  BY <1>1, <2>4, TcpSeqTwoLaps, ModuloAssumption
  <2>6. begin(win) <= s + Modulo  BY <1>1, <2>2, <2>5
  <2>7. tcp_seq(s + Modulo) = s  BY <1>1, TcpSeqTwoLaps, ModuloAssumption
  <2>. QED  BY <1>1, <2>2, <2>6, <2>7, WindowBounds, ModuloAssumption
<1>. QED  BY <1>2, <1>3, Zenon

(* contains rejects, of the window's own positions, only the last one of a *)
(* window that crosses the end of the sequence space.                      *)
LEMMA InvImpliesComplete == WInv => ContainsAllButTheEdge
<1>. SUFFICES ASSUME WInv, NEW p \in begin(win) .. end(win) - 1,
                     ~(p = end(win) - 1 /\ end(win) > Modulo)
              PROVE  contains(win, SINGLE_WINDOW(tcp_seq(p)))
  BY Zenon DEF ContainsAllButTheEdge
<1>. DEFINE s == tcp_seq(p)
<1>1. p \in Nat /\ p < 2 * Modulo /\ begin(win) <= p /\ p + 1 <= end(win)
  BY WindowBounds, ModuloAssumption
<1>2. s = IF p < Modulo THEN p ELSE p - Modulo  BY <1>1, TcpSeqTwoLaps, Zenon
<1>3. tcp_seq(end(win)) = IF end(win) < Modulo THEN end(win) ELSE end(win) - Modulo
  BY WindowBounds, TcpSeqTwoLaps, Zenon
<1>4. s \in Nat /\ s < Modulo  BY <1>1, <1>2, ModuloAssumption
<1>. HIDE DEF s
<1>5. begin(SINGLE_WINDOW(s)) = s /\ end(SINGLE_WINDOW(s)) = s + 1
  BY <1>4 DEF begin, end, SINGLE_WINDOW, receiver_window
<1>6. tcp_seq(s + 1) = IF s + 1 < Modulo THEN s + 1 ELSE s + 1 - Modulo
  BY <1>4, TcpSeqTwoLaps, ModuloAssumption
<1>7. contains(win, SINGLE_WINDOW(s))
  BY <1>1, <1>2, <1>3, <1>4, <1>5, <1>6, WindowBounds, ModuloAssumption,
     WindowAssumption DEF contains
<1>. QED  BY <1>7, Zenon DEF s

(* get_in_msg_off gives back the distance of a position from begin. *)
LEMMA InvImpliesExact == WInv => OffsetIsExact
<1>. SUFFICES ASSUME WInv, NEW p \in begin(win) .. end(win) - 1
              PROVE  get_in_msg_off(win, tcp_seq(p)) = p - begin(win)
  BY Zenon DEF OffsetIsExact
<1>1. p \in Nat /\ p < 2 * Modulo /\ begin(win) <= p /\ p < begin(win) + Modulo
  BY WindowBounds, ModuloAssumption, WindowAssumption
<1>2. tcp_seq(p) = IF p < Modulo THEN p ELSE p - Modulo  BY <1>1, TcpSeqTwoLaps, Zenon
<1>3. tcp_seq(begin(win)) = IF begin(win) < Modulo THEN begin(win) ELSE begin(win) - Modulo
  BY <1>1, WindowBounds, TcpSeqTwoLaps, ModuloAssumption
<1>. QED  BY <1>1, <1>2, <1>3, WindowBounds, ModuloAssumption DEF get_in_msg_off

(* The acknowledgement of the last byte of a window that ends past Modulo  *)
(* is rejected: that window never turns.                                   *)
LEMMA EdgeIsRejected ==
    ASSUME WInv, end(win) > Modulo
    PROVE  ~contains(win, SINGLE_WINDOW(tcp_seq(end(win) - 1)))
<1>. DEFINE s == tcp_seq(end(win) - 1)
<1>1. s = end(win) - 1 - Modulo
  BY WindowBounds, TcpSeqTwoLaps, ModuloAssumption
<1>2. tcp_seq(end(win)) = end(win) - Modulo
  BY WindowBounds, TcpSeqTwoLaps, ModuloAssumption
<1>3. s \in Nat  BY <1>1, WindowBounds, ModuloAssumption
<1>. HIDE DEF s
<1>4. begin(win) > s
  BY <1>1, WindowBounds, ModuloAssumption, WindowAssumption
<1>5. ~contains(win, SINGLE_WINDOW(s))
  BY <1>1, <1>2, <1>3, <1>4, ContainsSingle, WindowBounds, ModuloAssumption
<1>. QED  BY <1>5, Zenon DEF s

(* send keeps the invariant. *)
LEMMA SendPreserves == ASSUME WInv, NEW n \in 1 .. WinSz, Send(n) PROVE WInv'
BY WindowAssumption DEF WInv, WindowTypeOK, NeverPastTheWrap, Send, sent_sz

(* on_ack keeps the invariant. *)
LEMMA OnAckPreserves ==
    ASSUME WInv, NEW p \in win.start .. win.start + WinSz - 1, OnAck(p)
    PROVE  WInv'
<1>. DEFINE w == set_off_from_seq(win, tcp_seq(p))
<1>1. /\ begin(win) <= p /\ p < sent_begin(win)
      /\ contains(win, SINGLE_WINDOW(tcp_seq(p)))
      /\ win' = IF get_sz(w) = 0 THEN next_send_window(w) ELSE w
  BY Zenon DEF OnAck
<1>2. p \in Nat /\ p \in begin(win) .. end(win) - 1
  BY <1>1, WindowBounds, WindowAssumption DEF WInv, WindowTypeOK
<1>3. get_in_msg_off(win, tcp_seq(p)) = p - begin(win)
  BY <1>2, InvImpliesExact, Zenon DEF OffsetIsExact
<1>4. w = [win EXCEPT !.off = win.off + (p - begin(win) + 1)]
  BY <1>3, Zenon DEF set_off_from_seq, inc, WInv, WindowTypeOK
<1>5. w = [start |-> win.start, off |-> p + 1 - win.start,
           sent_off |-> win.sent_off, sz |-> WinSz]
  BY <1>2, <1>4, WindowBounds DEF WInv, WindowTypeOK
<1>. HIDE DEF w
<1>6. CASE get_sz(w) = 0
  <2>1. p = end(win) - 1  BY <1>2, <1>5, <1>6, WindowBounds, WindowAssumption DEF get_sz, WInv, WindowTypeOK
  <2>2. end(win) <= Modulo  BY <1>1, <2>1, EdgeIsRejected, WindowBounds, ModuloAssumption
  <2>3. win' = [start |-> win.start + WinSz, off |-> 0, sent_off |-> 0, sz |-> WinSz]
    BY <1>1, <1>5, <1>6, Zenon DEF next_send_window
  <2>. QED  BY <2>2, <2>3, WindowBounds, WindowAssumption
            DEF WInv, WindowTypeOK, NeverPastTheWrap
<1>7. CASE get_sz(w) # 0
  <2>1. win' = w  BY <1>1, <1>7, Zenon
  <2>2. p + 1 - win.start # WinSz
    BY <1>2, <1>5, <1>7, WindowAssumption DEF get_sz, WInv, WindowTypeOK
  <2>. QED  BY <1>1, <1>2, <1>5, <2>1, <2>2, WindowBounds, WindowAssumption
            DEF WInv, WindowTypeOK, NeverPastTheWrap, sent_begin
<1>. QED  BY <1>6, <1>7, Zenon

(* The inductive invariant of the window. *)
THEOREM WindowInvariant == WindowSpec => []WInv
<1>1. WindowInit => WInv
  BY ModuloAssumption, WindowAssumption DEF Seqs, WindowInit, WInv, WindowTypeOK, NeverPastTheWrap
<1>2. WInv /\ [WindowNext]_win => WInv'
  <2>. SUFFICES ASSUME WInv, [WindowNext]_win PROVE WInv'  BY Zenon
  <2>1. CASE UNCHANGED win  BY <2>1, Zenon DEF WInv, WindowTypeOK, NeverPastTheWrap
  <2>. QED  BY <2>1, SendPreserves, OnAckPreserves, Zenon DEF WindowNext
<1>. QED  BY <1>1, <1>2, PTL DEF WindowSpec

(* on_ack never takes an acknowledgement from outside the window. *)
THEOREM ContainsSound == WindowSpec => []ContainsIsSound
BY WindowInvariant, InvImpliesSound, PTL

(* on_ack takes every acknowledgement from inside the window but that of   *)
(* the last byte of a window that crosses the end of the sequence space.   *)
THEOREM ContainsComplete == WindowSpec => []ContainsAllButTheEdge
BY WindowInvariant, InvImpliesComplete, PTL

(* set_off_from_seq moves off to just behind the acknowledged byte. *)
THEOREM OffsetExact == WindowSpec => []OffsetIsExact
BY WindowInvariant, InvImpliesExact, PTL

(* The limit of a connection: its window never turns past the end of the   *)
(* sequence space, so that a send() which comes to it does not return.     *)
THEOREM StallsAtTheWrap == WindowSpec => []NeverPastTheWrap
<1>1. WInv => NeverPastTheWrap  BY Zenon DEF WInv
<1>. QED  BY <1>1, WindowInvariant, PTL

-----------------------------------------------------------------------------
(* The retransmission timeout. *)

(* While no clock was set back the averages stay within the samples, and   *)
(* the timeout they give covers the last one.                              *)
RtoInv ==
    /\ rtt \in Rtts /\ back \in Nat /\ clean \in BOOLEAN
    /\ back = 0 =>
         /\ SRTT \in 0 .. MaxRtt /\ RTTVAR \in 0 .. MaxRtt
         /\ clean => SRTT = 0 /\ RTTVAR = 0
         /\ ~clean => last \in 0 .. MaxRtt
                      /\ SRTT + Larger(Gkof, K * RTTVAR) >= last

(* Neither product nor sum of __get_rto leaves size_t. *)
LEMMA NoOverflow ==
  ASSUME SRTT \in 0 .. MaxRtt, RTTVAR \in 0 .. MaxRtt
  PROVE  get_rto = SRTT + Larger(Gkof, K * RTTVAR)
<1>1. /\ MaxRtt \in Nat /\ Gkof \in Nat /\ SizeMod \in Nat
      /\ SizeMod > 10 * MaxRtt + 2 * Gkof
  BY RtoAssumption DEF K
<1>2. 4 * RTTVAR \in 0 .. SizeMod - 1
  BY <1>1
<1>3. (4 * RTTVAR) % SizeMod = 4 * RTTVAR
  BY <1>1, <1>2
<1> DEFINE m == Larger(Gkof, 4 * RTTVAR)
<1>4. SRTT + m \in 0 .. SizeMod - 1
  BY <1>1, <1>2 DEF Larger
<1>5. (SRTT + m) % SizeMod = SRTT + m
  <2> HIDE DEF m
  <2> QED BY <1>1, <1>4
<1> QED BY <1>3, <1>5, Zenon DEF get_rto, K

(* A sample that is not negative survives the conversion to size_t, and    *)
(* an average the conversion back.                                         *)
LEMMA NoConversion ==
  ASSUME NEW R \in 0 .. MaxRtt
  PROVE  size(R) = R /\ ssize(R) = R
<1>1. MaxRtt \in Nat /\ SizeMod \in Nat /\ 2 * R < SizeMod /\ R \in 0 .. SizeMod - 1
  BY RtoAssumption DEF K
<1> QED BY <1>1 DEF size, ssize

(* One smoothing step keeps the averages within the samples. *)
LEMMA SmoothingStays ==
  ASSUME NEW M \in Nat, NEW S \in 0 .. M, NEW V \in 0 .. M, NEW R \in 0 .. M,
         NEW D \in 0 .. M
  PROVE  (7 * S + R) \div 8 \in 0 .. M /\ (3 * V + D) \div 4 \in 0 .. M
  OBVIOUS

(* The timeout after one smoothing step covers the sample: the quarter of  *)
(* the difference that enters RTTVAR is multiplied by 4 again, what the    *)
(* two divisions cut off is less than what SRTT gains for a difference of  *)
(* 31 or more, and Gkof covers a smaller one.                              *)
LEMMA SmoothingCovers ==
  ASSUME NEW S \in Nat, NEW V \in Nat, NEW R \in Nat, NEW G \in Nat, G >= 28
  PROVE  ((7 * S + R) \div 8) + Larger(G, 4 * ((3 * V + Abs(S - R)) \div 4)) >= R
<1> DEFINE s == (7 * S + R) \div 8
           v == (3 * V + Abs(S - R)) \div 4
<1>1. s \in Nat /\ 8 * s >= 7 * S + R - 7
  OBVIOUS
<1>2. Abs(S - R) \in Nat /\ Abs(S - R) >= R - S
  BY DEF Abs
<1>3. v \in Nat /\ 4 * v >= R - S - 3
  <2> DEFINE d == 3 * V + Abs(S - R)
  <2>1. d \in Nat /\ d >= R - S
    BY <1>2
  <2> HIDE DEF d
  <2>2. d \div 4 \in Nat /\ 4 * (d \div 4) >= d - 3
    BY <2>1
  <2> QED BY <2>1, <2>2 DEF d
<1>4. Larger(G, 4 * v) >= G /\ Larger(G, 4 * v) >= 4 * v /\ Larger(G, 4 * v) \in Nat
  BY <1>3 DEF Larger
<1> HIDE DEF s, v
<1> DEFINE l == Larger(G, 4 * v)
<1>5. l \in Nat /\ l >= 28 /\ l >= R - S - 3
  BY <1>3, <1>4
<1> HIDE DEF l
<1>6. s + l >= R
  <2>1. CASE R - S >= 31
    BY <1>1, <1>5, <2>1
  <2>2. CASE R - S < 31
    BY <1>1, <1>5, <2>2
  <2> QED BY <2>1, <2>2
<1> QED BY <1>6, Zenon DEF s, v, l

(* refresh with the round-trip time of the path. *)
LEMMA SamplePreserves ==
  ASSUME RtoInv, Sample PROVE RtoInv'
<1>1. rtt' \in Rtts /\ back' = back /\ rtt' = rtt /\ clean' = FALSE /\ last' = rtt
  BY Zenon DEF RtoInv, Sample, refresh
<1>2. rtt \in 0 .. MaxRtt /\ MaxRtt \in Nat /\ Gkof \in Nat /\ Gkof >= 28
  BY RtoAssumption, Zenon DEF RtoInv
<1>3. size(rtt) = rtt /\ ssize(rtt) = rtt
  BY <1>2, NoConversion, Zenon
<1>4. ASSUME back = 0
      PROVE  /\ SRTT' \in 0 .. MaxRtt /\ RTTVAR' \in 0 .. MaxRtt
             /\ SRTT' + Larger(Gkof, 4 * RTTVAR') >= rtt
  <2>1. SRTT \in 0 .. MaxRtt /\ RTTVAR \in 0 .. MaxRtt /\ ssize(SRTT) = SRTT
    BY <1>4, NoConversion, Zenon DEF RtoInv
  <2>2. CASE clean
    <3>1. SRTT' = rtt /\ RTTVAR' = rtt \div 2
      BY <1>3, <2>2, Zenon DEF Sample, refresh
    <3> QED BY <1>2, <3>1 DEF Larger
  <2>3. CASE ~clean
    <3>1. /\ RTTVAR' = (3 * RTTVAR + Abs(SRTT - rtt)) \div 4
          /\ SRTT' = (7 * SRTT + rtt) \div 8
      BY <1>3, <2>1, <2>3, Zenon DEF Sample, refresh, smoothed_var, smoothed_rtt
    <3>2. Abs(SRTT - rtt) \in 0 .. MaxRtt
      BY <1>2, <2>1 DEF Abs
    <3>3. SRTT' \in 0 .. MaxRtt /\ RTTVAR' \in 0 .. MaxRtt
      BY <1>2, <2>1, <3>1, <3>2, SmoothingStays, Zenon
    <3>4. SRTT' + Larger(Gkof, 4 * RTTVAR') >= rtt
      BY <1>2, <2>1, <3>1, SmoothingCovers
    <3> QED BY <3>3, <3>4, Zenon
  <2> QED BY <2>2, <2>3, Zenon DEF RtoInv
<1> QED BY <1>1, <1>2, <1>4, Zenon DEF RtoInv, K

(* Every step keeps the invariant. *)
LEMMA RtoStep == RtoInv /\ [RtoNext]_rtoVars => RtoInv'
<1> SUFFICES ASSUME RtoInv, [RtoNext]_rtoVars PROVE RtoInv'
  BY Zenon
<1>1. CASE Sample
  BY <1>1, SamplePreserves, Zenon
<1>2. CASE SampleBack
  <2>1. UNCHANGED rtt /\ back' = back + 1 /\ clean' = FALSE
    BY <1>2, Zenon DEF SampleBack, refresh
  <2>2. back' \in Nat /\ back' # 0
    BY <2>1 DEF RtoInv
  <2> QED BY <2>1, <2>2, Zenon DEF RtoInv
<1>3. CASE PathChanges
  BY <1>3, Zenon DEF PathChanges, RtoInv, Larger
<1>4. CASE UNCHANGED rtoVars
  BY <1>4, Zenon DEF rtoVars, RtoInv, Larger
<1> QED BY <1>1, <1>2, <1>3, <1>4, Zenon DEF RtoNext

(* The inductive invariant of timeout_computing. *)
THEOREM RtoInvariant == RtoSpec => []RtoInv
<1>1. RtoInit => RtoInv
  BY RtoAssumption DEF RtoInit, RtoInv
<1> QED BY <1>1, RtoStep, PTL DEF RtoSpec

(* The averages of timeout_computing stay within the samples and           *)
(* __get_rto neither overflows nor falls below SRTT + Gkof, until a clock  *)
(* is set back.                                                            *)
THEOREM TimeoutIsBounded == RtoSpec => []RtoBounds
<1>1. RtoInv => RtoBounds
  <2> SUFFICES ASSUME RtoInv, back = 0
               PROVE  /\ SRTT \in 0 .. MaxRtt /\ RTTVAR \in 0 .. MaxRtt
                      /\ get_rto >= SRTT + Gkof
                      /\ get_rto <= MaxRtt + Larger(Gkof, K * MaxRtt)
    BY Zenon DEF RtoBounds
  <2>1. SRTT \in 0 .. MaxRtt /\ RTTVAR \in 0 .. MaxRtt
    BY Zenon DEF RtoInv
  <2>2. get_rto = SRTT + Larger(Gkof, 4 * RTTVAR)
    BY <2>1, NoOverflow, Zenon DEF K
  <2>3. MaxRtt \in Nat /\ Gkof \in Nat
    BY RtoAssumption, Zenon
  <2> QED BY <2>1, <2>2, <2>3 DEF Larger, K
<1> QED BY <1>1, RtoInvariant, PTL

(* The timeout __get_rto computes after a sample is never shorter than     *)
(* that sample, until a clock is set back.                                 *)
THEOREM TimeoutCovers == RtoSpec => []TimeoutCoversSample
<1>1. RtoInv => TimeoutCoversSample
  BY NoOverflow, Zenon DEF RtoInv, TimeoutCoversSample
<1> QED BY <1>1, RtoInvariant, PTL
=============================================================================
