-------------------------- MODULE HostQueuesProofs --------------------------
(***************************************************************************)
(* What the readers of a host do to the order of packets, for any number   *)
(* of sockets, threads, packets, accepts and closes, and any capacity.     *)
(*                                                                         *)
(* FirstCopiesInOrder is not inductive.  A reader may queue a packet       *)
(* because no earlier one can still be missing: whatever has not come to   *)
(* a queue is in front of every reader, in its raw socket or in its hand   *)
(* (AllSeen), raw sockets are in order (Rising) and what a reader has in   *)
(* hand comes before what it has not read yet (Ahead).  So the packets     *)
(* that have come to a queue leave no gap (NoGap).  A socket just accepted *)
(* has got one packet only, the one accept_one_client has still to         *)
(* enqueue (SoleAccepted).                                                 *)
(*                                                                         *)
(* SelectedIsThere needs to know that what select has seen in a queue is   *)
(* still there while the thread reads and passes on a packet (There): only *)
(* the thread itself takes from its queue.                                 *)
(***************************************************************************)
EXTENDS HostQueues, TLAPS

-----------------------------------------------------------------------------
(* The facts on sequences that the proofs below cite: those of the library's *)
(* SequenceTheorems, without the weight of that module on every obligation.  *)

LEMMA SeqDef ==
    ASSUME NEW S
    PROVE  Seq(S) = UNION {[1 .. n -> S] : n \in Nat}
  OBVIOUS

LEMMA ElementOfSeq ==
    ASSUME NEW S, NEW sq \in Seq(S), NEW n \in 1 .. Len(sq)
    PROVE  sq[n] \in S
  OBVIOUS

LEMMA EmptySeq ==
    ASSUME NEW S
    PROVE  /\ <<>> \in Seq(S)
           /\ Len(<<>>) = 0
           /\ \A sq \in Seq(S) : sq # <<>> => Len(sq) \in Nat \ {0}
  OBVIOUS

LEMMA LenProperties ==
    ASSUME NEW S, NEW sq \in Seq(S)
    PROVE  /\ Len(sq) \in Nat
           /\ sq \in [1 .. Len(sq) -> S]
           /\ DOMAIN sq = 1 .. Len(sq)
  OBVIOUS

LEMMA HeadTailProperties ==
    ASSUME NEW S, NEW sq \in Seq(S), sq # <<>>
    PROVE  /\ Head(sq) \in S
           /\ Tail(sq) \in Seq(S)
           /\ Len(Tail(sq)) = Len(sq) - 1
           /\ \A i \in 1 .. Len(Tail(sq)) : Tail(sq)[i] = sq[i + 1]
  OBVIOUS

LEMMA AppendProperties ==
    ASSUME NEW S, NEW sq \in Seq(S), NEW e \in S
    PROVE  /\ Append(sq, e) \in Seq(S)
           /\ Append(sq, e) # <<>>
           /\ Len(Append(sq, e)) = Len(sq) + 1
           /\ \A i \in 1 .. Len(sq) : Append(sq, e)[i] = sq[i]
           /\ Append(sq, e)[Len(sq) + 1] = e
  OBVIOUS

-----------------------------------------------------------------------------

OneReader == \A t, u \in Threads : SockOf[t] = SockOf[u] => t = u

InHand == {"put_msg", "mq_send", "accept"}
Gone == {"stuck", "crashed"}

\* A reader has a packet in hand that was sent and is not corrupt, and the
\* queue it is blocked on and the socket it reads for are open
Hand(t) ==
    /\ pc[t] \in InHand \cup {"enqueue"} => cur[t] \in (1 .. sent) \ Corrupt
    /\ pc[t] \in {"mq_send", "enqueue"} => Dests[cur[t]] \in open
    /\ t \in Threads => /\ pc[t] \notin {"accept", "enqueue"}
                        /\ pc[t] \notin {"idle", "crashed"} => SockOf[t] \in open
    /\ t = Listener => pc[t] \notin {"get_msg", "parked"}

Hands == \A t \in Readers : Hand(t)

\* What a closed socket has, and what a queue holds
Queues ==
    \A s \in Socks :
        /\ s \notin open => raw[s] = <<>> /\ arrived[s] = <<>>
        /\ Range(q[s]) \subseteq Range(arrived[s])
        /\ \A n \in Range(arrived[s]) : Dests[n] = s

Increasing(s) == \A i, j \in DOMAIN s : i < j => s[i] < s[j]

\* A raw socket holds packets in the order in which they were sent
Rising == \A r \in Raws : Increasing(raw[r])

\* A packet in hand comes before those behind it, or it is one enqueued again
Ahead(t) ==
    pc[t] \in InHand =>
        \/ t \in Threads /\ Dests[cur[t]] = SockOf[t] /\ cur[t] \in Range(arrived[SockOf[t]])
        \/ \A n \in Range(raw[RawOf(t)]) : cur[t] < n

SoleAccepted ==
    pc[Listener] = "enqueue" /\ Dests[cur[Listener]] \notin late =>
        \A n \in (1 .. sent) \ Corrupt : Dests[n] = Dests[cur[Listener]] => n = cur[Listener]

Seen(t, n) ==
    \/ n \in Range(raw[RawOf(t)])
    \/ pc[t] \in InHand /\ n = cur[t]
    \/ pc[Listener] = "enqueue" /\ n = cur[Listener]

Live(t) == RawOf(t) \in open \cup {Listener} /\ pc[t] \notin Gone

AllSeen ==
    \A s \in open \ late : \A n \in Missing(s, NoPacket) :
        \A t \in Readers : Live(t) => Seen(t, n)

\* A socket has got every packet before one it has got
NoGap ==
    \A s \in Socks \ late : \A a \in Range(arrived[s]) : \A n \in (1 .. sent) \ Corrupt :
        Dests[n] = s /\ n < a => n \in Range(arrived[s])

HTypes == TypeOK /\ arrived \in [Socks -> Seq((1 .. sent) \ Corrupt)]

HInv == HTypes /\ Hands /\ Queues /\ Rising

InOrder == \A s \in Socks \ late : Increasing(arrived[s])

Ordered == /\ \A t \in Readers : Ahead(t)
           /\ SoleAccepted /\ AllSeen /\ NoGap /\ InOrder

OInv == OneReader => Ordered

-----------------------------------------------------------------------------
(* Sequences. *)

LEMMA AppendSet ==
  ASSUME NEW T, NEW s \in Seq(T), NEW x \in T
  PROVE  /\ Append(s, x) \in Seq(T)
         /\ Range(Append(s, x)) = Range(s) \cup {x}
         /\ Len(Append(s, x)) = Len(s) + 1
<1>1. /\ Append(s, x) \in Seq(T) /\ Len(Append(s, x)) = Len(s) + 1
      /\ \A i \in 1 .. Len(s) : Append(s, x)[i] = s[i]
      /\ Append(s, x)[Len(s) + 1] = x
  BY AppendProperties
<1>2. DOMAIN s = 1 .. Len(s) /\ DOMAIN Append(s, x) = 1 .. Len(s) + 1 /\ Len(s) \in Nat
  BY <1>1, LenProperties, Zenon
<1>3. ASSUME NEW y PROVE y \in Range(Append(s, x)) <=> y \in Range(s) \cup {x}
  BY <1>1, <1>2 DEF Range
<1> QED BY <1>1, <1>3, Zenon

LEMMA HeadTailSet ==
  ASSUME NEW T, NEW s \in Seq(T), s # <<>>
  PROVE  /\ Tail(s) \in Seq(T) /\ Head(s) \in T /\ Head(s) \in Range(s)
         /\ Range(s) = {Head(s)} \cup Range(Tail(s))
         /\ Len(Tail(s)) = Len(s) - 1
<1>1. /\ Tail(s) \in Seq(T) /\ Len(Tail(s)) = Len(s) - 1 /\ Len(s) \in Nat /\ Len(s) # 0
      /\ \A i \in 1 .. Len(Tail(s)) : Tail(s)[i] = s[i + 1]
      /\ Head(s) = s[1] /\ Head(s) \in T
  BY HeadTailProperties, EmptySeq, LenProperties
<1>2. DOMAIN s = 1 .. Len(s) /\ DOMAIN Tail(s) = 1 .. Len(s) - 1
  BY <1>1, LenProperties, Zenon
<1>3. Head(s) \in Range(s)
  BY <1>1, <1>2 DEF Range
<1>4. ASSUME NEW y \in Range(s) PROVE y = Head(s) \/ y \in Range(Tail(s))
  <2>1. PICK i \in 1 .. Len(s) : y = s[i]
    BY <1>2, Zenon DEF Range
  <2>2. CASE i = 1
    BY <1>1, <2>1, <2>2, Zenon
  <2>3. CASE i # 1
    <3>1. i - 1 \in 1 .. Len(s) - 1 /\ Tail(s)[i - 1] = s[i]
      BY <1>1, <2>3
    <3> QED BY <1>2, <2>1, <3>1, Zenon DEF Range
  <2> QED BY <2>2, <2>3, Zenon
<1>5. ASSUME NEW y \in Range(Tail(s)) PROVE y \in Range(s)
  <2>1. PICK i \in 1 .. Len(s) - 1 : y = Tail(s)[i]
    BY <1>2, Zenon DEF Range
  <2>2. i + 1 \in 1 .. Len(s) /\ y = s[i + 1]
    BY <1>1, <2>1
  <2> QED BY <1>2, <2>2, Zenon DEF Range
<1> QED BY <1>1, <1>3, <1>4, <1>5, Zenon

LEMMA EmptySet == Range(<<>>) = {}
BY EmptySeq, LenProperties DEF Range

LEMMA SeqGrows ==
  ASSUME NEW S, NEW T, S \subseteq T, NEW s \in Seq(S) PROVE s \in Seq(T)
<1>1. s \in [1 .. Len(s) -> S] /\ Len(s) \in Nat
  BY LenProperties, Zenon
<1>2. s \in [1 .. Len(s) -> T]
  BY <1>1, Zenon
<1> QED BY <1>1, <1>2, SeqDef

LEMMA AppendIncreasing ==
  ASSUME NEW s \in Seq(Nat), Increasing(s), NEW x \in Nat, \A n \in Range(s) : n < x
  PROVE  Increasing(Append(s, x))
<1>1. /\ Len(Append(s, x)) = Len(s) + 1 /\ Append(s, x) \in Seq(Nat)
      /\ \A i \in 1 .. Len(s) : Append(s, x)[i] = s[i]
      /\ Append(s, x)[Len(s) + 1] = x
  BY AppendProperties
<1>2. DOMAIN s = 1 .. Len(s) /\ DOMAIN Append(s, x) = 1 .. Len(s) + 1 /\ Len(s) \in Nat
  BY <1>1, LenProperties, Zenon
<1>3. \A i \in 1 .. Len(s) : s[i] < x
  BY <1>2, Zenon DEF Range
<1>4. ASSUME NEW i \in 1 .. Len(s) + 1, NEW j \in 1 .. Len(s) + 1, i < j
      PROVE  Append(s, x)[i] < Append(s, x)[j]
  <2>1. i \in 1 .. Len(s)
    BY <1>2, <1>4
  <2>2. CASE j = Len(s) + 1
    BY <1>1, <1>3, <2>1, <2>2, Zenon
  <2>3. CASE j # Len(s) + 1
    <3>1. j \in 1 .. Len(s)
      BY <1>2, <2>3
    <3> QED BY <1>1, <1>2, <1>4, <2>1, <3>1, Zenon DEF Increasing
  <2> QED BY <2>2, <2>3, Zenon
<1> QED BY <1>2, <1>4, Zenon DEF Increasing

LEMMA TailIncreasing ==
  ASSUME NEW s \in Seq(Nat), Increasing(s), s # <<>>
  PROVE  Increasing(Tail(s)) /\ \A n \in Range(Tail(s)) : Head(s) < n
<1>1. /\ Tail(s) \in Seq(Nat) /\ Len(Tail(s)) = Len(s) - 1 /\ Len(s) \in Nat /\ Len(s) # 0
      /\ \A i \in 1 .. Len(Tail(s)) : Tail(s)[i] = s[i + 1]
      /\ Head(s) = s[1]
  BY HeadTailProperties, EmptySeq, LenProperties
<1>2. DOMAIN s = 1 .. Len(s) /\ DOMAIN Tail(s) = 1 .. Len(s) - 1
  BY <1>1, LenProperties, Zenon
<1>3. ASSUME NEW i \in 1 .. Len(s) - 1 PROVE Head(s) < Tail(s)[i]
  <2>1. 1 \in 1 .. Len(s) /\ i + 1 \in 1 .. Len(s) /\ 1 < i + 1
    BY <1>1
  <2> QED BY <1>1, <1>2, <2>1, Zenon DEF Increasing
<1>4. ASSUME NEW i \in 1 .. Len(s) - 1, NEW j \in 1 .. Len(s) - 1, i < j
      PROVE  Tail(s)[i] < Tail(s)[j]
  <2>1. i + 1 \in 1 .. Len(s) /\ j + 1 \in 1 .. Len(s) /\ i + 1 < j + 1
    BY <1>1, <1>4
  <2> QED BY <1>1, <1>2, <2>1, Zenon DEF Increasing
<1>5. Increasing(Tail(s))
  BY <1>2, <1>4, Zenon DEF Increasing
<1> QED BY <1>2, <1>3, <1>5, Zenon DEF Range

-----------------------------------------------------------------------------
(* mq_send adds the packet to the queue and, once, to the history. *)

LEMMA QueueEffect ==
  ASSUME HTypes, NEW s \in Socks, NEW p \in (1 .. sent) \ Corrupt, ~Full(s), Queue(s, p)
  PROVE  /\ q' \in [Socks -> Seq((1 .. sent) \ Corrupt)]
         /\ arrived' \in [Socks -> Seq((1 .. sent) \ Corrupt)]
         /\ \A x \in Socks : Len(q'[x]) <= Capacity
         /\ \A x \in Socks \ {s} : q'[x] = q[x] /\ arrived'[x] = arrived[x]
         /\ Range(q'[s]) = Range(q[s]) \cup {p} /\ q'[s] # <<>>
         /\ Range(arrived'[s]) = Range(arrived[s]) \cup {p}
         /\ p \in Range(arrived[s]) => arrived'[s] = arrived[s]
         /\ p \notin Range(arrived[s]) => arrived'[s] = Append(arrived[s], p)
<1> DEFINE T == (1 .. sent) \ Corrupt
<1>1. q \in [Socks -> Seq(T)] /\ arrived \in [Socks -> Seq(T)] /\ p \in T
  BY Zenon DEF HTypes, TypeOK
<1>2. /\ q' = [q EXCEPT ![s] = Append(q[s], p)]
      /\ arrived' = [arrived EXCEPT ![s] = IF p \in Range(arrived[s]) THEN arrived[s]
                                           ELSE Append(arrived[s], p)]
  BY Zenon DEF Queue
<1> HIDE DEF T
<1>3. /\ Append(q[s], p) \in Seq(T) /\ Range(Append(q[s], p)) = Range(q[s]) \cup {p}
      /\ Len(Append(q[s], p)) = Len(q[s]) + 1
  BY <1>1, AppendSet
<1>4. Append(arrived[s], p) \in Seq(T) /\ Range(Append(arrived[s], p)) = Range(arrived[s]) \cup {p}
  BY <1>1, AppendSet
<1>5. q' \in [Socks -> Seq(T)] /\ q'[s] = Append(q[s], p) /\ \A x \in Socks \ {s} : q'[x] = q[x]
  BY <1>1, <1>2, <1>3, Zenon
<1>6. /\ arrived' \in [Socks -> Seq(T)] /\ \A x \in Socks \ {s} : arrived'[x] = arrived[x]
      /\ p \in Range(arrived[s]) => arrived'[s] = arrived[s]
      /\ p \notin Range(arrived[s]) => arrived'[s] = Append(arrived[s], p)
  BY <1>1, <1>2, <1>4, Zenon
<1>7. \A x \in Socks : Len(q'[x]) <= Capacity
  <2>1. Len(q[s]) \in Nat /\ Capacity \in Nat /\ ~(Len(q[s]) >= Capacity)
    BY <1>1, LenProperties, HostAssumption, Zenon DEF Full
  <2>2. \A x \in Socks : Len(q[x]) <= Capacity
    BY Zenon DEF HTypes, TypeOK
  <2> QED BY <1>3, <1>5, <2>1, <2>2
<1>8. q'[s] # <<>>
  BY <1>3, <1>5, EmptySet, Zenon
<1>9. Range(arrived'[s]) = Range(arrived[s]) \cup {p}
  BY <1>4, <1>6, Zenon
<1> QED BY <1>3, <1>5, <1>6, <1>7, <1>8, <1>9, Zenon DEF T

-----------------------------------------------------------------------------
(* Types, hands and queues. *)

LEMMA Packet ==
  ASSUME HTypes, NEW n \in 1 .. sent PROVE n \in Packets /\ n \in Nat /\ Dests[n] \in Socks
<1>1. Dests \in Seq(Socks) /\ Len(Dests) \in Nat /\ sent \in 0 .. Len(Dests)
  BY HostAssumption, LenProperties, Zenon DEF HTypes, TypeOK
<1>2. n \in 1 .. Len(Dests)
  BY <1>1
<1> QED BY <1>1, <1>2, ElementOfSeq DEF Packets

LEMMA ReaderFacts ==
  /\ Listener \in Readers /\ Listener \notin Threads /\ Listener \in Raws
  /\ \A t \in Readers : RawOf(t) \in Raws /\ (t # Listener => t \in Threads)
  /\ \A t \in Threads : t \in Readers /\ RawOf(t) = SockOf[t] /\ SockOf[t] \in Socks
                        /\ SockOf[t] # Listener
  /\ Socks \subseteq Raws
BY HostAssumption, Zenon DEF Readers, RawOf, Raws

(* Only reader t moves. *)
LEMMA OneMoves ==
  ASSUME Hands, NEW t \in Readers, \A u \in Readers \ {t} : pc'[u] = pc[u] /\ cur'[u] = cur[u],
         UNCHANGED <<open, sent>>, Hand(t)'
  PROVE  Hands'
<1>1. ASSUME NEW u \in Readers \ {t} PROVE Hand(u)'
  <2>1. Hand(u)
    BY Zenon DEF Hands
  <2> QED BY <2>1, Zenon DEF Hand
<1> QED BY <1>1, Zenon DEF Hands

(* The steps that move no packet. *)
LEMMA LookStep ==
  ASSUME HInv, NEW t \in Readers, NEW l, pc' = [pc EXCEPT ![t] = l],
         UNCHANGED <<open, raw, q, cur, sent, history>>,
         mq_set' \in [Readers -> BOOLEAN],
         \/ t \in Threads /\ SockOf[t] \in open /\ l \in {"recvfrom", "get_msg", "parked"}
         \/ t = Listener /\ l = "recvfrom"
         \/ pc[t] = "put_msg" /\ l = "mq_send" /\ Dests[cur[t]] \in open
  PROVE  HInv'
<1>1. UNCHANGED <<arrived, late>>
  BY Zenon DEF history
<1>2. pc \in [Readers -> {"idle", "recvfrom", "put_msg", "mq_send", "get_msg", "accept",
                          "enqueue", "parked", "stuck", "crashed"}]
  BY Zenon DEF HInv, HTypes, TypeOK
<1>3. HTypes'
  BY <1>1, <1>2, Zenon DEF HInv, HTypes, TypeOK
<1>4. pc'[t] = l /\ \A u \in Readers \ {t} : pc'[u] = pc[u]
  BY <1>2, Zenon
<1>5. Hands'
  <2>1. Hand(t)
    BY Zenon DEF HInv, Hands
  <2>2. Hand(t)'
    BY <1>4, <2>1, ReaderFacts, Zenon DEF Hand, InHand
  <2> QED BY <1>4, <2>2, OneMoves, Zenon DEF HInv
<1>6. Queues' /\ Rising'
  BY <1>1, Zenon DEF HInv, Queues, Rising
<1> QED BY <1>3, <1>5, <1>6, Zenon DEF HInv

(* A packet is put into a queue, by put_msg, mq_send or enqueue. *)
LEMMA PutStep ==
  ASSUME HInv, NEW t \in Readers, pc[t] \in {"put_msg", "mq_send", "enqueue"},
         Dests[cur[t]] \in open, ~Full(Dests[cur[t]]), Queue(Dests[cur[t]], cur[t]),
         NEW l \in {"idle", "recvfrom", "get_msg"}, l = "get_msg" => t \in Threads,
         pc' = [pc EXCEPT ![t] = l], cur' = [cur EXCEPT ![t] = NoPacket],
         UNCHANGED <<open, raw, mq_set, sent, late>>
  PROVE  HInv'
<1> DEFINE p == cur[t]
           s == Dests[p]
<1>1. Hand(t) /\ HTypes
  BY Zenon DEF HInv, Hands
<1>2. p \in (1 .. sent) \ Corrupt /\ s \in Socks
  BY <1>1, Packet, Zenon DEF Hand, InHand
<1>3. /\ q' \in [Socks -> Seq((1 .. sent) \ Corrupt)]
      /\ arrived' \in [Socks -> Seq((1 .. sent) \ Corrupt)]
      /\ \A x \in Socks : Len(q'[x]) <= Capacity
      /\ \A x \in Socks \ {s} : q'[x] = q[x] /\ arrived'[x] = arrived[x]
      /\ Range(q'[s]) = Range(q[s]) \cup {p}
      /\ Range(arrived'[s]) = Range(arrived[s]) \cup {p}
  BY <1>1, <1>2, QueueEffect, Zenon
<1>4. /\ pc \in [Readers -> {"idle", "recvfrom", "put_msg", "mq_send", "get_msg", "accept",
                             "enqueue", "parked", "stuck", "crashed"}]
      /\ cur \in [Readers -> 0 .. sent] /\ 0 \in 0 .. sent
  BY DEF HInv, HTypes, TypeOK
<1>5. pc'[t] = l /\ \A u \in Readers \ {t} : pc'[u] = pc[u] /\ cur'[u] = cur[u]
  BY <1>4, Zenon
<1>6. HTypes'
  <2>1. /\ pc' \in [Readers -> {"idle", "recvfrom", "put_msg", "mq_send", "get_msg", "accept",
                                "enqueue", "parked", "stuck", "crashed"}]
        /\ cur' \in [Readers -> 0 .. sent]
    BY <1>4, Zenon DEF NoPacket
  <2>2. /\ open' \subseteq Socks /\ late' \subseteq Socks
        /\ raw' \in [Raws -> Seq(1 .. sent)] /\ mq_set' \in [Readers -> BOOLEAN]
        /\ sent' = sent /\ sent \in 0 .. Len(Dests)
    BY Zenon DEF HInv, HTypes, TypeOK
  <2> HIDE DEF p, s
  <2> QED BY <1>3, <2>1, <2>2, Zenon DEF HTypes, TypeOK
<1>7. Hands'
  <2>1. Hand(t)'
    BY <1>1, <1>5, ReaderFacts, Zenon DEF Hand, InHand
  <2> QED BY <1>5, <2>1, OneMoves, Zenon DEF HInv
<1>8. Queues'
  <2>1. ASSUME NEW x \in Socks
        PROVE  /\ x \notin open => raw[x] = <<>> /\ arrived'[x] = <<>>
               /\ Range(q'[x]) \subseteq Range(arrived'[x])
               /\ \A n \in Range(arrived'[x]) : Dests[n] = x
    <3>1. /\ x \notin open => raw[x] = <<>> /\ arrived[x] = <<>>
          /\ Range(q[x]) \subseteq Range(arrived[x])
          /\ \A n \in Range(arrived[x]) : Dests[n] = x
      BY Zenon DEF HInv, Queues
    <3>2. s \in open /\ Dests[p] = s
      BY Zenon
    <3> HIDE DEF p, s
    <3>3. CASE x = s
      BY <1>3, <3>1, <3>2, <3>3, Zenon
    <3>4. CASE x # s
      BY <1>3, <3>1, <3>4, Zenon
    <3> QED BY <3>3, <3>4, Zenon
  <2> QED BY <2>1, Zenon DEF Queues
<1>9. Rising'
  BY Zenon DEF HInv, Rising
<1> QED BY <1>6, <1>7, <1>8, <1>9, Zenon DEF HInv

Places == {"idle", "recvfrom", "put_msg", "mq_send", "get_msg", "accept", "enqueue",
           "parked", "stuck", "crashed"}

(* A packet for a socket that is not open is let go. *)
LEMMA DropStep ==
  ASSUME HInv, NEW t \in Readers, pc[t] = "put_msg",
         NEW l \in {"idle", "recvfrom", "get_msg"}, l = "get_msg" => t \in Threads,
         pc' = [pc EXCEPT ![t] = l], cur' = [cur EXCEPT ![t] = NoPacket],
         UNCHANGED <<open, raw, q, mq_set, sent, history>>
  PROVE  HInv'
<1>1. UNCHANGED <<arrived, late>>
  BY Zenon DEF history
<1>2. pc \in [Readers -> Places] /\ cur \in [Readers -> 0 .. sent] /\ 0 \in 0 .. sent
  BY DEF HInv, HTypes, TypeOK, Places
<1>3. HTypes'
  <2>1. pc' \in [Readers -> Places] /\ cur' \in [Readers -> 0 .. sent]
    BY <1>2, Zenon DEF NoPacket, Places
  <2> QED BY <1>1, <2>1, Zenon DEF HInv, HTypes, TypeOK, Places
<1>4. pc'[t] = l /\ \A u \in Readers \ {t} : pc'[u] = pc[u] /\ cur'[u] = cur[u]
  BY <1>2, Zenon
<1>5. Hands'
  <2>1. Hand(t)
    BY Zenon DEF HInv, Hands
  <2>2. Hand(t)'
    BY <1>4, <2>1, ReaderFacts, Zenon DEF Hand, InHand
  <2> QED BY <1>4, <2>2, OneMoves, Zenon DEF HInv
<1>6. Queues' /\ Rising'
  BY <1>1, Zenon DEF HInv, Queues, Rising
<1> QED BY <1>3, <1>5, <1>6, Zenon DEF HInv

(* What recvfrom takes from a raw socket. *)
LEMMA RecvEffect ==
  ASSUME HInv, NEW t \in Readers, recvfrom(t)
  PROVE  /\ raw[RawOf(t)] # <<>>
         /\ raw' \in [Raws -> Seq(1 .. sent)]
         /\ raw' = [raw EXCEPT ![RawOf(t)] = Tail(raw[RawOf(t)])]
         /\ raw'[RawOf(t)] = Tail(raw[RawOf(t)])
         /\ \A r \in Raws \ {RawOf(t)} : raw'[r] = raw[r]
         /\ Head(raw[RawOf(t)]) \in 1 .. sent
         /\ Range(raw[RawOf(t)]) = {Head(raw[RawOf(t)])} \cup Range(raw'[RawOf(t)])
         /\ Increasing(raw'[RawOf(t)])
         /\ \A n \in Range(raw'[RawOf(t)]) : Head(raw[RawOf(t)]) < n
<1> DEFINE r == RawOf(t)
           T == 1 .. sent
<1>1. r \in Raws /\ raw \in [Raws -> Seq(T)] /\ raw[r] \in Seq(T) /\ Increasing(raw[r])
  BY ReaderFacts, Zenon DEF HInv, HTypes, TypeOK, Rising
<1>2. raw[r] # <<>> /\ raw' = [raw EXCEPT ![r] = Tail(raw[r])]
  BY Zenon DEF recvfrom
<1>3. T \subseteq Nat
  OBVIOUS
<1> HIDE DEF r, T
<1>7. raw[r] \in Seq(Nat)
  BY <1>1, <1>3, SeqGrows, Zenon
<1>4. /\ Tail(raw[r]) \in Seq(T) /\ Head(raw[r]) \in T
      /\ Range(raw[r]) = {Head(raw[r])} \cup Range(Tail(raw[r]))
  BY <1>1, <1>2, HeadTailSet, Zenon
<1>5. Increasing(Tail(raw[r])) /\ \A n \in Range(Tail(raw[r])) : Head(raw[r]) < n
  BY <1>1, <1>2, <1>7, TailIncreasing, Zenon
<1>6. /\ raw' \in [Raws -> Seq(T)] /\ raw'[r] = Tail(raw[r])
      /\ \A x \in Raws \ {r} : raw'[x] = raw[x]
  BY <1>1, <1>2, <1>4, Zenon
<1> QED BY <1>2, <1>4, <1>5, <1>6, Zenon DEF r, T

LEMMA RecvStep ==
  ASSUME HInv, NEW t \in Readers, recvfrom(t) PROVE HInv'
<1> DEFINE p == Head(raw[RawOf(t)])
<1>1. /\ pc[t] = "recvfrom" /\ UNCHANGED <<open, q, mq_set, sent, arrived, late>>
      /\ \/ p \in Corrupt /\ pc' = [pc EXCEPT ![t] = AfterPut(t)] /\ UNCHANGED cur
         \/ /\ p \notin Corrupt /\ cur' = [cur EXCEPT ![t] = p]
            /\ pc' = [pc EXCEPT ![t] = IF t = Listener /\ Dests[p] \in Peers
                                       THEN "accept" ELSE "put_msg"]
  BY Zenon DEF recvfrom, history, Goto
<1>2. /\ raw' \in [Raws -> Seq(1 .. sent)] /\ p \in 1 .. sent
      /\ \A r \in Raws \ {RawOf(t)} : raw'[r] = raw[r]
      /\ Increasing(raw'[RawOf(t)])
  BY RecvEffect, Zenon
<1>3. /\ pc \in [Readers -> Places] /\ cur \in [Readers -> 0 .. sent]
      /\ p \in 0 .. sent /\ sent' = sent
  BY <1>1, <1>2 DEF HInv, HTypes, TypeOK, Places
<1>4. AfterPut(t) \in {"idle", "recvfrom", "get_msg"} /\ (AfterPut(t) = "get_msg" => t # Listener)
  BY Zenon DEF AfterPut
<1> HIDE DEF p
<1>5. /\ pc' \in [Readers -> Places] /\ cur' \in [Readers -> 0 .. sent]
      /\ \A u \in Readers \ {t} : pc'[u] = pc[u] /\ cur'[u] = cur[u]
      /\ \/ pc'[t] \in {"idle", "recvfrom", "get_msg"} /\ (pc'[t] = "get_msg" => t # Listener)
         \/ p \notin Corrupt /\ cur'[t] = p /\ pc'[t] = "accept" /\ t = Listener
         \/ p \notin Corrupt /\ cur'[t] = p /\ pc'[t] = "put_msg"
  BY <1>1, <1>3, <1>4 DEF Places
<1>6. HTypes'
  <2>1. /\ open' \subseteq Socks /\ late' \subseteq Socks
        /\ q' \in [Socks -> Seq((1 .. sent) \ Corrupt)]
        /\ arrived' \in [Socks -> Seq((1 .. sent) \ Corrupt)]
        /\ \A s \in Socks : Len(q'[s]) <= Capacity
        /\ mq_set' \in [Readers -> BOOLEAN] /\ sent \in 0 .. Len(Dests)
    BY <1>1, Zenon DEF HInv, HTypes, TypeOK
  <2> QED BY <1>2, <1>3, <1>5, <2>1, Zenon DEF HTypes, TypeOK, Places
<1>7. Hands'
  <2>1. Hand(t)
    BY Zenon DEF HInv, Hands
  <2>2. Hand(t)'
    BY <1>1, <1>2, <1>5, <2>1, ReaderFacts, Zenon DEF Hand, InHand
  <2> QED BY <1>1, <1>5, <2>2, OneMoves, Zenon DEF HInv
<1>8. Queues'
  <2>1. \A s \in Socks : s \notin open => raw'[s] = <<>>
    <3> SUFFICES ASSUME NEW s \in Socks, s \notin open PROVE raw'[s] = <<>>
      BY Zenon
    <3>1. raw[s] = <<>>
      BY Zenon DEF HInv, Queues
    <3>2. RawOf(t) # s
      BY <3>1, RecvEffect, Zenon
    <3> QED BY <1>2, <3>1, <3>2, ReaderFacts, Zenon
  <2> QED BY <1>1, <2>1, Zenon DEF HInv, Queues
<1>9. Rising'
  BY <1>2, Zenon DEF HInv, Rising
<1> QED BY <1>6, <1>7, <1>8, <1>9, Zenon DEF HInv

(* get_msg takes the first message of the queue of its socket. *)
LEMMA GetEffect ==
  ASSUME HInv, NEW t \in Threads, get_msg(t)
  PROVE  /\ SockOf[t] \in Socks /\ q[SockOf[t]] # <<>>
         /\ Head(q[SockOf[t]]) \in (1 .. sent) \ Corrupt
         /\ Head(q[SockOf[t]]) \in Range(arrived[SockOf[t]])
         /\ Dests[Head(q[SockOf[t]])] = SockOf[t]
         /\ q' \in [Socks -> Seq((1 .. sent) \ Corrupt)]
         /\ \A x \in Socks : Len(q'[x]) <= Capacity /\ Range(q'[x]) \subseteq Range(q[x])
         /\ \A x \in Socks \ {SockOf[t]} : q'[x] = q[x]
<1> DEFINE s == SockOf[t]
           T == (1 .. sent) \ Corrupt
<1>1. /\ s \in Socks /\ q \in [Socks -> Seq(T)] /\ Capacity \in Nat
      /\ \A x \in Socks : Len(q[x]) <= Capacity
  BY ReaderFacts, HostAssumption, Zenon DEF HInv, HTypes, TypeOK
<1>2. q[s] # <<>> /\ q' = [q EXCEPT ![s] = Tail(q[s])]
  BY Zenon DEF get_msg
<1>3. Range(q[s]) \subseteq Range(arrived[s]) /\ \A n \in Range(arrived[s]) : Dests[n] = s
  BY <1>1, Zenon DEF HInv, Queues
<1> HIDE DEF s, T
<1>4. /\ Tail(q[s]) \in Seq(T) /\ Head(q[s]) \in T /\ Head(q[s]) \in Range(q[s])
      /\ Range(q[s]) = {Head(q[s])} \cup Range(Tail(q[s])) /\ Len(Tail(q[s])) = Len(q[s]) - 1
      /\ Len(q[s]) \in Nat
  BY <1>1, <1>2, HeadTailSet, LenProperties, Zenon
<1>5. /\ q' \in [Socks -> Seq(T)] /\ q'[s] = Tail(q[s])
      /\ \A x \in Socks \ {s} : q'[x] = q[x]
  BY <1>1, <1>2, <1>4, Zenon
<1>6. ASSUME NEW x \in Socks PROVE Len(q'[x]) <= Capacity /\ Range(q'[x]) \subseteq Range(q[x])
  <2>1. Len(q'[s]) <= Capacity
    BY <1>1, <1>4, <1>5
  <2>2. Range(q'[s]) \subseteq Range(q[s])
    BY <1>4, <1>5, Zenon
  <2> QED BY <1>1, <1>5, <2>1, <2>2, Zenon
<1> QED BY <1>1, <1>2, <1>3, <1>4, <1>5, <1>6, Zenon DEF s, T

LEMMA GetStep ==
  ASSUME HInv, NEW t \in Threads, get_msg(t) PROVE HInv'
<1> DEFINE p == Head(q[SockOf[t]])
<1>1. /\ pc[t] = "get_msg" /\ UNCHANGED <<open, raw, sent, arrived, late>>
      /\ mq_set' = [mq_set EXCEPT ![t] = FALSE]
      /\ \/ pc' = [pc EXCEPT ![t] = "put_msg"] /\ cur' = [cur EXCEPT ![t] = p]
         \/ pc' = [pc EXCEPT ![t] = "idle"] /\ UNCHANGED cur
  BY Zenon DEF get_msg, history, Goto
<1>2. /\ p \in (1 .. sent) \ Corrupt /\ q' \in [Socks -> Seq((1 .. sent) \ Corrupt)]
      /\ \A x \in Socks : Len(q'[x]) <= Capacity /\ Range(q'[x]) \subseteq Range(q[x])
  BY GetEffect, Zenon
<1>3. /\ pc \in [Readers -> Places] /\ cur \in [Readers -> 0 .. sent]
      /\ p \in 0 .. sent /\ sent' = sent /\ t \in Readers /\ t # Listener
  BY <1>1, <1>2, ReaderFacts DEF HInv, HTypes, TypeOK, Places
<1> HIDE DEF p
<1>4. /\ pc' \in [Readers -> Places] /\ cur' \in [Readers -> 0 .. sent]
      /\ \A u \in Readers \ {t} : pc'[u] = pc[u] /\ cur'[u] = cur[u]
      /\ pc'[t] = "idle" \/ (pc'[t] = "put_msg" /\ cur'[t] = p)
  BY <1>1, <1>3, Zenon DEF Places
<1>5. HTypes'
  <2>1. /\ open' \subseteq Socks /\ late' \subseteq Socks
        /\ raw' \in [Raws -> Seq(1 .. sent)]
        /\ arrived' \in [Socks -> Seq((1 .. sent) \ Corrupt)]
        /\ mq_set' \in [Readers -> BOOLEAN] /\ sent \in 0 .. Len(Dests)
    BY <1>1, Zenon DEF HInv, HTypes, TypeOK
  <2> QED BY <1>2, <1>3, <1>4, <2>1, Zenon DEF HTypes, TypeOK, Places
<1>6. Hands'
  <2>1. Hand(t)
    BY <1>3, Zenon DEF HInv, Hands
  <2>2. Hand(t)'
    BY <1>1, <1>2, <1>3, <1>4, <2>1, Zenon DEF Hand, InHand
  <2> QED BY <1>1, <1>3, <1>4, <2>2, OneMoves, Zenon DEF HInv
<1>7. Queues'
  BY <1>1, <1>2, Zenon DEF HInv, Queues
<1>8. Rising'
  BY <1>1, Zenon DEF HInv, Rising
<1> QED BY <1>5, <1>6, <1>7, <1>8, Zenon DEF HInv

(* A packet is copied to every raw socket there is. *)
LEMMA SendEffect ==
  ASSUME HInv, send
  PROVE  /\ sent \in Nat /\ sent' = sent + 1 /\ sent + 1 \in 1 .. Len(Dests)
         /\ raw' \in [Raws -> Seq(1 .. sent')] /\ Rising'
         /\ \A r \in open \cup {Listener} : Range(raw'[r]) = Range(raw[r]) \cup {sent + 1}
         /\ \A r \in Raws \ (open \cup {Listener}) : raw'[r] = raw[r]
<1> DEFINE T == 1 .. sent + 1
<1>1. /\ sent \in Nat /\ sent' = sent + 1 /\ sent + 1 \in 1 .. Len(Dests)
      /\ raw \in [Raws -> Seq(1 .. sent)] /\ open \cup {Listener} \subseteq Raws
      /\ raw' = [r \in Raws |-> IF r \in open \cup {Listener}
                                THEN Append(raw[r], sent + 1) ELSE raw[r]]
  <2>1. Len(Dests) \in Nat /\ sent \in 0 .. Len(Dests) /\ sent < Len(Dests)
    BY HostAssumption, LenProperties, Zenon DEF send, HInv, HTypes, TypeOK
  <2>2. raw \in [Raws -> Seq(1 .. sent)] /\ open \cup {Listener} \subseteq Raws
    BY ReaderFacts, Zenon DEF HInv, HTypes, TypeOK
  <2> QED BY <2>1, <2>2 DEF send
<1>2. sent + 1 \in T /\ T \subseteq Nat /\ 1 .. sent \subseteq T /\ sent + 1 \in Nat
  BY <1>1
<1> HIDE DEF T
<1>3. ASSUME NEW r \in Raws
      PROVE  /\ raw[r] \in Seq(T) /\ Append(raw[r], sent + 1) \in Seq(T)
             /\ Range(Append(raw[r], sent + 1)) = Range(raw[r]) \cup {sent + 1}
             /\ Increasing(raw[r]) /\ Increasing(Append(raw[r], sent + 1))
  <2>1. raw[r] \in Seq(1 .. sent) /\ Increasing(raw[r])
    BY <1>1, Zenon DEF HInv, Rising
  <2>2. raw[r] \in Seq(T)
    BY <1>2, <2>1, SeqGrows, Zenon
  <2>3. raw[r] \in Seq(Nat)
    BY <1>2, <2>2, SeqGrows, Zenon
  <2>4. \A n \in Range(raw[r]) : n < sent + 1
    <3>1. \A i \in DOMAIN raw[r] : raw[r][i] \in 1 .. sent
      BY <2>1, LenProperties, Zenon
    <3> QED BY <1>1, <3>1 DEF Range
  <2>5. Increasing(Append(raw[r], sent + 1))
    BY <1>2, <2>1, <2>3, <2>4, AppendIncreasing, Zenon
  <2> QED BY <1>2, <2>1, <2>2, <2>5, AppendSet
<1>4. raw' \in [Raws -> Seq(T)]
  BY <1>1, <1>3, Zenon
<1>5. \A r \in Raws : Increasing(raw'[r])
  BY <1>1, <1>3, Zenon
<1>6. \A r \in open \cup {Listener} : Range(raw'[r]) = Range(raw[r]) \cup {sent + 1}
  BY <1>1, <1>3, Zenon
<1>7. \A r \in Raws \ (open \cup {Listener}) : raw'[r] = raw[r]
  BY <1>1, Zenon
<1>8. 1 .. sent' = T
  BY <1>1, Zenon DEF T
<1> QED BY <1>1, <1>4, <1>5, <1>6, <1>7, <1>8, Zenon DEF Rising

LEMMA SendStep == ASSUME HInv, send PROVE HInv'
<1>1. /\ UNCHANGED <<open, q, pc, cur, mq_set, arrived>>
      /\ late' = late \/ late' = late \cup {Dests[sent + 1]}
  BY Zenon DEF send, threads
<1>2. /\ sent \in Nat /\ sent' = sent + 1 /\ sent + 1 \in 1 .. Len(Dests)
      /\ raw' \in [Raws -> Seq(1 .. sent')] /\ Rising'
      /\ \A r \in Raws \ (open \cup {Listener}) : raw'[r] = raw[r]
  BY SendEffect, Zenon
<1>3. 1 .. sent \subseteq 1 .. sent' /\ 0 .. sent \subseteq 0 .. sent' /\ sent' \in 0 .. Len(Dests)
  BY <1>2
<1>4. HTypes'
  <2>1. /\ q \in [Socks -> Seq((1 .. sent) \ Corrupt)] /\ cur \in [Readers -> 0 .. sent]
        /\ arrived \in [Socks -> Seq((1 .. sent) \ Corrupt)]
    BY Zenon DEF HInv, HTypes, TypeOK
  <2>2. (1 .. sent) \ Corrupt \subseteq (1 .. sent') \ Corrupt
    BY <1>3, Zenon
  <2>3. /\ q' \in [Socks -> Seq((1 .. sent') \ Corrupt)]
        /\ arrived' \in [Socks -> Seq((1 .. sent') \ Corrupt)]
    <3>1. ASSUME NEW s \in Socks
          PROVE  q[s] \in Seq((1 .. sent') \ Corrupt) /\ arrived[s] \in Seq((1 .. sent') \ Corrupt)
      BY <2>1, <2>2, SeqGrows
    <3> QED BY <1>1, <2>1, <3>1, Zenon
  <2>4. cur' \in [Readers -> 0 .. sent']
    BY <1>1, <1>3, <2>1, Zenon
  <2>5. late' \subseteq Socks
    <3>1. Dests[sent + 1] \in Socks
      BY <1>2, HostAssumption, ElementOfSeq, Zenon
    <3> QED BY <1>1, <3>1, Zenon DEF HInv, HTypes, TypeOK
  <2>6. /\ open' \subseteq Socks /\ pc' \in [Readers -> Places]
        /\ \A s \in Socks : Len(q'[s]) <= Capacity
        /\ mq_set' \in [Readers -> BOOLEAN]
    BY <1>1, Zenon DEF HInv, HTypes, TypeOK, Places
  <2> QED BY <1>2, <1>3, <2>3, <2>4, <2>5, <2>6, Zenon DEF HTypes, TypeOK, Places
<1>5. Hands'
  <2>1. ASSUME NEW t \in Readers PROVE Hand(t)'
    <3>1. Hand(t)
      BY Zenon DEF HInv, Hands
    <3> QED BY <1>1, <1>3, <3>1, Zenon DEF Hand
  <2> QED BY <2>1, Zenon DEF Hands
<1>6. Queues'
  <2>1. \A s \in Socks : s \notin open => raw'[s] = raw[s]
    BY <1>2, ReaderFacts, HostAssumption, Zenon
  <2> QED BY <1>1, <2>1, Zenon DEF HInv, Queues
<1> QED BY <1>2, <1>4, <1>5, <1>6, Zenon DEF HInv

(* accept_one_client makes a socket. *)
LEMMA AcceptNewStep == ASSUME HInv, NEW s \in Peers, accept_new(s) PROVE HInv'
<1>1. /\ pc[Listener] = "accept" /\ Dests[cur[Listener]] = s /\ s \in Socks
      /\ open' = open \cup {s} /\ pc' = [pc EXCEPT ![Listener] = "enqueue"]
      /\ UNCHANGED <<raw, q, cur, mq_set, sent, arrived>>
      /\ late' \subseteq late \cup open \cup {s}
  BY Zenon DEF accept_new, Goto, Socks
<1>2. pc \in [Readers -> Places] /\ Listener \in Readers /\ "enqueue" \in Places
  BY ReaderFacts, Zenon DEF HInv, HTypes, TypeOK, Places
<1>3. pc' \in [Readers -> Places] /\ pc'[Listener] = "enqueue"
      /\ \A u \in Readers \ {Listener} : pc'[u] = pc[u]
  BY <1>1, <1>2, Zenon
<1>4. HTypes'
  <2>1. open' \subseteq Socks /\ late' \subseteq Socks
    BY <1>1, Zenon DEF HInv, HTypes, TypeOK
  <2> QED BY <1>1, <1>3, <2>1, Zenon DEF HInv, HTypes, TypeOK, Places
<1>5. Hands'
  <2>1. ASSUME NEW t \in Readers PROVE Hand(t)'
    <3>1. Hand(t)
      BY Zenon DEF HInv, Hands
    <3>2. CASE t = Listener
      BY <1>1, <1>3, <3>1, <3>2, ReaderFacts, Zenon DEF Hand, InHand
    <3>3. CASE t # Listener
      BY <1>1, <1>3, <3>1, <3>3, Zenon DEF Hand
    <3> QED BY <3>2, <3>3, Zenon
  <2> QED BY <2>1, Zenon DEF Hands
<1>6. Queues' /\ Rising'
  BY <1>1, Zenon DEF HInv, Queues, Rising
<1> QED BY <1>4, <1>5, <1>6, Zenon DEF HInv

(* A crash of the server ends its threads. *)
LEMMA AcceptLiveStep == ASSUME HInv, NEW s \in Peers, accept_live(s) PROVE HInv'
<1>1. /\ UNCHANGED <<open, raw, q, cur, mq_set, sent, arrived, late>>
      /\ pc' = [t \in Readers |-> IF t = Listener \/ SockOf[t] \in Peers
                                  THEN "crashed" ELSE pc[t]]
  BY Zenon DEF accept_live, history
<1>2. \A t \in Readers : pc'[t] = "crashed" \/ pc'[t] = pc[t]
  BY <1>1, Zenon
<1>3. HTypes'
  <2>1. pc' \in [Readers -> Places]
    BY <1>1, Zenon DEF HInv, HTypes, TypeOK, Places
  <2> QED BY <1>1, <2>1, Zenon DEF HInv, HTypes, TypeOK, Places
<1>4. Hands'
  <2>1. ASSUME NEW t \in Readers PROVE Hand(t)'
    <3>1. Hand(t)
      BY Zenon DEF HInv, Hands
    <3> QED BY <1>1, <1>2, <3>1, Zenon DEF Hand, InHand
  <2> QED BY <2>1, Zenon DEF Hands
<1>5. Queues' /\ Rising'
  BY <1>1, Zenon DEF HInv, Queues, Rising
<1> QED BY <1>3, <1>4, <1>5, Zenon DEF HInv

(* A socket goes, and who is blocked on its queue stays blocked. *)
LEMMA CloseStep == ASSUME HInv, NEW s \in Socks, close(s) PROVE HInv'
<1>1. /\ \A t \in Threads : SockOf[t] = s => pc[t] = "idle"
      /\ ~(pc[Listener] = "enqueue" /\ Dests[cur[Listener]] = s)
      /\ open' = open \ {s}
      /\ raw' = [raw EXCEPT ![s] = <<>>] /\ q' = [q EXCEPT ![s] = <<>>]
      /\ arrived' = [arrived EXCEPT ![s] = <<>>]
      /\ pc' = [t \in Readers |-> IF pc[t] = "mq_send" /\ Dests[cur[t]] = s
                                  THEN "stuck" ELSE pc[t]]
      /\ UNCHANGED <<cur, mq_set, sent, late>>
  BY Zenon DEF close, HandedOut
<1>2. \A T : <<>> \in Seq(T) /\ Len(<<>>) = 0
  BY EmptySeq, Zenon
<1>3. /\ raw \in [Raws -> Seq(1 .. sent)] /\ q \in [Socks -> Seq((1 .. sent) \ Corrupt)]
      /\ arrived \in [Socks -> Seq((1 .. sent) \ Corrupt)]
      /\ pc \in [Readers -> Places] /\ s \in Raws /\ Capacity \in Nat
      /\ \A x \in Socks : Len(q[x]) <= Capacity
  BY ReaderFacts, HostAssumption, Zenon DEF HInv, HTypes, TypeOK, Places
<1>4. /\ raw' \in [Raws -> Seq(1 .. sent)] /\ q' \in [Socks -> Seq((1 .. sent) \ Corrupt)]
      /\ arrived' \in [Socks -> Seq((1 .. sent) \ Corrupt)]
  BY <1>1, <1>2, <1>3, Zenon
<1>5. /\ \A r \in Raws : (r = s => raw'[r] = <<>>) /\ (r # s => raw'[r] = raw[r])
      /\ \A x \in Socks : /\ x = s => q'[x] = <<>> /\ arrived'[x] = <<>>
                          /\ x # s => q'[x] = q[x] /\ arrived'[x] = arrived[x]
  BY <1>1, <1>3, Zenon
<1>6. HTypes'
  <2>1. pc' \in [Readers -> Places]
    BY <1>1, <1>3, Zenon DEF Places
  <2>2. \A x \in Socks : Len(q'[x]) <= Capacity
    BY <1>2, <1>3, <1>5
  <2>3. /\ open' \subseteq Socks /\ late' \subseteq Socks /\ cur' \in [Readers -> 0 .. sent]
        /\ mq_set' \in [Readers -> BOOLEAN] /\ sent \in 0 .. Len(Dests) /\ sent' = sent
    BY <1>1, Zenon DEF HInv, HTypes, TypeOK
  <2> QED BY <1>4, <2>1, <2>2, <2>3, Zenon DEF HTypes, TypeOK, Places
<1>7. Hands'
  <2>1. ASSUME NEW t \in Readers PROVE Hand(t)'
    <3>1. Hand(t)
      BY Zenon DEF HInv, Hands
    <3>2. \/ pc'[t] = pc[t] /\ ~(pc[t] \in {"mq_send", "enqueue"} /\ Dests[cur[t]] = s)
          \/ pc'[t] = "stuck" /\ pc[t] = "mq_send"
      BY <1>1, <3>1, ReaderFacts, Zenon DEF Hand
    <3>3. t \in Threads /\ SockOf[t] = s => pc[t] = "idle" /\ pc'[t] = "idle"
      BY <1>1, <3>2, Zenon
    <3> QED BY <1>1, <3>1, <3>2, <3>3, Zenon DEF Hand, InHand
  <2> QED BY <2>1, Zenon DEF Hands
<1>8. Queues'
  <2>1. \A x \in Socks : x \in open /\ x # s => x \in open'
    BY <1>1, Zenon
  <2> QED BY <1>1, <1>5, <2>1, ReaderFacts, EmptySet DEF HInv, Queues
<1>9. Rising'
  <2>1. Increasing(<<>>)
    BY EmptySeq, LenProperties DEF Increasing
  <2> QED BY <1>5, <2>1, Zenon DEF HInv, Rising
<1> QED BY <1>6, <1>7, <1>8, <1>9, Zenon DEF HInv

-----------------------------------------------------------------------------
(* The kinds of steps a reader makes with a packet in hand. *)

Puts(t, l) ==
    /\ pc[t] \in {"put_msg", "mq_send", "enqueue"}
    /\ Dests[cur[t]] \in open /\ ~Full(Dests[cur[t]]) /\ Queue(Dests[cur[t]], cur[t])
    /\ l \in {"idle", "recvfrom", "get_msg"} /\ (l = "get_msg" => t \in Threads)
    /\ t \in Threads => l = AfterPut(t)
    /\ pc' = [pc EXCEPT ![t] = l] /\ cur' = [cur EXCEPT ![t] = NoPacket]
    /\ UNCHANGED <<open, raw, mq_set, sent, late>>

Drops(t, l) ==
    /\ pc[t] = "put_msg" /\ Dests[cur[t]] \notin open
    /\ l \in {"idle", "recvfrom", "get_msg"} /\ (l = "get_msg" => t \in Threads)
    /\ t \in Threads => l = AfterPut(t)
    /\ pc' = [pc EXCEPT ![t] = l] /\ cur' = [cur EXCEPT ![t] = NoPacket]
    /\ UNCHANGED <<open, raw, q, mq_set, sent, history>>

Looks(t, l) ==
    /\ pc' = [pc EXCEPT ![t] = l]
    /\ UNCHANGED <<open, raw, q, cur, sent, history>>
    /\ mq_set' \in [Readers -> BOOLEAN]
    /\ \/ /\ pc[t] = "idle" /\ t \in Threads /\ SockOf[t] \in open
          /\ l \in {"recvfrom", "get_msg", "parked"}
       \/ pc[t] = "idle" /\ t = Listener /\ l = "recvfrom"
       \/ pc[t] = "put_msg" /\ l = "mq_send" /\ Dests[cur[t]] \in open

LEMMA PutKinds ==
  ASSUME HInv, NEW t \in Readers,
         \/ put_msg(t) \/ mq_send(t)
         \/ t = Listener /\ \E s \in Peers : enqueue(s)
  PROVE  (\E l : Puts(t, l)) \/ (\E l : Drops(t, l)) \/ Looks(t, "mq_send")
<1>1. /\ AfterPut(t) \in {"idle", "recvfrom", "get_msg"}
      /\ AfterPut(t) = "get_msg" => t \in Threads
  BY ReaderFacts, Zenon DEF AfterPut
<1>2. Hand(t) /\ mq_set \in [Readers -> BOOLEAN]
  BY Zenon DEF HInv, Hands, HTypes, TypeOK
<1>3. CASE mq_send(t)
  <2>1. Puts(t, AfterPut(t))
    BY <1>1, <1>2, <1>3, Zenon DEF Puts, mq_send, Hand, Goto
  <2> QED BY <2>1, Zenon
<1>4. CASE t = Listener /\ \E s \in Peers : enqueue(s)
  <2>1. Puts(t, "idle")
    BY <1>2, <1>4, ReaderFacts, Zenon DEF Puts, enqueue, Hand, Goto
  <2> QED BY <2>1, Zenon
<1>5. CASE put_msg(t)
  <2>1. CASE Dests[cur[t]] \in open /\ Full(Dests[cur[t]])
    <3>1. Looks(t, "mq_send")
      BY <1>2, <1>5, <2>1, Zenon DEF Looks, put_msg, Goto, history
    <3> QED BY <3>1, Zenon
  <2>2. CASE Dests[cur[t]] \in open /\ ~Full(Dests[cur[t]])
    <3>1. Puts(t, AfterPut(t))
      BY <1>1, <1>5, <2>2, Zenon DEF Puts, put_msg, Goto
    <3> QED BY <3>1, Zenon
  <2>3. CASE Dests[cur[t]] \notin open
    <3>1. Drops(t, AfterPut(t))
      BY <1>1, <1>5, <2>3, Zenon DEF Drops, put_msg, Goto, history
    <3> QED BY <3>1, Zenon
  <2> QED BY <2>1, <2>2, <2>3, Zenon
<1> QED BY <1>3, <1>4, <1>5, Zenon

LEMMA LookKinds ==
  ASSUME HInv
  PROVE  /\ \A t \in Threads : select(t) \/ stop_reading(t) => t \in Readers /\ \E l : Looks(t, l)
         /\ accept_call => Looks(Listener, "recvfrom")
<1>1. mq_set \in [Readers -> BOOLEAN]
  BY Zenon DEF HInv, HTypes, TypeOK
<1>2. ASSUME NEW t \in Threads, select(t) \/ stop_reading(t)
      PROVE  t \in Readers /\ \E l : Looks(t, l)
  <2>1. t \in Readers
    BY ReaderFacts, Zenon
  <2>2. CASE select(t)
    <3>1. PICK l \in {"recvfrom", "get_msg"} : pc' = [pc EXCEPT ![t] = l]
      BY <2>2, Zenon DEF select, Goto
    <3>2. Looks(t, l)
      BY <1>1, <2>2, <3>1, Zenon DEF select, Looks
    <3> QED BY <2>1, <3>2, Zenon
  <2>3. CASE stop_reading(t)
    <3>1. Looks(t, "parked")
      BY <1>1, <2>3, Zenon DEF stop_reading, Looks, Goto
    <3> QED BY <2>1, <3>1, Zenon
  <2> QED BY <1>2, <2>2, <2>3, Zenon
<1>3. accept_call => Looks(Listener, "recvfrom")
  BY <1>1, Zenon DEF accept_call, Looks, Goto
<1> QED BY <1>2, <1>3, Zenon

LEMMA HInvStep == ASSUME HInv, [Next]_vars PROVE HInv'
<1>1. CASE UNCHANGED vars
  <2>1. UNCHANGED <<open, raw, q, pc, cur, mq_set, sent, arrived, late>>
    BY <1>1, Zenon DEF vars, threads, history
  <2> QED BY <2>1, Zenon DEF HInv, HTypes, TypeOK, Hands, Hand, Queues, Rising
<1>2. ASSUME NEW t \in Readers, NEW l, Puts(t, l) PROVE HInv'
  BY <1>2, PutStep, Zenon DEF Puts
<1>3. ASSUME NEW t \in Readers, NEW l, Drops(t, l) PROVE HInv'
  BY <1>3, DropStep, Zenon DEF Drops
<1>4. ASSUME NEW t \in Readers, NEW l, Looks(t, l) PROVE HInv'
  BY <1>4, LookStep, Zenon DEF Looks
<1>5. CASE send
  BY <1>5, SendStep, Zenon
<1>6. CASE accept_call
  BY <1>4, <1>6, LookKinds, ReaderFacts, Zenon
<1>7. CASE Accept
  BY <1>2, <1>3, <1>4, <1>7, AcceptNewStep, AcceptLiveStep, PutKinds, ReaderFacts, Zenon DEF Accept
<1>8. ASSUME NEW t \in Readers, Step(t) PROVE HInv'
  <2>1. CASE t \in Threads /\ (select(t) \/ get_msg(t))
    BY <1>4, <2>1, LookKinds, GetStep, Zenon
  <2>2. CASE recvfrom(t) \/ put_msg(t) \/ mq_send(t)
    BY <1>2, <1>3, <1>4, <2>2, RecvStep, PutKinds, Zenon
  <2> QED BY <1>8, <2>1, <2>2, Zenon DEF Step
<1>9. ASSUME NEW t \in Threads, stop_reading(t) PROVE HInv'
  BY <1>4, <1>9, LookKinds, Zenon
<1>10. ASSUME NEW s \in Socks, close(s) PROVE HInv'
  BY <1>10, CloseStep, Zenon
<1> QED BY <1>1, <1>5, <1>6, <1>7, <1>8, <1>9, <1>10, Zenon DEF Next

LEMMA HInvInit == Init => HInv
<1> SUFFICES ASSUME Init PROVE HInv
  BY Zenon
<1>1. \A T : <<>> \in Seq(T) /\ Len(<<>>) = 0
  BY EmptySeq, Zenon
<1>2. Capacity \in Nat /\ Len(Dests) \in Nat /\ Clients \subseteq Socks
  BY HostAssumption, LenProperties, Zenon DEF Socks
<1>3. HTypes
  BY <1>1, <1>2 DEF Init, HTypes, TypeOK, NoPacket
<1>4. Hands
  BY ReaderFacts, Zenon DEF Init, Hands, Hand, InHand
<1>5. Queues
  BY EmptySet, ReaderFacts, Zenon DEF Init, Queues
<1>6. Rising
  <2>1. Increasing(<<>>)
    BY EmptySeq, LenProperties DEF Increasing
  <2> QED BY <2>1, Zenon DEF Init, Rising
<1> QED BY <1>3, <1>4, <1>5, <1>6, Zenon DEF HInv

(* What readers have in hand, and what raw sockets and queues hold. *)
THEOREM HostInvariant == Spec => []HInv
  BY HInvInit, HInvStep, PTL DEF Spec

(* No queue ever holds more than its capacity, whoever puts into it, and no  *)
(* packet is in a queue or in hand that was not sent or is corrupt.          *)
THEOREM QueuesAreBounded == Spec => []TypeOK
  BY HostInvariant, PTL DEF HInv, HTypes

-----------------------------------------------------------------------------
(* The order of first copies, when no two threads share a raw socket. *)

(* No reader loses sight of a packet that is still missing. *)
LEMMA AllSeenKept ==
  ASSUME AllSeen, sent' = sent, open' \ late' \subseteq open \ late,
         \A x \in open' \ late' : Range(arrived[x]) \subseteq Range(arrived'[x]),
         \A u \in Readers : Live(u)' => Live(u),
         \A x \in open' \ late' : \A n \in Missing(x, NoPacket)' :
            \A u \in Readers : Live(u)' /\ Seen(u, n) => Seen(u, n)'
  PROVE  AllSeen'
<1> SUFFICES ASSUME NEW x \in open' \ late', NEW n \in Missing(x, NoPacket)',
                    NEW u \in Readers, Live(u)'
             PROVE  Seen(u, n)'
  BY Zenon DEF AllSeen
<1>1. n \in Missing(x, NoPacket)
  BY Zenon DEF Missing, NoPacket
<1>2. Live(u) /\ x \in open \ late
  BY Zenon
<1>3. Seen(u, n)
  BY <1>1, <1>2, Zenon DEF AllSeen
<1> QED BY <1>3, Zenon

(* What a reader has in hand is the next packet its socket has not got. *)
LEMMA InTurn ==
  ASSUME HInv, Ordered, NEW t \in Readers, pc[t] \in {"put_msg", "mq_send", "enqueue"},
         Dests[cur[t]] \in open \ late, cur[t] \notin Range(arrived[Dests[cur[t]]])
  PROVE  /\ \A n \in (1 .. sent) \ Corrupt :
               Dests[n] = Dests[cur[t]] /\ n < cur[t] => n \in Range(arrived[Dests[cur[t]]])
         /\ \A a \in Range(arrived[Dests[cur[t]]]) : a < cur[t]
<1> DEFINE p == cur[t]
           s == Dests[p]
<1>1. Hand(t) /\ HTypes /\ open \subseteq Socks
  BY Zenon DEF HInv, Hands, HTypes, TypeOK
<1>2. p \in (1 .. sent) \ Corrupt /\ p \in Nat /\ s \in open \ late /\ s \in Socks
  BY <1>1, Packet, Zenon DEF Hand, InHand
<1>3. ASSUME NEW n \in (1 .. sent) \ Corrupt, Dests[n] = s, n < p, n \notin Range(arrived[s])
      PROVE  FALSE
  <2>1. n # p /\ n # 0 /\ n \in Nat
    BY <1>2, <1>3
  <2>2. pc[Listener] = "enqueue" => cur[Listener] # n /\ cur[Listener] # p
    <3>1. ASSUME pc[Listener] = "enqueue", cur[Listener] = n \/ cur[Listener] = p PROVE FALSE
      <4>1. Dests[cur[Listener]] = s
        BY <1>3, <3>1, Zenon
      <4> QED BY <1>2, <1>3, <2>1, <3>1, <4>1, Zenon DEF Ordered, SoleAccepted
    <3> QED BY <3>1, Zenon
  <2>3. pc[t] # "enqueue"
    BY <1>1, <2>2, ReaderFacts, Zenon DEF Hand
  <2>4. Live(t)
    <3>1. t \in Threads => SockOf[t] \in open
      BY <1>1, <2>3, Zenon DEF Hand
    <3> QED BY <2>3, <3>1, ReaderFacts, Zenon DEF Live, Gone, RawOf
  <2>5. n \in Missing(s, NoPacket)
    BY <1>3, <2>1, Zenon DEF Missing, NoPacket
  <2>6. Seen(t, n)
    BY <1>2, <2>4, <2>5, Zenon DEF Ordered, AllSeen
  <2>7. n \in Range(raw[RawOf(t)])
    BY <2>1, <2>2, <2>6, Zenon DEF Seen
  <2>8. Ahead(t) /\ pc[t] \in InHand
    BY <2>3, Zenon DEF Ordered, InHand
  <2>9. p < n
    BY <2>7, <2>8, Zenon DEF Ahead
  <2> QED BY <1>2, <1>3, <2>1, <2>9
<1>4. ASSUME NEW a \in Range(arrived[s]) PROVE a < p
  <2>1. a \in Nat
    <3>1. arrived[s] \in Seq((1 .. sent) \ Corrupt)
      BY <1>1, <1>2, Zenon DEF HTypes
    <3> QED BY <3>1, LenProperties DEF Range
  <2>2. a # p
    BY <1>4, Zenon
  <2>3. ~(p < a)
    BY <1>2, <1>4, Zenon DEF Ordered, NoGap
  <2> QED BY <1>2, <2>1, <2>2, <2>3
<1> QED BY <1>3, <1>4, Zenon

LEMMA PutKeeps ==
  ASSUME HInv, Ordered, NEW t \in Readers, NEW l, Puts(t, l)
  PROVE  Ordered'
<1> DEFINE p == cur[t]
           s == Dests[p]
<1>1. /\ pc[t] \in {"put_msg", "mq_send", "enqueue"} /\ s \in open /\ ~Full(s) /\ Queue(s, p)
      /\ l \in {"idle", "recvfrom", "get_msg"}
      /\ pc' = [pc EXCEPT ![t] = l] /\ cur' = [cur EXCEPT ![t] = NoPacket]
      /\ UNCHANGED <<open, raw, sent, late>>
  BY Zenon DEF Puts
<1>2. Hand(t) /\ HTypes /\ open \subseteq Socks
  BY Zenon DEF HInv, Hands, HTypes, TypeOK
<1>3. p \in (1 .. sent) \ Corrupt /\ p \in Nat /\ s \in Socks
  BY <1>1, <1>2, Packet, Zenon DEF Hand, InHand
<1>4. /\ pc'[t] = l /\ \A u \in Readers \ {t} : pc'[u] = pc[u] /\ cur'[u] = cur[u]
  BY <1>1, <1>2, Zenon DEF HTypes, TypeOK
<1> HIDE DEF p, s
<1>5. /\ \A x \in Socks \ {s} : arrived'[x] = arrived[x]
      /\ Range(arrived'[s]) = Range(arrived[s]) \cup {p}
      /\ p \in Range(arrived[s]) => arrived'[s] = arrived[s]
      /\ p \notin Range(arrived[s]) => arrived'[s] = Append(arrived[s], p)
  BY <1>1, <1>2, <1>3, QueueEffect, Zenon
<1>6. \A x \in Socks : Range(arrived[x]) \subseteq Range(arrived'[x])
  BY <1>5, Zenon
<1>7. s \notin late /\ p \notin Range(arrived[s]) =>
         /\ \A n \in (1 .. sent) \ Corrupt : Dests[n] = s /\ n < p => n \in Range(arrived[s])
         /\ \A a \in Range(arrived[s]) : a < p
  BY <1>1, InTurn, Zenon DEF p, s
<1>8. \A u \in Readers : Ahead(u)'
  <2>1. ASSUME NEW u \in Readers PROVE Ahead(u)'
    <3>1. CASE u = t
      BY <1>1, <1>4, <3>1, Zenon DEF Ahead, InHand
    <3>2. CASE u # t
      <4>1. Ahead(u) /\ (u \in Threads => SockOf[u] \in Socks)
        BY ReaderFacts, Zenon DEF Ordered
      <4> QED BY <1>1, <1>4, <1>6, <3>2, <4>1, Zenon DEF Ahead
    <3> QED BY <3>1, <3>2, Zenon
  <2> QED BY <2>1, Zenon
<1>9. SoleAccepted'
  <2>1. CASE t = Listener
    BY <1>1, <1>4, <2>1, Zenon DEF SoleAccepted
  <2>2. CASE t # Listener
    BY <1>1, <1>4, <2>2, ReaderFacts DEF Ordered, SoleAccepted
  <2> QED BY <2>1, <2>2, Zenon
<1>10. AllSeen'
  <2>1. \A u \in Readers : Live(u)' => Live(u)
    BY <1>1, <1>4, Zenon DEF Live, Gone
  <2>2. ASSUME NEW x \in open' \ late', NEW n \in Missing(x, NoPacket)', NEW u \in Readers,
               Seen(u, n)
        PROVE  Seen(u, n)'
    <3>1. Dests[n] = x /\ n \notin Range(arrived'[x])
      BY Zenon DEF Missing
    <3>2. n # p
      BY <1>5, <3>1, Zenon DEF s
    <3> QED BY <1>1, <1>4, <2>2, <3>2, ReaderFacts, Zenon DEF Seen, p
  <2> QED BY <1>1, <1>2, <1>6, <2>1, <2>2, AllSeenKept, Zenon DEF Ordered
<1>11. NoGap'
  <2>1. ASSUME NEW x \in Socks \ late, NEW a \in Range(arrived'[x]),
               NEW n \in (1 .. sent) \ Corrupt, Dests[n] = x, n < a
        PROVE  n \in Range(arrived'[x])
    <3>1. CASE a \in Range(arrived[x])
      BY <1>6, <2>1, <3>1, Zenon DEF Ordered, NoGap
    <3>2. CASE a \notin Range(arrived[x])
      BY <1>5, <1>6, <1>7, <2>1, <3>2
    <3> QED BY <3>1, <3>2, Zenon
  <2> QED BY <1>1, <2>1, Zenon DEF NoGap
<1>12. InOrder'
  <2>1. ASSUME NEW x \in Socks \ late PROVE Increasing(arrived'[x])
    <3>1. Increasing(arrived[x])
      BY Zenon DEF Ordered, InOrder
    <3>2. CASE x = s /\ p \notin Range(arrived[s])
      <4>1. arrived[s] \in Seq((1 .. sent) \ Corrupt) /\ (1 .. sent) \ Corrupt \subseteq Nat
        BY <1>2, <1>3 DEF HTypes
      <4>2. arrived[s] \in Seq(Nat)
        BY <4>1, SeqGrows, Zenon
      <4>3. Increasing(Append(arrived[s], p))
        BY <1>3, <1>7, <3>1, <3>2, <4>2, AppendIncreasing, Zenon
      <4> QED BY <1>5, <3>2, <4>3, Zenon
    <3>3. CASE ~(x = s /\ p \notin Range(arrived[s]))
      BY <1>5, <3>1, <3>3, Zenon
    <3> QED BY <3>2, <3>3, Zenon
  <2> QED BY <1>1, <2>1, Zenon DEF InOrder
<1> QED BY <1>8, <1>9, <1>10, <1>11, <1>12, Zenon DEF Ordered

(* The steps that queue nothing: what a reader sees and has in hand remains. *)
LEMMA QuietKeeps ==
  ASSUME Ordered, UNCHANGED <<open, sent, arrived, late>>, NEW t \in Readers,
         \A u \in Readers \ {t} : pc'[u] = pc[u] /\ cur'[u] = cur[u]
                                  /\ raw'[RawOf(u)] = raw[RawOf(u)],
         pc[t] \notin Gone \cup {"enqueue"}, pc'[t] # "enqueue", Ahead(t)',
         \A x \in open : \A n \in (1 .. sent) \ Corrupt : Dests[n] = x =>
            /\ n \in Range(raw[RawOf(t)]) => Seen(t, n)'
            /\ pc[t] \in InHand /\ n = cur[t] => Seen(t, n)'
  PROVE  Ordered'
<1>1. \A u \in Readers : Ahead(u)'
  <2>1. ASSUME NEW u \in Readers, u # t PROVE Ahead(u)'
    <3>1. Ahead(u)
      BY Zenon DEF Ordered
    <3> QED BY <2>1, <3>1, Zenon DEF Ahead
  <2> QED BY <2>1, Zenon
<1>2. SoleAccepted'
  <2>1. CASE t = Listener
    BY <2>1, Zenon DEF SoleAccepted
  <2>2. CASE t # Listener
    BY <2>2, ReaderFacts, Zenon DEF Ordered, SoleAccepted
  <2> QED BY <2>1, <2>2, Zenon
<1>3. AllSeen'
  <2>1. \A u \in Readers : Live(u)' => Live(u)
    BY Zenon DEF Live, RawOf
  <2>2. ASSUME NEW x \in open' \ late', NEW n \in Missing(x, NoPacket)', NEW u \in Readers,
               Seen(u, n)
        PROVE  Seen(u, n)'
    <3>1. Dests[n] = x /\ n \in (1 .. sent) \ Corrupt /\ x \in open
      BY Zenon DEF Missing
    <3>2. CASE pc[Listener] = "enqueue" /\ n = cur[Listener]
      BY <3>2, ReaderFacts, Zenon DEF Seen
    <3>3. CASE u = t /\ ~(pc[Listener] = "enqueue" /\ n = cur[Listener])
      BY <2>2, <3>1, <3>3, Zenon DEF Seen
    <3>4. CASE u # t /\ ~(pc[Listener] = "enqueue" /\ n = cur[Listener])
      BY <2>2, <3>4, Zenon DEF Seen
    <3> QED BY <3>2, <3>3, <3>4, Zenon
  <2> QED BY <2>1, <2>2, AllSeenKept, Zenon DEF Ordered
<1>4. NoGap' /\ InOrder'
  BY Zenon DEF Ordered, NoGap, InOrder
<1> QED BY <1>1, <1>2, <1>3, <1>4, Zenon DEF Ordered

LEMMA DropKeeps ==
  ASSUME HInv, Ordered, NEW t \in Readers, NEW l, Drops(t, l) PROVE Ordered'
<1>1. /\ pc[t] = "put_msg" /\ Dests[cur[t]] \notin open /\ l \in {"idle", "recvfrom", "get_msg"}
      /\ pc' = [pc EXCEPT ![t] = l] /\ cur' = [cur EXCEPT ![t] = NoPacket]
      /\ UNCHANGED <<open, raw, sent, arrived, late>>
  BY Zenon DEF Drops, history
<1>2. pc'[t] = l /\ \A u \in Readers \ {t} : pc'[u] = pc[u] /\ cur'[u] = cur[u]
  BY <1>1, Zenon DEF HInv, HTypes, TypeOK
<1>3. Ahead(t)' /\ pc'[t] # "enqueue" /\ pc[t] \notin Gone \cup {"enqueue"}
  BY <1>1, <1>2, Zenon DEF Ahead, InHand, Gone
<1>4. \A n : n \in Range(raw[RawOf(t)]) => Seen(t, n)'
  BY <1>1, Zenon DEF Seen
<1>5. \A x \in open : \A n : Dests[n] = x => n # cur[t]
  BY <1>1, Zenon
<1> QED BY <1>1, <1>2, <1>3, <1>4, <1>5, QuietKeeps, Zenon

LEMMA LookKeeps ==
  ASSUME HInv, Ordered, NEW t \in Readers, NEW l, Looks(t, l) PROVE Ordered'
<1>1. /\ pc' = [pc EXCEPT ![t] = l] /\ UNCHANGED <<open, raw, cur, sent, arrived, late>>
      /\ \/ pc[t] = "idle" /\ l \in {"recvfrom", "get_msg", "parked"}
         \/ pc[t] = "put_msg" /\ l = "mq_send"
  BY Zenon DEF Looks, history
<1>2. pc'[t] = l /\ \A u \in Readers \ {t} : pc'[u] = pc[u] /\ cur'[u] = cur[u]
  BY <1>1, Zenon DEF HInv, HTypes, TypeOK
<1>3. pc'[t] \in InHand => pc[t] \in InHand
  BY <1>1, <1>2, Zenon DEF InHand
<1>4. Ahead(t)' /\ pc'[t] # "enqueue" /\ pc[t] \notin Gone \cup {"enqueue"}
  <2>1. Ahead(t)
    BY Zenon DEF Ordered
  <2> QED BY <1>1, <1>2, <1>3, <2>1, Zenon DEF Ahead, Gone
<1>5. \A n : /\ n \in Range(raw[RawOf(t)]) => Seen(t, n)'
             /\ pc[t] \in InHand /\ n = cur[t] => Seen(t, n)'
  BY <1>1, <1>2, Zenon DEF Seen, InHand
<1> QED BY <1>1, <1>2, <1>4, <1>5, QuietKeeps, Zenon

LEMMA RecvKeeps ==
  ASSUME HInv, Ordered, OneReader, NEW t \in Readers, recvfrom(t) PROVE Ordered'
<1> DEFINE p == Head(raw[RawOf(t)])
<1>1. /\ pc[t] = "recvfrom" /\ UNCHANGED <<open, sent, arrived, late>>
      /\ \/ p \in Corrupt /\ pc' = [pc EXCEPT ![t] = AfterPut(t)] /\ UNCHANGED cur
         \/ /\ p \notin Corrupt /\ cur' = [cur EXCEPT ![t] = p]
            /\ pc' = [pc EXCEPT ![t] = IF t = Listener /\ Dests[p] \in Peers
                                       THEN "accept" ELSE "put_msg"]
  BY Zenon DEF recvfrom, history, Goto
<1>2. pc \in [Readers -> Places] /\ cur \in [Readers -> 0 .. sent]
  BY Zenon DEF HInv, HTypes, TypeOK, Places
<1>3. /\ \A r \in Raws \ {RawOf(t)} : raw'[r] = raw[r]
      /\ Range(raw[RawOf(t)]) = {p} \cup Range(raw'[RawOf(t)])
      /\ \A n \in Range(raw'[RawOf(t)]) : p < n
  BY RecvEffect, Zenon
<1> HIDE DEF p
<1>4. \A u \in Readers \ {t} : pc'[u] = pc[u] /\ cur'[u] = cur[u]
                               /\ raw'[RawOf(u)] = raw[RawOf(u)]
  <2>1. ASSUME NEW u \in Readers \ {t} PROVE raw'[RawOf(u)] = raw[RawOf(u)]
    <3>1. RawOf(u) # RawOf(t) /\ RawOf(u) \in Raws
      BY ReaderFacts, Zenon DEF OneReader, RawOf
    <3> QED BY <1>3, <3>1, Zenon
  <2> QED BY <1>1, <1>2, <2>1, Zenon
<1>5. AfterPut(t) \in {"recvfrom", "get_msg", "idle"}
  BY Zenon DEF AfterPut
<1>6. \/ p \in Corrupt /\ pc'[t] \in {"recvfrom", "get_msg", "idle"}
      \/ p \notin Corrupt /\ pc'[t] \in {"accept", "put_msg"} /\ cur'[t] = p
  BY <1>1, <1>2, <1>5, Zenon
<1>7. Ahead(t)' /\ pc'[t] # "enqueue" /\ pc[t] \notin Gone \cup {"enqueue"} /\ pc[t] \notin InHand
  BY <1>1, <1>3, <1>6, Zenon DEF Ahead, InHand, Gone, RawOf
<1>8. \A n \in (1 .. sent) \ Corrupt : n \in Range(raw[RawOf(t)]) => Seen(t, n)'
  BY <1>3, <1>6, Zenon DEF Seen, InHand, RawOf
<1> QED BY <1>1, <1>4, <1>7, <1>8, QuietKeeps, Zenon

LEMMA GetKeeps ==
  ASSUME HInv, Ordered, NEW t \in Threads, get_msg(t) PROVE Ordered'
<1> DEFINE p == Head(q[SockOf[t]])
<1>1. /\ pc[t] = "get_msg" /\ UNCHANGED <<open, raw, sent, arrived, late>>
      /\ \/ pc' = [pc EXCEPT ![t] = "put_msg"] /\ cur' = [cur EXCEPT ![t] = p]
         \/ pc' = [pc EXCEPT ![t] = "idle"] /\ UNCHANGED cur
  BY Zenon DEF get_msg, history, Goto
<1>2. pc \in [Readers -> Places] /\ cur \in [Readers -> 0 .. sent] /\ t \in Readers
  BY ReaderFacts, Zenon DEF HInv, HTypes, TypeOK, Places
<1>3. p \in Range(arrived[SockOf[t]]) /\ Dests[p] = SockOf[t]
  BY GetEffect, Zenon
<1> HIDE DEF p
<1>4. /\ \A u \in Readers \ {t} : pc'[u] = pc[u] /\ cur'[u] = cur[u]
      /\ (pc'[t] = "put_msg" /\ cur'[t] = p) \/ pc'[t] = "idle"
  BY <1>1, <1>2, Zenon
<1>5. Ahead(t)' /\ pc'[t] # "enqueue" /\ pc[t] \notin Gone \cup {"enqueue"} /\ pc[t] \notin InHand
  BY <1>1, <1>3, <1>4, Zenon DEF Ahead, InHand, Gone
<1>6. \A n : n \in Range(raw[RawOf(t)]) => Seen(t, n)'
  BY <1>1, Zenon DEF Seen
<1> QED BY <1>1, <1>2, <1>4, <1>5, <1>6, QuietKeeps, Zenon

LEMMA SendKeeps == ASSUME HInv, Ordered, send PROVE Ordered'
<1>1. /\ UNCHANGED <<open, pc, cur, arrived>> /\ late \subseteq late'
      /\ pc[Listener] = "enqueue" /\ Dests[cur[Listener]] = Dests[sent + 1]
            => Dests[sent + 1] \in late'
  BY Zenon DEF send, threads
<1>2. /\ sent \in Nat /\ sent' = sent + 1
      /\ \A r \in open \cup {Listener} : Range(raw'[r]) = Range(raw[r]) \cup {sent + 1}
      /\ \A r \in Raws \ (open \cup {Listener}) : raw'[r] = raw[r]
  BY SendEffect, Zenon
<1>3. \A r \in Raws : /\ Range(raw[r]) \subseteq Range(raw'[r])
                      /\ Range(raw'[r]) \subseteq Range(raw[r]) \cup {sent + 1}
  BY <1>2, Zenon
<1>4. \A u \in Readers : RawOf(u) \in Raws /\ RawOf(u)' = RawOf(u)
  BY ReaderFacts, Zenon DEF RawOf
<1>5. \A u \in Readers : Ahead(u)'
  <2>1. ASSUME NEW u \in Readers PROVE Ahead(u)'
    <3>1. Ahead(u)
      BY Zenon DEF Ordered
    <3>2. cur[u] < sent + 1
      BY <1>2 DEF HInv, HTypes, TypeOK
    <3> QED BY <1>1, <1>3, <1>4, <3>1, <3>2, Zenon DEF Ahead
  <2> QED BY <2>1, Zenon
<1>6. SoleAccepted'
  <2>1. ASSUME pc[Listener] = "enqueue", Dests[cur[Listener]] \notin late',
               NEW n \in (1 .. sent + 1) \ Corrupt, Dests[n] = Dests[cur[Listener]]
        PROVE  n = cur[Listener]
    <3>1. n # sent + 1
      BY <1>1, <2>1, Zenon
    <3>2. n \in (1 .. sent) \ Corrupt
      BY <1>2, <3>1
    <3> QED BY <1>1, <2>1, <3>2, Zenon DEF Ordered, SoleAccepted
  <2> QED BY <1>1, <1>2, <2>1, Zenon DEF SoleAccepted
<1>7. AllSeen'
  <2>1. ASSUME NEW x \in open \ late', NEW n \in Missing(x, NoPacket)', NEW u \in Readers, Live(u)'
        PROVE  Seen(u, n)'
    <3>1. /\ n \in 1 .. sent + 1 /\ Dests[n] = x /\ n \notin Corrupt \cup {NoPacket}
          /\ n \notin Range(arrived[x])
      BY <1>1, <1>2, Zenon DEF Missing
    <3>2. Live(u) /\ RawOf(u) \in open \cup {Listener}
      BY <1>1, <1>4, <2>1, Zenon DEF Live
    <3>3. CASE n = sent + 1
      BY <1>2, <1>4, <3>2, <3>3, Zenon DEF Seen
    <3>4. CASE n # sent + 1
      <4>1. n \in Missing(x, NoPacket) /\ x \in open \ late
        BY <1>1, <1>2, <3>1, <3>4 DEF Missing
      <4>2. Seen(u, n)
        BY <3>2, <4>1, Zenon DEF Ordered, AllSeen
      <4> QED BY <1>1, <1>3, <1>4, <4>2, Zenon DEF Seen
    <3> QED BY <3>3, <3>4, Zenon
  <2> QED BY <1>1, <2>1, Zenon DEF AllSeen
<1>8. NoGap'
  <2>1. ASSUME NEW x \in Socks \ late', NEW a \in Range(arrived[x]),
               NEW n \in (1 .. sent + 1) \ Corrupt, Dests[n] = x, n < a
        PROVE  n \in Range(arrived[x])
    <3>1. a \in 1 .. sent
      <4>1. arrived[x] \in Seq((1 .. sent) \ Corrupt)
        BY Zenon DEF HInv, HTypes
      <4> QED BY <4>1, LenProperties DEF Range
    <3>2. n \in (1 .. sent) \ Corrupt
      BY <1>2, <2>1, <3>1
    <3> QED BY <1>1, <2>1, <3>2, Zenon DEF Ordered, NoGap
  <2> QED BY <1>1, <1>2, <2>1, Zenon DEF NoGap
<1>9. InOrder'
  BY <1>1, Zenon DEF Ordered, InOrder
<1> QED BY <1>5, <1>6, <1>7, <1>8, <1>9, Zenon DEF Ordered

LEMMA AcceptNewKeeps == ASSUME HInv, Ordered, NEW s \in Peers, accept_new(s) PROVE Ordered'
<1>1. /\ pc[Listener] = "accept" /\ Dests[cur[Listener]] = s /\ s \in Socks /\ s \notin open
      /\ open' = open \cup {s} /\ pc' = [pc EXCEPT ![Listener] = "enqueue"]
      /\ UNCHANGED <<raw, cur, sent, arrived>>
      /\ late' = late \cup {x \in open : Missing(x, NoPacket) # {}}
                      \cup {x \in {s} : Missing(s, cur[Listener]) # {}}
  BY Zenon DEF accept_new, Goto, Socks
<1>2. pc'[Listener] = "enqueue" /\ \A u \in Readers \ {Listener} : pc'[u] = pc[u]
  BY <1>1, ReaderFacts, Zenon DEF HInv, HTypes, TypeOK
<1>3. arrived[s] = <<>> /\ Range(arrived[s]) = {}
  BY <1>1, EmptySet, Zenon DEF HInv, Queues
<1>4. s \notin late' =>
         \A n \in (1 .. sent) \ Corrupt : Dests[n] = s => n = cur[Listener]
  BY <1>1, <1>3, Zenon DEF Missing
<1>5. \A u \in Readers : Ahead(u)'
  <2>1. ASSUME NEW u \in Readers PROVE Ahead(u)'
    <3>1. Ahead(u)
      BY Zenon DEF Ordered
    <3>2. CASE u = Listener
      BY <1>2, <3>2, Zenon DEF Ahead, InHand
    <3>3. CASE u # Listener
      BY <1>1, <1>2, <3>1, <3>3, Zenon DEF Ahead
    <3> QED BY <3>2, <3>3, Zenon
  <2> QED BY <2>1, Zenon
<1>6. SoleAccepted'
  BY <1>1, <1>4, Zenon DEF SoleAccepted
<1>7. AllSeen'
  <2>1. ASSUME NEW x \in open' \ late', NEW n \in Missing(x, NoPacket)', NEW u \in Readers
        PROVE  Seen(u, n)'
    <3>1. n \in Missing(x, NoPacket)
      BY <1>1, Zenon DEF Missing
    <3>2. x = s
      BY <1>1, <3>1, Zenon
    <3>3. n = cur[Listener]
      BY <1>4, <3>1, <3>2, Zenon DEF Missing
    <3> QED BY <1>1, <1>2, <3>3, Zenon DEF Seen
  <2> QED BY <2>1, Zenon DEF AllSeen
<1>8. NoGap' /\ InOrder'
  BY <1>1, Zenon DEF Ordered, NoGap, InOrder
<1> QED BY <1>5, <1>6, <1>7, <1>8, Zenon DEF Ordered

(* Readers that stop for good, of a crash or of a close, disturb nothing. *)
LEMMA AcceptLiveKeeps == ASSUME HInv, Ordered, NEW s \in Peers, accept_live(s) PROVE Ordered'
<1>1. /\ UNCHANGED <<open, raw, cur, sent, arrived, late>> /\ pc[Listener] = "accept"
      /\ pc' = [t \in Readers |-> IF t = Listener \/ SockOf[t] \in Peers
                                  THEN "crashed" ELSE pc[t]]
  BY Zenon DEF accept_live, history
<1>2. /\ \A t \in Readers : pc'[t] = "crashed" \/ pc'[t] = pc[t]
      /\ pc'[Listener] = "crashed"
  BY <1>1, ReaderFacts, Zenon
<1>3. \A u \in Readers : Ahead(u)'
  <2>1. ASSUME NEW u \in Readers PROVE Ahead(u)'
    <3>1. Ahead(u)
      BY Zenon DEF Ordered
    <3> QED BY <1>1, <1>2, <3>1, Zenon DEF Ahead, InHand
  <2> QED BY <2>1, Zenon
<1>4. SoleAccepted'
  BY <1>2, Zenon DEF SoleAccepted
<1>5. AllSeen'
  <2>1. \A u \in Readers : Live(u)' => Live(u) /\ pc'[u] = pc[u]
    BY <1>1, <1>2, Zenon DEF Live, Gone, RawOf
  <2>2. \A u \in Readers : \A n : Live(u)' /\ Seen(u, n) => Seen(u, n)'
    BY <1>1, <2>1, Zenon DEF Seen
  <2> QED BY <1>1, <2>1, <2>2, AllSeenKept, Zenon DEF Ordered
<1>6. NoGap' /\ InOrder'
  BY <1>1, Zenon DEF Ordered, NoGap, InOrder
<1> QED BY <1>3, <1>4, <1>5, <1>6, Zenon DEF Ordered

LEMMA CloseKeeps == ASSUME HInv, Ordered, NEW s \in Socks, close(s) PROVE Ordered'
<1>1. /\ \A t \in Threads : SockOf[t] = s => pc[t] = "idle"
      /\ open' = open \ {s}
      /\ raw' = [raw EXCEPT ![s] = <<>>]
      /\ arrived' = [arrived EXCEPT ![s] = <<>>]
      /\ pc' = [t \in Readers |-> IF pc[t] = "mq_send" /\ Dests[cur[t]] = s
                                  THEN "stuck" ELSE pc[t]]
      /\ UNCHANGED <<cur, sent, late>>
  BY Zenon DEF close
<1>2. /\ raw \in [Raws -> Seq(1 .. sent)] /\ s \in Raws
      /\ arrived \in [Socks -> Seq((1 .. sent) \ Corrupt)]
  BY ReaderFacts, Zenon DEF HInv, HTypes, TypeOK
<1>3. /\ \A r \in Raws : r # s => raw'[r] = raw[r]
      /\ arrived'[s] = <<>> /\ Range(arrived'[s]) = {}
      /\ \A x \in Socks : x # s => arrived'[x] = arrived[x]
  BY <1>1, <1>2, EmptySet, Zenon
<1>4. \A u \in Readers : pc'[u] = pc[u] \/ (pc'[u] = "stuck" /\ pc[u] = "mq_send")
  BY <1>1, Zenon
<1>5. \A u \in Readers : RawOf(u) = s => u \in Threads /\ SockOf[u] = s /\ pc[u] = "idle"
  BY <1>1, ReaderFacts, HostAssumption, Zenon DEF RawOf
<1>6. \A u \in Readers : pc'[u] \in InHand =>
         /\ pc[u] \in InHand /\ RawOf(u) # s /\ raw'[RawOf(u)] = raw[RawOf(u)]
         /\ u \in Threads => SockOf[u] # s /\ arrived'[SockOf[u]] = arrived[SockOf[u]]
  BY <1>3, <1>4, <1>5, ReaderFacts DEF InHand
<1>7. \A u \in Readers : Ahead(u)'
  <2>1. ASSUME NEW u \in Readers PROVE Ahead(u)'
    <3>1. Ahead(u)
      BY Zenon DEF Ordered
    <3> QED BY <1>1, <1>6, <3>1, Zenon DEF Ahead, RawOf
  <2> QED BY <2>1, Zenon
<1>8. pc'[Listener] = "enqueue" <=> pc[Listener] = "enqueue"
  BY <1>4, ReaderFacts, Zenon
<1>9. SoleAccepted'
  BY <1>1, <1>8, Zenon DEF Ordered, SoleAccepted
<1>10. AllSeen'
  <2>1. \A u \in Readers : Live(u)' => Live(u) /\ pc'[u] = pc[u] /\ RawOf(u) # s
    <3>1. ASSUME NEW u \in Readers, Live(u)' PROVE Live(u) /\ pc'[u] = pc[u] /\ RawOf(u) # s
      <4>1. pc'[u] = pc[u] /\ RawOf(u) \in open' \cup {Listener}
        BY <1>4, <3>1, Zenon DEF Live, Gone, RawOf
      <4>2. RawOf(u) # s
        BY <1>1, <4>1, HostAssumption, Zenon
      <4> QED BY <1>1, <3>1, <4>1, <4>2, Zenon DEF Live, RawOf
    <3> QED BY <3>1, Zenon
  <2>2. \A u \in Readers : \A n : Live(u)' /\ Seen(u, n) => Seen(u, n)'
    BY <1>1, <1>3, <1>8, <2>1, ReaderFacts DEF Seen, RawOf
  <2>3. \A x \in open' \ late' : x \in open \ late /\ x # s /\ x \in Socks
    BY <1>1, Zenon DEF HInv, HTypes, TypeOK
  <2> QED BY <1>1, <1>3, <2>1, <2>2, <2>3, AllSeenKept, Zenon DEF Ordered
<1>11. NoGap'
  BY <1>1, <1>3, Zenon DEF Ordered, NoGap
<1>12. InOrder'
  <2>1. Increasing(<<>>)
    BY EmptySeq, LenProperties DEF Increasing
  <2> QED BY <1>1, <1>3, <2>1, Zenon DEF Ordered, InOrder
<1> QED BY <1>7, <1>9, <1>10, <1>11, <1>12, Zenon DEF Ordered

LEMMA OInvStep == ASSUME HInv, OInv, [Next]_vars PROVE OInv'
<1> SUFFICES ASSUME OneReader PROVE Ordered'
  BY Zenon DEF OInv, OneReader
<1>0. Ordered
  BY Zenon DEF OInv
<1>1. CASE UNCHANGED vars
  <2>1. UNCHANGED <<open, raw, q, pc, cur, mq_set, sent, arrived, late>>
    BY <1>1, Zenon DEF vars, threads, history
  <2>2. \A u \in Readers : Ahead(u)'
    BY <1>0, <2>1, Zenon DEF Ordered, Ahead, RawOf
  <2>3. AllSeen'
    <3>1. \A u \in Readers : Live(u)' => Live(u)
      BY <2>1, Zenon DEF Live, RawOf
    <3>2. \A u \in Readers : \A n : Seen(u, n) => Seen(u, n)'
      BY <2>1, Zenon DEF Seen, RawOf
    <3> QED BY <1>0, <2>1, <3>1, <3>2, AllSeenKept, Zenon DEF Ordered
  <2> QED BY <1>0, <2>1, <2>2, <2>3, Zenon DEF Ordered, SoleAccepted, NoGap, InOrder
<1>2. ASSUME NEW t \in Readers, NEW l, Puts(t, l) PROVE Ordered'
  BY <1>0, <1>2, PutKeeps, Zenon
<1>3. ASSUME NEW t \in Readers, NEW l, Drops(t, l) PROVE Ordered'
  BY <1>0, <1>3, DropKeeps, Zenon
<1>4. ASSUME NEW t \in Readers, NEW l, Looks(t, l) PROVE Ordered'
  BY <1>0, <1>4, LookKeeps, Zenon
<1>5. CASE send
  BY <1>0, <1>5, SendKeeps, Zenon
<1>6. CASE accept_call
  BY <1>4, <1>6, LookKinds, ReaderFacts, Zenon
<1>7. CASE Accept
  BY <1>0, <1>2, <1>3, <1>4, <1>7, AcceptNewKeeps, AcceptLiveKeeps, PutKinds, ReaderFacts, Zenon
     DEF Accept
<1>8. ASSUME NEW t \in Readers, Step(t) PROVE Ordered'
  <2>1. CASE t \in Threads /\ (select(t) \/ get_msg(t))
    BY <1>0, <1>4, <2>1, LookKinds, GetKeeps, Zenon
  <2>2. CASE recvfrom(t) \/ put_msg(t) \/ mq_send(t)
    BY <1>0, <1>2, <1>3, <1>4, <2>2, RecvKeeps, PutKinds, Zenon
  <2> QED BY <1>8, <2>1, <2>2, Zenon DEF Step
<1>9. ASSUME NEW t \in Threads, stop_reading(t) PROVE Ordered'
  BY <1>4, <1>9, LookKinds, Zenon
<1>10. ASSUME NEW s \in Socks, close(s) PROVE Ordered'
  BY <1>0, <1>10, CloseKeeps, Zenon
<1> QED BY <1>1, <1>5, <1>6, <1>7, <1>8, <1>9, <1>10, Zenon DEF Next

LEMMA OInvInit == Init => OInv
<1> SUFFICES ASSUME Init PROVE Ordered
  BY Zenon DEF OInv
<1>1. (\A t \in Readers : Ahead(t)) /\ SoleAccepted
  BY ReaderFacts, Zenon DEF Init, Ahead, InHand, SoleAccepted
<1>2. AllSeen
  BY DEF Init, AllSeen, Missing
<1>3. NoGap /\ InOrder
  <2>1. Increasing(<<>>)
    BY EmptySeq, LenProperties DEF Increasing
  <2> QED BY <2>1, EmptySet, Zenon DEF Init, NoGap, InOrder
<1> QED BY <1>1, <1>2, <1>3, Zenon DEF Ordered

(* Whatever has not come to a queue is in front of every reader, and what    *)
(* has come leaves no gap: the invariant FirstCopiesInOrder rests on.        *)
THEOREM ReadersStayInStep == Spec => [](HInv /\ OInv)
  BY HInvInit, HInvStep, OInvInit, OInvStep, PTL DEF Spec

(* However many readers race to queue a packet, the first copies come to a   *)
(* queue in the order in which the packets were sent.                       *)
THEOREM CopiesComeInOrder == Spec => []FirstCopiesInOrder
<1>1. OInv => FirstCopiesInOrder
  BY Zenon DEF OInv, OneReader, Ordered, InOrder, Increasing, FirstCopiesInOrder
<1> QED BY <1>1, ReadersStayInStep, PTL

-----------------------------------------------------------------------------
(* What select has reported is there when the thread comes to ask for it. *)

Alone(t) == \A u \in Threads : SockOf[u] = SockOf[t] => u = t

\* Once select has seen a message in the queue it stays there until get_msg
There(t) ==
    /\ pc[t] = "recvfrom" => raw[SockOf[t]] # <<>>
    /\ pc[t] = "get_msg" => q[SockOf[t]] # <<>>
    /\ mq_set[t] /\ pc[t] \in {"recvfrom", "put_msg", "mq_send"} => q[SockOf[t]] # <<>>

SInv == \A t \in Threads : Alone(t) => There(t)

LEMMA SInvAt == ASSUME \A u \in Threads : Alone(u) => There(u)' PROVE SInv'
<1>1. \A u \in Threads : Alone(u)' <=> Alone(u)
  BY Zenon DEF Alone
<1> QED BY <1>1, Zenon DEF SInv

(* What another reader does to a thread that reads alone for its socket. *)
LEMMA Untouched ==
  ASSUME SInv, NEW u \in Threads, Alone(u), mq_set'[u] = mq_set[u],
         pc'[u] = pc[u] \/ pc'[u] \in Gone,
         pc[u] # "idle" => /\ raw[SockOf[u]] # <<>> => raw'[SockOf[u]] # <<>>
                           /\ q[SockOf[u]] # <<>> => q'[SockOf[u]] # <<>>
  PROVE  There(u)'
<1>1. There(u)
  BY Zenon DEF SInv
<1> QED BY <1>1, Zenon DEF There, Gone

LEMMA PutFinds ==
  ASSUME HInv, SInv, NEW t \in Readers, NEW l, Puts(t, l) PROVE SInv'
<1> DEFINE p == cur[t]
           s == Dests[p]
<1>1. /\ pc[t] \in {"put_msg", "mq_send", "enqueue"} /\ s \in open /\ ~Full(s) /\ Queue(s, p)
      /\ t \in Threads => l = AfterPut(t)
      /\ pc' = [pc EXCEPT ![t] = l] /\ UNCHANGED <<raw, mq_set>>
  BY Zenon DEF Puts
<1>2. Hand(t) /\ HTypes
  BY Zenon DEF HInv, Hands
<1>3. p \in (1 .. sent) \ Corrupt /\ s \in Socks
  BY <1>1, <1>2, Packet, Zenon DEF Hand, InHand
<1>4. pc'[t] = l /\ \A u \in Readers \ {t} : pc'[u] = pc[u]
  BY <1>1, <1>2, Zenon DEF HTypes, TypeOK
<1> HIDE DEF p, s
<1>5. \A x \in Socks : q[x] # <<>> => q'[x] # <<>>
  BY <1>1, <1>2, <1>3, QueueEffect, Zenon
<1>6. ASSUME NEW u \in Threads, Alone(u) PROVE There(u)'
  <2>1. SockOf[u] \in Socks /\ u \in Readers
    BY ReaderFacts, Zenon
  <2>2. CASE u # t
    BY <1>1, <1>4, <1>5, <1>6, <2>1, <2>2, Untouched, Zenon
  <2>3. CASE u = t
    <3>1. There(t) /\ l = (IF mq_set[t] THEN "get_msg" ELSE "idle")
      BY <1>1, <1>6, <2>3, ReaderFacts, Zenon DEF SInv, AfterPut
    <3>2. pc[t] \in {"put_msg", "mq_send"}
      BY <1>1, <1>2, <2>3, Zenon DEF Hand
    <3> QED BY <1>1, <1>4, <1>5, <2>1, <2>3, <3>1, <3>2, Zenon DEF There
  <2> QED BY <2>2, <2>3, Zenon
<1> QED BY <1>6, SInvAt, Zenon

LEMMA DropFinds ==
  ASSUME HInv, SInv, NEW t \in Readers, NEW l, Drops(t, l) PROVE SInv'
<1>1. /\ pc[t] = "put_msg" /\ (t \in Threads => l = AfterPut(t))
      /\ pc' = [pc EXCEPT ![t] = l] /\ UNCHANGED <<raw, q, mq_set>>
  BY Zenon DEF Drops
<1>2. pc'[t] = l /\ \A u \in Readers \ {t} : pc'[u] = pc[u]
  BY <1>1, Zenon DEF HInv, HTypes, TypeOK
<1>3. ASSUME NEW u \in Threads, Alone(u) PROVE There(u)'
  <2>1. u \in Readers
    BY ReaderFacts, Zenon
  <2>2. CASE u # t
    BY <1>1, <1>2, <1>3, <2>1, <2>2, Untouched, Zenon
  <2>3. CASE u = t
    <3>1. There(t) /\ l = (IF mq_set[t] THEN "get_msg" ELSE "idle")
      BY <1>1, <1>3, <2>3, ReaderFacts, Zenon DEF SInv, AfterPut
    <3> QED BY <1>1, <1>2, <2>3, <3>1, Zenon DEF There
  <2> QED BY <2>2, <2>3, Zenon
<1> QED BY <1>3, SInvAt, Zenon

(* Only the way of thread t changes, and what it has seen of its queue. *)
LEMMA OneFinds ==
  ASSUME HInv, SInv, NEW t \in Readers, NEW l, pc' = [pc EXCEPT ![t] = l],
         UNCHANGED <<raw, q>>, \A u \in Readers \ {t} : mq_set'[u] = mq_set[u],
         t \in Threads /\ Alone(t) => There(t)'
  PROVE  SInv'
<1>1. \A u \in Readers \ {t} : pc'[u] = pc[u]
  BY Zenon DEF HInv, HTypes, TypeOK
<1>2. ASSUME NEW u \in Threads, Alone(u) PROVE There(u)'
  <2>1. CASE u # t
    <3>1. u \in Readers \ {t}
      BY <2>1, ReaderFacts, Zenon
    <3> QED BY <1>1, <1>2, <3>1, Untouched, Zenon
  <2>2. CASE u = t
    BY <1>2, <2>2, Zenon
  <2> QED BY <2>1, <2>2, Zenon
<1> QED BY <1>2, SInvAt, Zenon

LEMMA SelectFinds ==
  ASSUME HInv, SInv, NEW t \in Threads, select(t) PROVE SInv'
<1> DEFINE l == IF raw[SockOf[t]] # <<>> THEN "recvfrom" ELSE "get_msg"
           b == q[SockOf[t]] # <<>>
<1>1. /\ raw[SockOf[t]] # <<>> \/ q[SockOf[t]] # <<>>
      /\ UNCHANGED <<raw, q>> /\ pc' = [pc EXCEPT ![t] = l] /\ mq_set' = [mq_set EXCEPT ![t] = b]
  BY Zenon DEF select, Goto
<1>2. t \in Readers /\ pc \in [Readers -> Places] /\ mq_set \in [Readers -> BOOLEAN]
  BY ReaderFacts, Zenon DEF HInv, HTypes, TypeOK, Places
<1>3. \/ l = "recvfrom" /\ raw[SockOf[t]] # <<>>
      \/ l = "get_msg" /\ q[SockOf[t]] # <<>>
  BY <1>1, Zenon
<1>4. b => q[SockOf[t]] # <<>>
  BY Zenon
<1> HIDE DEF l, b
<1>5. pc'[t] = l /\ mq_set'[t] = b /\ \A u \in Readers \ {t} : mq_set'[u] = mq_set[u]
  BY <1>1, <1>2, Zenon
<1>6. There(t)'
  BY <1>1, <1>3, <1>4, <1>5, Zenon DEF There
<1> QED BY <1>1, <1>2, <1>5, <1>6, OneFinds, Zenon

(* The other steps of a reader that take from neither. *)
LEMMA MoveFinds ==
  ASSUME HInv, SInv, NEW t \in Readers, NEW l, pc' = [pc EXCEPT ![t] = l],
         UNCHANGED <<raw, q, mq_set>>,
         \/ t = Listener
         \/ l = "parked"
         \/ pc[t] = "put_msg" /\ l = "mq_send"
  PROVE  SInv'
<1>1. pc'[t] = l
  BY Zenon DEF HInv, HTypes, TypeOK
<1>2. ASSUME t \in Threads, Alone(t) PROVE There(t)'
  <2>1. There(t) /\ t # Listener
    BY <1>2, ReaderFacts, Zenon DEF SInv
  <2> QED BY <1>1, <2>1, Zenon DEF There
<1> QED BY <1>2, OneFinds, Zenon

LEMMA RecvFinds ==
  ASSUME HInv, SInv, NEW t \in Readers, recvfrom(t) PROVE SInv'
<1>1. /\ pc[t] = "recvfrom" /\ UNCHANGED <<q, mq_set>>
      /\ \E l : pc' = [pc EXCEPT ![t] = l] /\ l \in {AfterPut(t), "accept", "put_msg"}
  BY Zenon DEF recvfrom, Goto
<1>2. PICK l : pc' = [pc EXCEPT ![t] = l] /\ l \in {AfterPut(t), "accept", "put_msg"}
  BY <1>1, Zenon
<1>3. pc'[t] = l /\ \A u \in Readers \ {t} : pc'[u] = pc[u]
  BY <1>2, Zenon DEF HInv, HTypes, TypeOK
<1>4. \A r \in Raws \ {RawOf(t)} : raw'[r] = raw[r]
  BY RecvEffect, Zenon
<1>5. ASSUME NEW u \in Threads, Alone(u) PROVE There(u)'
  <2>1. u \in Readers /\ SockOf[u] \in Raws /\ RawOf(u) = SockOf[u]
    BY ReaderFacts, Zenon
  <2>2. CASE u # t
    <3>1. RawOf(t) # SockOf[u]
      BY <1>5, <2>1, <2>2, ReaderFacts, Zenon DEF Alone, RawOf
    <3> QED BY <1>1, <1>3, <1>4, <1>5, <2>1, <2>2, <3>1, Untouched, Zenon
  <2>3. CASE u = t
    <3>1. There(t) /\ AfterPut(t) = (IF mq_set[t] THEN "get_msg" ELSE "idle")
      BY <1>5, <2>3, ReaderFacts, Zenon DEF SInv, AfterPut
    <3> QED BY <1>1, <1>2, <1>3, <2>3, <3>1, Zenon DEF There
  <2> QED BY <2>2, <2>3, Zenon
<1> QED BY <1>5, SInvAt, Zenon

LEMMA GetFinds ==
  ASSUME HInv, SInv, NEW t \in Threads, get_msg(t) PROVE SInv'
<1>1. /\ UNCHANGED raw /\ mq_set' = [mq_set EXCEPT ![t] = FALSE]
      /\ \E l \in {"put_msg", "idle"} : pc' = [pc EXCEPT ![t] = l]
  BY Zenon DEF get_msg, Goto
<1>2. t \in Readers /\ pc \in [Readers -> Places] /\ mq_set \in [Readers -> BOOLEAN]
  BY ReaderFacts, Zenon DEF HInv, HTypes, TypeOK, Places
<1>3. /\ pc'[t] \in {"put_msg", "idle"} /\ mq_set'[t] = FALSE
      /\ \A u \in Readers \ {t} : pc'[u] = pc[u] /\ mq_set'[u] = mq_set[u]
  BY <1>1, <1>2, Zenon
<1>4. \A x \in Socks \ {SockOf[t]} : q'[x] = q[x]
  BY GetEffect, Zenon
<1>5. ASSUME NEW u \in Threads, Alone(u) PROVE There(u)'
  <2>1. u \in Readers /\ SockOf[u] \in Socks
    BY ReaderFacts, Zenon
  <2>2. CASE u # t
    <3>1. SockOf[t] # SockOf[u]
      BY <1>5, <2>2, Zenon DEF Alone
    <3> QED BY <1>1, <1>3, <1>4, <1>5, <2>1, <2>2, <3>1, Untouched, Zenon
  <2>3. CASE u = t
    BY <1>3, <2>3, Zenon DEF There
  <2> QED BY <2>2, <2>3, Zenon
<1> QED BY <1>5, SInvAt, Zenon

LEMMA SendFinds == ASSUME HInv, SInv, send PROVE SInv'
<1>1. UNCHANGED <<pc, mq_set, q>>
  BY Zenon DEF send, threads
<1>2. ASSUME NEW u \in Threads, Alone(u) PROVE There(u)'
  <2>1. SockOf[u] \in Raws
    BY ReaderFacts, Zenon
  <2>2. raw[SockOf[u]] # <<>> => raw'[SockOf[u]] # <<>>
    <3>1. CASE SockOf[u] \in open \cup {Listener}
      BY <3>1, SendEffect, EmptySet, Zenon
    <3>2. CASE SockOf[u] \notin open \cup {Listener}
      BY <2>1, <3>2, SendEffect, Zenon
    <3> QED BY <3>1, <3>2, Zenon
  <2> QED BY <1>1, <1>2, <2>2, Untouched, Zenon
<1> QED BY <1>2, SInvAt, Zenon

LEMMA AcceptLiveFinds == ASSUME HInv, SInv, NEW s \in Peers, accept_live(s) PROVE SInv'
<1>1. UNCHANGED <<raw, q, mq_set>> /\ \A u \in Readers : pc'[u] = "crashed" \/ pc'[u] = pc[u]
  BY Zenon DEF accept_live
<1>2. ASSUME NEW u \in Threads, Alone(u) PROVE There(u)'
  BY <1>1, <1>2, Untouched, ReaderFacts, Zenon DEF Gone
<1> QED BY <1>2, SInvAt, Zenon

LEMMA CloseFinds == ASSUME HInv, SInv, NEW s \in Socks, close(s) PROVE SInv'
<1>1. /\ \A t \in Threads : SockOf[t] = s => pc[t] = "idle"
      /\ raw' = [raw EXCEPT ![s] = <<>>] /\ q' = [q EXCEPT ![s] = <<>>]
      /\ UNCHANGED mq_set
      /\ pc' = [t \in Readers |-> IF pc[t] = "mq_send" /\ Dests[cur[t]] = s
                                  THEN "stuck" ELSE pc[t]]
  BY Zenon DEF close
<1>2. \A x \in Socks : x # s => raw'[x] = raw[x] /\ q'[x] = q[x]
  BY <1>1, ReaderFacts, Zenon DEF HInv, HTypes, TypeOK
<1>3. ASSUME NEW u \in Threads, Alone(u) PROVE There(u)'
  <2>1. u \in Readers /\ SockOf[u] \in Socks
    BY ReaderFacts, Zenon
  <2>2. pc'[u] = pc[u] \/ pc'[u] \in Gone
    BY <1>1, <2>1, Zenon DEF Gone
  <2>3. pc[u] # "idle" => raw'[SockOf[u]] = raw[SockOf[u]] /\ q'[SockOf[u]] = q[SockOf[u]]
    BY <1>1, <1>2, <2>1, Zenon
  <2> QED BY <1>1, <1>3, <2>2, <2>3, Untouched, Zenon
<1> QED BY <1>3, SInvAt, Zenon

LEMMA SInvStep == ASSUME HInv, SInv, [Next]_vars PROVE SInv'
<1>1. CASE UNCHANGED vars
  <2>1. UNCHANGED <<raw, q, pc, mq_set>>
    BY <1>1, Zenon DEF vars, threads
  <2>2. ASSUME NEW u \in Threads, Alone(u) PROVE There(u)'
    BY <2>1, <2>2, Untouched, Zenon
  <2> QED BY <2>2, SInvAt, Zenon
<1>2. ASSUME NEW t \in Readers, NEW l, Puts(t, l) PROVE SInv'
  BY <1>2, PutFinds, Zenon
<1>3. ASSUME NEW t \in Readers, NEW l, Drops(t, l) PROVE SInv'
  BY <1>3, DropFinds, Zenon
<1>4. ASSUME NEW t \in Readers, Looks(t, "mq_send"), UNCHANGED mq_set PROVE SInv'
  BY <1>4, MoveFinds, Zenon DEF Looks
<1>5. CASE send
  BY <1>5, SendFinds, Zenon
<1>6. CASE accept_call
  BY <1>6, MoveFinds, ReaderFacts, Zenon DEF accept_call, Goto
<1>7. ASSUME NEW s \in Peers, accept_new(s) \/ accept_live(s) \/ enqueue(s) PROVE SInv'
  <2>1. CASE accept_new(s)
    BY <2>1, MoveFinds, ReaderFacts, Zenon DEF accept_new, Goto
  <2>2. CASE accept_live(s)
    BY <2>2, AcceptLiveFinds, Zenon
  <2>3. CASE enqueue(s)
    <3>1. UNCHANGED mq_set
      BY <2>3, Zenon DEF enqueue
    <3> QED BY <1>2, <1>3, <1>4, <2>3, <3>1, PutKinds, ReaderFacts, Zenon
  <2> QED BY <1>7, <2>1, <2>2, <2>3, Zenon
<1>8. ASSUME NEW t \in Readers, Step(t) PROVE SInv'
  <2>1. CASE t \in Threads /\ (select(t) \/ get_msg(t))
    BY <2>1, SelectFinds, GetFinds, Zenon
  <2>2. CASE recvfrom(t)
    BY <2>2, RecvFinds, Zenon
  <2>3. CASE put_msg(t) \/ mq_send(t)
    <3>1. UNCHANGED mq_set
      BY <2>3, Zenon DEF put_msg, mq_send
    <3> QED BY <1>2, <1>3, <1>4, <2>3, <3>1, PutKinds, Zenon
  <2> QED BY <1>8, <2>1, <2>2, <2>3, Zenon DEF Step
<1>9. ASSUME NEW t \in Threads, stop_reading(t) PROVE SInv'
  BY <1>9, MoveFinds, ReaderFacts, Zenon DEF stop_reading, Goto
<1>10. ASSUME NEW s \in Socks, close(s) PROVE SInv'
  BY <1>10, CloseFinds, Zenon
<1> QED BY <1>1, <1>5, <1>6, <1>7, <1>8, <1>9, <1>10, Zenon DEF Next, Accept

(* next_msg never waits where select has promised it need not: recvfrom      *)
(* finds a packet and get_msg a message, if one thread reads for the socket. *)
THEOREM SelectKeepsItsPromise == Spec => []SelectedIsThere
<1>1. Init => SInv
  BY ReaderFacts, Zenon DEF Init, SInv, There
<1>2. SInv => SelectedIsThere
  BY Zenon DEF SInv, Alone, There, SelectedIsThere
<1> QED BY <1>1, <1>2, HInvInit, HInvStep, SInvStep, PTL DEF Spec
=============================================================================
