---------------------------- MODULE SenderProofs ----------------------------
(***************************************************************************)
(* The steps that acknowledgements, the peer and the handshake take keep   *)
(* the invariant Good of SenderSendProofs, like those of send() and of the *)
(* worker; then the safety properties of Sender, and that it implements    *)
(* Stream.                                                                 *)
(***************************************************************************)
EXTENDS SenderPutProofs

(* Most steps follow at once; the limit leaves room for a busy machine. *)
USE SMTT(30)

-----------------------------------------------------------------------------
(* An acknowledgement from before the window. *)

LEMMA AckSeq == ASSUME Good, NEW a \in acks PROVE a.seq \in 0 .. Modulo - 1 /\ a.win \in 1 .. WinSz
<1>1. PICK n \in 0 .. Len(peer) : a.seq = tcp_seq(isn + n + Modulo - 1)
  BY ZenonT(30) DEF Good, Places
<1>2. isn \in Nat /\ Len(peer) \in Nat
  BY Numbers, ZenonT(30) DEF Good
<1>3. isn + n + Modulo - 1 \in Nat
  BY <1>2, Constants
<1>4. \A k \in Nat : k % Modulo \in 0 .. Modulo - 1
  BY Constants
<1> QED BY <1>1, <1>3, <1>4, ZenonT(30) DEF tcp_seq, Good, Places

(* Fast retransmit marks the oldest message; when there is none, whatever    *)
(* it finds is acknowledged, or it finds nothing.                            *)
LEMMA FastRetrySafe ==
  ASSUME Good, state # "CLOSED", NEW s \in SeqsAt(off_map[win.off]), ~sent_buf_empty
  PROVE  /\ off_map[win.off] \in Cells /\ Live(off_map[win.off]) /\ From(off_map[win.off]) = Acked
         /\ s = mem[off_map[win.off]].seq
<1>1. /\ win.off \in 0 .. WinSz /\ win.sent_off \in 0 .. WinSz /\ win.off <= win.sent_off
      /\ Acked = Base + win.off
  BY Numbers, ZenonT(30) DEF Good
<1>2. win.off < win.sent_off
  BY <1>1, Constants DEF sent_buf_empty
<1>3. Whole(Base + win.off)
  BY <1>1, ZenonT(30) DEF Good, Places
<1>4. /\ Live(off_map[win.off]) /\ From(off_map[win.off]) = Base + win.off
      /\ off_map[win.off] \in Cells
  BY <1>1, <1>2, <1>3, MessageAt, ZenonT(30) DEF Good
<1> QED BY <1>1, <1>4, ZenonT(30) DEF SeqsAt, Live, Header

LEMMA NothingUnacked ==
  ASSUME Good, sent_buf_empty, NEW p \in Cells, Live(p)
  PROVE  ~(To(p) > Acked) /\ ~(From(p) >= Acked)
<1>1. From(p) \in Nat /\ To(p) \in Nat /\ From(p) < To(p) /\ To(p) <= put
  BY HeaderSpan, ZenonT(30) DEF Good, Live
<1>2. Acked \in Nat /\ put = Base + win.sent_off /\ Acked = Base + win.off
  BY Numbers, ZenonT(30) DEF Good
<1>3. put = Acked
  BY <1>2, ZenonT(30) DEF sent_buf_empty
<1> QED BY <1>1, <1>2, <1>3

LEMMA PrevWindowStep == ASSUME Good, NEW a \in acks, OnAckPrevWindow(a) PROVE Good'
<1>1. /\ UNCHANGED <<winVars, off_map, end_off, lock, notifVars, workerVars, clientVars, netVars,
                     fails, losses, stale>>
      /\ wpc # "off" /\ dups < MaxDups /\ receiver_win' = a.win /\ dups' = dups + 1
      /\ FastRetransmit(a)
  BY ZenonT(30) DEF OnAckPrevWindow
<1>2. receiver_win' \in 1 .. WinSz /\ dups' \in 0 .. MaxDups /\ a.seq \in 0 .. Modulo - 1
  <2>1. dups \in 0 .. MaxDups /\ MaxDups \in Nat
    BY Counters, SenderAssumption, ZenonT(30) DEF Good
  <2> QED BY <1>1, <2>1, AckSeq
<1>3. fr_cnt \in 0 .. DupBound /\ DupBound \in Nat \ {0}
  BY Counters, SenderAssumption, ZenonT(30) DEF Good
<1>4. state # "CLOSED"
  BY <1>1, ZenonT(30) DEF Good, Closed
<1> DEFINE again == fr_cnt > 0 /\ a.seq = fr_last /\ fr_cnt + 1 >= DupBound
           R == [kind : {"none", "header", "data"}, seq : 0 .. Modulo - 1,
                 len : 0 .. WinSz, used : BOOLEAN, sem : Nat, pos : 0 .. StreamLen]
<1>5. ASSUME mem' = mem, crashed' \in BOOLEAN, crashed' => crashed \/ sent_buf_empty,
             fr_cnt' \in 0 .. DupBound, fr_last' \in 0 .. Modulo - 1, cong' \in 1 .. MaxCong
      PROVE  Good'
  <2>1. Types'
    <3>1. BufTypes'
      BY <1>1, <1>5, TypesParts, ZenonT(30) DEF Good, BufTypes
    <3>2. CongTypes'
      BY <1>2, <1>5, TypesParts, ZenonT(30) DEF Good, CongTypes
    <3>3. FrTypes'
      BY <1>5, TypesParts, ZenonT(30) DEF Good, FrTypes
    <3>4. HistTypes'
      BY <1>1, <1>2, <1>5, TypesParts, ZenonT(30) DEF Good, HistTypes
    <3> QED BY <1>1, <3>1, <3>2, <3>3, <3>4, TypesKept, ZenonT(30) DEF Good
  <2> QED BY <1>1, <1>5, <2>1, WorkerKeeps, ZenonT(30) DEF bufVars, notifVars, workerVars
<1>6. CASE ~again
  <2>1. /\ fr_cnt' = (IF fr_cnt > 0 /\ a.seq = fr_last THEN fr_cnt + 1 ELSE 1) /\ fr_last' = a.seq
        /\ cong' = grown_cong /\ mem' = mem /\ crashed' = crashed
    BY <1>1, <1>6, ZenonT(30) DEF FastRetransmit
  <2>2. fr_cnt' \in 0 .. DupBound
    BY <1>3, <1>6, <2>1
  <2>3. crashed' \in BOOLEAN /\ cong' \in 1 .. MaxCong
    BY <2>1, GrownCong, ZenonT(30) DEF Good, Types, TypeOK
  <2> QED BY <1>2, <1>5, <2>1, <2>2, <2>3, ZenonT(30)
<1>7. CASE again
  <2>1. PICK s \in SeqsAt(off_map[win.off]) : OnRetry(s, grown_cong)
    BY <1>1, <1>7, ZenonT(30) DEF FastRetransmit
  <2>2. fr_cnt' \in 0 .. DupBound /\ fr_last' \in 0 .. Modulo - 1 /\ cong' \in 1 .. MaxCong
    <3>1. fr_cnt' = 0 /\ fr_last' = fr_last
      BY <1>1, <1>7, ZenonT(30) DEF FastRetransmit
    <3>2. fr_last \in 0 .. Modulo - 1
      BY ZenonT(30) DEF Good, Types, TypeOK
    <3>3. cong' \in 1 .. MaxCong
      BY <2>1, GrownCong, ZenonT(30) DEF OnRetry, halved_cong, Good
    <3> QED BY <1>3, <3>1, <3>2, <3>3
  <2>3. ASSUME NEW c \in Cells, mem' = mark_msg_used(mem, c, FALSE), crashed' = crashed,
               sent_buf_empty \/ Live(c)
        PROVE  Good'
    <3>1. /\ mem' \in [Cells -> R] /\ \A p \in Cells : p # c => mem'[p] = mem[p]
          /\ mem[c].kind # "data" => mem'[c].used = FALSE /\ mem'[c].pos = mem[c].pos
      BY <2>3, MarkEffect, ZenonT(30) DEF Good
    <3>2. /\ \A p \in Cells : (Header(p)' <=> Header(p)) /\ From(p)' = From(p) /\ To(p)' = To(p)
                              /\ (Live(p)' <=> Live(p)) /\ mem'[p].len = mem[p].len
          /\ Acked' = Acked /\ Spans' = Spans /\ isn' = isn
      BY <1>1, <2>3, MarkSpans, ZenonT(30) DEF netVars
    <3>3. Types'
      <4>1. BufTypes'
        BY <1>1, <3>1, TypesParts, ZenonT(30) DEF Good, BufTypes
      <4>2. CongTypes'
        BY <1>2, <2>2, TypesParts, ZenonT(30) DEF Good, CongTypes
      <4>3. FrTypes'
        BY <2>2, TypesParts, ZenonT(30) DEF Good, FrTypes
      <4>4. HistTypes'
        BY <1>1, <1>2, <2>3, TypesParts, ZenonT(30) DEF Good, HistTypes
      <4> QED BY <1>1, <4>1, <4>2, <4>3, <4>4, TypesKept, ZenonT(30) DEF Good
    <3>4. Data'
      <4>1. ASSUME NEW p \in Cells, Live(p)', To(p)' > Acked', NEW i \in 1 .. mem'[p].len
            PROVE  mem'[p + i].pos = From(p)' + i \/ (wpc' = "sendto" /\ cur' = p + i)
        <5>1. Live(p) /\ To(p) > Acked /\ i \in 1 .. mem[p].len
          BY <3>2, <4>1, ZenonT(30)
        <5>2. Header(c)
          BY <2>3, <5>1, NothingUnacked, ZenonT(30) DEF Live
        <5>3. p + mem[p].len \in Cells /\ mem[p + i].kind = "data"
          BY <5>1, ZenonT(30) DEF Good, Layout, Live
        <5>4. p + i \in Cells
          <6>1. mem[p].len \in Nat
            BY CellType DEF Good
          <6>2. i \in 0 .. mem[p].len
            BY <5>1, <6>1
          <6> QED BY <5>3, <6>1, <6>2, WithinCells, ZenonT(30)
        <5>5. mem'[p + i] = mem[p + i]
          BY <3>1, <5>2, <5>3, <5>4, ZenonT(30) DEF Header
        <5>6. mem[p + i].pos = From(p) + i \/ (wpc = "sendto" /\ cur = p + i)
          BY <5>1, ZenonT(30) DEF Good, Data
        <5> QED BY <1>1, <3>2, <5>5, <5>6, ZenonT(30) DEF workerVars
      <4>2. \A g \in wire' : g.seq - isn' >= Len(peer') =>
              \A i \in 1 .. Len(g.data) : g.data[i] = g.seq - isn' + i
        BY <1>1, ZenonT(30) DEF Good, Data, netVars, winVars
      <4> QED BY <4>1, <4>2, ZenonT(30) DEF Data
    <3>5. Used'
      <4> SUFFICES ASSUME fails' = 0, NEW p \in Cells, Live(p)', From(p)' >= Acked', mem'[p].used
                   PROVE  wpc' \in {"sendto", "poll"} /\ cur' = p
        BY ZenonT(30) DEF Used
      <4>1. Live(p) /\ From(p) >= Acked
        BY <3>2, ZenonT(30)
      <4>2. Live(c)
        BY <2>3, <4>1, NothingUnacked, ZenonT(30)
      <4>3. p # c
        BY <3>1, <4>2, ZenonT(30) DEF Live, Header
      <4>4. mem[p].used
        BY <3>1, <4>3, ZenonT(30)
      <4> QED BY <1>1, <4>1, <4>4, ZenonT(30) DEF Good, Used, workerVars
    <3>6. Retry'
      BY <1>1, <2>3, ZenonT(30) DEF Good, Retry, sent_buf_empty, winVars
    <3>7. wpc' \in {"sendto", "poll"} => mem[cur'].kind # "none"
      BY <1>1, ZenonT(30) DEF Good, Written, workerVars
    <3> QED BY <1>1, <2>3, <3>2, <3>3, <3>4, <3>5, <3>6, <3>7, MarkKeeps, ZenonT(30)
            DEF netVars, notifVars, workerVars
  <2>4. CASE ~sent_buf_empty
    <3> DEFINE c == off_map[win.off]
    <3>1. c \in Cells /\ Live(c) /\ From(c) = Acked /\ s = mem[c].seq
      BY <1>4, <2>4, FastRetrySafe, ZenonT(30)
    <3>2. Acked \in Nat
      BY Numbers, ZenonT(30) DEF Good
    <3> HIDE DEF c
    <3>3. From(c) >= Acked
      BY <3>1, <3>2
    <3>4. RetryOffset(s) < MapSz /\ off_map[RetryOffset(s)] = c
      BY <1>4, <3>1, <3>3, RetryFinds, ZenonT(30)
    <3>5. mem' = mark_msg_used(mem, c, FALSE) /\ crashed' = crashed
      BY <2>1, <3>4, ZenonT(30) DEF OnRetry
    <3> QED BY <2>3, <3>1, <3>5, ZenonT(30)
  <2>5. CASE sent_buf_empty
    <3>1. s \in 0 .. Modulo - 1
      <4>1. win.off \in 0 .. WinSz
        BY Numbers, ZenonT(30) DEF Good
      <4>2. win.off \in 0 .. MapSz - 1
        BY <4>1, Constants
      <4>3. off_map[win.off] \in Cells
        BY <4>2, ZenonT(30) DEF Good, Types, TypeOK
      <4>4. mem[off_map[win.off]].seq \in 0 .. Modulo - 1
        BY <4>3, CellType, ZenonT(30) DEF Good
      <4> QED BY <4>4, ZenonT(30) DEF SeqsAt
    <3>2. RetryOffset(s) \in Nat
      <4>1. get_in_msg_off(win, s) \in Nat /\ win.off \in 0 .. WinSz
        BY <1>4, <3>1, OffsetOf, Numbers, ZenonT(30) DEF Good
      <4> QED BY <4>1 DEF RetryOffset
    <3>3. CASE RetryOffset(s) < MapSz
      <4> DEFINE c == off_map[RetryOffset(s)]
      <4>1. RetryOffset(s) \in 0 .. MapSz - 1
        BY <3>2, <3>3, Constants
      <4>2. c \in Cells
        BY <4>1, ZenonT(30) DEF Good, Types, TypeOK
      <4>3. mem' = mark_msg_used(mem, c, FALSE) /\ crashed' = crashed
        BY <2>1, <3>3, ZenonT(30) DEF OnRetry
      <4> HIDE DEF c
      <4> QED BY <2>3, <2>5, <4>2, <4>3, ZenonT(30)
    <3>4. CASE ~(RetryOffset(s) < MapSz)
      <4>1. mem' = mem /\ crashed' = TRUE
        BY <2>1, <3>4, ZenonT(30) DEF OnRetry
      <4> QED BY <1>5, <2>2, <2>5, <4>1, ZenonT(30)
    <3> QED BY <3>3, <3>4, ZenonT(30)
  <2> QED BY <2>4, <2>5, ZenonT(30)
<1> QED BY <1>6, <1>7, ZenonT(30)

-----------------------------------------------------------------------------
(* An acknowledgement inside the window. *)

Acking(a) == OnAckInWindow(a) /\ a \in acks /\ ~crashed

(* Where it moves the window to: a position the peer has reached and at      *)
(* which a message ends.                                                     *)
LEMMA AckPosition ==
  ASSUME Good, NEW a, Acking(a)
  PROVE  \E o \in 1 .. WinSz :
           /\ set_off_from_seq(win, a.seq) = [win EXCEPT !.off = o]
           /\ win.off < o /\ o <= win.sent_off /\ Base + o <= Len(peer) /\ Whole(Base + o)
<1>0. state # "CLOSED" /\ a \in acks /\ contains(win, SINGLE_WINDOW(a.seq))
  BY ZenonT(30) DEF Acking, OnAckInWindow, Good, Closed
<1>1. PICK n \in 0 .. Len(peer) : Whole(n) /\ a.seq = tcp_seq(isn + n + Modulo - 1)
  BY <1>0, ZenonT(30) DEF Good, Places
<1>2. /\ isn \in Nat /\ Base \in Nat /\ Acked \in Nat /\ put \in 0 .. StreamLen
      /\ win.off \in 0 .. WinSz /\ win.sent_off \in 0 .. WinSz /\ Len(peer) \in Nat
      /\ Acked = Base + win.off /\ put = Base + win.sent_off
  BY Numbers, ZenonT(30) DEF Good
<1>3. Len(peer) <= put /\ isn + StreamLen + WinSz < Modulo
  BY <1>0, ZenonT(30) DEF Good, Places, Closed
<1>4. a.seq \in 0 .. Modulo - 1
  BY <1>0, AckSeq, ZenonT(30)
<1>5. isn + Acked <= a.seq /\ a.seq < isn + Base + WinSz
  BY <1>0, <1>4, ContainsSeq, ZenonT(30) DEF Good
<1>6. isn + n >= 1
  <2> SUFFICES ASSUME isn + n = 0 PROVE FALSE
    BY <1>2
  <2>1. isn + n + Modulo - 1 = Modulo - 1 /\ Modulo - 1 \in Nat /\ Modulo - 1 < Modulo
    BY <1>2, Constants
  <2>2. a.seq = Modulo - 1
    BY <1>1, <2>1, Remainder, ZenonT(30)
  <2>3. isn + Base + WinSz < Modulo
    BY <1>2, <1>3, Constants
  <2> QED BY <1>2, <1>5, <2>2, <2>3, Constants
<1>7. a.seq = isn + n - 1
  <2>1. isn + n - 1 \in Nat /\ isn + n - 1 < Modulo /\ isn + n + Modulo - 1 = (isn + n - 1) + Modulo
    BY <1>2, <1>3, <1>6, Constants
  <2>2. ((isn + n - 1) + Modulo) % Modulo = isn + n - 1
    BY <2>1, Constants
  <2> QED BY <1>1, <2>1, <2>2, ZenonT(30) DEF tcp_seq
<1>8. get_in_msg_off(win, a.seq) = a.seq - (isn + Acked)
  BY <1>0, <1>4, <1>5, OffsetOf, ZenonT(30) DEF Good
<1> DEFINE b == Base
           o == win.off
           so == win.sent_off
<1>8a. /\ isn \in Nat /\ b \in Nat /\ o \in 0 .. WinSz /\ so \in 0 .. WinSz /\ n \in Nat
       /\ Acked = b + o /\ n <= b + so
  BY <1>2, <1>3
<1> HIDE DEF b, o, so
<1>8b. /\ o + ((isn + n - 1 - (isn + (b + o))) + 1) = n - b
       /\ isn + (b + o) <= isn + n - 1 /\ n <= b + so =>
               n - b \in 1 .. WinSz /\ o < n - b /\ n - b <= so /\ b + (n - b) = n
  BY <1>8a, Constants
<1>9. win.off + (get_in_msg_off(win, a.seq) + 1) = n - Base
  <2>1. o + (get_in_msg_off(win, a.seq) + 1) = n - b
    BY <1>7, <1>8, <1>8a, <1>8b
  <2> QED BY <2>1, ZenonT(30) DEF b, o
<1>10. n - Base \in 1 .. WinSz /\ win.off < n - Base /\ n - Base <= win.sent_off
       /\ Base + (n - Base) = n
  <2>1. isn + (b + o) <= isn + n - 1
    BY <1>5, <1>7, <1>8a, ZenonT(30)
  <2>2. n - b \in 1 .. WinSz /\ o < n - b /\ n - b <= so /\ b + (n - b) = n
    BY <1>8a, <1>8b, <2>1, ZenonT(30)
  <2> QED BY <2>2, ZenonT(30) DEF b, o, so
<1>11. set_off_from_seq(win, a.seq) = [win EXCEPT !.off = n - Base]
  BY <1>9, ZenonT(30) DEF set_off_from_seq, inc
<1>12. Base + (n - Base) <= Len(peer) /\ Whole(Base + (n - Base))
  BY <1>1, <1>2, <1>10
<1> QED BY <1>10, <1>11, <1>12, ZenonT(30)

(* Only semaphores change in the buffer. *)
LEMMA AckCells ==
  ASSUME Good, NEW a, Acking(a)
  PROVE  /\ mem' \in [Cells -> [kind : {"none", "header", "data"}, seq : 0 .. Modulo - 1,
                                len : 0 .. WinSz, used : BOOLEAN, sem : Nat, pos : 0 .. StreamLen]]
         /\ \A p \in Cells : /\ mem'[p].kind = mem[p].kind /\ mem'[p].seq = mem[p].seq
                             /\ mem'[p].len = mem[p].len /\ mem'[p].used = mem[p].used
                             /\ mem'[p].pos = mem[p].pos
         /\ \A p \in Cells : p \notin Released(win.off, set_off_from_seq(win, a.seq).off) =>
                                mem'[p].sem = mem[p].sem
         /\ UNCHANGED <<state, isn, lock, not_empty_notif, fr_last, fr_cnt, wpc, cur, scan, cpc,
                        left, bound, data, seg, futures, put, wire, acks, peer, dups, fails, losses,
                        stale, crashed>>
         /\ receiver_win' \in 1 .. WinSz /\ cong' \in 1 .. MaxCong
         /\ wpc # "off" /\ state # "CLOSED" /\ ~crashed
<1> DEFINE S == Released(win.off, set_off_from_seq(win, a.seq).off)
           R == [kind : {"none", "header", "data"}, seq : 0 .. Modulo - 1,
                 len : 0 .. WinSz, used : BOOLEAN, sem : Nat, pos : 0 .. StreamLen]
<1>1. mem' = [p \in Cells |-> IF p \in S THEN [mem[p] EXCEPT !.sem = mem[p].sem + 1] ELSE mem[p]]
  BY ZenonT(30) DEF Acking, OnAckInWindow, AckMoves
<1>2. mem \in [Cells -> R]
  BY ZenonT(30) DEF Good, Types, TypeOK
<1> HIDE DEF S
<1>3. ASSUME NEW p \in Cells
      PROVE  /\ mem'[p] \in R
             /\ mem'[p].kind = mem[p].kind /\ mem'[p].seq = mem[p].seq
             /\ mem'[p].len = mem[p].len /\ mem'[p].used = mem[p].used
             /\ mem'[p].pos = mem[p].pos /\ (p \notin S => mem'[p].sem = mem[p].sem)
  <2>0. mem[p] \in R
    BY <1>2, ZenonT(30)
  <2>1. CASE p \in S
    <3>1. mem'[p] = [mem[p] EXCEPT !.sem = mem[p].sem + 1]
      BY <1>1, <2>1, ZenonT(30)
    <3>2. mem[p].sem + 1 \in Nat
      BY <2>0
    <3> QED BY <2>0, <2>1, <3>1, <3>2, ZenonT(30)
  <2>2. CASE p \notin S
    <3>1. mem'[p] = mem[p]
      BY <1>1, <2>2, ZenonT(30)
    <3> QED BY <2>0, <3>1, ZenonT(30)
  <2> QED BY <2>1, <2>2, ZenonT(30)
<1>4. mem' \in [Cells -> R]
  <2>1. mem' = [p \in Cells |-> mem'[p]]
    BY <1>1, ZenonT(30)
  <2> HIDE DEF R
  <2> QED BY <1>3, <2>1, ZenonT(30)
<1>5. /\ UNCHANGED <<state, isn, lock, not_empty_notif, fr_last, fr_cnt, wpc, cur, scan, cpc,
                     left, bound, data, seg, futures, put, wire, acks, peer, dups, fails, losses,
                     stale, crashed>>
      /\ receiver_win' = a.win /\ cong' = grown_cong /\ wpc # "off" /\ ~crashed /\ a \in acks
  BY ZenonT(30) DEF Acking, OnAckInWindow, frVars, workerVars, clientVars, netVars, histVars
<1>6. receiver_win' \in 1 .. WinSz /\ cong' \in 1 .. MaxCong
  BY <1>5, AckSeq, GrownCong, ZenonT(30) DEF Good
<1>7. state # "CLOSED"
  BY <1>5, ZenonT(30) DEF Good, Closed
<1> QED BY <1>3, <1>4, <1>5, <1>6, <1>7, ZenonT(30) DEF S

(* The window moves without turning. *)
LEMMA AckKeeps ==
  ASSUME Good, NEW a, Acking(a), NEW o \in 1 .. WinSz, o # WinSz,
         set_off_from_seq(win, a.seq) = [win EXCEPT !.off = o],
         win.off < o, o <= win.sent_off, Base + o <= Len(peer), Whole(Base + o)
  PROVE  Good'
<1> DEFINE w == [win EXCEPT !.off = o]
<1>1. /\ win \in [start : Nat, off : 0 .. WinSz, sent_off : 0 .. WinSz, sz : {WinSz}]
      /\ w \in [start : Nat, off : 0 .. WinSz, sent_off : 0 .. WinSz, sz : {WinSz}]
      /\ w.start = win.start /\ w.off = o /\ w.sent_off = win.sent_off /\ w.sz = win.sz
  <2>1. win \in [start : Nat, off : 0 .. WinSz, sent_off : 0 .. WinSz, sz : {WinSz}]
    BY ZenonT(30) DEF Good, Types, TypeOK
  <2>2. o \in 0 .. WinSz
    OBVIOUS
  <2> QED BY <2>1, <2>2, ZenonT(30)
<1>2. get_sz(w) # 0
  BY <1>1, Constants DEF get_sz
<1>3. /\ win' = w /\ empty_notif' = empty_notif + EmptyPost(w) /\ end_off' = end_off
      /\ off_map' = off_map
  <2>1. TurnedWindow(w) = w
    BY <1>2, ZenonT(30) DEF TurnedWindow
  <2> QED BY <2>1, ZenonT(30) DEF Acking, OnAckInWindow, AckMoves
<1> HIDE DEF w
<1>4. /\ \A p \in Cells : /\ mem'[p].kind = mem[p].kind /\ mem'[p].seq = mem[p].seq
                          /\ mem'[p].len = mem[p].len /\ mem'[p].used = mem[p].used
                          /\ mem'[p].pos = mem[p].pos
      /\ UNCHANGED <<state, isn, lock, not_empty_notif, fr_last, fr_cnt, wpc, cur, scan, cpc,
                     left, bound, data, seg, futures, put, wire, acks, peer, dups, fails, losses,
                     stale, crashed>>
      /\ wpc # "off" /\ state # "CLOSED" /\ ~crashed
  BY AckCells, ZenonT(30)
<1>5. \A p \in Cells : p \notin Released(win.off, o) => mem'[p].sem = mem[p].sem
  BY <1>1, AckCells DEF w
<1>6. SameCells
  BY <1>1, <1>3, <1>4, ZenonT(30) DEF SameCells
<1>7. /\ \A p \in Cells : (Header(p)' <=> Header(p)) /\ From(p)' = From(p) /\ To(p)' = To(p)
                          /\ (Live(p)' <=> Live(p))
      /\ Base' = Base /\ Spans' = Spans
  BY <1>4, <1>6, CellSpans, ZenonT(30)
<1>8. /\ Base \in Nat /\ win.off \in 0 .. WinSz /\ win.sent_off \in 0 .. WinSz /\ Acked = Base + win.off
      /\ put = Base + win.sent_off /\ put \in Nat /\ empty_notif \in Nat /\ Len(peer) \in Nat
  BY Numbers, Counters DEF Good
<1>9. Acked' = Base + o /\ Acked < Base + o
  BY <1>1, <1>3, <1>7, <1>8 DEF Acked
<1>10. empty_notif' \in Nat /\ (o = win.sent_off => empty_notif' > 0)
  BY <1>1, <1>3, <1>8 DEF EmptyPost
<1>11. Types'
  <2>1. /\ receiver_win' \in 1 .. WinSz /\ cong' \in 1 .. MaxCong
        /\ mem' \in [Cells -> [kind : {"none", "header", "data"}, seq : 0 .. Modulo - 1,
                               len : 0 .. WinSz, used : BOOLEAN, sem : Nat, pos : 0 .. StreamLen]]
    BY AckCells, ZenonT(30)
  <2>2. WinTypes'
    BY <1>1, <1>3, <1>4, TypesParts, ZenonT(30) DEF Good, WinTypes
  <2>3. BufTypes'
    BY <1>3, <2>1, TypesParts, ZenonT(30) DEF Good, BufTypes
  <2>4. SemTypes'
    BY <1>4, <1>10, TypesParts, ZenonT(30) DEF Good, SemTypes
  <2>5. CongTypes'
    BY <2>1, TypesParts, ZenonT(30) DEF Good, CongTypes
  <2> QED BY <1>4, <2>2, <2>3, <2>4, <2>5, TypesKept, ZenonT(30) DEF Good, frVars, workerVars, clientVars, netVars, histVars
<1>12. Closed'
  BY <1>4, ZenonT(30) DEF Good, Closed
<1>13. Layout'
  <2>1. win'.off <= win'.sent_off
    BY <1>1, <1>3, ZenonT(30)
  <2> QED BY <1>6, <2>1, CellLayout, ZenonT(30) DEF Good
<1>14. SpansOK'
  BY <1>4, <1>7, SpansKept, ZenonT(30) DEF Good
<1>15. Places'
  <2>1. \A n : Whole(n) => Whole(n)'
    BY <1>7, ZenonT(30) DEF Whole
  <2>2. Whole(Acked)'
    <3>1. Whole(Base + o)
      BY ZenonT(30)
    <3>2. \A x \in Spans' : Base + o <= x[1] \/ x[2] <= Base + o
      BY <1>7, <3>1, ZenonT(30) DEF Whole
    <3> QED BY <1>9, <3>2, ZenonT(30) DEF Whole
  <2>3. Acked' <= Len(peer') /\ Len(peer') <= put' /\ Whole(Len(peer))'
    BY <1>4, <1>7, <1>9, ZenonT(30) DEF Good, Places, Whole
  <2> QED BY <1>4, <2>1, <2>2, <2>3, ZenonT(30) DEF Good, Places
<1>16. Data'
  <2>1. ASSUME NEW p \in Cells, Live(p)', To(p)' > Acked', NEW i \in 1 .. mem'[p].len
        PROVE  mem'[p + i].pos = From(p)' + i \/ (wpc' = "sendto" /\ cur' = p + i)
    <3>0. Live(p) /\ To(p) \in Nat
      BY <1>7, <2>1, HeaderSpan, ZenonT(30) DEF Good, Live
    <3>1. Live(p) /\ To(p) > Acked /\ i \in 1 .. mem[p].len
      BY <1>4, <1>7, <1>8, <1>9, <2>1, <3>0
    <3>2. mem[p + i].pos = From(p) + i \/ (wpc = "sendto" /\ cur = p + i)
      BY <3>1, ZenonT(30) DEF Good, Data
    <3>3. p + i \in Cells
      <4>1. p + mem[p].len \in Cells
        BY <3>1, ZenonT(30) DEF Good, Layout, Live
      <4>2. mem[p].len \in Nat
        BY CellType DEF Good
      <4>3. i \in 0 .. mem[p].len
        BY <3>1, <4>2
      <4> QED BY <4>1, <4>2, <4>3, WithinCells, ZenonT(30)
    <3> QED BY <1>4, <1>7, <3>2, <3>3, ZenonT(30)
  <2>2. \A s \in wire' : s.seq - isn' >= Len(peer') =>
          \A i \in 1 .. Len(s.data) : s.data[i] = s.seq - isn' + i
    BY <1>4, ZenonT(30) DEF Good, Data
  <2> QED BY <2>1, <2>2, ZenonT(30) DEF Data
<1>17. Written'
  <2>1. \A q \in 0 .. WinSz - 1 : off_map[q] \in Cells
    <3>1. \A q \in 0 .. WinSz - 1 : q \in 0 .. MapSz - 1
      BY Constants
    <3> QED BY <3>1, ZenonT(30) DEF Good, Types, TypeOK
  <2>2. cur \in Cells /\ win'.sent_off = win.sent_off
    BY <1>1, <1>3, Counters, ZenonT(30) DEF Good
  <2> QED BY <1>3, <1>4, <2>1, <2>2, ZenonT(30) DEF Good, Written
<1>18. Used'
  <2> SUFFICES ASSUME fails' = 0, NEW p \in Cells, Live(p)', From(p)' >= Acked', mem'[p].used
               PROVE  wpc' \in {"sendto", "poll"} /\ cur' = p
    BY ZenonT(30) DEF Used
  <2>1. Live(p) /\ From(p) \in Nat /\ mem[p].used
    BY <1>4, <1>7, HeaderSpan, ZenonT(30) DEF Good, Live
  <2>2. From(p) >= Acked
    BY <1>7, <1>8, <1>9, <2>1
  <2> QED BY <1>4, <2>1, <2>2, ZenonT(30) DEF Good, Used
<1>19. Signalled'
  <2>1. ASSUME NEW p \in Cells, Live(p)', mem'[p].sem > 0 PROVE To(p)' <= Acked'
    <3>1. Live(p) /\ To(p) \in Nat /\ To(p) <= put /\ To(p)' = To(p)
      BY <1>7, <2>1, HeaderSpan, ZenonT(30) DEF Good, Live
    <3>2. CASE p \notin Released(win.off, o)
      <4>1. mem[p].sem > 0
        BY <1>5, <2>1, <3>2, ZenonT(30)
      <4>2. To(p) <= Acked
        BY <3>1, <4>1, ZenonT(30) DEF Good, Signalled
      <4> QED BY <1>8, <1>9, <3>1, <4>2
    <3>3. CASE p \in Released(win.off, o) /\ o = win.sent_off
      BY <1>8, <1>9, <3>1, <3>3, ZenonT(30)
    <3>4. CASE p \in Released(win.off, o) /\ o # win.sent_off
      <4>1. o < win.sent_off /\ o \in 0 .. WinSz
        BY <1>8, <3>4
      <4>2. Live(off_map[o]) /\ From(off_map[o]) = Base + o /\ off_map[o] \in Cells
        BY <4>1, MessageAt, ZenonT(30) DEF Good
      <4>3. p < off_map[o]
        BY <3>4, ZenonT(30) DEF Released
      <4>4. To(p) <= From(off_map[o])
        BY <3>1, <4>2, <4>3, ZenonT(30) DEF Good, Layout
      <4> QED BY <1>9, <3>1, <4>2, <4>4, ZenonT(30)
    <3> QED BY <3>2, <3>3, <3>4, ZenonT(30)
  <2>2. ~sent_buf_empty
    BY <1>8 DEF sent_buf_empty
  <2>3. /\ futures # << >> /\ Live(futures[Len(futures)]) /\ To(futures[Len(futures)]) = put
    BY <2>2, ZenonT(30) DEF Good, Signalled
  <2>4. futures[Len(futures)] \in Cells
    <3>1. futures \in Seq(Cells)
      BY ZenonT(30) DEF Good, Types, TypeOK
    <3> QED BY <2>3, <3>1, LenProperties, ElementOfSeq, EmptySeq
  <2>5. Live(futures[Len(futures)])' /\ To(futures[Len(futures)])' = put'
    <3> DEFINE l == futures[Len(futures)]
    <3>1. l \in Cells /\ l < end_off /\ mem[l].kind = "header" /\ mem[l].seq - isn + mem[l].len = put
      BY <2>3, <2>4, ZenonT(30) DEF Live, Header, To, From
    <3>2. l' = l
      BY <1>4, ZenonT(30)
    <3> HIDE DEF l
    <3>3. l < end_off' /\ mem'[l].kind = "header" /\ mem'[l].seq - isn' + mem'[l].len = put'
      BY <1>3, <1>4, <3>1, ZenonT(30)
    <3>4. Live(l)' /\ To(l)' = put'
      BY <3>2, <3>3, ZenonT(30) DEF Live, Header, To, From
    <3> QED BY <3>4, ZenonT(30) DEF l
  <2> QED BY <1>4, <2>1, <2>3, <2>5, ZenonT(30) DEF Signalled
<1>20. Round'
  <2>1. sent_sz(win') = sent_sz(win) /\ (sent_buf_empty' => o = win.sent_off)
    BY <1>1, <1>3, ZenonT(30) DEF sent_sz, sent_buf_empty
  <2> QED BY <1>4, <1>10, <2>1, ZenonT(30) DEF Good, Round
<1>21. Retry'
  BY <1>4, ZenonT(30) DEF Retry
<1> QED BY <1>11, <1>12, <1>13, <1>14, <1>15, <1>16, <1>17, <1>18, <1>19, <1>20, <1>21, ZenonT(30) DEF Good

(* The last message of the window is acknowledged: the window turns and the  *)
(* buffer is empty.                                                          *)
LEMMA AckTurns ==
  ASSUME Good, NEW a, Acking(a), set_off_from_seq(win, a.seq) = [win EXCEPT !.off = WinSz],
         WinSz <= win.sent_off, Base + WinSz <= Len(peer)
  PROVE  Good'
<1> DEFINE w == [win EXCEPT !.off = WinSz]
<1>1. /\ Base \in Nat /\ win.start \in Nat /\ win.sent_off \in 0 .. WinSz /\ win.sz = WinSz
      /\ put = Base + win.sent_off /\ put \in Nat /\ empty_notif \in Nat /\ Len(peer) \in Nat
      /\ isn \in Nat /\ win.start = isn + Base /\ Base % WinSz = 0 /\ Len(peer) <= put
  <2>1. Base % WinSz = 0 /\ Len(peer) <= put
    BY ZenonT(30) DEF Good, Layout, Places
  <2> QED BY <2>1, Numbers, Counters DEF Good
<1>2. win.sent_off = WinSz /\ put = Base + WinSz /\ Len(peer) = put /\ put # 0
  <2>1. WinSz \in Nat \ {0}
    BY Constants, ZenonT(30)
  <2>2. win.sent_off = WinSz
    BY <1>1, <2>1
  <2>3. put = Base + WinSz
    BY <1>1, <2>2, ZenonT(30)
  <2> QED BY <1>1, <2>1, <2>2, <2>3
<1>3. win \in [start : Nat, off : 0 .. WinSz, sent_off : 0 .. WinSz, sz : {WinSz}]
  BY ZenonT(30) DEF Good, Types, TypeOK
<1>4. w.start = win.start /\ w.off = WinSz /\ w.sent_off = WinSz /\ w.sz = WinSz
  BY <1>1, <1>2, <1>3, ZenonT(30)
<1>5. get_sz(w) = 0
  BY <1>4, Constants DEF get_sz
<1>6. /\ TurnedWindow(w).start = win.start + WinSz /\ TurnedWindow(w).off = 0
      /\ TurnedWindow(w).sent_off = 0 /\ TurnedWindow(w).sz = WinSz
      /\ TurnedWindow(w) \in [start : Nat, off : 0 .. WinSz, sent_off : 0 .. WinSz, sz : {WinSz}]
  <2>1. TurnedWindow(w) = [w EXCEPT !.start = win.start + WinSz, !.off = 0, !.sent_off = 0]
    BY <1>4, <1>5, ZenonT(30) DEF TurnedWindow, next_send_window
  <2>2. w \in [start : Nat, off : 0 .. WinSz, sent_off : 0 .. WinSz, sz : {WinSz}]
    <3>1. WinSz \in 0 .. WinSz
      BY Constants
    <3> QED BY <1>3, <3>1, ZenonT(30)
  <2>3. win.start + WinSz \in Nat /\ 0 \in 0 .. WinSz
    <3>1. WinSz \in Nat
      BY Constants, ZenonT(30)
    <3>2. win.start \in Nat
      BY <1>1, ZenonT(30)
    <3> QED BY <3>1, <3>2
  <2> HIDE DEF w
  <2> QED BY <1>4, <2>1, <2>2, <2>3, ZenonT(30)
<1>7. TurnedWindow(w) # w
  BY <1>4, <1>6, Constants, ZenonT(30)
<1>8. /\ win' = TurnedWindow(w) /\ empty_notif' = empty_notif + EmptyPost(w) /\ end_off' = 0
      /\ off_map' = [off_map EXCEPT ![0] = 0]
  BY <1>7, ZenonT(30) DEF Acking, OnAckInWindow, AckMoves
<1>9. empty_notif' = empty_notif + 1 /\ empty_notif' \in Nat /\ empty_notif' > 0
  <2>1. EmptyPost(w) = 1
    BY <1>4, ZenonT(30) DEF EmptyPost
  <2> QED BY <1>1, <1>8, <2>1
<1> HIDE DEF w
<1>10. /\ win'.start = win.start + WinSz /\ win'.off = 0 /\ win'.sent_off = 0 /\ win'.sz = WinSz
       /\ win' \in [start : Nat, off : 0 .. WinSz, sent_off : 0 .. WinSz, sz : {WinSz}]
  BY <1>6, <1>8, ZenonT(30)
<1>11. /\ \A p \in Cells : /\ mem'[p].kind = mem[p].kind /\ mem'[p].seq = mem[p].seq
                           /\ mem'[p].len = mem[p].len
       /\ UNCHANGED <<state, isn, lock, not_empty_notif, fr_last, fr_cnt, wpc, cur, scan, cpc,
                      left, bound, data, seg, futures, put, wire, acks, peer, dups, fails, losses,
                      stale, crashed>>
       /\ wpc # "off" /\ state # "CLOSED" /\ ~crashed
  BY AckCells, ZenonT(30)
<1>12. \A p \in Cells : (Header(p)' <=> Header(p)) /\ From(p)' = From(p) /\ To(p)' = To(p)
  BY <1>11, ZenonT(30) DEF Header, From, To
<1>13. Spans' = Spans
  BY <1>11, <1>12, ZenonT(30) DEF Spans
<1>14. Base' = put /\ Acked' = put
  <2>0. Base' = win'.start - isn' /\ win'.start = win.start + WinSz /\ isn' = isn
    BY <1>10, <1>11, ZenonT(30) DEF Base
  <2>1. Base' = win.start + WinSz - isn
    BY <1>1, <2>0, Constants
  <2>2. Base' = put
    BY <1>1, <1>2, <2>1, Constants
  <2> QED BY <1>1, <1>10, <2>2 DEF Acked
<1>15. \A p \in Cells : ~Live(p)'
  BY <1>8 DEF Live, Cells
<1>16. off_map \in [0 .. MapSz - 1 -> Cells] /\ 0 \in Cells /\ 0 \in 0 .. MapSz - 1
  <2>1. off_map \in [0 .. MapSz - 1 -> Cells]
    BY ZenonT(30) DEF Good, Types, TypeOK
  <2> QED BY <2>1, Constants DEF Cells
<1>17. /\ off_map' \in [0 .. MapSz - 1 -> Cells] /\ off_map'[0] = 0
       /\ \A o \in 0 .. MapSz - 1 : o # 0 => off_map'[o] = off_map[o]
  BY <1>8, <1>16, ZenonT(30)
<1>18. Types'
  <2>1. /\ receiver_win' \in 1 .. WinSz /\ cong' \in 1 .. MaxCong
        /\ mem' \in [Cells -> [kind : {"none", "header", "data"}, seq : 0 .. Modulo - 1,
                               len : 0 .. WinSz, used : BOOLEAN, sem : Nat, pos : 0 .. StreamLen]]
    BY AckCells, ZenonT(30)
  <2>2. end_off' \in Cells
    BY <1>8, <1>16, ZenonT(30)
  <2>3. WinTypes'
    BY <1>10, <1>11, TypesParts, ZenonT(30) DEF Good, WinTypes
  <2>4. BufTypes'
    BY <1>17, <2>1, <2>2, TypesParts, ZenonT(30) DEF Good, BufTypes
  <2>5. SemTypes'
    BY <1>9, <1>11, TypesParts, ZenonT(30) DEF Good, SemTypes
  <2>6. CongTypes'
    BY <2>1, TypesParts, ZenonT(30) DEF Good, CongTypes
  <2> QED BY <1>11, <2>3, <2>4, <2>5, <2>6, TypesKept, ZenonT(30) DEF Good, frVars, workerVars, clientVars, netVars, histVars
<1>19. Closed'
  BY <1>11, ZenonT(30) DEF Good, Closed
<1>20. Layout'
  <2>1. Base' \in Nat /\ Base' % WinSz = 0 /\ put' = Base' + win'.sent_off
    <3>1. (Base + WinSz) % WinSz = 0
      BY <1>1, NextModWindow, ZenonT(30)
    <3> QED BY <1>1, <1>2, <1>10, <1>11, <1>14, <3>1
  <2>2. /\ win'.off <= win'.sent_off /\ end_off' <= 2 * win'.sent_off
        /\ off_map'[win'.sent_off] = end_off'
    <3>1. win'.off = 0 /\ win'.sent_off = 0 /\ end_off' = 0 /\ off_map'[0] = 0
      BY <1>8, <1>10, <1>17, ZenonT(30)
    <3> QED BY <3>1
  <2>3. ASSUME NEW p \in Cells, Header(p)'
        PROVE  /\ mem'[p].len > 0 /\ p + mem'[p].len \in Cells
               /\ \A i \in 1 .. mem'[p].len : mem'[p + i].kind = "data"
               /\ p >= end_off' => To(p)' <= Base'
    <3>0. Header(p)
      BY <1>12, <2>3, ZenonT(30)
    <3>1. /\ mem[p].len > 0 /\ p + mem[p].len \in Cells /\ mem[p].len \in Nat
          /\ \A i \in 1 .. mem[p].len : mem[p + i].kind = "data"
      BY <3>0, CellType DEF Good, Layout
    <3>2. \A i \in 1 .. mem[p].len : p + i \in Cells
      BY <3>1, WithinCells
    <3>3. To(p) <= put
      BY <3>0, HeaderSpan, ZenonT(30) DEF Good
    <3> QED BY <1>11, <1>12, <1>14, <3>1, <3>2, <3>3, ZenonT(30)
  <2>4. ~\E n \in Base' .. put' - 1 : TRUE
    BY <1>1, <1>11, <1>14
  <2> QED BY <1>15, <2>1, <2>2, <2>3, <2>4, ZenonT(30) DEF Layout
<1>21. SpansOK'
  BY <1>11, <1>13, SpansKept, ZenonT(30) DEF Good
<1>22. Places'
  <2>1. \A n : Whole(n) => Whole(n)'
    BY <1>13, ZenonT(30) DEF Whole
  <2>2. Whole(Acked)' /\ Whole(Len(peer))'
    <3>1. \A x \in Spans' : x[2] <= put
      BY <1>13, ZenonT(30) DEF Good, SpansOK
    <3> QED BY <1>2, <1>11, <1>14, <3>1, ZenonT(30) DEF Whole
  <2>3. Acked' <= Len(peer') /\ Len(peer') <= put'
    BY <1>1, <1>2, <1>11, <1>14, ZenonT(30)
  <2> QED BY <1>11, <2>1, <2>2, <2>3, ZenonT(30) DEF Good, Places
<1>23. Data'
  BY <1>11, <1>15, ZenonT(30) DEF Good, Data
<1>24. Written'
  <2>1. ASSUME NEW o \in 0 .. WinSz - 1, o # win'.sent_off PROVE mem'[off_map'[o]].kind # "none"
    <3>1. o \in 0 .. MapSz - 1 /\ o # 0 /\ o # win.sent_off
      BY <1>2, <1>10, <2>1, Constants
    <3>2. off_map'[o] = off_map[o] /\ off_map[o] \in Cells
      BY <1>16, <1>17, <3>1, ZenonT(30)
    <3>3. mem[off_map[o]].kind # "none"
      BY <1>2, <3>1, ZenonT(30) DEF Good, Written
    <3> QED BY <1>11, <3>2, <3>3, ZenonT(30)
  <2>2. cur \in Cells
    BY Counters, ZenonT(30) DEF Good
  <2> QED BY <1>11, <2>1, <2>2, ZenonT(30) DEF Good, Written
<1>25. Used' /\ Signalled'
  BY <1>10, <1>15, ZenonT(30) DEF Used, Signalled, sent_buf_empty
<1>26. Round'
  <2>1. sent_sz(win') = WinSz /\ data \in 0 .. WinSz
    BY <1>10, Counters, Constants DEF sent_sz, Good
  <2>2. data <= WinSz
    BY <2>1
  <2> QED BY <1>9, <1>11, <2>1, <2>2, ZenonT(30) DEF Good, Round
<1>27. Retry'
  BY <1>11, ZenonT(30) DEF Retry
<1> QED BY <1>18, <1>19, <1>20, <1>21, <1>22, <1>23, <1>24, <1>25, <1>26, <1>27, ZenonT(30) DEF Good

LEMMA InWindowStep == ASSUME Good, NEW a, Acking(a) PROVE Good'
<1>1. PICK o \in 1 .. WinSz :
           /\ set_off_from_seq(win, a.seq) = [win EXCEPT !.off = o]
           /\ win.off < o /\ o <= win.sent_off /\ Base + o <= Len(peer) /\ Whole(Base + o)
  BY AckPosition, ZenonT(30)
<1>2. CASE o = WinSz
  BY <1>1, <1>2, AckTurns, ZenonT(30)
<1>3. CASE o # WinSz
  BY <1>1, <1>3, AckKeeps, ZenonT(30)
<1> QED BY <1>2, <1>3, ZenonT(30)

-----------------------------------------------------------------------------
(* The peer, and the handshake. *)

LEMMA PeerNumbers ==
  ASSUME Good, NEW s \in wire
  PROVE  /\ state # "CLOSED" /\ Len(s.data) \in Nat \ {0} /\ Len(peer) \in Nat
         /\ s.seq = tcp_seq(isn + Len(peer)) <=> s.seq - isn = Len(peer)
         /\ s.seq - isn = Len(peer) => Len(peer) + Len(s.data) <= put
<1>1. state # "CLOSED" /\ isn + StreamLen + WinSz < Modulo
  BY ZenonT(30) DEF Good, Closed
<1>2. /\ isn \in Nat /\ Len(peer) \in Nat /\ put \in 0 .. StreamLen /\ Len(peer) <= put
  BY Numbers, ZenonT(30) DEF Good, Places
<1>3. s.seq \in 0 .. Modulo - 1
  BY ZenonT(30) DEF Good, Types
<1>4. isn + Len(peer) \in Nat /\ isn + Len(peer) < Modulo
  BY <1>1, <1>2, Constants
<1>5. tcp_seq(isn + Len(peer)) = isn + Len(peer)
  BY <1>4, Remainder, ZenonT(30)
<1>6. Len(s.data) \in Nat \ {0} /\ s.seq - isn + Len(s.data) <= put
  BY SegmentSpan, ZenonT(30) DEF Good
<1>7. s.seq = isn + Len(peer) <=> s.seq - isn = Len(peer)
  BY <1>2, <1>3
<1> QED BY <1>1, <1>2, <1>5, <1>6, <1>7, ZenonT(30)

LEMMA PeerReceiveStep == ASSUME Good, NEW s \in wire, PeerReceive(s) PROVE Good'
<1> DEFINE expected == s.seq = tcp_seq(isn + Len(peer))
           L == Len(peer')
<1>1. UNCHANGED <<state, isn, win, mem, off_map, end_off, lock, empty_notif, not_empty_notif,
                  congVars, frVars, wpc, cur, scan, clientVars, wire, dups, fails, stale, crashed>>
  BY ZenonT(30) DEF PeerReceive, winVars, bufVars, notifVars, workerVars
<1>2. /\ peer' = IF expected THEN peer \o s.data ELSE peer
      /\ \/ /\ acks' = acks \cup {[seq |-> tcp_seq(isn + L + Modulo - 1), win |-> WinSz - (L % WinSz)]}
            /\ losses' = losses
         \/ acks' = acks /\ losses < MaxLosses /\ losses' = losses + 1
  BY ZenonT(30) DEF PeerReceive, Lost
<1>3. /\ state # "CLOSED" /\ Len(s.data) \in Nat \ {0} /\ Len(peer) \in Nat
      /\ expected <=> s.seq - isn = Len(peer)
      /\ s.seq - isn = Len(peer) => Len(peer) + Len(s.data) <= put
  BY PeerNumbers, ZenonT(30)
<1>4. /\ Acked \in Nat /\ put \in Nat /\ Acked <= Len(peer) /\ Len(peer) <= put
      /\ Whole(Len(peer)) /\ Whole(Acked)
  BY Numbers DEF Good, Places
<1>5. peer' \in Seq(Nat) /\ L \in Nat /\ Len(peer) <= L /\ L <= put /\ Whole(L)
  <2>0. peer \in Seq(Nat) /\ s.data \in Seq(Nat)
    BY ZenonT(30) DEF Good, Types
  <2>1. CASE expected
    <3>1. peer' = peer \o s.data
      BY <1>2, <2>1, ZenonT(30)
    <3>2. peer' \in Seq(Nat) /\ L = Len(peer) + Len(s.data)
      BY <2>0, <3>1, ConcatProperties, ZenonT(30)
    <3>3. <<Len(peer), L>> \in Spans
      <4>1. <<s.seq - isn, s.seq - isn + Len(s.data)>> \in Spans
        BY SegmentSpan, ZenonT(30) DEF Good
      <4>2. s.seq - isn = Len(peer)
        BY <1>3, <2>1, ZenonT(30)
      <4> QED BY <3>2, <4>1, <4>2, ZenonT(30)
    <3> HIDE DEF L
    <3>4. ASSUME NEW x \in Spans PROVE L <= x[1] \/ x[2] <= L
      <4> DEFINE y == <<Len(peer), L>>
      <4>1. y \in Spans /\ y[1] = Len(peer) /\ y[2] = L
        BY <3>3, ZenonT(30)
      <4>2. x = y \/ x[2] <= y[1] \/ y[2] <= x[1]
        BY <4>1, ZenonT(30) DEF Good, SpansOK
      <4>3. x[1] \in Nat /\ x[2] \in Nat
        BY ZenonT(30) DEF Good, SpansOK
      <4> HIDE DEF y
      <4> QED BY <1>3, <3>2, <4>1, <4>2, <4>3
    <3> QED BY <1>3, <2>1, <3>2, <3>4 DEF Whole
  <2>2. CASE ~expected
    BY <1>2, <1>3, <1>4, <2>0, <2>2
  <2> QED BY <2>1, <2>2, ZenonT(30)
<1> HIDE DEF expected
<1>6. SameMessages
  BY <1>1, ZenonT(30) DEF SameMessages, SameCells, clientVars
<1>7. /\ \A p \in Cells : (Header(p)' <=> Header(p)) /\ From(p)' = From(p) /\ To(p)' = To(p)
                          /\ (Live(p)' <=> Live(p))
      /\ Acked' = Acked /\ Spans' = Spans
  BY <1>1, <1>6, SameSpans, ZenonT(30)
<1>8. Types'
  <2>1. losses' \in 0 .. MaxLosses
    <3>1. losses \in 0 .. MaxLosses /\ MaxLosses \in Nat
      BY Counters, SenderAssumption, ZenonT(30) DEF Good
    <3> QED BY <1>2, <3>1
  <2>2. NetTypes'
    BY <1>1, <1>5, TypesParts, ZenonT(30) DEF Good, NetTypes
  <2>3. HistTypes'
    BY <1>1, <2>1, TypesParts, ZenonT(30) DEF Good, HistTypes
  <2> QED BY <1>1, <2>2, <2>3, TypesKept, ZenonT(30) DEF Good, winVars, bufVars, notifVars, workerVars
<1>9. Closed'
  BY <1>1, <1>3, ZenonT(30) DEF Good, Closed
<1>10. Layout' /\ SpansOK'
  BY <1>1, <1>6, <1>7, LayoutKept, SpansKept, ZenonT(30) DEF Good, clientVars
<1>11. Places'
  <2>1. \A n : Whole(n) => Whole(n)'
    BY <1>7, ZenonT(30) DEF Whole
  <2>2. /\ Acked' <= L /\ L <= put' /\ Whole(Acked)' /\ Whole(Len(peer))'
    <3>1. \A x \in Spans : (Acked <= x[1] \/ x[2] <= Acked) /\ (L <= x[1] \/ x[2] <= L)
      BY <1>4, <1>5, ZenonT(30) DEF Whole
    <3>2. Whole(Acked)' /\ Whole(Len(peer))'
      BY <1>7, <3>1, ZenonT(30) DEF Whole
    <3>3. put' = put
      BY <1>1, ZenonT(30) DEF clientVars
    <3> HIDE DEF L
    <3> QED BY <1>4, <1>5, <1>7, <3>2, <3>3
  <2>3. ASSUME NEW a \in acks'
        PROVE  /\ a.win \in 1 .. WinSz
               /\ \E n \in 0 .. L : Whole(n)' /\ a.seq = tcp_seq(isn' + n + Modulo - 1)
    <3>1. CASE a \in acks
      <4>1. a.win \in 1 .. WinSz
        BY <3>1, ZenonT(30) DEF Good, Places
      <4>2. PICK n \in 0 .. Len(peer) : Whole(n) /\ a.seq = tcp_seq(isn + n + Modulo - 1)
        BY <3>1, ZenonT(30) DEF Good, Places
      <4>3. n \in 0 .. L
        BY <1>3, <1>5
      <4> QED BY <1>1, <2>1, <4>1, <4>2, <4>3, ZenonT(30)
    <3>2. CASE a = [seq |-> tcp_seq(isn + L + Modulo - 1), win |-> WinSz - (L % WinSz)]
      <4>1. a.win = WinSz - (L % WinSz) /\ a.seq = tcp_seq(isn + L + Modulo - 1)
        BY <3>2, ZenonT(30)
      <4>2. a.win \in 1 .. WinSz
        <5> HIDE DEF L
        <5>1. L % WinSz \in 0 .. WinSz - 1
          BY <1>5, Constants
        <5> QED BY <4>1, <5>1, Constants
      <4>3. L \in 0 .. L /\ Whole(L)
        BY <1>5
      <4>4. \A x \in Spans' : L <= x[1] \/ x[2] <= L
        BY <1>7, <4>3, ZenonT(30) DEF Whole
      <4>5. PICK n \in 0 .. L : n = L
        BY <4>3, ZenonT(30)
      <4>6. Whole(n)'
        <5> HIDE DEF L
        <5> QED BY <4>4, <4>5, ZenonT(30) DEF Whole
      <4> QED BY <1>1, <4>1, <4>2, <4>5, <4>6, ZenonT(30)
    <3> QED BY <1>2, <3>1, <3>2, ZenonT(30)
  <2> QED BY <2>2, <2>3, ZenonT(30) DEF Places
<1>12. Data'
  <2>1. \A g \in wire : g.seq - isn >= L => g.seq - isn >= Len(peer)
    <3>1. \A g \in wire : g.seq - isn \in Nat
      BY SegmentSpan, ZenonT(30) DEF Good
    <3> HIDE DEF L
    <3> QED BY <1>3, <1>5, <3>1
  <2>2. \A g \in wire' : g.seq - isn' >= Len(peer') =>
          \A i \in 1 .. Len(g.data) : g.data[i] = g.seq - isn' + i
    BY <1>1, <2>1, ZenonT(30) DEF Good, Data
  <2>3. \A p \in Cells : Live(p)' /\ To(p)' > Acked' =>
          \A i \in 1 .. mem'[p].len :
             mem'[p + i].pos = From(p)' + i \/ (wpc' = "sendto" /\ cur' = p + i)
    BY <1>1, <1>7, ZenonT(30) DEF Good, Data
  <2> QED BY <2>2, <2>3, ZenonT(30) DEF Data
<1>13. Written' /\ Used'
  BY <1>1, <1>7, ZenonT(30) DEF Good, Written, Used, clientVars
<1>14. Signalled'
  BY <1>1, <1>7, ZenonT(30) DEF Good, Signalled, sent_buf_empty, Live, Header, To, From, clientVars
<1>15. Round' /\ Retry'
  BY <1>1, ZenonT(30) DEF Good, Round, Retry, sent_buf_empty, clientVars
<1> QED BY <1>8, <1>9, <1>10, <1>11, <1>12, <1>13, <1>14, <1>15, ZenonT(30) DEF Good

LEMMA HandshakeStep == ASSUME Good, Handshake PROVE Good'
<1>1. /\ UNCHANGED <<mem, off_map, end_off, lock, notifVars, congVars, frVars, cur, scan, left, bound,
                     data, seg, futures, put, wire, acks, peer, dups, fails, losses, stale, crashed>>
      /\ cpc = "handshake" /\ cpc' = "round" /\ state' = "ESTABLISHED"
      /\ wpc' = IF wpc = "off" THEN "lock" ELSE wpc
  BY ZenonT(30) DEF Handshake, bufVars, netVars, histVars
<1>2. futures = << >> /\ put + left <= StreamLen
  BY <1>1, ZenonT(30) DEF Good, Round
<1>3. Round'
  BY <1>1, <1>2, ZenonT(30) DEF Round, Waiting
<1>4. CASE state # "CLOSED"
  <2>1. UNCHANGED <<isn, win>> /\ wpc # "off" /\ wpc' = wpc /\ state' = state
    BY <1>1, <1>4, ZenonT(30) DEF Handshake, Good, Closed, Types, TypeOK
  <2>2. Types'
    <3>1. ClientTypes'
      BY <1>1, TypesParts, ZenonT(30) DEF Good, ClientTypes
    <3> QED BY <1>1, <2>1, <3>1, TypesKept, ZenonT(30) DEF Good, winVars, bufVars, workerVars, netVars, histVars
  <2> QED BY <1>1, <1>3, <1>4, <2>1, <2>2, ClientKeeps, ZenonT(30) DEF winVars, bufVars, workerVars, netVars
<1>5. CASE state = "CLOSED"
  <2>1. PICK s \in StartSeqs : isn' = s /\ win' = [win EXCEPT !.start = s, !.off = 0, !.sent_off = 0]
    BY <1>5, ZenonT(30) DEF Handshake
  <2>2. /\ wpc = "off" /\ wpc' = "lock" /\ isn = 0 /\ win.start = 0 /\ win.off = 0 /\ win.sent_off = 0
        /\ put = 0 /\ wire = {} /\ acks = {} /\ peer = << >> /\ \A p \in Cells : ~Header(p)
    BY <1>1, <1>5, ZenonT(30) DEF Good, Closed
  <2>3. s \in 0 .. Modulo - 1 /\ s \in Nat /\ s + StreamLen + WinSz < Modulo
    BY SenderAssumption, NoWrapAssumption
  <2>4. /\ win'.start = s /\ win'.off = 0 /\ win'.sent_off = 0
        /\ win' \in [start : Nat, off : 0 .. WinSz, sent_off : 0 .. WinSz, sz : {WinSz}]
    <3>1. win \in [start : Nat, off : 0 .. WinSz, sent_off : 0 .. WinSz, sz : {WinSz}]
      BY ZenonT(30) DEF Good, Types, TypeOK
    <3>2. 0 \in 0 .. WinSz
      BY Constants
    <3> QED BY <2>1, <2>3, <3>1, <3>2, ZenonT(30)
  <2>5. \A p \in Cells : ~Header(p)' /\ ~Live(p)'
    BY <1>1, <2>2, ZenonT(30) DEF Header, Live
  <2>6. Base' = 0 /\ Acked' = 0
    <3>1. Base' = s - s
      BY <2>1, <2>4, ZenonT(30) DEF Base
    <3> QED BY <2>3, <2>4, <3>1 DEF Acked
  <2>7. Spans' = {}
    BY <1>1, <2>2, <2>5, ZenonT(30) DEF Spans
  <2>8. Len(peer) = 0
    BY <2>2, EmptySeq, ZenonT(30)
  <2>9. Types'
    <3>1. WinTypes'
      BY <1>1, <2>1, <2>3, <2>4, TypesParts, ZenonT(30) DEF Good, WinTypes
    <3>2. WorkerTypes'
      BY <1>1, <2>2, TypesParts, ZenonT(30) DEF Good, WorkerTypes
    <3>3. ClientTypes'
      BY <1>1, TypesParts, ZenonT(30) DEF Good, ClientTypes
    <3> QED BY <1>1, <3>1, <3>2, <3>3, TypesKept, ZenonT(30) DEF Good, bufVars, netVars, histVars
  <2>10. Closed'
    BY <1>1, <2>1, <2>2, <2>3, ZenonT(30) DEF Closed
  <2>11. Layout'
    <3>1. end_off \in Nat /\ end_off <= 2 * win.sent_off /\ off_map[win.sent_off] = end_off
      BY Numbers DEF Good, Layout, Cells
    <3>2. end_off = 0 /\ off_map[0] = 0
      BY <2>2, <3>1
    <3>3. 0 % WinSz = 0 /\ ~\E n \in 0 .. 0 - 1 : TRUE
      BY Constants
    <3> QED BY <1>1, <2>2, <2>4, <2>5, <2>6, <3>2, <3>3 DEF Layout
  <2>12. SpansOK' /\ Places'
    BY <1>1, <2>2, <2>6, <2>7, <2>8 DEF SpansOK, Places, Whole
  <2>13. Data'
    BY <1>1, <2>2, <2>5, ZenonT(30) DEF Data
  <2>14. Written'
    BY <1>1, <2>2, <2>4, ZenonT(30) DEF Good, Written
  <2>15. Used' /\ Signalled' /\ Retry'
    BY <2>4, <2>5, ZenonT(30) DEF Used, Signalled, Retry, sent_buf_empty
  <2> QED BY <1>3, <2>9, <2>10, <2>11, <2>12, <2>13, <2>14, <2>15, ZenonT(30) DEF Good
<1> QED BY <1>4, <1>5, ZenonT(30)

-----------------------------------------------------------------------------
(* The invariant. *)

LEMMA GoodInit == ASSUME Init PROVE Good
<1>1. /\ state = "CLOSED" /\ isn = 0 /\ put = 0 /\ wire = {} /\ acks = {} /\ peer = << >>
      /\ win.start = 0 /\ win.off = 0 /\ win.sent_off = 0 /\ wpc = "off" /\ cpc = "idle"
      /\ end_off = 0 /\ futures = << >> /\ crashed = FALSE /\ fails = 0 /\ left = 0
      /\ mem = [p \in Cells |-> NoCell] /\ off_map = [o \in 0 .. MapSz - 1 |-> 0]
  BY ZenonT(30) DEF Init
<1>2. /\ 0 \in 0 .. WinSz /\ 0 \in 0 .. Modulo - 1 /\ 0 \in 0 .. StreamLen /\ 0 \in Cells
      /\ 0 \in 0 .. MapSz - 1 /\ WinSz \in 1 .. WinSz /\ CongStart \in 1 .. MaxCong
      /\ 0 \in 0 .. DupBound /\ 0 \in 0 .. MaxDups /\ 0 \in 0 .. MaxFails /\ 0 \in 0 .. MaxLosses
  BY SenderAssumption, ModuloAssumption DEF Cells
<1>3. Types
  <2>1. NoCell \in [kind : {"none", "header", "data"}, seq : 0 .. Modulo - 1, len : 0 .. WinSz,
                    used : BOOLEAN, sem : Nat, pos : 0 .. StreamLen]
    BY <1>2, ZenonT(30) DEF NoCell
  <2>2. TypeOK
    BY <1>2, <2>1 DEF Init, TypeOK
  <2> QED BY <1>1, <1>2, <2>2 DEF Types
<1>4. \A p \in Cells : ~Header(p) /\ ~Live(p) /\ mem[p].kind = "none"
  BY <1>1, ZenonT(30) DEF Header, Live, NoCell
<1>5. Base = 0 /\ Acked = 0 /\ Spans = {} /\ Len(peer) = 0
  <2>1. Base = 0 /\ Acked = 0
    BY <1>1 DEF Base, Acked
  <2>2. Spans = {}
    BY <1>1, <1>4, ZenonT(30) DEF Spans
  <2> QED BY <1>1, <2>1, <2>2, EmptySeq, ZenonT(30)
<1>6. Closed
  BY <1>1, <1>4, ZenonT(30) DEF Closed
<1>7. Layout
  <2>1. 0 % WinSz = 0 /\ off_map[0] = 0 /\ ~\E n \in 0 .. 0 - 1 : TRUE
    BY <1>1, <1>2, Constants
  <2> QED BY <1>1, <1>4, <1>5, <2>1 DEF Layout
<1>8. SpansOK /\ Places
  BY <1>1, <1>5 DEF SpansOK, Places, Whole
<1>9. Data /\ Used /\ Signalled
  BY <1>1, <1>4, ZenonT(30) DEF Data, Used, Signalled, sent_buf_empty
<1>10. Written
  <2>1. \A o \in 0 .. WinSz - 1 : off_map[o] = 0
    <3>1. \A o \in 0 .. WinSz - 1 : o \in 0 .. MapSz - 1
      BY Constants
    <3> QED BY <1>1, <3>1, ZenonT(30)
  <2> QED BY <1>1, <2>1, ZenonT(30) DEF Written
<1>11. Round /\ Retry
  <2>1. cpc = "idle" /\ futures = << >> /\ crashed = FALSE
    BY <1>1, ZenonT(30)
  <2> QED BY <2>1, ZenonT(30) DEF Round, Retry, Waiting
<1> QED BY <1>3, <1>6, <1>7, <1>8, <1>9, <1>10, <1>11, ZenonT(30) DEF Good

LEMMA StaleStep ==
  ASSUME stale \in BOOLEAN, [Next]_vars PROVE stale' \in BOOLEAN /\ (stale => stale')
<1>1. CASE SendTo \/ SendToFails \/ PollComplete \/ PollTimeout
  <2>1. stale' = (stale \/ mem[cur].kind = "data")
    BY <1>1, ZenonT(30) DEF SendTo, SendToFails, PollComplete, PollTimeout
  <2> QED BY <2>1, ZenonT(30)
<1>2. CASE Client \/ WorkerLock \/ WaitNotEmpty \/ TakeMsg \/ SkipMsg \/ ScanTimeout
  <2>1. stale' = stale
    BY <1>2, ZenonT(30) DEF Client, Handshake, BeginRound, NaglesFull, NaglesPart, WaitEmpty, EmptyNotif,
                RelockEmpty, EndRound, AwaitFuture, NextRound, WorkerLock, WaitNotEmpty, TakeMsg,
                SkipMsg, ScanTimeout, histVars
  <2> QED BY <2>1, ZenonT(30)
<1>3. CASE \/ \E n \in SendSizes : SendCall(n)
           \/ \E a \in acks : OnAckInWindow(a) \/ OnAckPrevWindow(a) \/ OnAckElsewhere(a)
           \/ \E s \in wire : PeerReceive(s)
           \/ UNCHANGED vars
  <2>1. stale' = stale
    BY <1>3, ZenonT(30) DEF SendCall, OnAckInWindow, OnAckPrevWindow, OnAckElsewhere, PeerReceive, vars, histVars
  <2> QED BY <2>1, ZenonT(30)
<1> QED BY <1>1, <1>2, <1>3, ZenonT(30) DEF Next, Worker

LEMMA GoodStep == ASSUME Good, [Next]_vars, ~stale' PROVE Good'
<1>1. CASE UNCHANGED vars
  <2>1. UNCHANGED <<winVars, bufVars, workerVars, futures, put, netVars, fails, crashed, cpc>>
    BY <1>1, ZenonT(30) DEF vars, clientVars, histVars
  <2>2. Types'
    BY <1>1, TypesKept, ZenonT(30) DEF Good, vars
  <2>3. Round'
    BY <1>1, ZenonT(30) DEF Good, Round, sent_buf_empty, vars, winVars, clientVars, notifVars
  <2>4. state = "CLOSED" => cpc' \in {"idle", "handshake"}
    BY <2>1, ZenonT(30) DEF Good, Closed
  <2> QED BY <2>1, <2>2, <2>3, <2>4, ClientKeeps, ZenonT(30)
<1>2. CASE Client /\ ~crashed
  <2>1. CASE Handshake
    BY <2>1, HandshakeStep, ZenonT(30)
  <2>2. CASE BeginRound
    BY <2>2, BeginRoundStep, ZenonT(30)
  <2>3. CASE NaglesFull \/ WaitEmpty
    BY <1>2, <2>3, NaglesStep, ZenonT(30)
  <2>4. CASE NaglesPart
    BY <2>4, NaglesPartStep, ZenonT(30)
  <2>5. CASE EmptyNotif \/ RelockEmpty
    BY <2>5, WakeStep, ZenonT(30)
  <2>6. CASE EndRound \/ NextRound
    BY <2>6, EndRoundStep, ZenonT(30)
  <2>7. CASE AwaitFuture
    BY <2>7, AwaitFutureStep, ZenonT(30)
  <2> QED BY <1>2, <2>1, <2>2, <2>3, <2>4, <2>5, <2>6, <2>7, ZenonT(30) DEF Client
<1>3. CASE Worker
  <2>1. CASE WorkerLock
    BY <2>1, WorkerLockStep, ZenonT(30)
  <2>2. CASE WaitNotEmpty
    BY <2>2, WaitNotEmptyStep, ZenonT(30)
  <2>3. CASE TakeMsg
    BY <2>3, TakeMsgStep, ZenonT(30)
  <2>4. CASE SkipMsg \/ ScanTimeout
    BY <2>4, ScanStep, ZenonT(30)
  <2>5. CASE SendTo
    BY <2>5, SendToStep, ZenonT(30)
  <2>6. CASE SendToFails
    BY <2>6, SendToFailsStep, ZenonT(30)
  <2>7. CASE PollComplete
    BY <2>7, PollCompleteStep, ZenonT(30)
  <2>8. CASE PollTimeout
    BY <2>8, PollTimeoutStep, ZenonT(30)
  <2> QED BY <1>3, <2>1, <2>2, <2>3, <2>4, <2>5, <2>6, <2>7, <2>8, ZenonT(30) DEF Worker
<1>4. CASE \E n \in SendSizes : SendCall(n)
  BY <1>4, SendCallStep, ZenonT(30)
<1>5. ASSUME ~crashed, NEW a \in acks, OnAckInWindow(a) \/ OnAckPrevWindow(a) \/ OnAckElsewhere(a)
      PROVE  Good'
  <2>1. CASE OnAckInWindow(a)
    BY <1>5, <2>1, InWindowStep, ZenonT(30) DEF Acking
  <2>2. CASE OnAckPrevWindow(a)
    BY <2>2, PrevWindowStep, ZenonT(30)
  <2>3. CASE OnAckElsewhere(a)
    BY <2>3, OnAckElsewhereStep, ZenonT(30)
  <2> QED BY <1>5, <2>1, <2>2, <2>3, ZenonT(30)
<1>6. CASE \E s \in wire : PeerReceive(s)
  BY <1>6, PeerReceiveStep, ZenonT(30)
<1> QED BY <1>1, <1>2, <1>3, <1>4, <1>5, <1>6, ZenonT(30) DEF Next

(* The inductive invariant of the send half: until the worker uses a        *)
(* message whose memory was reused, the buffer, the wire and the peer agree *)
(* about one division of the stream into messages.                          *)
THEOREM SenderInvariant == Spec => []IInv
<1>1. Init => IInv
  <2>1. Init => stale \in BOOLEAN
    BY ZenonT(30) DEF Init
  <2> QED BY <2>1, GoodInit, ZenonT(30) DEF IInv
<1>2. IInv /\ [Next]_vars => IInv'
  <2> SUFFICES ASSUME IInv, [Next]_vars PROVE IInv'
    BY ZenonT(30)
  <2>1. stale' \in BOOLEAN /\ (stale => stale')
    BY StaleStep, ZenonT(30) DEF IInv
  <2>2. ~stale' => Good'
    BY <2>1, GoodStep, ZenonT(30) DEF IInv
  <2> QED BY <2>1, <2>2, ZenonT(30) DEF IInv
<1> QED BY <1>1, <1>2, PTL DEF Spec

(* nagles' "cant drop here": what is left of a round of send() fits in the  *)
(* window, so that the overhead check never throws out of send().           *)
THEOREM RoundAlwaysFits == Spec => []RoundFits
<1>1. IInv => RoundFits
  BY ZenonT(30) DEF IInv, Good, Round, RoundFits, Waiting
<1> QED BY <1>1, SenderInvariant, PTL

(* The window is moved (set_off_from_seq) only over bytes the peer has, and *)
(* a send() that returned, or begins another round, has delivered all it    *)
(* was given.                                                               *)
THEOREM CompletedMeansReceived == Spec => []CompletedIsReceived
<1>1. ASSUME IInv, ~stale PROVE begin(win) - isn <= Len(peer)
  <2>1. Good
    BY <1>1, ZenonT(30) DEF IInv
  <2>2. win.start \in Nat /\ win.off \in 0 .. WinSz /\ isn \in Nat /\ Acked <= Len(peer)
    BY <2>1, Numbers, ZenonT(30) DEF Good, Places
  <2>3. win.start + win.off - isn = win.start - isn + win.off
    BY <2>2
  <2>4. begin(win) - isn = Acked
    BY <2>2, <2>3 DEF begin, Acked, Base
  <2> QED BY <2>2, <2>4, ZenonT(30)
<1>2. ASSUME IInv, ~stale, cpc \in {"idle", "round"} PROVE Len(peer) = put
  <2>1. Good
    BY <1>2, ZenonT(30) DEF IInv
  <2>2. sent_buf_empty
    BY <1>2, <2>1, ZenonT(30) DEF Good, Round, Signalled
  <2>3. Acked = Base + win.off /\ put = Base + win.sent_off /\ put \in Nat /\ Len(peer) \in Nat
    BY <2>1, Numbers DEF Good
  <2>4. Acked <= Len(peer) /\ Len(peer) <= put /\ Acked = put
    BY <2>1, <2>2, <2>3, ZenonT(30) DEF Good, Places, sent_buf_empty
  <2> QED BY <2>3, <2>4
<1>3. IInv => CompletedIsReceived
  BY <1>1, <1>2, ZenonT(30) DEF CompletedIsReceived
<1> QED BY <1>3, SenderInvariant, PTL

(* No segment on the wire, late and repeated ones included, crosses the end *)
(* of the peer's window.                                                    *)
THEOREM SegmentsAlwaysFit == Spec => []SegmentsFitPeerWindow
<1>1. ASSUME IInv, ~stale, NEW s \in wire
      PROVE  \E b \in 0 .. StreamLen : s.seq = tcp_seq(isn + b) /\ (b % WinSz) + Len(s.data) <= WinSz
  <2> DEFINE b == s.seq - isn
  <2>1. Good
    BY <1>1, ZenonT(30) DEF IInv
  <2>2. b \in Nat /\ Len(s.data) \in Nat /\ b + Len(s.data) <= put /\ (b % WinSz) + Len(s.data) <= WinSz
    BY <2>1, SegmentSpan, ZenonT(30) DEF Good
  <2>3. isn \in Nat /\ put \in 0 .. StreamLen /\ s.seq \in 0 .. Modulo - 1
    BY <2>1, Numbers, ZenonT(30) DEF Good, Types
  <2>4. isn + b = s.seq
    BY <2>3
  <2>5. tcp_seq(s.seq) = s.seq
    BY <2>3, Remainder, Constants
  <2> HIDE DEF b
  <2>6. b \in 0 .. StreamLen
    BY <2>2, <2>3, Constants
  <2> QED BY <2>2, <2>4, <2>5, <2>6, ZenonT(30)
<1>2. IInv => SegmentsFitPeerWindow
  BY <1>1, ZenonT(30) DEF SegmentsFitPeerWindow
<1> QED BY <1>2, SenderInvariant, PTL

(* While sendto does not fail, the oldest unacknowledged message is in use  *)
(* only as long as the send worker holds it: no message is left that nobody *)
(* will send again.                                                         *)
THEOREM NothingIsStranded == Spec => []NoStrandedMessage
<1>1. ASSUME IInv, ~stale, fails = 0, ~sent_buf_empty, mem[off_map[win.off]].used
      PROVE  wpc \in {"sendto", "poll"} /\ cur = off_map[win.off]
  <2>1. Good
    BY <1>1, ZenonT(30) DEF IInv
  <2>2. state # "CLOSED"
    BY <1>1, <2>1, ZenonT(30) DEF Good, Closed, sent_buf_empty
  <2>3. PICK s : s \in SeqsAt(off_map[win.off])
    <3>1. CASE mem[off_map[win.off]].kind = "data"
      <4>1. 0 \in 0 .. Modulo - 1
        BY Constants
      <4> QED BY <3>1, <4>1, ZenonT(30) DEF SeqsAt
    <3>2. CASE mem[off_map[win.off]].kind # "data"
      BY <3>2, ZenonT(30) DEF SeqsAt
    <3> QED BY <3>1, <3>2, ZenonT(30)
  <2>4. off_map[win.off] \in Cells /\ Live(off_map[win.off]) /\ From(off_map[win.off]) = Acked
    BY <1>1, <2>1, <2>2, <2>3, FastRetrySafe, ZenonT(30)
  <2>5. From(off_map[win.off]) >= Acked
    <3>1. Acked \in Nat
      BY <2>1, Numbers, ZenonT(30) DEF Good
    <3> QED BY <2>4, <3>1
  <2> QED BY <1>1, <2>1, <2>4, <2>5, ZenonT(30) DEF Good, Used
<1>2. IInv => NoStrandedMessage
  BY <1>1, ZenonT(30) DEF NoStrandedMessage
<1> QED BY <1>2, SenderInvariant, PTL

(* retry() indexes off_map past its end only when a fast retransmit is      *)
(* asked for while nothing is unacknowledged.                               *)
THEOREM RetryAlwaysFinds == Spec => []RetryFindsMessage
<1>1. IInv => RetryFindsMessage
  BY ZenonT(30) DEF IInv, Good, Retry, RetryFindsMessage
<1> QED BY <1>1, SenderInvariant, PTL

(* The caller of send() that waits for an empty buffer has a post to wake   *)
(* it once the buffer is empty.                                             *)
THEOREM EmptyWakeupIsKept == Spec => []NoLostEmptyWakeup
<1>1. IInv => NoLostEmptyWakeup
  BY ZenonT(30) DEF IInv, Good, Round, NoLostEmptyWakeup
<1> QED BY <1>1, SenderInvariant, PTL

-----------------------------------------------------------------------------
(* The byte stream. *)

(* put_msg takes a message into the stream: it fits in what the peer has    *)
(* not got yet of a window.                                                 *)
LEMMA PutTakes ==
  ASSUME Good, ~stale, NEW n, Putting(n)
  PROVE  Promised!Next
<1>1. /\ n \in Nat \ {0} /\ n <= WinSz /\ win.sent_off + n \in 0 .. WinSz
      /\ put' = put + n /\ UNCHANGED <<peer, stale>>
  BY PutNumbers, PutEffect, ZenonT(30)
<1>2. /\ Base \in Nat /\ win.off \in Nat /\ win.sent_off \in Nat /\ Len(peer) \in Nat
      /\ put = Base + win.sent_off /\ Acked = Base + win.off /\ Acked <= Len(peer)
  BY Numbers, Constants DEF Good, Places
<1>3. Base <= Len(peer)
  BY <1>2
<1>4. put + n - Len(peer) <= WinSz
  <2> DEFINE b == Base
             o == win.sent_off
             l == Len(peer)
  <2>1. /\ b \in Nat /\ o \in Nat /\ l \in Nat /\ n \in Nat /\ b <= l
        /\ o + n <= WinSz /\ put = b + o
    BY <1>1, <1>2, <1>3, Constants
  <2> HIDE DEF b, o, l
  <2>2. put + n - l <= WinSz
    BY <2>1, Constants
  <2> QED BY <2>2, ZenonT(30) DEF l
<1>5. Promised!Take(n)
  BY <1>1, <1>4, ZenonT(30) DEF Promised!Take
<1>6. n \in 1 .. WinSz
  BY <1>1, Constants
<1> QED BY <1>5, <1>6, ZenonT(30) DEF Promised!Next

(* The peer takes the segment it expects out of the stream: its bytes are   *)
(* the next ones. Any other segment gives nothing.                          *)
LEMMA PeerGives ==
  ASSUME Good, ~stale, NEW s \in wire, PeerReceive(s)
  PROVE  Promised!Next \/ UNCHANGED Promised!streamVars
<1>1. UNCHANGED <<put, stale>>
  BY ZenonT(30) DEF PeerReceive, clientVars
<1>2. CASE s.seq = tcp_seq(isn + Len(peer))
  <2> DEFINE n == Len(s.data)
             next == [i \in 1 .. n |-> Len(peer) + i]
  <2>1. /\ n \in Nat \ {0} /\ Len(peer) \in Nat /\ s.seq - isn = Len(peer)
        /\ Len(peer) + n <= put
    BY <1>2, PeerNumbers, ZenonT(30)
  <2>2. \A i \in 1 .. n : s.data[i] = Len(peer) + i
    <3>1. s.seq - isn >= Len(peer)
      BY <2>1
    <3> QED BY <2>1, <3>1, ZenonT(30) DEF Good, Data
  <2>3. s.data \in Seq(Nat) /\ DOMAIN s.data = 1 .. n
    BY LenProperties, ZenonT(30) DEF Good, Types
  <2>4. s.data = next
    <3>1. s.data = [i \in 1 .. n |-> s.data[i]]
      BY <2>3
    <3>2. next = [i \in 1 .. n |-> s.data[i]]
      BY <2>2, ZenonT(30)
    <3> QED BY <3>1, <3>2, ZenonT(30)
  <2>5. peer' = peer \o s.data
    BY <1>2, ZenonT(30) DEF PeerReceive
  <2>6. Promised!Give(n)
    BY <1>1, <2>1, <2>4, <2>5, ZenonT(30) DEF Promised!Give
  <2>7. n \in 1 .. WinSz
    <3>1. ((s.seq - isn) % WinSz) + n <= WinSz
      BY SegmentSpan, ZenonT(30) DEF Good
    <3>2. (s.seq - isn) % WinSz \in Nat
      BY <2>1, Remainder, Constants
    <3> HIDE DEF n
    <3> QED BY <2>1, <3>1, <3>2, Constants
  <2> QED BY <2>6, <2>7, ZenonT(30) DEF Promised!Next
<1>3. CASE s.seq # tcp_seq(isn + Len(peer))
  BY <1>1, <1>3, ZenonT(30) DEF PeerReceive, Promised!streamVars
<1> QED BY <1>2, <1>3, ZenonT(30)

LEMMA StepIsStreamStep ==
  ASSUME IInv, IInv', [Next]_vars
  PROVE  [Promised!Next]_(Promised!streamVars)
<1>1. CASE stale'
  BY <1>1, ZenonT(30) DEF Promised!Next, Promised!Break, IInv
<1>2. CASE ~stale'
  <2>1. Good /\ ~stale /\ stale' = stale
    BY <1>2, StaleStep, ZenonT(30) DEF IInv
  <2>2. CASE Client /\ ~crashed
    <3>1. CASE NaglesFull \/ WaitEmpty
      <4>1. CASE UNCHANGED put
        BY <2>1, <3>1, <4>1, ZenonT(30) DEF NaglesFull, WaitEmpty, netVars, Promised!streamVars
      <4>2. ASSUME NEW n, Putting(n) PROVE Promised!Next
        BY <2>1, <4>2, PutTakes, ZenonT(30)
      <4> QED BY <2>1, <2>2, <3>1, <4>1, <4>2, NaglesPuts, ZenonT(30)
    <3>2. CASE ~(NaglesFull \/ WaitEmpty)
      BY <2>1, <2>2, <3>2, ZenonT(30) DEF Client, Handshake, BeginRound, NaglesPart, EmptyNotif, RelockEmpty,
                              EndRound, AwaitFuture, NextRound, netVars, histVars, Promised!streamVars
    <3> QED BY <3>1, <3>2, ZenonT(30)
  <2>3. CASE Worker
    BY <2>1, <2>3, ZenonT(30) DEF Worker, WorkerLock, WaitNotEmpty, TakeMsg, SkipMsg, ScanTimeout, SendTo,
                      SendToFails, PollComplete, PollTimeout, clientVars, netVars, histVars,
                      Promised!streamVars
  <2>4. CASE \/ \E n \in SendSizes : SendCall(n)
             \/ \E a \in acks : OnAckInWindow(a) \/ OnAckPrevWindow(a) \/ OnAckElsewhere(a)
             \/ UNCHANGED vars
    BY <2>1, <2>4, ZenonT(30) DEF SendCall, OnAckInWindow, OnAckPrevWindow, OnAckElsewhere, vars, clientVars,
                      netVars, histVars, Promised!streamVars
  <2>5. CASE \E s \in wire : PeerReceive(s)
    BY <2>1, <2>5, PeerGives, ZenonT(30)
  <2> QED BY <2>2, <2>3, <2>4, <2>5, ZenonT(30) DEF Next
<1> QED BY <1>1, <1>2, ZenonT(30)

(* The send half of a socket is a byte stream through a buffer of one       *)
(* window: what send() put in comes to the peer in order and once, and      *)
(* never more than a window of it is on the way, until the send worker uses *)
(* a message whose memory was reused.                                       *)
THEOREM SenderImplementsStream == Spec => ImplementsStream
<1>1. Init => Promised!Init
  BY ZenonT(30) DEF Init, Promised!Init
<1>2. IInv /\ IInv' /\ [Next]_vars => [Promised!Next]_(Promised!streamVars)
  BY StepIsStreamStep, ZenonT(30)
<1> QED BY <1>1, <1>2, SenderInvariant, PTL DEF Spec, ImplementsStream, Promised!Spec
=============================================================================
