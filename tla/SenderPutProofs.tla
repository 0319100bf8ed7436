--------------------------- MODULE SenderPutProofs ---------------------------
(***************************************************************************)
(* The steps of send() that put a message into the buffer (put_window and  *)
(* put of send_buffer_processing) keep Good: the new message lies behind   *)
(* the old ones, covers none of those that may still be sent, and carries  *)
(* the bytes of the stream that its number stands for.                     *)
(***************************************************************************)
EXTENDS SenderSendProofs

(* Most steps follow at once; the limit leaves room for a busy machine. *)
USE SMTT(30)

Putting(n) ==
    /\ PutMsg(n) /\ n \in 1 .. WinSz /\ n <= data /\ n <= sent_sz(win)
    /\ cpc \in {"nagles", "wait_empty"} /\ cpc' = "nagles" /\ ~crashed
    /\ UNCHANGED <<state, isn, lock, empty_notif, congVars, frVars, workerVars, left, bound, seg,
                   netVars, histVars>>

(* A message fits: its cells lie in the buffer and its numbers in the stream. *)
LEMMA PutNumbers ==
  ASSUME Good, NEW n, Putting(n)
  PROVE  /\ n \in Nat \ {0} /\ n <= WinSz /\ state # "CLOSED"
         /\ win.sent_off \in 0 .. WinSz - 1 /\ win.sent_off + n \in 0 .. WinSz
         /\ off_map[win.sent_off] = end_off /\ end_off \in Nat
         /\ end_off + n + 1 <= 2 * (win.sent_off + n) /\ end_off + n + 1 <= 2 * WinSz
         /\ put + n <= StreamLen /\ put + data + left - bound <= StreamLen /\ bound <= left
         /\ tcp_seq(sent_begin(win)) = isn + put /\ isn + put \in 0 .. Modulo - 1
         /\ put % WinSz = win.sent_off /\ data <= sent_sz(win)
<1>1. n \in 1 .. WinSz /\ n <= data /\ n <= sent_sz(win) /\ cpc \in {"nagles", "wait_empty"}
  BY ZenonT(30) DEF Putting
<1>2. /\ isn \in Nat /\ win.start \in Nat /\ win.sz = WinSz /\ win.sent_off \in 0 .. WinSz
      /\ Base \in Nat /\ put \in 0 .. StreamLen /\ win.start = isn + Base
      /\ put = Base + win.sent_off /\ end_off \in Cells
  BY Numbers, ZenonT(30) DEF Good
<1>3. /\ left \in Nat /\ bound \in 0 .. WinSz /\ data \in 0 .. WinSz
  BY Counters, ZenonT(30) DEF Good
<1>4. /\ end_off <= 2 * win.sent_off /\ off_map[win.sent_off] = end_off /\ Base % WinSz = 0
  BY ZenonT(30) DEF Good, Layout
<1>5. bound <= left /\ data <= sent_sz(win) /\ put + data + left - bound <= StreamLen
  BY <1>1, ZenonT(30) DEF Good, Round, Waiting
<1>6. state # "CLOSED" /\ isn + StreamLen + WinSz < Modulo
  BY <1>1, ZenonT(30) DEF Good, Closed
<1>7. n \in Nat \ {0} /\ n <= WinSz /\ sent_sz(win) = WinSz - win.sent_off
  BY <1>1, <1>2, Constants DEF sent_sz
<1>8. win.sent_off \in 0 .. WinSz - 1 /\ win.sent_off + n \in 0 .. WinSz
  BY <1>1, <1>2, <1>7, Constants
<1>9. /\ end_off \in Nat /\ end_off + n + 1 <= 2 * (win.sent_off + n)
      /\ end_off + n + 1 <= 2 * WinSz
  BY <1>2, <1>4, <1>7, <1>8, Constants DEF Cells
<1>10. put + n <= StreamLen
  BY <1>1, <1>2, <1>3, <1>5, <1>7, Constants
<1>11. isn + put \in 0 .. Modulo - 1 /\ tcp_seq(sent_begin(win)) = isn + put
  <2>1. sent_begin(win) = isn + put /\ isn + put \in Nat /\ isn + put < Modulo
    BY <1>2, <1>6, Constants DEF sent_begin
  <2>2. tcp_seq(isn + put) = isn + put
    BY <2>1, Remainder, ZenonT(30)
  <2> QED BY <2>1, <2>2, Constants
<1>12. put % WinSz = win.sent_off
  BY <1>2, <1>4, <1>8, PutModWindow, ZenonT(30)
<1> QED BY <1>4, <1>5, <1>6, <1>7, <1>8, <1>9, <1>10, <1>11, <1>12, ZenonT(30)

LEMMA PutEffect ==
  ASSUME Good, NEW n, Putting(n)
  PROVE  /\ UNCHANGED <<state, isn, lock, empty_notif, congVars, frVars, wpc, cur, scan, left, bound,
                        seg, wire, acks, peer, dups, fails, losses, stale, crashed>>
         /\ end_off' = end_off + n + 1 /\ data' = data - n /\ put' = put + n
         /\ off_map' = [off_map EXCEPT ![win.sent_off + n] = end_off + n + 1]
         /\ win'.start = win.start /\ win'.off = win.off /\ win'.sz = win.sz
         /\ win'.sent_off = win.sent_off + n /\ DOMAIN win' = DOMAIN win
         /\ futures' = Append(futures, end_off)
         /\ not_empty_notif' = not_empty_notif + (IF sent_buf_empty THEN 1 ELSE 0)
         /\ Base' = Base /\ Acked' = Acked
<1>1. off_map[win.sent_off] = end_off
  BY PutNumbers, ZenonT(30)
<1>2. win \in [start : Nat, off : 0 .. WinSz, sent_off : 0 .. WinSz, sz : {WinSz}]
  BY ZenonT(30) DEF Good, Types, TypeOK
<1>3. win' = [win EXCEPT !.sent_off = win.sent_off + n]
  BY ZenonT(30) DEF Putting, PutMsg
<1>4. /\ win'.start = win.start /\ win'.off = win.off /\ win'.sz = win.sz
      /\ win'.sent_off = win.sent_off + n /\ DOMAIN win' = DOMAIN win
  BY <1>2, <1>3, ZenonT(30)
<1>5. UNCHANGED <<state, isn, lock, empty_notif, congVars, frVars, wpc, cur, scan, left, bound,
                  seg, wire, acks, peer, dups, fails, losses, stale, crashed>>
  BY ZenonT(30) DEF Putting, workerVars, netVars, histVars
<1>6. Base' = Base /\ Acked' = Acked
  BY <1>4, <1>5, ZenonT(30) DEF Base, Acked
<1>7. /\ end_off' = end_off + n + 1 /\ data' = data - n /\ put' = put + n
      /\ off_map' = [off_map EXCEPT ![win.sent_off + n] = end_off + n + 1]
      /\ futures' = Append(futures, end_off)
      /\ not_empty_notif' = not_empty_notif + (IF sent_buf_empty THEN 1 ELSE 0)
  BY <1>1, ZenonT(30) DEF Putting, PutMsg, PutMsgAt
<1> QED BY <1>4, <1>5, <1>6, <1>7, ZenonT(30)

(* The cells: the new message, and the old ones it does not cover. *)
LEMMA PutCells ==
  ASSUME Good, NEW n, Putting(n)
  PROVE  /\ end_off \in Cells /\ mem'[end_off] = HeaderCell(isn + put, n)
         /\ mem'[end_off].len = n /\ mem'[end_off].used = FALSE /\ mem'[end_off].sem = 0
         /\ \A q \in Cells : q = end_off => Header(q)' /\ From(q)' = put /\ To(q)' = put + n
         /\ \A i \in 1 .. n : end_off + i \in Cells /\ mem'[end_off + i] = DataCell(put + i)
         /\ \A q \in Cells : q < end_off \/ q > end_off + n => mem'[q] = mem[q]
         /\ \A q \in Cells : Header(q)' =>
              \/ q = end_off
              \/ /\ q < end_off \/ q > end_off + n
                 /\ Header(q) /\ From(q)' = From(q) /\ To(q)' = To(q) /\ mem'[q] = mem[q]
<1> DEFINE p == end_off
<1>1. /\ n \in Nat \ {0} /\ p \in Nat /\ p + n + 1 <= 2 * WinSz /\ off_map[win.sent_off] = p
      /\ tcp_seq(sent_begin(win)) = isn + put
  BY PutNumbers, ZenonT(30)
<1>2. mem' = [q \in Cells |-> IF q = p THEN HeaderCell(isn + put, n)
                              ELSE IF q > p /\ q <= p + n THEN DataCell(put + q - p)
                              ELSE mem[q]]
  BY <1>1, ZenonT(30) DEF Putting, PutMsg, PutMsgAt
<1>3. p \in Cells /\ \A i \in 1 .. n : p + i \in Cells
  BY <1>1, Constants DEF Cells
<1>4. isn' = isn /\ isn \in Nat /\ put \in 0 .. StreamLen
  BY PutEffect, Numbers, ZenonT(30) DEF Good
<1> HIDE DEF p
<1>5. mem'[p] = HeaderCell(isn + put, n)
  BY <1>2, <1>3, ZenonT(30)
<1>6. /\ HeaderCell(isn + put, n).kind = "header" /\ HeaderCell(isn + put, n).seq = isn + put
      /\ HeaderCell(isn + put, n).len = n /\ HeaderCell(isn + put, n).used = FALSE
      /\ HeaderCell(isn + put, n).sem = 0
  BY ZenonT(30) DEF HeaderCell, NoCell
<1>7. ASSUME NEW q \in Cells, q = p PROVE Header(q)' /\ From(q)' = put /\ To(q)' = put + n
  <2>1. mem'[q].kind = "header" /\ mem'[q].seq = isn + put /\ mem'[q].len = n
    BY <1>5, <1>6, <1>7, ZenonT(30)
  <2>2. Header(q)' /\ From(q)' = isn + put - isn /\ To(q)' = isn + put - isn + n
    BY <1>4, <2>1 DEF Header, From, To
  <2> QED BY <1>4, <2>2
<1>8. \A i \in 1 .. n : mem'[p + i] = DataCell(put + i)
  <2> SUFFICES ASSUME NEW i \in 1 .. n PROVE mem'[p + i] = DataCell(put + i)
    BY ZenonT(30)
  <2>1. p + i \in Cells /\ p + i # p /\ p + i > p /\ p + i <= p + n /\ put + (p + i) - p = put + i
    BY <1>1, <1>3, <1>4
  <2> QED BY <1>2, <2>1, ZenonT(30)
<1>9. \A q \in Cells : q < p \/ q > p + n => mem'[q] = mem[q]
  BY <1>1, <1>2 DEF Cells
<1>10. ASSUME NEW q \in Cells, Header(q)', q # p
       PROVE  /\ q < p \/ q > p + n
              /\ Header(q) /\ From(q)' = From(q) /\ To(q)' = To(q) /\ mem'[q] = mem[q]
  <2>1. q \in Nat
    BY DEF Cells
  <2>2. ~(q > p /\ q <= p + n)
    <3> SUFFICES ASSUME q > p, q <= p + n PROVE FALSE
      BY ZenonT(30)
    <3>1. mem'[q] = DataCell(put + q - p)
      BY <1>2, <1>10, ZenonT(30)
    <3> QED BY <1>10, <3>1, ZenonT(30) DEF Header, DataCell, NoCell
  <2>3. q < p \/ q > p + n
    BY <1>1, <1>10, <2>1, <2>2
  <2>4. mem'[q] = mem[q]
    BY <1>9, <2>3, ZenonT(30)
  <2> QED BY <1>4, <1>10, <2>3, <2>4, ZenonT(30) DEF Header, From, To
<1> QED BY <1>3, <1>4, <1>5, <1>6, <1>7, <1>8, <1>9, <1>10, ZenonT(30) DEF p

LEMMA PutTypes == ASSUME Good, NEW n, Putting(n) PROVE Types'
<1> DEFINE R == [kind : {"none", "header", "data"}, seq : 0 .. Modulo - 1,
                 len : 0 .. WinSz, used : BOOLEAN, sem : Nat, pos : 0 .. StreamLen]
<1>1. /\ n \in Nat \ {0} /\ n <= WinSz /\ win.sent_off + n \in 0 .. WinSz /\ end_off \in Nat
      /\ end_off + n + 1 <= 2 * WinSz /\ put + n <= StreamLen /\ isn + put \in 0 .. Modulo - 1
  BY PutNumbers, ZenonT(30)
<1>2. /\ UNCHANGED <<state, isn, lock, empty_notif, congVars, frVars, wpc, cur, scan, left, bound,
                     seg, wire, acks, peer, dups, fails, losses, stale, crashed>>
      /\ end_off' = end_off + n + 1 /\ data' = data - n /\ put' = put + n
      /\ off_map' = [off_map EXCEPT ![win.sent_off + n] = end_off + n + 1]
      /\ futures' = Append(futures, end_off)
      /\ not_empty_notif' = not_empty_notif + (IF sent_buf_empty THEN 1 ELSE 0)
  BY PutEffect, ZenonT(30)
<1>3. put \in 0 .. StreamLen /\ data \in 0 .. WinSz /\ n <= data /\ not_empty_notif \in Nat
  BY Counters, ZenonT(30) DEF Good, Putting
<1>4. mem' \in [Cells -> R]
  <2>1. mem \in [Cells -> R] /\ DOMAIN mem' = Cells /\ mem' = [q \in Cells |-> mem'[q]]
    BY ZenonT(30) DEF Good, Types, TypeOK, Putting, PutMsg, PutMsgAt
  <2>2. HeaderCell(isn + put, n) \in R
    <3>1. n \in 0 .. WinSz /\ 0 \in 0 .. StreamLen
      BY <1>1, Constants
    <3> QED BY <1>1, <3>1, ZenonT(30) DEF HeaderCell, NoCell
  <2>3. \A i \in 1 .. n : DataCell(put + i) \in R
    <3> SUFFICES ASSUME NEW i \in 1 .. n PROVE DataCell(put + i) \in R
      BY ZenonT(30)
    <3>1. put + i \in 0 .. StreamLen /\ 0 \in 0 .. Modulo - 1 /\ 0 \in 0 .. WinSz
      BY <1>1, <1>3, Constants
    <3> QED BY <3>1, ZenonT(30) DEF DataCell, NoCell
  <2>4. ASSUME NEW q \in Cells PROVE mem'[q] \in R
    <3>1. q \in Nat
      BY DEF Cells
    <3>2. CASE q = end_off
      BY <2>2, <3>2, PutCells, ZenonT(30)
    <3>3. CASE q > end_off /\ q <= end_off + n
      <4>1. q - end_off \in 1 .. n /\ end_off + (q - end_off) = q
        BY <1>1, <3>1, <3>3
      <4>2. mem'[end_off + (q - end_off)] = DataCell(put + (q - end_off))
        BY <4>1, PutCells, ZenonT(30)
      <4>3. mem'[q] = DataCell(put + (q - end_off))
        BY <4>1, <4>2, ZenonT(30)
      <4> QED BY <2>3, <4>1, <4>3, ZenonT(30)
    <3>4. CASE q < end_off \/ q > end_off + n
      BY <2>1, <3>4, PutCells, ZenonT(30)
    <3> QED BY <1>1, <3>1, <3>2, <3>3, <3>4
  <2> HIDE DEF R
  <2> QED BY <2>1, <2>4, ZenonT(30)
<1>5. end_off' \in Cells /\ off_map' \in [0 .. MapSz - 1 -> Cells]
  <2>1. end_off + n + 1 \in Cells
    BY <1>1, Constants DEF Cells
  <2>2. off_map \in [0 .. MapSz - 1 -> Cells]
    BY ZenonT(30) DEF Good, Types, TypeOK
  <2> QED BY <1>2, <2>1, <2>2, ZenonT(30)
<1>6. futures' \in Seq(Cells)
  <2>1. futures \in Seq(Cells) /\ end_off \in Cells
    BY PutCells, ZenonT(30) DEF Good, Types, TypeOK
  <2> QED BY <1>2, <2>1
<1>7. /\ put' \in 0 .. StreamLen /\ data' \in 0 .. WinSz /\ not_empty_notif' \in Nat
  BY <1>1, <1>2, <1>3, Constants
<1>8. win' \in [start : Nat, off : 0 .. WinSz, sent_off : 0 .. WinSz, sz : {WinSz}]
  <2>1. win \in [start : Nat, off : 0 .. WinSz, sent_off : 0 .. WinSz, sz : {WinSz}]
    BY ZenonT(30) DEF Good, Types, TypeOK
  <2>2. win' = [win EXCEPT !.sent_off = win.sent_off + n]
    BY ZenonT(30) DEF Putting, PutMsg
  <2> QED BY <1>1, <2>1, <2>2, ZenonT(30)
<1>9. cpc' = "nagles"
  BY ZenonT(30) DEF Putting
<1>10. WinTypes'
  BY <1>2, <1>8, TypesParts, ZenonT(30) DEF Good, WinTypes
<1>11. BufTypes'
  BY <1>4, <1>5, TypesParts, ZenonT(30) DEF Good, BufTypes
<1>12. SemTypes'
  BY <1>2, <1>7, TypesParts, ZenonT(30) DEF Good, SemTypes
<1>13. ClientTypes'
  BY <1>2, <1>6, <1>7, <1>9, TypesParts, ZenonT(30) DEF Good, ClientTypes
<1> QED BY <1>2, <1>10, <1>11, <1>12, <1>13, TypesKept, ZenonT(30) DEF Good, workerVars, netVars, histVars

(* The messages of the window after the step: the old ones and the new one. *)
LEMMA PutLive ==
  ASSUME Good, NEW n, Putting(n), NEW q \in Cells, Live(q)'
  PROVE  \/ q = end_off /\ From(q)' = put /\ To(q)' = put + n
         \/ /\ q < end_off /\ Live(q) /\ From(q)' = From(q) /\ To(q)' = To(q) /\ mem'[q] = mem[q]
            /\ From(q) \in Nat /\ To(q) \in Nat /\ To(q) <= put /\ From(q) < To(q)
            /\ \A i \in 1 .. mem[q].len : q + i \in Cells /\ q + i < end_off
                                          /\ mem'[q + i] = mem[q + i]
<1>1. Header(q)' /\ q < end_off + n + 1 /\ n \in Nat \ {0} /\ end_off \in Nat /\ q \in Nat
  BY PutEffect, PutNumbers DEF Live, Cells
<1>2. CASE q = end_off
  BY <1>2, PutCells, ZenonT(30)
<1>3. CASE q # end_off
  <2>1. /\ q < end_off \/ q > end_off + n
        /\ Header(q) /\ From(q)' = From(q) /\ To(q)' = To(q) /\ mem'[q] = mem[q]
    BY <1>1, <1>3, PutCells, ZenonT(30)
  <2>2. q < end_off
    BY <1>1, <2>1
  <2>3. Live(q)
    BY <2>1, <2>2, ZenonT(30) DEF Live
  <2>4. From(q) \in Nat /\ To(q) \in Nat /\ To(q) <= put /\ From(q) < To(q)
    BY <2>1, HeaderSpan, ZenonT(30) DEF Good
  <2>5. q + mem[q].len < end_off /\ q + mem[q].len \in Cells /\ mem[q].len \in Nat
    BY <2>1, <2>3, CellType DEF Good, Layout
  <2>6. ASSUME NEW i \in 1 .. mem[q].len PROVE q + i \in Cells /\ q + i < end_off
    <3>1. i \in 0 .. mem[q].len
      BY <2>5
    <3>2. q + i \in Cells
      BY <2>5, <3>1, WithinCells, ZenonT(30)
    <3> QED BY <1>1, <2>5, <3>2
  <2>7. \A i \in 1 .. mem[q].len : mem'[q + i] = mem[q + i]
    BY <2>6, PutCells, ZenonT(30)
  <2> QED BY <2>1, <2>2, <2>3, <2>4, <2>6, <2>7, ZenonT(30)
<1> QED BY <1>2, <1>3, ZenonT(30)

LEMMA PutLayout == ASSUME Good, NEW n, Putting(n) PROVE Layout'
<1>1. /\ n \in Nat \ {0} /\ win.sent_off \in 0 .. WinSz - 1 /\ win.sent_off + n \in 0 .. WinSz
      /\ end_off \in Nat /\ end_off + n + 1 <= 2 * (win.sent_off + n)
      /\ off_map[win.sent_off] = end_off
  BY PutNumbers, ZenonT(30)
<1>2. /\ isn' = isn /\ end_off' = end_off + n + 1 /\ put' = put + n
      /\ off_map' = [off_map EXCEPT ![win.sent_off + n] = end_off + n + 1]
      /\ win'.off = win.off /\ win'.sent_off = win.sent_off + n /\ Base' = Base
  BY PutEffect, ZenonT(30)
<1>3. /\ Base \in Nat /\ put \in Nat /\ win.off \in 0 .. WinSz /\ put = Base + win.sent_off
      /\ win.off <= win.sent_off /\ Base % WinSz = 0
  BY Numbers DEF Good, Layout
<1>4. off_map \in [0 .. MapSz - 1 -> Cells] /\ win.sent_off + n \in 0 .. MapSz - 1
  <2>1. off_map \in [0 .. MapSz - 1 -> Cells]
    BY ZenonT(30) DEF Good, Types, TypeOK
  <2> QED BY <1>1, <2>1, Constants
<1>5. off_map'[win.sent_off + n] = end_off + n + 1
      /\ \A o \in 0 .. MapSz - 1 : o # win.sent_off + n => off_map'[o] = off_map[o]
  BY <1>2, <1>4, ZenonT(30)
<1>6. /\ win'.off <= win'.sent_off /\ Base' \in Nat /\ Base' % WinSz = 0
      /\ put' = Base' + win'.sent_off
      /\ end_off' <= 2 * win'.sent_off /\ off_map'[win'.sent_off] = end_off'
  BY <1>1, <1>2, <1>3, <1>5
<1>7. ASSUME NEW q \in Cells, Header(q)'
      PROVE  /\ mem'[q].len > 0 /\ q + mem'[q].len \in Cells
             /\ \A i \in 1 .. mem'[q].len : mem'[q + i].kind = "data"
             /\ q >= end_off' => To(q)' <= Base'
  <2>0. q \in Nat
    BY DEF Cells
  <2>1. CASE q = end_off
    <3>0. end_off \in Cells /\ mem'[end_off].len = n
      BY PutCells, ZenonT(30)
    <3>1. mem'[q].len = n /\ n \in 1 .. n /\ ~(q >= end_off')
      BY <1>1, <1>2, <2>1, <3>0
    <3>2. \A i \in 1 .. n : q + i \in Cells /\ mem'[q + i] = DataCell(put + i)
      BY <2>1, PutCells, ZenonT(30)
    <3>3. \A i \in 1 .. n : mem'[q + i].kind = "data"
      BY <3>2, ZenonT(30) DEF DataCell, NoCell
    <3>4. q + n \in Cells /\ n > 0
      BY <1>1, <3>1, <3>2
    <3> QED BY <3>1, <3>3, <3>4, ZenonT(30)
  <2>2. CASE q # end_off
    <3>1. /\ q < end_off \/ q > end_off + n
          /\ Header(q) /\ From(q)' = From(q) /\ To(q)' = To(q) /\ mem'[q] = mem[q]
      BY <1>7, <2>2, PutCells, ZenonT(30)
    <3>2. /\ mem[q].len > 0 /\ q + mem[q].len \in Cells /\ mem[q].len \in Nat
          /\ \A i \in 1 .. mem[q].len : mem[q + i].kind = "data"
          /\ q >= end_off => To(q) <= Base
          /\ q < end_off => q + mem[q].len < end_off
      BY <3>1, CellType DEF Good, Layout, Live
    <3>3. ASSUME NEW i \in 1 .. mem[q].len PROVE mem'[q + i].kind = "data"
      <4>1. i \in 0 .. mem[q].len
        BY <3>2
      <4>2. q + i \in Cells
        BY <3>2, <4>1, WithinCells, ZenonT(30)
      <4>3. q + i < end_off \/ q + i > end_off + n
        BY <1>1, <2>0, <3>1, <3>2
      <4>4. mem'[q + i] = mem[q + i]
        BY <4>2, <4>3, PutCells, ZenonT(30)
      <4> QED BY <3>2, <4>4, ZenonT(30)
    <3>4. q >= end_off' => q >= end_off
      BY <1>1, <1>2, <2>0
    <3> QED BY <1>2, <3>1, <3>2, <3>3, <3>4, ZenonT(30)
  <2> QED BY <2>1, <2>2, ZenonT(30)
<1>8. ASSUME NEW q \in Cells, Live(q)'
      PROVE  /\ From(q)' >= Base' /\ To(q)' <= put' /\ off_map'[From(q)' - Base'] = q
             /\ q + mem'[q].len < end_off'
  <2>0. q \in Nat
    BY DEF Cells
  <2>1. CASE q = end_off
    <3>1. From(q)' = put /\ To(q)' = put + n /\ mem'[q].len = n
      BY <2>1, PutCells, ZenonT(30)
    <3>2. put - Base = win.sent_off /\ win.sent_off # win.sent_off + n
          /\ win.sent_off \in 0 .. MapSz - 1
      BY <1>1, <1>3, Constants
    <3>3. off_map'[put - Base] = q
      BY <1>1, <1>5, <2>1, <3>2, ZenonT(30)
    <3> QED BY <1>1, <1>2, <1>3, <2>1, <3>1, <3>3
  <2>2. CASE q # end_off
    <3>1. /\ Live(q) /\ From(q)' = From(q) /\ To(q)' = To(q) /\ mem'[q] = mem[q]
          /\ From(q) \in Nat /\ To(q) \in Nat /\ To(q) <= put /\ From(q) < To(q)
      BY <1>8, <2>2, PutLive, ZenonT(30)
    <3>2. From(q) >= Base /\ off_map[From(q) - Base] = q /\ q + mem[q].len < end_off
      BY <3>1, ZenonT(30) DEF Good, Layout
    <3>3. From(q) - Base \in 0 .. MapSz - 1 /\ From(q) - Base # win.sent_off + n
      BY <1>1, <1>3, <3>1, <3>2, Constants
    <3>4. off_map'[From(q) - Base] = q
      BY <1>5, <3>2, <3>3, ZenonT(30)
    <3>5. mem[q].len \in Nat
      BY CellType DEF Good
    <3> QED BY <1>1, <1>2, <1>3, <2>0, <3>1, <3>2, <3>4, <3>5
  <2> QED BY <2>1, <2>2, ZenonT(30)
<1>9. ASSUME NEW q \in Cells, NEW r \in Cells, Live(q)', Live(r)', q < r PROVE To(q)' <= From(r)'
  <2>0. q \in Nat /\ r \in Nat
    BY DEF Cells
  <2>1. q < end_off /\ Live(q) /\ To(q)' = To(q) /\ To(q) <= put /\ To(q) \in Nat
    <3>1. r <= end_off
      BY <1>1, <1>9, <2>0, PutLive
    <3>2. q # end_off
      BY <1>1, <1>9, <2>0, <3>1
    <3> QED BY <1>9, <3>2, PutLive, ZenonT(30)
  <2>2. CASE r = end_off
    <3>1. From(r)' = put
      BY <2>2, PutCells, ZenonT(30)
    <3> QED BY <2>1, <3>1, ZenonT(30)
  <2>3. CASE r # end_off
    <3>1. Live(r) /\ From(r)' = From(r)
      BY <1>9, <2>3, PutLive, ZenonT(30)
    <3> QED BY <1>9, <2>1, <3>1, ZenonT(30) DEF Good, Layout
  <2> QED BY <2>2, <2>3, ZenonT(30)
<1>10. ASSUME NEW m \in Base' .. put' - 1
       PROVE  \E q \in Cells : Live(q)' /\ From(q)' <= m /\ m < To(q)'
  <2>0. m \in Base .. put + n - 1 /\ m \in Int
    BY <1>1, <1>2, <1>3
  <2>1. CASE m < put
    <3>1. m \in Base .. put - 1
      BY <1>3, <2>0, <2>1
    <3>2. PICK q \in Cells : Live(q) /\ From(q) <= m /\ m < To(q)
      BY <3>1, ZenonT(30) DEF Good, Layout
    <3>3. q < end_off /\ Header(q) /\ q \in Nat
      BY <3>2 DEF Live, Cells
    <3>4. mem'[q] = mem[q]
      BY <3>3, PutCells, ZenonT(30)
    <3>5. q < end_off'
      BY <1>1, <1>2, <3>3
    <3>6. Live(q)' /\ From(q)' = From(q) /\ To(q)' = To(q)
      BY <1>2, <3>3, <3>4, <3>5, ZenonT(30) DEF Live, Header, From, To
    <3> QED BY <3>2, <3>6, ZenonT(30)
  <2>2. CASE ~(m < put)
    <3>1. end_off \in Cells /\ \A q \in Cells : q = end_off => Header(q)' /\ From(q)' = put /\ To(q)' = put + n
      BY PutCells, ZenonT(30)
    <3>2. PICK q \in Cells : q = end_off
      BY <3>1, ZenonT(30)
    <3>3. Header(q)' /\ From(q)' = put /\ To(q)' = put + n /\ q < end_off'
      BY <1>1, <1>2, <3>1, <3>2
    <3>4. Live(q)'
      BY <3>3, ZenonT(30) DEF Live
    <3> QED BY <1>1, <1>3, <2>0, <2>2, <3>3, <3>4
  <2> QED BY <2>1, <2>2, ZenonT(30)
<1> QED BY <1>6, <1>7, <1>8, <1>9, <1>10, ZenonT(30) DEF Layout

LEMMA PutSpans ==
  ASSUME Good, NEW n, Putting(n) PROVE Spans' \subseteq Spans \cup {<<put, put + n>>}
<1>1. isn' = isn /\ wire' = wire
  BY PutEffect, ZenonT(30)
<1>2. ASSUME NEW q \in Cells, Header(q)'
      PROVE  <<From(q)', To(q)'>> \in Spans \cup {<<put, put + n>>}
  <2>1. CASE q = end_off
    <3>1. From(q)' = put /\ To(q)' = put + n
      BY <2>1, PutCells, ZenonT(30)
    <3> QED BY <3>1, ZenonT(30)
  <2>2. CASE q # end_off
    <3>1. Header(q) /\ From(q)' = From(q) /\ To(q)' = To(q)
      BY <1>2, <2>2, PutCells, ZenonT(30)
    <3>2. <<From(q), To(q)>> \in Spans
      BY <3>1, HeaderSpan, ZenonT(30) DEF Good
    <3> QED BY <3>1, <3>2, ZenonT(30)
  <2> QED BY <2>1, <2>2, ZenonT(30)
<1>3. Spans' = {<<From(q)', To(q)'>> : q \in {c \in Cells : Header(c)'}}
                 \cup {<<s.seq - isn, s.seq - isn + Len(s.data)>> : s \in wire}
  BY <1>1, ZenonT(30) DEF Spans
<1>4. {<<s.seq - isn, s.seq - isn + Len(s.data)>> : s \in wire} \subseteq Spans
  BY ZenonT(30) DEF Spans
<1>5. {<<From(q)', To(q)'>> : q \in {c \in Cells : Header(c)'}} \subseteq Spans \cup {<<put, put + n>>}
  BY <1>2, ZenonT(30)
<1> QED BY <1>3, <1>4, <1>5, ZenonT(30)

LEMMA PutSpansOK ==
  ASSUME Good, NEW n, Putting(n)
  PROVE  SpansOK' /\ (\A m \in 0 .. put : Whole(m) => Whole(m)')
<1>1. n \in Nat \ {0} /\ win.sent_off + n \in 0 .. WinSz /\ put % WinSz = win.sent_off
      /\ win.sent_off \in 0 .. WinSz - 1
  BY PutNumbers, ZenonT(30)
<1>2. put \in Nat /\ put' = put + n
  BY PutEffect, Numbers DEF Good
<1>3. ASSUME NEW x \in Spans' PROVE x = <<put, put + n>> \/ x \in Spans
  BY PutSpans, ZenonT(30)
<1>4. ASSUME NEW x \in Spans
      PROVE  /\ x[1] \in Nat /\ x[2] \in Nat /\ x[1] < x[2] /\ x[2] <= put
             /\ (x[1] % WinSz) + (x[2] - x[1]) <= WinSz
  BY ZenonT(30) DEF Good, SpansOK
<1>5. ASSUME NEW x \in Spans'
      PROVE  /\ x[1] \in Nat /\ x[2] \in Nat /\ x[1] < x[2] /\ x[2] <= put'
             /\ (x[1] % WinSz) + (x[2] - x[1]) <= WinSz
  <2>1. CASE x \in Spans
    BY <1>1, <1>2, <1>4, <2>1
  <2>2. CASE x = <<put, put + n>>
    <3>1. x[1] = put /\ x[2] = put + n
      BY <2>2, ZenonT(30)
    <3>2. put + n - put = n /\ win.sent_off + n <= WinSz
      BY <1>1, <1>2, Constants
    <3> QED BY <1>1, <1>2, <3>1, <3>2
  <2> QED BY <1>3, <2>1, <2>2, ZenonT(30)
<1>6. ASSUME NEW x \in Spans', NEW y \in Spans' PROVE x = y \/ x[2] <= y[1] \/ y[2] <= x[1]
  <2>1. CASE x \in Spans /\ y \in Spans
    BY <2>1, ZenonT(30) DEF Good, SpansOK
  <2>2. CASE x \in Spans /\ y = <<put, put + n>>
    <3>1. y[1] = put /\ x[2] <= put
      BY <1>4, <2>2, ZenonT(30)
    <3> QED BY <3>1, ZenonT(30)
  <2>3. CASE y \in Spans /\ x = <<put, put + n>>
    <3>1. x[1] = put /\ y[2] <= put
      BY <1>4, <2>3, ZenonT(30)
    <3> QED BY <3>1, ZenonT(30)
  <2> QED BY <1>3, <2>1, <2>2, <2>3, ZenonT(30)
<1>7. ASSUME NEW m \in 0 .. put, Whole(m) PROVE Whole(m)'
  <2>1. ASSUME NEW x \in Spans' PROVE m <= x[1] \/ x[2] <= m
    <3>1. CASE x \in Spans
      BY <1>7, <3>1, ZenonT(30) DEF Whole
    <3>2. CASE x = <<put, put + n>>
      <4>1. x[1] = put
        BY <3>2, ZenonT(30)
      <4> QED BY <1>2, <4>1
    <3> QED BY <1>3, <3>1, <3>2, ZenonT(30)
  <2> QED BY <2>1, ZenonT(30) DEF Whole
<1> QED BY <1>5, <1>6, <1>7, ZenonT(30) DEF SpansOK

LEMMA PutPlaces == ASSUME Good, NEW n, Putting(n) PROVE Places'
<1>1. /\ UNCHANGED <<isn, acks, peer>> /\ Acked' = Acked /\ put' = put + n
  BY PutEffect, ZenonT(30)
<1>2. Acked \in Nat /\ Len(peer) \in Nat /\ put \in Nat /\ n \in Nat
  BY Numbers, PutNumbers DEF Good
<1>3. Acked <= Len(peer) /\ Len(peer) <= put /\ Whole(Acked) /\ Whole(Len(peer))
  BY ZenonT(30) DEF Good, Places
<1>4. \A m \in 0 .. put : Whole(m) => Whole(m)'
  BY PutSpansOK, ZenonT(30)
<1>5. Whole(Acked)'
  <2> DEFINE k == Acked
  <2>1. k \in 0 .. put /\ Whole(k)
    BY <1>2, <1>3
  <2>2. \A x \in Spans' : k <= x[1] \/ x[2] <= k
    <3> HIDE DEF k
    <3>1. PICK m \in 0 .. put : m = k
      BY <2>1, ZenonT(30)
    <3>2. Whole(m)'
      BY <1>4, <2>1, <3>1, ZenonT(30)
    <3> QED BY <3>1, <3>2, ZenonT(30) DEF Whole
  <2> QED BY <1>1, <2>2, ZenonT(30) DEF Whole
<1>6. Whole(Len(peer))'
  <2> DEFINE k == Len(peer)
  <2>1. k \in 0 .. put /\ Whole(k)
    BY <1>2, <1>3
  <2>2. \A x \in Spans' : k <= x[1] \/ x[2] <= k
    <3> HIDE DEF k
    <3>1. PICK m \in 0 .. put : m = k
      BY <2>1, ZenonT(30)
    <3>2. Whole(m)'
      BY <1>4, <2>1, <3>1, ZenonT(30)
    <3> QED BY <3>1, <3>2, ZenonT(30) DEF Whole
  <2> QED BY <1>1, <2>2, ZenonT(30) DEF Whole
<1>7. ASSUME NEW a \in acks'
      PROVE  /\ a.win \in 1 .. WinSz
             /\ \E m \in 0 .. Len(peer') : Whole(m)' /\ a.seq = tcp_seq(isn' + m + Modulo - 1)
  <2>1. a.win \in 1 .. WinSz
    BY <1>1, ZenonT(30) DEF Good, Places
  <2>2. PICK m \in 0 .. Len(peer) : Whole(m) /\ a.seq = tcp_seq(isn + m + Modulo - 1)
    BY <1>1, ZenonT(30) DEF Good, Places
  <2>3. m \in 0 .. put
    BY <1>2, <1>3
  <2>4. Whole(m)'
    BY <1>4, <2>2, <2>3, ZenonT(30)
  <2> QED BY <1>1, <2>1, <2>2, <2>4, ZenonT(30)
<1>8. Acked' <= Len(peer') /\ Len(peer') <= put'
  BY <1>1, <1>2, <1>3
<1> QED BY <1>5, <1>6, <1>7, <1>8, ZenonT(30) DEF Places

LEMMA PutData == ASSUME Good, NEW n, Putting(n) PROVE Data'
<1>1. UNCHANGED <<isn, wpc, cur, wire, peer>> /\ Acked' = Acked
  BY PutEffect, ZenonT(30)
<1>2. ASSUME NEW q \in Cells, Live(q)', To(q)' > Acked', NEW i \in 1 .. mem'[q].len
      PROVE  mem'[q + i].pos = From(q)' + i \/ (wpc' = "sendto" /\ cur' = q + i)
  <2>1. CASE q = end_off
    <3>1. mem'[q].len = n /\ From(q)' = put
      BY <2>1, PutCells, ZenonT(30)
    <3>2. mem'[q + i] = DataCell(put + i)
      BY <2>1, <3>1, PutCells, ZenonT(30)
    <3>3. DataCell(put + i).pos = put + i
      BY ZenonT(30) DEF DataCell, NoCell
    <3> QED BY <3>1, <3>2, <3>3, ZenonT(30)
  <2>2. CASE q # end_off
    <3>1. /\ Live(q) /\ From(q)' = From(q) /\ To(q)' = To(q) /\ mem'[q] = mem[q]
          /\ \A j \in 1 .. mem[q].len : mem'[q + j] = mem[q + j]
      BY <1>2, <2>2, PutLive, ZenonT(30)
    <3>2. To(q) > Acked /\ i \in 1 .. mem[q].len
      BY <1>1, <1>2, <3>1, ZenonT(30)
    <3>3. mem[q + i].pos = From(q) + i \/ (wpc = "sendto" /\ cur = q + i)
      BY <3>1, <3>2, ZenonT(30) DEF Good, Data
    <3> QED BY <1>1, <3>1, <3>2, <3>3, ZenonT(30)
  <2> QED BY <2>1, <2>2, ZenonT(30)
<1>3. \A s \in wire' : s.seq - isn' >= Len(peer') =>
        \A i \in 1 .. Len(s.data) : s.data[i] = s.seq - isn' + i
  BY <1>1, ZenonT(30) DEF Good, Data
<1> QED BY <1>2, <1>3, ZenonT(30) DEF Data

LEMMA PutWritten == ASSUME Good, NEW n, Putting(n) PROVE Written'
<1>1. /\ n \in Nat \ {0} /\ win.sent_off + n \in 0 .. WinSz /\ win.sent_off \in 0 .. WinSz - 1
      /\ off_map[win.sent_off] = end_off /\ end_off \in Nat
  BY PutNumbers, ZenonT(30)
<1>2. /\ UNCHANGED <<wpc, cur>> /\ win'.sent_off = win.sent_off + n
      /\ off_map' = [off_map EXCEPT ![win.sent_off + n] = end_off + n + 1]
  BY PutEffect, ZenonT(30)
<1>3. off_map \in [0 .. MapSz - 1 -> Cells] /\ cur \in Cells
  BY ZenonT(30) DEF Good, Types, TypeOK
<1>4. ASSUME NEW q \in Cells, mem[q].kind # "none" \/ q = end_off PROVE mem'[q].kind # "none"
  <2>0. q \in Nat
    BY DEF Cells
  <2>1. CASE q = end_off
    <3>1. mem'[q] = HeaderCell(isn + put, n)
      BY <2>1, PutCells, ZenonT(30)
    <3> QED BY <3>1, ZenonT(30) DEF HeaderCell, NoCell
  <2>2. CASE q > end_off /\ q <= end_off + n
    <3>1. q - end_off \in 1 .. n /\ end_off + (q - end_off) = q
      BY <1>1, <2>0, <2>2
    <3>2. mem'[end_off + (q - end_off)] = DataCell(put + (q - end_off))
      BY <3>1, PutCells, ZenonT(30)
    <3>3. mem'[q] = DataCell(put + (q - end_off))
      BY <3>1, <3>2, ZenonT(30)
    <3> QED BY <3>3, ZenonT(30) DEF DataCell, NoCell
  <2>3. CASE q < end_off \/ q > end_off + n
    <3>1. mem'[q] = mem[q]
      BY <2>3, PutCells, ZenonT(30)
    <3>2. q # end_off
      BY <1>1, <2>0, <2>3
    <3> QED BY <1>4, <3>1, <3>2, ZenonT(30)
  <2> QED BY <1>1, <2>0, <2>1, <2>2, <2>3
<1>5. ASSUME NEW o \in 0 .. WinSz - 1, o # win'.sent_off
      PROVE  mem'[off_map'[o]].kind # "none"
  <2>1. o \in 0 .. MapSz - 1
    BY Constants
  <2>2. off_map'[o] = off_map[o] /\ off_map[o] \in Cells
    BY <1>2, <1>3, <1>5, <2>1, ZenonT(30)
  <2>3. CASE o = win.sent_off
    BY <1>1, <1>4, <2>2, <2>3, ZenonT(30)
  <2>4. CASE o # win.sent_off
    <3>1. mem[off_map[o]].kind # "none" \/ (put = 0 /\ off_map[o] = 0)
      BY <2>4, ZenonT(30) DEF Good, Written
    <3>2. put = 0 => end_off = 0
      <4>1. put = Base + win.sent_off /\ Base \in Nat /\ end_off <= 2 * win.sent_off
        BY Numbers, ZenonT(30) DEF Good, Layout
      <4> QED BY <1>1, <4>1
    <3> QED BY <1>4, <2>2, <3>1, <3>2, ZenonT(30)
  <2> QED BY <2>3, <2>4, ZenonT(30)
<1>6. wpc' \in {"sendto", "poll"} => mem'[cur'].kind # "none"
  BY <1>2, <1>3, <1>4, ZenonT(30) DEF Good, Written
<1> QED BY <1>5, <1>6, ZenonT(30) DEF Written

LEMMA PutSignalled == ASSUME Good, NEW n, Putting(n) PROVE Signalled'
<1>1. Acked' = Acked /\ futures' = Append(futures, end_off) /\ put' = put + n
      /\ end_off' = end_off + n + 1 /\ isn' = isn
  BY PutEffect, ZenonT(30)
<1>2. ASSUME NEW q \in Cells, Live(q)', mem'[q].sem > 0 PROVE To(q)' <= Acked'
  <2>1. CASE q = end_off
    <3>1. mem'[q].sem = 0
      BY <2>1, PutCells, ZenonT(30)
    <3> QED BY <1>2, <3>1
  <2>2. CASE q # end_off
    <3>1. Live(q) /\ To(q)' = To(q) /\ mem'[q] = mem[q]
      BY <1>2, <2>2, PutLive, ZenonT(30)
    <3> QED BY <1>1, <1>2, <3>1, ZenonT(30) DEF Good, Signalled
  <2> QED BY <2>1, <2>2, ZenonT(30)
<1>3. futures \in Seq(Cells) /\ end_off \in Cells /\ end_off \in Nat /\ n \in Nat \ {0}
  BY PutCells, PutNumbers, ZenonT(30) DEF Good, Types, TypeOK
<1>4. futures' # << >> /\ futures'[Len(futures')] = end_off
  BY <1>1, <1>3
<1>5. mem'[end_off].kind = "header" /\ mem'[end_off].seq - isn' + mem'[end_off].len = put'
      /\ end_off < end_off'
  <2>1. /\ HeaderCell(isn + put, n).kind = "header" /\ HeaderCell(isn + put, n).seq = isn + put
        /\ HeaderCell(isn + put, n).len = n
    BY ZenonT(30) DEF HeaderCell, NoCell
  <2>2. mem'[end_off] = HeaderCell(isn + put, n)
    BY PutCells, ZenonT(30)
  <2>3. isn \in Nat /\ put \in Nat
    BY Numbers DEF Good
  <2>4. isn + put - isn + n = put + n
    BY <1>3, <2>3
  <2>5. end_off < end_off'
    BY <1>1, <1>3
  <2>6. /\ mem'[end_off].kind = "header" /\ mem'[end_off].seq = isn + put /\ mem'[end_off].len = n
    BY <2>1, <2>2, ZenonT(30)
  <2>7. mem'[end_off].seq - isn' + mem'[end_off].len = isn + put - isn + n
    BY <1>1, <1>3, <2>3, <2>6
  <2> QED BY <1>1, <2>4, <2>5, <2>6, <2>7, ZenonT(30)
<1>6. /\ Live(futures[Len(futures)])' /\ To(futures[Len(futures)])' = put'
  BY <1>4, <1>5, ZenonT(30) DEF Live, Header, To, From
<1> QED BY <1>2, <1>4, <1>6, ZenonT(30) DEF Signalled

LEMMA PutStep == ASSUME Good, NEW n, Putting(n) PROVE Good'
<1>1. /\ UNCHANGED <<state, isn, empty_notif, wpc, cur, left, bound, wire, acks, peer, fails, crashed>>
      /\ data' = data - n /\ put' = put + n
      /\ win'.sz = win.sz /\ win'.sent_off = win.sent_off + n /\ Acked' = Acked
  BY PutEffect, ZenonT(30)
<1>2. /\ n \in Nat \ {0} /\ state # "CLOSED" /\ put + data + left - bound <= StreamLen
      /\ bound <= left /\ data <= sent_sz(win)
  BY PutNumbers, ZenonT(30)
<1>3. cpc' = "nagles" /\ ~crashed
  BY ZenonT(30) DEF Putting
<1>4. Closed'
  BY <1>1, <1>2, ZenonT(30) DEF Good, Closed
<1>5. Used'
  <2> SUFFICES ASSUME fails' = 0, NEW q \in Cells, Live(q)', From(q)' >= Acked', mem'[q].used
               PROVE  wpc' \in {"sendto", "poll"} /\ cur' = q
    BY ZenonT(30) DEF Used
  <2>1. q # end_off
    <3> SUFFICES ASSUME q = end_off PROVE FALSE
      BY ZenonT(30)
    <3>1. mem'[q].used = FALSE
      BY PutCells, ZenonT(30)
    <3> QED BY <3>1, ZenonT(30)
  <2>2. Live(q) /\ From(q)' = From(q) /\ mem'[q] = mem[q]
    BY <2>1, PutLive, ZenonT(30)
  <2> QED BY <1>1, <2>2, ZenonT(30) DEF Good, Used
<1>6. Round'
  <2>1. /\ left \in Nat /\ bound \in 0 .. WinSz /\ data \in 0 .. WinSz /\ put \in 0 .. StreamLen
        /\ win.sz = WinSz /\ win.sent_off \in 0 .. WinSz
    BY Counters, Numbers, ZenonT(30) DEF Good
  <2>2. put' + data' + left' - bound' <= StreamLen /\ bound' <= left'
    BY <1>1, <1>2, <2>1, Constants
  <2>3. data' <= sent_sz(win')
    BY <1>1, <1>2, <2>1, Constants DEF sent_sz
  <2> QED BY <1>3, <2>2, <2>3, ZenonT(30) DEF Round, Waiting
<1>7. Retry'
  BY <1>1, <1>3, ZenonT(30) DEF Retry
<1> QED BY <1>4, <1>5, <1>6, <1>7, PutTypes, PutLayout, PutSpansOK, PutPlaces, PutData, PutWritten,
           PutSignalled, ZenonT(30) DEF Good

LEMMA NaglesPuts ==
  ASSUME Good, NaglesFull \/ WaitEmpty, ~crashed
  PROVE  UNCHANGED <<mem, end_off, off_map, win, futures, data, put>> \/ \E n : Putting(n)
<1>1. data \in 0 .. WinSz /\ seg \in 0 .. WinSz /\ Mtu \in Nat \ {0} /\ WinSz \in Nat
  BY Counters, Constants, ZenonT(30) DEF Good
<1>2. CASE NaglesFull
  <2>1. CASE sent_sz(win) < Mtu
    BY <1>2, <2>1, ZenonT(30) DEF NaglesFull
  <2>2. CASE ~(sent_sz(win) < Mtu)
    <3>1. Mtu \in 1 .. WinSz /\ Mtu <= data /\ Mtu <= sent_sz(win)
      <4>1. win.sz \in Nat /\ win.sent_off \in 0 .. WinSz
        BY Numbers, Constants, ZenonT(30) DEF Good
      <4>2. data >= Mtu
        BY <1>2, ZenonT(30) DEF NaglesFull, FullSegment
      <4>3. sent_sz(win) \in Int
        BY <4>1 DEF sent_sz
      <4> QED BY <1>1, <2>2, <4>2, <4>3
    <3>2. Putting(Mtu)
      BY <1>2, <2>2, <3>1, ZenonT(30) DEF NaglesFull, Putting
    <3> QED BY <3>2, ZenonT(30)
  <2> QED BY <2>1, <2>2, ZenonT(30)
<1>3. CASE WaitEmpty
  <2>1. CASE sent_buf_empty /\ seg > 0 /\ seg <= sent_sz(win)
    <3>1. cpc = "wait_empty" /\ cpc' = "nagles" /\ PutMsg(seg) /\ lock' = lock
      BY <1>3, <2>1, ZenonT(30) DEF WaitEmpty
    <3>2. seg <= data
      BY <3>1, ZenonT(30) DEF Good, Round, Waiting
    <3>3. seg \in 1 .. WinSz
      BY <1>1, <2>1
    <3>4. Putting(seg)
      BY <1>3, <2>1, <3>1, <3>2, <3>3, ZenonT(30) DEF WaitEmpty, Putting
    <3> QED BY <3>4, ZenonT(30)
  <2>2. CASE ~(sent_buf_empty /\ seg > 0 /\ seg <= sent_sz(win))
    BY <1>3, <2>2, ZenonT(30) DEF WaitEmpty
  <2> QED BY <2>1, <2>2, ZenonT(30)
<1> QED BY <1>2, <1>3, ZenonT(30)

LEMMA NaglesStep == ASSUME Good, NaglesFull \/ WaitEmpty, ~crashed PROVE Good'
<1>1. CASE UNCHANGED <<mem, end_off, off_map, win, futures, data, put>>
  BY <1>1, NoPutStep, ZenonT(30)
<1>2. ASSUME NEW n, Putting(n) PROVE Good'
  BY <1>2, PutStep, ZenonT(30)
<1> QED BY <1>1, <1>2, NaglesPuts, ZenonT(30)

=============================================================================
