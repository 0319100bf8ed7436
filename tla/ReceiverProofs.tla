--------------------------- MODULE ReceiverProofs ---------------------------
(***************************************************************************)
(* The safety properties of Receiver for every window size, stream length, *)
(* segment bound, set of recv() sizes and set of starting sequence numbers.*)
(*                                                                         *)
(* None of the properties is inductive alone.  The invariant IInv adds     *)
(*  - which thread holds which lock at each of its program points, and     *)
(*    that a closed socket is untouched (Locks, Closed);                   *)
(*  - that the written part of the buffer is the stream, whatever recv()   *)
(*    does (Window);                                                       *)
(*  - that a full window keeps the worker in __move until it is turned     *)
(*    (FullWindow), and that a completely read window has a post of        *)
(*    complete_notif made, or about to be made (FlushPosted);              *)
(*  - that, until recv() posts twice for one window, there is at most one  *)
(*    such post and only for a completely read window (Tokens), so that    *)
(*    the turn of the window drops nothing (Delivered).                    *)
(***************************************************************************)
EXTENDS Receiver, SequenceTheorems, TLAPS

InMove == {"signal_not_empty", "relock_signal", "wait_flushed", "relock_flushed"}

Locks ==
    /\ recv_lock = 0 => cpc = "hs_worker_lock"
    /\ recv_worker_lock = 1 => wpc \in {"next_msg", "worker_lock"}
    /\ wpc # "next_msg" => msg \in Segments

Closed ==
    state = "CLOSED" =>
        /\ started = FALSE /\ wpc = "next_msg"
        /\ cpc \in {"idle", "hs_recv_lock", "hs_worker_lock"}
        /\ win.off = 0 /\ flushed_off = 0 /\ received = << >>
        /\ complete_notif = 0 /\ resignalled = FALSE

Window ==
    /\ isn <= win.start
    /\ flushed_off <= win.off
    /\ \A o \in 1 .. win.off : buf[o] = WindowBase + o

FullWindow ==
    /\ win.off = WinSz => wpc \in InMove
    /\ wpc \in {"wait_flushed", "relock_flushed"} => win.off = WinSz

FlushPosted ==
    win.off = WinSz /\ flushed_off = WinSz /\ wpc # "relock_flushed" =>
        complete_notif > 0 \/ cpc = "signal_flushed"

ReadWindow == win.off = WinSz /\ flushed_off = WinSz

Tokens ==
    ~resignalled =>
        /\ complete_notif > 0 => ReadWindow
        /\ wpc = "relock_flushed" =>
              ReadWindow /\ complete_notif = 0 /\ cpc # "signal_flushed"
        /\ cpc = "signal_flushed" => ReadWindow /\ complete_notif = 0
        /\ complete_notif <= 1

Delivered ==
    ~resignalled =>
        /\ Len(received) = WindowBase + flushed_off
        /\ \A i \in 1 .. Len(received) : received[i] = i

IInv ==
    /\ TypeOK /\ Locks /\ Closed /\ Window /\ FullWindow /\ FlushPosted
    /\ Tokens /\ Delivered /\ NoLostDataWakeup /\ NoZeroWindowAdvertised

-----------------------------------------------------------------------------
(* A truncated sequence number is a tcp_seq (the uint32_t cast). *)
LEMMA TcpSeqType == ASSUME NEW n \in Nat PROVE tcp_seq(n) \in 0 .. Modulo - 1
  BY ModuloAssumption DEF tcp_seq

(* Two stream positions less than a lap apart have different sequence      *)
(* numbers: the segment whose number equals win.begin() is the next one.   *)
LEMMA SeqIdentifiesPosition ==
  ASSUME NEW s \in Nat, NEW p \in Nat, NEW q \in Nat, p < Modulo,
         tcp_seq(s + p) = s + q
  PROVE  p = q
  BY ModuloAssumption DEF tcp_seq

(* The segment on_msg moves into the buffer starts at the first byte not   *)
(* yet accepted and ends inside the window.                                *)
LEMMA ExpectedSegmentFits ==
  ASSUME TypeOK, isn <= win.start, msg \in Segments, Expected
  PROVE  /\ msg.pos = Accepted
         /\ win.off + msg.len <= WinSz
         /\ msg.len \in Nat \ {0}
         /\ msg.pos \in Nat
         /\ msg.pos + msg.len <= StreamLen
<1>1. /\ msg.pos \in Nat /\ msg.len \in Nat \ {0}
      /\ msg.pos + msg.len <= StreamLen /\ StreamLen <= Modulo
      /\ isn \in Nat /\ win.start \in Nat /\ win.off \in Nat
      /\ win.sz = WinSz /\ WinSz \in Nat /\ Modulo \in Nat
      /\ StreamLen \in Nat
  BY ReceiverAssumption, ModuloAssumption DEF Segments, TypeOK
<1>2. tcp_seq(isn + msg.pos) = isn + (begin(win) - isn)
  BY <1>1 DEF Expected, SeqOf, begin
<1>3. begin(win) - isn \in Nat /\ msg.pos < Modulo
  BY <1>1 DEF begin
<1>4. msg.pos = Accepted
  BY <1>1, <1>2, <1>3, SeqIdentifiesPosition, Zenon DEF Accepted
<1>5. win.off + msg.len <= WinSz
  <2>1. contains(win, receiver_window(begin(win), msg.len))
    BY Zenon DEF Expected
  <2> DEFINE v == receiver_window(begin(win), msg.len)
  <2>2. end(v) = begin(win) + msg.len
    BY Zenon DEF receiver_window, end
  <2>3. end(win) >= end(v)
    BY <1>1, <2>1, <2>2 DEF contains, end, begin
  <2> QED BY <1>1, <2>2, <2>3 DEF end, begin
<1> QED BY <1>1, <1>4, <1>5, Zenon

-----------------------------------------------------------------------------
(* Init establishes the invariant. *)
LEMMA InitIInv == Init => IInv
<1> SUFFICES ASSUME Init PROVE IInv
  BY Zenon
<1> USE ReceiverAssumption, ModuloAssumption DEF Init, receiver_window
<1>1. TypeOK
  <2>1. received \in Seq(0 .. StreamLen)
    BY EmptySeq, Zenon
  <2>2. buf \in [1 .. WinSz -> 0 .. StreamLen]
    OBVIOUS
  <2>3. win \in [start : Nat, off : 0 .. WinSz, sz : {WinSz}]
    OBVIOUS
  <2> QED BY <2>1, <2>2, <2>3, Zenon DEF TypeOK, WorkerPc, ClientPc
<1>2. Locks /\ Closed
  BY DEF Locks, Closed
<1>3. Window /\ FullWindow /\ FlushPosted
  BY DEF Window, FullWindow, FlushPosted, InMove, WindowBase
<1>4. Tokens /\ Delivered
  <2>1. Len(received) = 0
    BY EmptySeq, Zenon
  <2> QED BY <2>1 DEF Tokens, Delivered, ReadWindow, WindowBase
<1>5. NoLostDataWakeup /\ NoZeroWindowAdvertised
  BY Zenon DEF NoLostDataWakeup, NoZeroWindowAdvertised
<1> QED BY <1>1, <1>2, <1>3, <1>4, <1>5, Zenon DEF IInv

-----------------------------------------------------------------------------
(* The acknowledgement on_msg sends for a window that is not full is well  *)
(* formed and does not advertise a window of 0.                            *)
LEMMA SendAckPreserves ==
  ASSUME NEW w, w.start \in Nat, w.off \in Nat, w.off < WinSz, w.sz = WinSz,
         acks \subseteq [seq : 0 .. Modulo - 1, win : Nat],
         NoZeroWindowAdvertised, SendAck(w)
  PROVE  /\ acks' \subseteq [seq : 0 .. Modulo - 1, win : Nat]
         /\ NoZeroWindowAdvertised'
<1>1. before_begin(w) \in Nat
  BY ModuloAssumption DEF before_begin, begin
<1>2. get_sz(w) \in Nat \ {0}
  BY ReceiverAssumption DEF get_sz
<1>3. tcp_seq(before_begin(w)) \in 0 .. Modulo - 1
  BY <1>1, TcpSeqType, Zenon
<1> QED BY <1>2, <1>3 DEF SendAck, NoZeroWindowAdvertised

(* A flush copies out the next bytes of the stream, stays inside what was  *)
(* written, and ends at signal_flushed exactly when it leaves the window   *)
(* completely read; doing so without copying a byte sets resignalled.      *)
LEMMA FlushBufferReads ==
  ASSUME IInv, FlushBuffer, UNCHANGED <<isn, win, buf>>
  PROVE  /\ flushed_off' \in flushed_off .. win.off
         /\ req' \in Nat
         /\ received' \in Seq(0 .. StreamLen)
         /\ resignalled' \in BOOLEAN
         /\ cpc' \in {"signal_flushed", "idle", "flush"}
         /\ ~resignalled' => ~resignalled
         /\ cpc' = "signal_flushed" <=> flushed_off' = win.off /\ win.off = WinSz
         /\ cpc' = "signal_flushed" /\ ~resignalled' => flushed_off < WinSz
         /\ Delivered'
<1> DEFINE sz   == Min2(wrote_win_sz, req)
           copy == SubSeq(buf, flushed_off + 1, flushed_off + sz)
<1>1. /\ win.off \in 0 .. WinSz /\ win.sz = WinSz /\ WinSz \in Nat
      /\ flushed_off \in 0 .. WinSz /\ flushed_off <= win.off
      /\ req \in Nat /\ StreamLen \in Nat
      /\ received \in Seq(0 .. StreamLen)
      /\ buf \in [1 .. WinSz -> 0 .. StreamLen]
      /\ isn \in Nat /\ win.start \in Nat /\ isn <= win.start
      /\ resignalled \in BOOLEAN
  BY ReceiverAssumption, Zenon DEF IInv, TypeOK, Window
<1>2. sz \in Nat /\ flushed_off + sz <= win.off /\ req - sz \in Nat
  <2>1. /\ win.off \in Nat /\ flushed_off \in Nat /\ flushed_off <= win.off
        /\ req \in Nat
    BY <1>1
  <2>2. sz = IF win.off - flushed_off <= req THEN win.off - flushed_off ELSE req
    BY Zenon DEF Min2, wrote_win_sz
  <2> HIDE DEF sz
  <2> QED BY <2>1, <2>2
<1>3. /\ received' = received \o copy
      /\ flushed_off' = flushed_off + sz
      /\ req' = req - sz
      /\ cpc' = IF CompletelyFlushed(sz) THEN "signal_flushed"
                ELSE LoopOrReturn(req - sz)
      /\ resignalled' = (resignalled \/ (CompletelyFlushed(sz) /\ sz = 0))
  BY Zenon DEF FlushBuffer
<1>4. CompletelyFlushed(sz) <=> flushed_off + sz = win.off /\ win.off = WinSz
  BY <1>1, <1>2 DEF CompletelyFlushed, get_sz
<1> HIDE DEF sz
<1>5. /\ copy \in Seq(0 .. StreamLen)
      /\ Len(copy) = sz
      /\ \A j \in 1 .. sz : copy[j] = buf[flushed_off + j]
  <2>1. \A j \in flushed_off + 1 .. flushed_off + sz : buf[j] \in 0 .. StreamLen
    BY <1>1, <1>2
  <2> QED BY <1>1, <1>2, <2>1, SubSeqProperties
<1>6. /\ received' \in Seq(0 .. StreamLen)
      /\ Len(received') = Len(received) + sz
      /\ \A i \in 1 .. Len(received') :
            received'[i] = IF i <= Len(received) THEN received[i]
                           ELSE copy[i - Len(received)]
  <2> HIDE DEF copy
  <2>1. /\ received \o copy \in Seq(0 .. StreamLen)
        /\ Len(received \o copy) = Len(received) + Len(copy)
        /\ \A i \in 1 .. Len(received) + Len(copy) :
              (received \o copy)[i] = IF i <= Len(received) THEN received[i]
                                     ELSE copy[i - Len(received)]
    BY <1>1, <1>5, ConcatProperties
  <2> QED BY <1>3, <1>5, <2>1, Zenon
<1>7. ASSUME ~resignalled' PROVE ~resignalled
  BY <1>3, <1>7, Zenon
<1>8. Delivered'
  <2> SUFFICES ASSUME ~resignalled'
               PROVE  /\ Len(received') = WindowBase' + flushed_off'
                      /\ \A i \in 1 .. Len(received') : received'[i] = i
    BY Zenon DEF Delivered
  <2>1. /\ Len(received) = WindowBase + flushed_off
        /\ \A i \in 1 .. Len(received) : received[i] = i
    BY <1>7, Zenon DEF IInv, Delivered
  <2>2. WindowBase \in Nat /\ WindowBase' = WindowBase
    BY <1>1 DEF WindowBase
  <2>3. \A o \in 1 .. win.off : buf[o] = WindowBase + o
    BY Zenon DEF IInv, Window
  <2>4. \A j \in 1 .. sz : copy[j] = Len(received) + j
    <3> SUFFICES ASSUME NEW j \in 1 .. sz PROVE copy[j] = Len(received) + j
      BY Zenon
    <3>1. copy[j] = buf[flushed_off + j]
      BY <1>5, Zenon
    <3> HIDE DEF copy
    <3>2. flushed_off + j \in 1 .. win.off
      BY <1>1, <1>2
    <3> QED BY <1>1, <1>2, <2>1, <2>2, <2>3, <3>1, <3>2
  <2> HIDE DEF copy
  <2>5. ASSUME NEW i \in 1 .. Len(received') PROVE received'[i] = i
    <3>1. CASE i <= Len(received)
      BY <1>6, <2>1, <3>1
    <3>2. CASE i > Len(received)
      <4>1. Len(received) \in Nat
        BY <1>1, LenProperties, Zenon
      <4>2. i - Len(received) \in 1 .. sz
        BY <1>2, <1>6, <3>2, <4>1
      <4> QED BY <1>6, <2>4, <3>2, <4>1, <4>2
    <3> QED BY <1>1, <1>6, <1>2, <3>1, <3>2, LenProperties
  <2>6. Len(received') = WindowBase' + flushed_off'
    BY <1>1, <1>2, <1>3, <1>6, <2>1, <2>2
  <2> QED BY <2>5, <2>6, Zenon
<1>9. cpc' \in {"signal_flushed", "idle", "flush"}
  BY <1>3, Zenon DEF LoopOrReturn
<1>10. cpc' = "signal_flushed" <=> CompletelyFlushed(sz)
  BY <1>3, Zenon DEF LoopOrReturn
<1>11. cpc' = "signal_flushed" /\ ~resignalled' => flushed_off < WinSz
  <2> SUFFICES ASSUME CompletelyFlushed(sz), ~resignalled'
               PROVE  flushed_off < WinSz
    BY <1>10, Zenon
  <2>1. sz # 0
    BY <1>3, Zenon
  <2> QED BY <1>1, <1>2, <1>4, <2>1
<1>12. flushed_off' \in flushed_off .. win.off /\ req' \in Nat
  BY <1>1, <1>2, <1>3
<1>13. resignalled' \in BOOLEAN
  BY <1>1, <1>3, Zenon
<1>14. cpc' = "signal_flushed" <=> flushed_off' = win.off /\ win.off = WinSz
  BY <1>3, <1>4, <1>10, Zenon
<1> QED BY <1>6, <1>7, <1>8, <1>9, <1>11, <1>12, <1>13, <1>14, Zenon

-----------------------------------------------------------------------------
(* One lemma per action: a step keeps the invariant. *)

(* next_msg() only fills the worker's own hands. *)
LEMMA WorkerNextMsgPreserves ==
  ASSUME NEW x \in Segments, IInv, WorkerNextMsg(x) PROVE IInv'
<1> USE ReceiverAssumption DEF IInv, WorkerNextMsg, lockVars, notifVars, clientVars
<1>1. TypeOK'
  BY DEF TypeOK, WorkerPc, ClientPc
<1>2. Locks' /\ Closed'
  BY Zenon DEF Locks, Closed
<1>3. Window'
  BY Zenon DEF Window, WindowBase
<1>4. FullWindow' /\ FlushPosted'
  BY Zenon DEF FullWindow, FlushPosted, InMove
<1>5. Tokens'
  BY Zenon DEF Tokens, ReadWindow
<1>6. Delivered'
  BY Zenon DEF Delivered, WindowBase
<1>7. NoLostDataWakeup' /\ NoZeroWindowAdvertised'
  BY Zenon DEF NoLostDataWakeup, NoZeroWindowAdvertised, wrote_win_sz
<1> QED BY <1>1, <1>2, <1>3, <1>4, <1>5, <1>6, <1>7, Zenon

(* Taking recv_worker_lock, or dropping the segment of a closed socket. *)
LEMMA WorkerLockPreserves ==
  ASSUME IInv, WorkerLock PROVE IInv'
<1> USE ReceiverAssumption DEF IInv, WorkerLock, notifVars, clientVars
<1>1. TypeOK'
  BY DEF TypeOK, WorkerPc, ClientPc
<1>2. Locks' /\ Closed'
  BY DEF Locks, Closed
<1>3. Window'
  BY Zenon DEF Window, WindowBase
<1>4. FullWindow' /\ FlushPosted'
  BY Zenon DEF FullWindow, FlushPosted, InMove
<1>5. Tokens'
  BY Zenon DEF Tokens, ReadWindow
<1>6. Delivered'
  BY Zenon DEF Delivered, WindowBase
<1>7. NoLostDataWakeup' /\ NoZeroWindowAdvertised'
  BY Zenon DEF NoLostDataWakeup, NoZeroWindowAdvertised, wrote_win_sz
<1> QED BY <1>1, <1>2, <1>3, <1>4, <1>5, <1>6, <1>7, Zenon

(* on_msg: a skipped segment only sends an acknowledgement; an expected
   one extends the stream in the buffer by exactly its bytes. *)
LEMMA OnMsgPreserves ==
  ASSUME IInv, OnMsg PROVE IInv'
<1> USE ReceiverAssumption DEF OnMsg, notifVars, clientVars
<1>1. /\ win.start \in Nat /\ win.off \in 0 .. WinSz /\ win.sz = WinSz
      /\ win = [start |-> win.start, off |-> win.off, sz |-> win.sz]
      /\ flushed_off \in 0 .. WinSz /\ flushed_off <= win.off
      /\ isn \in Nat /\ isn <= win.start
      /\ buf \in [1 .. WinSz -> 0 .. StreamLen]
      /\ acks \subseteq [seq : 0 .. Modulo - 1, win : Nat]
      /\ msg \in Segments
      /\ WinSz \in Nat /\ StreamLen \in Nat
  BY Zenon DEF IInv, TypeOK, Window, Locks
<1>2. win.off < WinSz
  BY <1>1 DEF IInv, FullWindow, InMove
<1>3. CASE ~Expected
  <2>1. SendAck(win) /\ UNCHANGED <<buf, win>>
    BY <1>3, Zenon
  <2>2. /\ acks' \subseteq [seq : 0 .. Modulo - 1, win : Nat]
        /\ NoZeroWindowAdvertised'
    BY <1>1, <1>2, <2>1, SendAckPreserves DEF IInv
  <2> USE <2>1 DEF SendAck
  <2>3. TypeOK'
    BY <2>2, Zenon DEF IInv, TypeOK, WorkerPc
  <2>4. Locks' /\ Closed' /\ FullWindow'
    BY <1>1, <1>2, Zenon DEF IInv, Locks, Closed, FullWindow, InMove
  <2>5. Window' /\ FlushPosted'
    BY Zenon DEF IInv, Window, WindowBase, FlushPosted
  <2>6. Tokens' /\ Delivered'
    BY Zenon DEF IInv, Tokens, ReadWindow, Delivered, WindowBase
  <2>7. NoLostDataWakeup'
    BY Zenon DEF IInv, NoLostDataWakeup, wrote_win_sz
  <2> QED BY <2>2, <2>3, <2>4, <2>5, <2>6, <2>7, Zenon DEF IInv
<1>4. CASE Expected
  <2> DEFINE off == win.off + msg.len
             w   == [start |-> win.start, off |-> off, sz |-> win.sz]
  <2>0. msg.pos = Accepted
    BY <1>1, <1>4, ExpectedSegmentFits, Zenon DEF IInv
  <2>1. /\ off <= WinSz /\ msg.len \in Nat \ {0}
        /\ msg.pos \in Nat /\ msg.pos + msg.len <= StreamLen
    BY <1>1, <1>4, ExpectedSegmentFits, Zenon DEF IInv
  <2>2. win' = w /\ inc(win, msg.len) = w
    BY <1>1, <1>4, Zenon DEF Move, inc
  <2>3. buf' = [o \in 1 .. WinSz |-> IF o > win.off /\ o <= off
                                       THEN msg.pos + o - win.off ELSE buf[o]]
    BY <1>4, Zenon DEF Move, put_data
  <2>4. \/ wpc' = "signal_not_empty" /\ UNCHANGED <<acks, recv_worker_lock>>
        \/ /\ off = WinSz /\ wrote_win_sz # 0
           /\ wpc' = "wait_flushed" /\ UNCHANGED <<acks, recv_worker_lock>>
        \/ off < WinSz /\ wrote_win_sz # 0 /\ SendAck(w)
    <3>1. get_sz(w) = WinSz - off
      BY <1>1, Zenon DEF get_sz
    <3>2. IF wrote_win_sz = 0
            THEN wpc' = "signal_not_empty" /\ UNCHANGED <<acks, recv_worker_lock>>
            ELSE AckOrWait(w)
      BY <1>4, <2>2, Zenon DEF Move, NeedNotEmptySignal
    <3>3. off \in Nat /\ WinSz \in Nat
      BY <1>1, <2>1
    <3> HIDE DEF off, w
    <3>4. ASSUME AckOrWait(w)
          PROVE  \/ /\ off = WinSz /\ wpc' = "wait_flushed"
                    /\ UNCHANGED <<acks, recv_worker_lock>>
                 \/ off < WinSz /\ SendAck(w)
      BY <2>1, <3>1, <3>3, <3>4 DEF AckOrWait
    <3> QED BY <3>2, <3>4, Zenon
  <2> HIDE DEF off
  <2>5. off \in Nat /\ off > win.off /\ off = win.off + msg.len
    BY <1>1, <2>1 DEF off
  <2>6. /\ acks' \subseteq [seq : 0 .. Modulo - 1, win : Nat]
        /\ NoZeroWindowAdvertised'
    <3>1. CASE off < WinSz /\ SendAck(w)
      BY <1>1, <2>5, <3>1, SendAckPreserves, Zenon DEF IInv
    <3>2. CASE UNCHANGED acks
      BY <1>1, <3>2, Zenon DEF IInv, NoZeroWindowAdvertised
    <3> QED BY <2>4, <3>1, <3>2, Zenon
  <2>7. /\ wpc' \in {"signal_not_empty", "wait_flushed", "next_msg"}
        /\ recv_worker_lock' \in {0, 1}
        /\ wpc' = "next_msg" => off < WinSz
        /\ wpc' # "next_msg" => recv_worker_lock' = recv_worker_lock
        /\ wpc' = "wait_flushed" => off = WinSz
        /\ wpc' # "signal_not_empty" => wrote_win_sz # 0
    BY <2>4, Zenon DEF SendAck, IInv, TypeOK
  <2>8. buf' \in [1 .. WinSz -> 0 .. StreamLen]
    <3>1. ASSUME NEW o \in 1 .. WinSz, o > win.off, o <= off
          PROVE  msg.pos + o - win.off \in 0 .. StreamLen
      <4>1. /\ o \in Nat /\ win.off \in Nat /\ msg.pos \in Nat
            /\ msg.len \in Nat /\ StreamLen \in Nat
        BY <1>1, <2>1
      <4>2. msg.pos + msg.len <= StreamLen /\ o > win.off /\ o <= win.off + msg.len
        BY <2>1, <2>5, <3>1, Zenon
      <4> HIDE DEF OnMsg
      <4> QED BY <4>1, <4>2
    <3>2. ASSUME NEW o \in 1 .. WinSz PROVE buf[o] \in 0 .. StreamLen
      BY <1>1, Zenon
    <3> QED BY <2>3, <3>1, <3>2, Zenon
  <2>9. TypeOK'
    <3>1. win' \in [start : Nat, off : 0 .. WinSz, sz : {WinSz}]
      BY <1>1, <2>1, <2>2, <2>5
    <3> QED BY <2>6, <2>7, <2>8, <3>1, Zenon DEF IInv, TypeOK, WorkerPc
  <2>10. Window'
    <3>1. isn' <= win'.start /\ flushed_off' <= win'.off
      BY <1>1, <2>2, <2>5
    <3>2. ASSUME NEW o \in 1 .. win'.off PROVE buf'[o] = WindowBase' + o
      <4>1. o \in 1 .. WinSz /\ o <= off
        BY <2>1, <2>2, <2>5, <1>1
      <4>2. WindowBase' = WindowBase /\ WindowBase = win.start - isn
        BY <2>2, Zenon DEF WindowBase
      <4>3. CASE o <= win.off
        BY <1>1, <2>3, <4>1, <4>2, <4>3 DEF IInv, Window
      <4>4. CASE o > win.off
        BY <1>1, <2>0, <2>3, <4>1, <4>2, <4>4 DEF Accepted, begin
      <4> QED BY <1>1, <4>1, <4>3, <4>4
    <3> QED BY <3>1, <3>2, Zenon DEF Window
  <2>11. Locks' /\ Closed'
    BY <1>1, <2>7, Zenon DEF IInv, Locks, Closed
  <2>12. FullWindow'
    BY <1>1, <2>2, <2>7, <2>5 DEF FullWindow, InMove
  <2>13. FlushPosted' /\ NoLostDataWakeup'
    <3>1. flushed_off' < win'.off
      BY <1>1, <2>2, <2>5
    <3>2. FlushPosted'
      BY <1>1, <3>1, <2>1, <2>2 DEF FlushPosted
    <3>3. wrote_win_sz # 0 => wrote_win_sz > 0
      BY <1>1 DEF wrote_win_sz
    <3> QED BY <2>7, <3>2, <3>3, Zenon DEF IInv, NoLostDataWakeup
  <2>14. Tokens'
    BY <1>1, <1>2, <2>7 DEF IInv, Tokens, ReadWindow
  <2>15. Delivered'
    BY <2>2, Zenon DEF IInv, Delivered, WindowBase
  <2> QED BY <2>6, <2>9, <2>10, <2>11, <2>12, <2>13, <2>14, <2>15, Zenon DEF IInv
<1> QED BY <1>3, <1>4, Zenon

(* The post of not_empty_notif turns "about to post" into "posted". *)
LEMMA SignalNotEmptyPreserves ==
  ASSUME IInv, SignalNotEmpty PROVE IInv'
<1> USE ReceiverAssumption DEF IInv, SignalNotEmpty, lockVars, clientVars
<1>1. TypeOK'
  BY DEF TypeOK, WorkerPc, ClientPc
<1>2. Locks' /\ Closed'
  BY Zenon DEF Locks, Closed
<1>3. Window'
  BY Zenon DEF Window, WindowBase
<1>4. FullWindow' /\ FlushPosted'
  BY Zenon DEF FullWindow, FlushPosted, InMove
<1>5. Tokens'
  BY Zenon DEF Tokens, ReadWindow
<1>6. Delivered'
  BY Zenon DEF Delivered, WindowBase
<1>7. NoLostDataWakeup' /\ NoZeroWindowAdvertised'
  BY DEF NoLostDataWakeup, NoZeroWindowAdvertised, wrote_win_sz, TypeOK
<1> QED BY <1>1, <1>2, <1>3, <1>4, <1>5, <1>6, <1>7, Zenon

(* __move after the signal: a full window waits, any other is acknowledged. *)
LEMMA RelockSignalPreserves ==
  ASSUME IInv, RelockSignal PROVE IInv'
<1> USE ReceiverAssumption DEF RelockSignal, notifVars, clientVars
<1>1. /\ win.start \in Nat /\ win.off \in 0 .. WinSz /\ win.sz = WinSz
      /\ acks \subseteq [seq : 0 .. Modulo - 1, win : Nat]
      /\ WinSz \in Nat
  BY Zenon DEF IInv, TypeOK
<1>2. \/ /\ win.off = WinSz /\ wpc' = "wait_flushed"
         /\ UNCHANGED <<acks, recv_worker_lock>>
      \/ win.off < WinSz /\ SendAck(win)
  BY <1>1 DEF AckOrWait, get_sz
<1>3. /\ acks' \subseteq [seq : 0 .. Modulo - 1, win : Nat]
      /\ NoZeroWindowAdvertised'
  <2>1. CASE win.off < WinSz /\ SendAck(win)
    BY <1>1, <2>1, SendAckPreserves DEF IInv
  <2>2. CASE UNCHANGED acks
    BY <1>1, <2>2, Zenon DEF IInv, NoZeroWindowAdvertised
  <2> QED BY <1>2, <2>1, <2>2, Zenon
<1>4. \/ win.off = WinSz /\ wpc' = "wait_flushed" /\ UNCHANGED recv_worker_lock
      \/ win.off < WinSz /\ wpc' = "next_msg" /\ recv_worker_lock' = 1
  BY <1>2, Zenon DEF SendAck
<1>5. TypeOK'
  BY <1>3, <1>4, Zenon DEF IInv, TypeOK, WorkerPc
<1>6. Locks' /\ Closed'
  BY <1>4, Zenon DEF IInv, Locks, Closed
<1>7. Window' /\ Delivered'
  BY Zenon DEF IInv, Window, Delivered, WindowBase
<1>8. FullWindow' /\ FlushPosted' /\ Tokens'
  BY <1>1, <1>4 DEF IInv, FullWindow, FlushPosted, InMove, Tokens, ReadWindow
<1>9. NoLostDataWakeup'
  BY Zenon DEF IInv, NoLostDataWakeup, wrote_win_sz
<1> QED BY <1>3, <1>5, <1>6, <1>7, <1>8, <1>9, Zenon DEF IInv

(* Consuming the post of complete_notif leaves none behind. *)
LEMMA WaitFlushedPreserves ==
  ASSUME IInv, WaitFlushed PROVE IInv'
<1> USE ReceiverAssumption DEF IInv, WaitFlushed, lockVars, clientVars
<1>1. TypeOK'
  BY DEF TypeOK, WorkerPc, ClientPc
<1>2. Locks' /\ Closed'
  BY Zenon DEF Locks, Closed
<1>3. Window'
  BY Zenon DEF Window, WindowBase
<1>4. FullWindow' /\ FlushPosted'
  BY Zenon DEF FullWindow, FlushPosted, InMove, TypeOK
<1>5. Tokens'
  BY DEF Tokens, ReadWindow, TypeOK
<1>6. Delivered'
  BY Zenon DEF Delivered, WindowBase
<1>7. NoLostDataWakeup' /\ NoZeroWindowAdvertised'
  BY Zenon DEF NoLostDataWakeup, NoZeroWindowAdvertised, wrote_win_sz
<1> QED BY <1>1, <1>2, <1>3, <1>4, <1>5, <1>6, <1>7, Zenon

(* The window turns: with a single post made for it, it has been read to
   the end, so nothing is dropped. *)
LEMMA OnBufferFlushedPreserves ==
  ASSUME IInv, OnBufferFlushed PROVE IInv'
<1> USE ReceiverAssumption DEF OnBufferFlushed, notifVars, clientVars
<1> DEFINE w == [start |-> win.start + WinSz, off |-> 0, sz |-> WinSz]
<1>1. /\ win.start \in Nat /\ win.off = WinSz /\ win.sz = WinSz
      /\ win \in [start : Nat, off : 0 .. WinSz, sz : {WinSz}]
      /\ isn \in Nat /\ isn <= win.start
      /\ acks \subseteq [seq : 0 .. Modulo - 1, win : Nat]
      /\ WinSz \in Nat \ {0}
  BY Zenon DEF IInv, TypeOK, Window, FullWindow
<1>2. win' = w /\ next_window(win) = w
  BY <1>1, Zenon DEF next_window
<1>3. /\ acks' \subseteq [seq : 0 .. Modulo - 1, win : Nat]
      /\ NoZeroWindowAdvertised'
  BY <1>1, <1>2, SendAckPreserves DEF IInv
<1>4. wpc' = "next_msg" /\ recv_worker_lock' = 1
  BY Zenon DEF SendAck
<1>5. TypeOK'
  <2>1. win' \in [start : Nat, off : 0 .. WinSz, sz : {WinSz}]
    BY <1>1, <1>2
  <2> QED BY <1>1, <1>3, <1>4, <2>1 DEF IInv, TypeOK, WorkerPc
<1>6. Locks' /\ Closed'
  BY <1>4, Zenon DEF IInv, Locks, Closed
<1>7. Window'
  BY <1>1, <1>2 DEF Window
<1>8. FullWindow' /\ FlushPosted'
  BY <1>1, <1>2, <1>4 DEF FullWindow, FlushPosted, InMove
<1>9. Tokens'
  BY <1>4 DEF IInv, Tokens, TypeOK
<1>10. Delivered'
  BY <1>1, <1>2 DEF IInv, Tokens, ReadWindow, Delivered, WindowBase
<1>11. NoLostDataWakeup'
  BY <1>1, <1>2 DEF NoLostDataWakeup, wrote_win_sz
<1> QED BY <1>3, <1>5, <1>6, <1>7, <1>8, <1>9, <1>10, <1>11, Zenon DEF IInv

(* recv() only records what it was asked for. *)
LEMMA RecvCallPreserves ==
  ASSUME NEW n \in RecvSizes, IInv, RecvCall(n) PROVE IInv'
<1> USE ReceiverAssumption DEF IInv, RecvCall, lockVars, notifVars, workerVars
<1>1. TypeOK'
  BY DEF TypeOK, WorkerPc, ClientPc
<1>2. Locks' /\ Closed'
  BY Zenon DEF Locks, Closed
<1>3. Window'
  BY Zenon DEF Window, WindowBase
<1>4. FullWindow' /\ FlushPosted'
  BY Zenon DEF FullWindow, FlushPosted, InMove
<1>5. Tokens'
  BY Zenon DEF Tokens, ReadWindow
<1>6. Delivered'
  BY Zenon DEF Delivered, WindowBase
<1>7. NoLostDataWakeup' /\ NoZeroWindowAdvertised'
  BY Zenon DEF NoLostDataWakeup, NoZeroWindowAdvertised, wrote_win_sz
<1> QED BY <1>1, <1>2, <1>3, <1>4, <1>5, <1>6, <1>7, Zenon

(* handshake() takes recv_lock. *)
LEMMA HandshakeRecvLockPreserves ==
  ASSUME IInv, HandshakeRecvLock PROVE IInv'
<1> USE ReceiverAssumption DEF IInv, HandshakeRecvLock, notifVars, workerVars
<1>1. TypeOK'
  BY Zenon DEF TypeOK, WorkerPc, ClientPc
<1>2. Locks' /\ Closed'
  BY Zenon DEF Locks, Closed
<1>3. Window'
  BY Zenon DEF Window, WindowBase
<1>4. FullWindow' /\ FlushPosted'
  BY Zenon DEF FullWindow, FlushPosted, InMove
<1>5. Tokens'
  BY Zenon DEF Tokens, ReadWindow
<1>6. Delivered'
  BY Zenon DEF Delivered, WindowBase
<1>7. NoLostDataWakeup' /\ NoZeroWindowAdvertised'
  BY Zenon DEF NoLostDataWakeup, NoZeroWindowAdvertised, wrote_win_sz
<1> QED BY <1>1, <1>2, <1>3, <1>4, <1>5, <1>6, <1>7, Zenon

(* handshake() moves the window of a closed socket, which is empty, and
   leaves that of an established one alone. *)
LEMMA HandshakeWorkerLockPreserves ==
  ASSUME IInv, HandshakeWorkerLock PROVE IInv'
<1>0. /\ cpc = "hs_worker_lock" /\ cpc' = "flush"
      /\ state' = "ESTABLISHED" /\ started' = TRUE
      /\ recv_worker_lock = 1 /\ recv_lock' = 1
      /\ UNCHANGED <<buf, recv_worker_lock, complete_notif, not_empty_notif, wpc,
                     msg, req, received, resignalled, acks>>
  BY Zenon DEF HandshakeWorkerLock, notifVars, workerVars
<1>1. CASE state # "CLOSED"
  <2>1. UNCHANGED <<isn, win, flushed_off>>
    BY <1>1, Zenon DEF HandshakeWorkerLock
  <2> USE <1>0
  <2>2. TypeOK' /\ Locks' /\ Closed'
    <3>1. TypeOK'
      BY <2>1, Zenon DEF IInv, TypeOK, ClientPc
    <3>2. Locks' /\ Closed'
      BY DEF IInv, Locks, Closed
    <3> QED BY <3>1, <3>2, Zenon
  <2>3. Window' /\ Delivered'
    BY <2>1, Zenon DEF IInv, Window, Delivered, WindowBase
  <2>4. FullWindow' /\ FlushPosted' /\ Tokens'
    BY <2>1, Zenon DEF IInv, FullWindow, InMove, FlushPosted, Tokens, ReadWindow
  <2>5. NoLostDataWakeup' /\ NoZeroWindowAdvertised'
    BY <2>1, Zenon DEF IInv, NoLostDataWakeup, NoZeroWindowAdvertised
  <2> QED BY <2>2, <2>3, <2>4, <2>5, Zenon DEF IInv
<1>2. CASE state = "CLOSED"
  <2>1. PICK s \in StartSeqs : /\ isn' = s
                              /\ win' = [win EXCEPT !.start = s, !.off = 0]
                              /\ flushed_off' = 0
    BY <1>2, Zenon DEF HandshakeWorkerLock
  <2> USE <1>0
  <2>2. s \in Nat
    BY ReceiverAssumption, ModuloAssumption
  <2>3. /\ wpc = "next_msg" /\ received = << >> /\ complete_notif = 0
        /\ win \in [start : Nat, off : 0 .. WinSz, sz : {WinSz}]
        /\ WinSz \in Nat \ {0}
    BY <1>2, ReceiverAssumption, Zenon DEF IInv, Closed, TypeOK
  <2>4. win' = [start |-> s, off |-> 0, sz |-> WinSz]
    BY <2>1, <2>3, Zenon
  <2>5. TypeOK'
    <3>1. win' \in [start : Nat, off : 0 .. WinSz, sz : {WinSz}]
      BY <2>2, <2>3, <2>4
    <3> QED BY <2>1, <2>2, <2>3, <3>1, Zenon DEF IInv, TypeOK, ClientPc
  <2>6. Locks' /\ Closed'
    BY DEF IInv, Locks, Closed
  <2>7. Window'
    BY <2>1, <2>2, <2>4 DEF Window
  <2>8. FullWindow' /\ FlushPosted' /\ Tokens'
    BY <2>3, <2>4 DEF FullWindow, FlushPosted, Tokens
  <2>9. Delivered'
    <3>1. Len(received') = 0
      BY <2>3, EmptySeq, Zenon
    <3> QED BY <2>1, <2>2, <2>4, <3>1 DEF Delivered, WindowBase
  <2>10. NoLostDataWakeup' /\ NoZeroWindowAdvertised'
    BY Zenon DEF IInv, NoLostDataWakeup, NoZeroWindowAdvertised
  <2> QED BY <2>5, <2>6, <2>7, <2>8, <2>9, <2>10, Zenon DEF IInv
<1> QED BY <1>1, <1>2, Zenon

(* The two ways into FlushBuffer, with data there or after the wait. *)
LEMMA FlushPreserves ==
  ASSUME IInv, FlushBuffer, cpc \in {"flush", "relock_flush"},
         UNCHANGED <<state, isn, win, buf, lockVars, notifVars, started,
                     workerVars, acks>>
  PROVE  IInv'
<1> USE ReceiverAssumption DEF lockVars, notifVars, workerVars
<1>1. /\ flushed_off' \in flushed_off .. win.off
      /\ req' \in Nat
      /\ received' \in Seq(0 .. StreamLen)
      /\ resignalled' \in BOOLEAN
      /\ cpc' \in {"signal_flushed", "idle", "flush"}
      /\ ~resignalled' => ~resignalled
      /\ cpc' = "signal_flushed" <=> flushed_off' = win.off /\ win.off = WinSz
      /\ cpc' = "signal_flushed" /\ ~resignalled' => flushed_off < WinSz
      /\ Delivered'
  BY FlushBufferReads, Zenon
<1>2. /\ win.off \in 0 .. WinSz /\ flushed_off \in 0 .. WinSz /\ WinSz \in Nat
      /\ complete_notif \in Nat
  BY Zenon DEF IInv, TypeOK
<1>3. TypeOK'
  <2>1. flushed_off' \in 0 .. WinSz
    BY <1>1, <1>2
  <2>2. cpc' \in ClientPc /\ req' \in Nat /\ received' \in Seq(0 .. StreamLen)
        /\ resignalled' \in BOOLEAN
    BY <1>1, Zenon DEF ClientPc
  <2> QED BY <2>1, <2>2, Zenon DEF IInv, TypeOK
<1>4. Locks' /\ Closed'
  BY Zenon DEF IInv, Locks, Closed
<1>5. Window'
  BY <1>1, <1>2 DEF IInv, Window, WindowBase
<1>6. FullWindow' /\ FlushPosted'
  BY <1>1, Zenon DEF IInv, FullWindow, FlushPosted, InMove
<1>7. Tokens'
  <2> SUFFICES ASSUME ~resignalled'
               PROVE  /\ complete_notif > 0 => ReadWindow'
                      /\ wpc = "relock_flushed" =>
                            ReadWindow' /\ complete_notif = 0
                                        /\ cpc' # "signal_flushed"
                      /\ cpc' = "signal_flushed" =>
                            ReadWindow' /\ complete_notif = 0
                      /\ complete_notif <= 1
    BY Zenon DEF Tokens
  <2>1. /\ complete_notif > 0 => ReadWindow
        /\ wpc = "relock_flushed" => ReadWindow /\ complete_notif = 0
        /\ complete_notif <= 1
    BY <1>1, Zenon DEF IInv, Tokens
  <2>2. ReadWindow => ReadWindow' /\ cpc' = "signal_flushed"
    BY <1>1, <1>2 DEF ReadWindow
  <2>3. ~ReadWindow
    BY <1>1, <1>2, <2>2 DEF ReadWindow
  <2>4. cpc' = "signal_flushed" => ReadWindow'
    BY <1>1, Zenon DEF ReadWindow
  <2> QED BY <1>2, <2>1, <2>3, <2>4
<1>8. NoLostDataWakeup' /\ NoZeroWindowAdvertised'
  BY <1>1, Zenon DEF IInv, NoLostDataWakeup, NoZeroWindowAdvertised
<1> QED BY <1>1, <1>3, <1>4, <1>5, <1>6, <1>7, <1>8, Zenon DEF IInv

(* client_flush_request flushes, or goes to wait when there is no data. *)
LEMMA ClientFlushPreserves ==
  ASSUME IInv, ClientFlush PROVE IInv'
<1> USE DEF ClientFlush
<1>1. CASE wrote_win_sz # 0
  BY <1>1, FlushPreserves, Zenon
<1>2. CASE wrote_win_sz = 0
  <2>1. cpc' = "wait_not_empty" /\ UNCHANGED <<flushed_off, req, received, resignalled>>
    BY <1>2, Zenon
  <2> USE <2>1 DEF IInv, lockVars, notifVars, workerVars
  <2>2. TypeOK' /\ Locks' /\ Closed'
    BY Zenon DEF TypeOK, ClientPc, Locks, Closed
  <2>3. Window' /\ Delivered'
    BY Zenon DEF Window, Delivered, WindowBase
  <2>4. FullWindow' /\ FlushPosted' /\ Tokens'
    BY Zenon DEF FullWindow, InMove, FlushPosted, Tokens, ReadWindow
  <2>5. NoLostDataWakeup' /\ NoZeroWindowAdvertised'
    BY <1>2 DEF NoLostDataWakeup, NoZeroWindowAdvertised, wrote_win_sz
  <2> QED BY <2>2, <2>3, <2>4, <2>5, Zenon
<1> QED BY <1>1, <1>2, Zenon

(* client_flush_request after the wait. *)
LEMMA RelockFlushPreserves ==
  ASSUME IInv, RelockFlush PROVE IInv'
  BY FlushPreserves, Zenon DEF RelockFlush

(* The reader leaves input_win_wait_not_empty. *)
LEMMA WaitNotEmptyPreserves ==
  ASSUME IInv, WaitNotEmpty PROVE IInv'
<1> USE ReceiverAssumption DEF IInv, WaitNotEmpty, lockVars, workerVars
<1>1. TypeOK'
  BY DEF TypeOK, WorkerPc, ClientPc
<1>2. Locks' /\ Closed'
  BY Zenon DEF Locks, Closed
<1>3. Window'
  BY Zenon DEF Window, WindowBase
<1>4. FullWindow' /\ FlushPosted'
  BY Zenon DEF FullWindow, FlushPosted, InMove
<1>5. Tokens'
  BY Zenon DEF Tokens, ReadWindow
<1>6. Delivered'
  BY Zenon DEF Delivered, WindowBase
<1>7. NoLostDataWakeup' /\ NoZeroWindowAdvertised'
  BY Zenon DEF NoLostDataWakeup, NoZeroWindowAdvertised, wrote_win_sz
<1> QED BY <1>1, <1>2, <1>3, <1>4, <1>5, <1>6, <1>7, Zenon

(* The post of complete_notif for a window that is completely read. *)
LEMMA SignalFlushedPreserves ==
  ASSUME IInv, SignalFlushed PROVE IInv'
<1> USE ReceiverAssumption DEF IInv, SignalFlushed, lockVars, workerVars
<1>1. TypeOK'
  BY DEF TypeOK, WorkerPc, ClientPc
<1>2. Locks' /\ Closed'
  BY Zenon DEF Locks, Closed
<1>3. Window'
  BY Zenon DEF Window, WindowBase
<1>4. FullWindow' /\ FlushPosted'
  BY DEF FullWindow, FlushPosted, InMove, TypeOK
<1>5. Tokens'
  BY DEF Tokens, ReadWindow
<1>6. Delivered'
  BY Zenon DEF Delivered, WindowBase
<1>7. NoLostDataWakeup' /\ NoZeroWindowAdvertised'
  BY Zenon DEF NoLostDataWakeup, NoZeroWindowAdvertised, wrote_win_sz
<1> QED BY <1>1, <1>2, <1>3, <1>4, <1>5, <1>6, <1>7, Zenon

(* recv_proc goes round its loop or returns. *)
LEMMA RelockClientPreserves ==
  ASSUME IInv, RelockClient PROVE IInv'
<1> USE ReceiverAssumption DEF IInv, RelockClient, LoopOrReturn, lockVars, notifVars, workerVars
<1>1. TypeOK'
  BY DEF TypeOK, WorkerPc, ClientPc
<1>2. Locks' /\ Closed'
  BY Zenon DEF Locks, Closed
<1>3. Window'
  BY Zenon DEF Window, WindowBase
<1>4. FullWindow' /\ FlushPosted'
  BY Zenon DEF FullWindow, FlushPosted, InMove
<1>5. Tokens'
  BY Zenon DEF Tokens, ReadWindow
<1>6. Delivered'
  BY Zenon DEF Delivered, WindowBase
<1>7. NoLostDataWakeup' /\ NoZeroWindowAdvertised'
  BY Zenon DEF NoLostDataWakeup, NoZeroWindowAdvertised, wrote_win_sz
<1> QED BY <1>1, <1>2, <1>3, <1>4, <1>5, <1>6, <1>7, Zenon

-----------------------------------------------------------------------------
(* Every step keeps the invariant. *)
LEMMA StepIInv == IInv /\ [Next]_vars => IInv'
<1> SUFFICES ASSUME IInv, [Next]_vars PROVE IInv'
  BY Zenon
<1>1. CASE Worker
  BY <1>1, WorkerNextMsgPreserves, WorkerLockPreserves, OnMsgPreserves,
     SignalNotEmptyPreserves, RelockSignalPreserves, WaitFlushedPreserves,
     OnBufferFlushedPreserves, Zenon DEF Worker
<1>2. CASE RecvLoop
  BY <1>2, HandshakeRecvLockPreserves, HandshakeWorkerLockPreserves,
     ClientFlushPreserves, WaitNotEmptyPreserves, RelockFlushPreserves,
     SignalFlushedPreserves, RelockClientPreserves, Zenon DEF RecvLoop
<1>3. CASE \E n \in RecvSizes : RecvCall(n)
  BY <1>3, RecvCallPreserves, Zenon
<1>4. CASE UNCHANGED vars
  <2> USE <1>4 DEF IInv, vars, lockVars, notifVars, workerVars, clientVars
  <2>1. TypeOK' /\ Locks' /\ Closed'
    BY Zenon DEF TypeOK, Locks, Closed
  <2>2. Window' /\ Delivered'
    BY Zenon DEF Window, Delivered, WindowBase
  <2>3. FullWindow' /\ FlushPosted' /\ Tokens'
    BY Zenon DEF FullWindow, FlushPosted, Tokens, ReadWindow
  <2>4. NoLostDataWakeup' /\ NoZeroWindowAdvertised'
    BY Zenon DEF NoLostDataWakeup, NoZeroWindowAdvertised, wrote_win_sz
  <2> QED BY <2>1, <2>2, <2>3, <2>4, Zenon
<1> QED BY <1>1, <1>2, <1>3, <1>4, Zenon DEF Next

(* The strengthening holds in every reachable state. *)
THEOREM ReceiverInvariant == Spec => []IInv
  BY InitIInv, StepIInv, PTL DEF Spec

(* Every variable keeps its type: in particular the offsets stay inside    *)
(* the window, so put_data and flush stay inside the buffer.               *)
THEOREM TypeCorrect == Spec => []TypeOK
  BY ReceiverInvariant, PTL DEF IInv

(* recv() returns the stream in order, as long as client_flush_request has *)
(* not posted recv_worker_complete_notif twice for one window.             *)
THEOREM InOrder == Spec => []InOrderUnlessResignalled
<1>1. IInv => InOrderUnlessResignalled
  BY Zenon DEF IInv, Delivered, InOrderUnlessResignalled, DeliveredInOrder
<1> QED BY <1>1, ReceiverInvariant, PTL

(* Under the same condition every byte on_msg accepted has been returned   *)
(* by recv() or is still in the buffer.                                    *)
THEOREM NothingAcceptedIsLost == Spec => []AcceptedIsKept
<1>1. IInv => AcceptedIsKept
  <2> SUFFICES ASSUME IInv, ~resignalled
               PROVE  Len(received) + wrote_win_sz = Accepted
    BY Zenon DEF AcceptedIsKept
  <2>1. /\ win.start \in Nat /\ win.off \in Nat /\ flushed_off \in Nat
        /\ isn \in Nat
    BY ReceiverAssumption DEF IInv, TypeOK
  <2>2. Len(received) = WindowBase + flushed_off
    BY Zenon DEF IInv, Delivered
  <2> QED BY <2>1, <2>2 DEF WindowBase, wrote_win_sz, Accepted, begin
<1> QED BY <1>1, ReceiverInvariant, PTL

(* recv() never reads bytes an earlier window left in the buffer, whatever *)
(* it posted.                                                              *)
THEOREM ReadsAreFresh == Spec => []UnreadIsFresh
<1>1. IInv => UnreadIsFresh
  BY ReceiverAssumption DEF IInv, TypeOK, Window, UnreadIsFresh
<1> QED BY <1>1, ReceiverInvariant, PTL

(* on_msg never acknowledges with a window of 0. *)
THEOREM NeverAdvertisesZero == Spec => []NoZeroWindowAdvertised
  BY ReceiverInvariant, PTL DEF IInv

(* Neither semaphore loses a wakeup: input_win_wait_not_empty is not       *)
(* entered for good while there is data ...                                *)
THEOREM DataWakeup == Spec => []NoLostDataWakeup
  BY ReceiverInvariant, PTL DEF IInv

(* ... nor input_win_wait_completely_flushed while the window is read. *)
THEOREM FlushWakeup == Spec => []NoLostFlushWakeup
<1>1. IInv => NoLostFlushWakeup
  BY ReceiverAssumption
  DEF IInv, TypeOK, FullWindow, FlushPosted, NoLostFlushWakeup, wrote_win_sz
<1> QED BY <1>1, ReceiverInvariant, PTL

-----------------------------------------------------------------------------
(* The receive half of a socket implements Stream, for every window size,  *)
(* stream length, segment bound and set of recv() sizes: in IInv the       *)
(* delivered bytes are the first ones of the stream and their number is    *)
(* where the window says it is, so a step of Receiver is a step of Stream  *)
(* as soon as the two counts move as Take and Give want them.              *)

(* The counts behind the refinement mapping. *)
LEMMA CountsAreNumbers ==
  ASSUME IInv
  PROVE  /\ Accepted \in Int /\ Len(received) \in Nat
         /\ ~resignalled => Accepted - Len(received) = win.off - flushed_off
         /\ win.off \in 0 .. WinSz /\ flushed_off \in 0 .. WinSz
         /\ flushed_off <= win.off /\ WinSz \in Nat \ {0}
<1>1. /\ win.start \in Nat /\ win.off \in 0 .. WinSz /\ flushed_off \in 0 .. WinSz
      /\ isn \in Nat /\ flushed_off <= win.off /\ WinSz \in Nat \ {0}
      /\ received \in Seq(0 .. StreamLen)
  BY ReceiverAssumption, Zenon DEF IInv, TypeOK, Window
<1>2. Len(received) \in Nat
  BY <1>1, LenProperties, Zenon
<1>3. ~resignalled => Len(received) = win.start - isn + flushed_off
  BY Zenon DEF IInv, Delivered, WindowBase
<1> QED BY <1>1, <1>2, <1>3 DEF Accepted, begin

(* A sequence over a set is one over every larger set. *)
LEMMA SeqOfMore ==
  ASSUME NEW S, NEW T, S \subseteq T, NEW q \in Seq(S) PROVE q \in Seq(T)
<1>1. Len(q) \in Nat /\ q \in [1 .. Len(q) -> S]
  BY LenProperties, Zenon
<1>2. q \in [1 .. Len(q) -> T]
  BY <1>1, Zenon
<1> QED BY <1>1, <1>2

(* Any step that moves neither count is a stuttering step of Stream. *)
LEMMA StutterStep ==
  ASSUME UNCHANGED <<Accepted, received, resignalled>>
  PROVE  [Promised!Next]_(Promised!streamVars)
  BY Zenon DEF Promised!streamVars

(* __move: the window moves over a segment, which Stream takes. *)
LEMMA MoveTakes ==
  ASSUME IInv, OnMsg, ~resignalled
  PROVE  [Promised!Next]_(Promised!streamVars)
<1>1. UNCHANGED <<isn, flushed_off, received, resignalled>>
  BY Zenon DEF OnMsg, clientVars
<1>2. CASE ~Expected
  <2>1. UNCHANGED win
    BY <1>2, Zenon DEF OnMsg
  <2> QED BY <1>1, <2>1, StutterStep, Zenon DEF Accepted, begin
<1>3. CASE Expected
  <2>1. win' = inc(win, msg.len)
    BY <1>3, Zenon DEF OnMsg, Move
  <2>2. /\ win.off + msg.len <= WinSz /\ msg.len \in Nat \ {0}
    BY <1>3, ExpectedSegmentFits, Zenon DEF IInv, Locks, Window, OnMsg
  <2>3. win \in [start : Nat, off : 0 .. WinSz, sz : {WinSz}] /\ isn \in Nat
    BY Zenon DEF IInv, TypeOK
  <2>4. Accepted' = Accepted + msg.len
    BY <1>1, <2>1, <2>2, <2>3 DEF Accepted, begin, inc
  <2>5. Accepted + msg.len - Len(received) <= WinSz /\ msg.len \in 1 .. WinSz
    BY <2>2, CountsAreNumbers
  <2>6. Promised!Take(msg.len)
    BY <1>1, <2>4, <2>5, Zenon DEF Promised!Take
  <2> QED BY <2>5, <2>6, Zenon DEF Promised!Next
<1> QED BY <1>2, <1>3, Zenon

(* flush: recv() copies out the next bytes, which Stream gives. *)
LEMMA FlushGives ==
  ASSUME IInv, IInv', FlushBuffer, ~resignalled, ~resignalled',
         UNCHANGED <<isn, win, buf>>
  PROVE  [Promised!Next]_(Promised!streamVars)
<1> DEFINE n == Len(received') - Len(received)
<1>1. /\ flushed_off' \in flushed_off .. win.off
      /\ UNCHANGED Accepted /\ UNCHANGED resignalled
  BY FlushBufferReads, Zenon DEF Accepted, begin, IInv, TypeOK
<1>2. /\ Accepted \in Int /\ Len(received) \in Nat /\ Len(received') \in Nat
      /\ Accepted - Len(received) = win.off - flushed_off
      /\ Accepted' - Len(received') = win'.off - flushed_off'
      /\ win.off \in 0 .. WinSz /\ flushed_off \in 0 .. WinSz /\ WinSz \in Nat
  <2>1. /\ Len(received') \in Nat
        /\ Accepted' - Len(received') = win'.off - flushed_off'
    <3>1. /\ win'.start \in Nat /\ win'.off \in 0 .. WinSz
          /\ flushed_off' \in 0 .. WinSz
          /\ isn' \in Nat /\ received' \in Seq(0 .. StreamLen)
      BY Zenon DEF IInv, TypeOK
    <3>2. Len(received') = win'.start - isn' + flushed_off'
      BY Zenon DEF IInv, Delivered, WindowBase
    <3> QED BY <3>1, <3>2, LenProperties DEF Accepted, begin
  <2> QED BY <2>1, CountsAreNumbers, Zenon
<1>3. n \in 0 .. WinSz /\ Len(received) + n <= Accepted
  BY <1>1, <1>2
<1>4. /\ \A i \in 1 .. Len(received) : received[i] = i
      /\ \A i \in 1 .. Len(received') : received'[i] = i
  BY Zenon DEF IInv, Delivered
<1>5. received \in Seq(0 .. StreamLen) /\ received' \in Seq(0 .. StreamLen)
  BY Zenon DEF IInv, TypeOK
<1> DEFINE new == [i \in 1 .. n |-> Len(received) + i]
<1>6. received' = received \o new
  <2>1. new \in Seq(Int) /\ Len(new) = n /\ received \in Seq(Int) /\ received' \in Seq(Int)
    <3>1. new \in Seq(Int) /\ Len(new) = n
      BY <1>2, <1>3
    <3>2. received \in Seq(Int) /\ received' \in Seq(Int)
      <4>1. 0 .. StreamLen \subseteq Int
        OBVIOUS
      <4> QED BY <1>5, <4>1, SeqOfMore, Zenon
    <3> QED BY <3>1, <3>2, Zenon
  <2>2. /\ received \o new \in Seq(Int)
        /\ Len(received \o new) = Len(received')
    <3>1. Len(received) + n = Len(received')
      BY <1>2
    <3> HIDE DEF new, n
    <3> QED BY <2>1, <3>1, ConcatProperties, Zenon
  <2>3. ASSUME NEW i \in 1 .. Len(received') PROVE (received \o new)[i] = i
    <3>1. (received \o new)[i] = IF i <= Len(received) THEN received[i]
                                 ELSE new[i - Len(received)]
      <4>1. i \in 1 .. Len(received) + Len(new)
        <5>1. Len(received) + n = Len(received')
          BY <1>2
        <5> HIDE DEF new, n
        <5> QED BY <2>1, <5>1, Zenon
      <4> HIDE DEF new, n
      <4> QED BY <2>1, <4>1, ConcatProperties, Zenon
    <3>2. CASE i <= Len(received)
      BY <1>2, <1>4, <3>1, <3>2
    <3>3. CASE i > Len(received)
      <4>1. i - Len(received) \in 1 .. n
        BY <1>2, <3>3
      <4>2. new[i - Len(received)] = i
        BY <1>2, <4>1
      <4> QED BY <1>2, <3>1, <3>3, <4>2
    <3> QED BY <1>2, <3>2, <3>3
  <2>4. \A i \in 1 .. Len(received') : received'[i] = (received \o new)[i]
    BY <1>4, <2>3, Zenon
  <2> HIDE DEF new, n
  <2> QED BY <2>1, <2>2, <2>4, SeqEqual, Zenon
<1>7. CASE n = 0
  <2>1. Len(received') = Len(received)
    BY <1>2, <1>7
  <2>2. \A i \in 1 .. Len(received) : received'[i] = received[i]
    BY <1>4, <2>1
  <2>3. received' = received
    BY <1>5, <2>1, <2>2, SeqEqual, Zenon
  <2> QED BY <1>1, <2>3, StutterStep, Zenon
<1>8. CASE n # 0
  <2>1. Promised!Give(n)
    BY <1>1, <1>3, <1>6, Zenon DEF Promised!Give
  <2>2. n \in 1 .. WinSz
    BY <1>3, <1>8
  <2> HIDE DEF n
  <2> QED BY <2>1, <2>2, Zenon DEF Promised!Next
<1> QED BY <1>7, <1>8, Zenon
(* __on_buffer_flushed: the new window starts where the full one ended. *)
LEMMA TurnStutters ==
  ASSUME IInv, OnBufferFlushed
  PROVE  UNCHANGED <<Accepted, received, resignalled>>
<1>1. /\ win \in [start : Nat, off : 0 .. WinSz, sz : {WinSz}]
      /\ win.off = WinSz /\ isn \in Nat /\ WinSz \in Nat
  BY ReceiverAssumption, Zenon DEF IInv, TypeOK, FullWindow, OnBufferFlushed
<1>2. win' = next_window(win) /\ UNCHANGED <<isn, received, resignalled>>
  BY Zenon DEF OnBufferFlushed, clientVars
<1>3. win'.start = win.start + WinSz /\ win'.off = 0
  BY <1>1, <1>2, Zenon DEF next_window
<1> QED BY <1>1, <1>2, <1>3 DEF Accepted, begin

(* recv_established moves a window nothing has been accepted into. *)
LEMMA HandshakeStutters ==
  ASSUME IInv, HandshakeWorkerLock
  PROVE  UNCHANGED <<Accepted, received, resignalled>>
<1>0. UNCHANGED <<received, resignalled>>
  BY Zenon DEF HandshakeWorkerLock
<1>1. CASE state # "CLOSED"
  BY <1>0, <1>1, Zenon DEF HandshakeWorkerLock, Accepted, begin
<1>2. CASE state = "CLOSED"
  <2>1. PICK s \in StartSeqs :
          isn' = s /\ win' = [win EXCEPT !.start = s, !.off = 0]
    BY <1>2, Zenon DEF HandshakeWorkerLock
  <2>2. s \in Nat
    BY ReceiverAssumption, ModuloAssumption
  <2>3. /\ win \in [start : Nat, off : 0 .. WinSz, sz : {WinSz}] /\ isn \in Nat
        /\ win.off = 0 /\ flushed_off = 0 /\ Len(received) = 0 /\ ~resignalled
    BY <1>2, EmptySeq, Zenon DEF IInv, TypeOK, Closed
  <2>4. Accepted = 0
    BY <2>3, CountsAreNumbers
  <2>5. win'.start = s /\ win'.off = 0
    BY <2>1, <2>3, Zenon
  <2>6. Accepted' = 0
    BY <2>1, <2>2, <2>5 DEF Accepted, begin
  <2> QED BY <1>0, <2>4, <2>6, Zenon
<1> QED BY <1>1, <1>2, Zenon

(* Every step of the receive half is a step of Stream, or none. *)
LEMMA StepIsStreamStep ==
  ASSUME IInv, IInv', [Next]_vars
  PROVE  [Promised!Next]_(Promised!streamVars)
<1>1. CASE resignalled'
  BY <1>1, Zenon DEF Promised!Next, Promised!Break, IInv, TypeOK
<1>2. CASE ~resignalled'
  <2>0. ASSUME FlushBuffer, UNCHANGED <<isn, win, buf>>
        PROVE  [Promised!Next]_(Promised!streamVars)
    BY <1>2, <2>0, FlushBufferReads, FlushGives, Zenon
  <2>1. CASE Worker
    <3>1. CASE OnMsg
      <4>1. ~resignalled
        BY <1>2, <3>1, Zenon DEF OnMsg, clientVars
      <4> QED BY <3>1, <4>1, MoveTakes, Zenon
    <3>2. CASE OnBufferFlushed
      BY <3>2, TurnStutters, StutterStep, Zenon
    <3>3. CASE \/ \E s \in Segments : WorkerNextMsg(s)
               \/ WorkerLock \/ SignalNotEmpty \/ RelockSignal \/ WaitFlushed
      <4>1. UNCHANGED <<isn, win, received, resignalled>>
        BY <3>3, Zenon DEF WorkerNextMsg, WorkerLock, SignalNotEmpty, RelockSignal,
                    WaitFlushed, clientVars
      <4> QED BY <4>1, StutterStep, Zenon DEF Accepted, begin
    <3> QED BY <2>1, <3>1, <3>2, <3>3, Zenon DEF Worker
  <2>2. CASE RecvLoop
    <3>1. CASE HandshakeWorkerLock
      BY <3>1, HandshakeStutters, StutterStep, Zenon
    <3>2. CASE RelockFlush
      BY <2>0, <3>2, Zenon DEF RelockFlush
    <3>3. CASE ClientFlush /\ wrote_win_sz # 0
      BY <2>0, <3>3, Zenon DEF ClientFlush
    <3>4. CASE \/ ClientFlush /\ wrote_win_sz = 0
               \/ HandshakeRecvLock \/ WaitNotEmpty \/ SignalFlushed \/ RelockClient
      <4>1. UNCHANGED <<isn, win, received, resignalled>>
        BY <3>4, Zenon DEF ClientFlush, HandshakeRecvLock, WaitNotEmpty, SignalFlushed,
                    RelockClient
      <4> QED BY <4>1, StutterStep, Zenon DEF Accepted, begin
    <3> QED BY <2>2, <3>1, <3>2, <3>3, <3>4, Zenon DEF RecvLoop
  <2>3. CASE (\E n \in RecvSizes : RecvCall(n)) \/ UNCHANGED vars
    <3>1. UNCHANGED <<isn, win, received, resignalled>>
      BY <2>3, Zenon DEF RecvCall, vars, clientVars
    <3> QED BY <3>1, StutterStep, Zenon DEF Accepted, begin
  <2> QED BY <2>1, <2>2, <2>3, Zenon DEF Next
<1> QED BY <1>1, <1>2, Zenon

(* The receive half of a socket is a byte stream through a buffer of one   *)
(* window: what on_msg accepted comes out of recv() in order and once, and *)
(* never more than a window of it is waiting, as long as                   *)
(* client_flush_request has not posted twice for one window.               *)
THEOREM ReceiverImplementsStream == Spec => ImplementsStream
<1>1. Init => Promised!Init
  BY DEF Init, Promised!Init, Accepted, begin, receiver_window
<1>2. IInv /\ IInv' /\ [Next]_vars => [Promised!Next]_(Promised!streamVars)
  BY StepIsStreamStep, Zenon
<1> QED BY <1>1, <1>2, ReceiverInvariant, PTL DEF Spec, ImplementsStream, Promised!Spec
=============================================================================
