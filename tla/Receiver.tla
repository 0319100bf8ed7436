------------------------------ MODULE Receiver ------------------------------
(***************************************************************************)
(* The receive half of one socket: receiver_window_processing and          *)
(* receiver_buffer_processing (src/src/tcp_proto_input.h) driven by the    *)
(* two threads of src/src/newimpl.cpp that use them, the receive worker    *)
(* (input_recv_worker) and the thread that calls recv().                   *)
(*                                                                         *)
(* The threads share the window and its buffer under two locks and tell    *)
(* each other about it with two counting semaphores.  Every point where a  *)
(* thread takes a lock, waits on a semaphore or posts one is a step of its *)
(* own; what happens under recv_lock between two such points is one step.  *)
(* Releases that follow each other directly are merged into the step       *)
(* before them (a release never blocks and touches nothing else).          *)
(*                                                                         *)
(* A byte of the stream is its position, 1, 2, 3, ...  The peer may repeat,*)
(* reorder and lose segments: the worker is handed any segment the peer    *)
(* can have put on the wire, at any time and any number of times.          *)
(***************************************************************************)
EXTENDS SeqWindow, Sequences

CONSTANTS
    WinSz,       \* INPUT_WINDOW_SZ
    StreamLen,   \* bound: bytes the peer ever sends
    MaxSeg,      \* bound: longest segment
    StartSeqs,   \* sequence numbers a handshake may agree on
    RecvSizes,   \* sizes the application passes to recv()
    Roles        \* how the socket was opened, see Init

ASSUME ReceiverAssumption ==
    /\ WinSz \in Nat \ {0}
    /\ StreamLen \in Nat
    /\ StreamLen <= Modulo
    /\ MaxSeg \in Nat
    /\ StartSeqs \subseteq 0 .. Modulo - 1
    /\ RecvSizes \subseteq Nat \ {0}
    /\ Roles \subseteq {"passive", "active"}

VARIABLES
    state,             \* INTERNAL_STATE area: "CLOSED" or "ESTABLISHED"
    isn,               \* sequence number of stream position 0
    win,               \* receiver_window in shared memory
    flushed_off,       \* bytes of the window already given to recv()
    buf,               \* the window's buffer: stream position at each offset
    recv_lock,         \* binary semaphores, 1 when free
    recv_worker_lock,
    complete_notif,    \* recv_worker_complete_notif
    not_empty_notif,   \* recv_worker_buf_not_empty_notif
    started,           \* the worker thread runs
    wpc, msg,          \* the worker: where it is, the segment in its hands
    cpc, req,          \* recv(): where it is, bytes still to read
    received,          \* history: everything recv() has copied out
    acks,              \* history: every acknowledgement sent
    resignalled        \* history: complete_notif was posted twice for a window

lockVars  == <<recv_lock, recv_worker_lock>>
notifVars == <<complete_notif, not_empty_notif>>
workerVars == <<wpc, msg>>
clientVars == <<cpc, req, received, resignalled>>
vars == <<state, isn, win, flushed_off, buf, lockVars, notifVars, started,
          workerVars, clientVars, acks>>

Segments == {s \in [pos : 0 .. StreamLen, len : 1 .. MaxSeg] :
                s.pos + s.len <= StreamLen}
NoMsg == [pos |-> 0, len |-> 0]

WorkerPc == {"next_msg", "worker_lock", "on_msg", "signal_not_empty",
             "relock_signal", "wait_flushed", "relock_flushed"}
ClientPc == {"idle", "hs_recv_lock", "hs_worker_lock", "flush",
             "wait_not_empty", "relock_flush", "signal_flushed",
             "relock_client"}

Min2(a, b) == IF a <= b THEN a ELSE b

(* The sequence number a segment carries. *)
SeqOf(s) == tcp_seq(isn + s.pos)

(* __wrote_win_sz: bytes in the buffer that recv() has not taken. *)
wrote_win_sz == win.off - flushed_off

(* Bytes of the stream before the current window, and bytes accepted. *)
WindowBase == win.start - isn
Accepted   == begin(win) - isn

-----------------------------------------------------------------------------
(* A fresh socket, before any handshake ("passive"); or one whose send()   *)
(* has already done the handshake, which leaves this direction at sequence *)
(* number 0 and the worker running ("active").                             *)
Init ==
    /\ \/ "passive" \in Roles /\ state = "CLOSED" /\ started = FALSE
       \/ "active" \in Roles /\ state = "ESTABLISHED" /\ started = TRUE
    /\ isn = 0
    /\ win = receiver_window(0, WinSz)
    /\ flushed_off = 0
    /\ buf = [o \in 1 .. WinSz |-> 0]
    /\ recv_lock = 1 /\ recv_worker_lock = 1
    /\ complete_notif = 0 /\ not_empty_notif = 0
    /\ wpc = "next_msg" /\ msg = NoMsg
    /\ cpc = "idle" /\ req = 0
    /\ received = << >>
    /\ acks = {}
    /\ resignalled = FALSE

-----------------------------------------------------------------------------
(* The receive worker *)

(* output_send_ack(win.before_begin(), win.get_sz()), then both locks go. *)
SendAck(w) ==
    /\ acks' = acks \cup {[seq |-> tcp_seq(before_begin(w)), win |-> get_sz(w)]}
    /\ recv_worker_lock' = 1
    /\ wpc' = "next_msg"

(* next_msg() hands over a data segment.  The peer sends nothing past the  *)
(* end of the window it was told about.                                    *)
WorkerNextMsg(s) ==
    /\ started
    /\ wpc = "next_msg"
    /\ s.pos + s.len <= WindowBase + WinSz
    /\ msg' = s
    /\ wpc' = "worker_lock"
    /\ UNCHANGED <<state, isn, win, flushed_off, buf, lockVars, notifVars,
                   started, clientVars, acks>>

(* input_on_regular_msg takes recv_worker_lock and looks at the state. *)
WorkerLock ==
    /\ wpc = "worker_lock"
    /\ recv_worker_lock = 1
    /\ IF state = "ESTABLISHED"
         THEN recv_worker_lock' = 0 /\ wpc' = "on_msg"
         ELSE recv_worker_lock' = 1 /\ wpc' = "next_msg"
    /\ UNCHANGED <<state, isn, win, flushed_off, buf, recv_lock, notifVars,
                   started, msg, clientVars, acks>>

(* Mutant: the first byte of the segment lands one slot too far. *)
put_data_Shifted(off, s) ==
    [o \in 1 .. WinSz |-> IF o > off + 1 /\ o <= off + s.len
                            THEN s.pos + o - off ELSE buf[o]]

(* The buffer after a segment was copied in at offset off. *)
put_data(off, s) ==
    [o \in 1 .. WinSz |-> IF o > off /\ o <= off + s.len
                            THEN s.pos + o - off ELSE buf[o]]

(* Mutant: the reader is never told about new data. *)
NeedNotEmptySignal_Never == FALSE

NeedNotEmptySignal == wrote_win_sz = 0

(* Mutant: a full window is acknowledged at once. *)
AckOrWait_NoWait(w) == SendAck(w)

(* The tail of __move, then the acknowledgement of on_msg: a window that   *)
(* is full is acknowledged only after recv() has read all of it.           *)
AckOrWait(w) ==
    IF get_sz(w) = 0
      THEN wpc' = "wait_flushed" /\ UNCHANGED <<acks, recv_worker_lock>>
      ELSE SendAck(w)

(* __move up to the first point where it lets go of recv_lock. *)
Move ==
    /\ buf' = put_data(win.off, msg)
    /\ win' = inc(win, msg.len)
    /\ IF NeedNotEmptySignal
         THEN wpc' = "signal_not_empty" /\ UNCHANGED <<acks, recv_worker_lock>>
         ELSE AckOrWait(inc(win, msg.len))

(* Mutant: any segment inside the window is taken. *)
Expected_InWindow == contains(win, receiver_window(SeqOf(msg), msg.len))

(* on_msg takes only the segment the window waits for. *)
Expected ==
    /\ contains(win, receiver_window(SeqOf(msg), msg.len))
    /\ SeqOf(msg) = begin(win)

(* on_msg under recv_lock: whatever came in, moved or skipped, is answered *)
(* with an acknowledgement.                                                *)
OnMsg ==
    /\ wpc = "on_msg"
    /\ recv_lock = 1
    /\ IF Expected THEN Move ELSE SendAck(win) /\ UNCHANGED <<buf, win>>
    /\ UNCHANGED <<state, isn, flushed_off, recv_lock, notifVars, started, msg,
                   clientVars>>

(* input_win_signal_not_empty, with recv_lock released around it. *)
SignalNotEmpty ==
    /\ wpc = "signal_not_empty"
    /\ not_empty_notif' = not_empty_notif + 1
    /\ wpc' = "relock_signal"
    /\ UNCHANGED <<state, isn, win, flushed_off, buf, lockVars, complete_notif,
                   started, msg, clientVars, acks>>

(* __move again under recv_lock after the signal. *)
RelockSignal ==
    /\ wpc = "relock_signal"
    /\ recv_lock = 1
    /\ AckOrWait(win)
    /\ UNCHANGED <<state, isn, win, flushed_off, buf, recv_lock, notifVars,
                   started, msg, clientVars>>

(* Mutant: the wait ends although nobody posted. *)
WaitFlushed_Spurious ==
    /\ wpc = "wait_flushed"
    /\ wpc' = "relock_flushed"
    /\ UNCHANGED <<state, isn, win, flushed_off, buf, lockVars, notifVars,
                   started, msg, clientVars, acks>>

(* input_win_wait_completely_flushed: recv_worker_lock stays taken. *)
WaitFlushed ==
    /\ wpc = "wait_flushed"
    /\ complete_notif > 0
    /\ complete_notif' = complete_notif - 1
    /\ wpc' = "relock_flushed"
    /\ UNCHANGED <<state, isn, win, flushed_off, buf, lockVars, not_empty_notif,
                   started, msg, clientVars, acks>>

(* __on_buffer_flushed: the next window begins and its buffer is reused. *)
OnBufferFlushed ==
    /\ wpc = "relock_flushed"
    /\ recv_lock = 1
    /\ win' = next_window(win)
    /\ flushed_off' = 0
    /\ SendAck(next_window(win))
    /\ UNCHANGED <<state, isn, buf, recv_lock, notifVars, started, msg,
                   clientVars>>

-----------------------------------------------------------------------------
(* The thread that calls recv() *)

(* recv(n): the application asks only for bytes the peer will send. *)
RecvCall(n) ==
    /\ cpc = "idle"
    /\ Len(received) + n <= StreamLen
    /\ req' = n
    /\ cpc' = "hs_recv_lock"
    /\ UNCHANGED <<state, isn, win, flushed_off, buf, lockVars, notifVars,
                   started, workerVars, received, resignalled, acks>>

(* handshake(true) takes recv_lock first ... *)
HandshakeRecvLock ==
    /\ cpc = "hs_recv_lock"
    /\ recv_lock = 1
    /\ recv_lock' = 0
    /\ cpc' = "hs_worker_lock"
    /\ UNCHANGED <<state, isn, win, flushed_off, buf, recv_worker_lock,
                   notifVars, started, workerVars, req, received, resignalled,
                   acks>>

(* ... then recv_worker_lock; a closed socket goes through the handshake   *)
(* (recv_established moves the window to the agreed number), both locks    *)
(* are released and the worker is started.                                 *)
HandshakeWorkerLock ==
    /\ cpc = "hs_worker_lock"
    /\ recv_worker_lock = 1
    /\ IF state = "CLOSED"
         THEN \E s \in StartSeqs :
                /\ isn' = s
                /\ win' = [win EXCEPT !.start = s, !.off = 0]
                /\ flushed_off' = 0
         ELSE UNCHANGED <<isn, win, flushed_off>>
    /\ state' = "ESTABLISHED"
    /\ recv_lock' = 1
    /\ started' = TRUE
    /\ cpc' = "flush"
    /\ UNCHANGED <<buf, recv_worker_lock, notifVars, workerVars, req, received,
                   resignalled, acks>>

(* recv_proc: leave the loop or go round it. *)
LoopOrReturn(left) == IF left = 0 THEN "idle" ELSE "flush"

(* Mutant: the end of the window is compared before this flush counts. *)
CompletelyFlushed_Before(sz) == flushed_off = win.off /\ get_sz(win) = 0

(* After sz more bytes the window is full and all of it has been read. *)
CompletelyFlushed(sz) == flushed_off + sz = win.off /\ get_sz(win) = 0

(* client_flush_request from the point where there may be data: copy it    *)
(* out and tell the worker when the whole window has been read.            *)
FlushBuffer ==
    LET sz == Min2(wrote_win_sz, req)
        done == CompletelyFlushed(sz)
    IN  /\ received' = received \o SubSeq(buf, flushed_off + 1, flushed_off + sz)
        /\ flushed_off' = flushed_off + sz
        /\ req' = req - sz
        /\ cpc' = IF done THEN "signal_flushed" ELSE LoopOrReturn(req - sz)
        /\ resignalled' = (resignalled \/ (done /\ sz = 0))

(* client_flush_request: nothing to read means waiting for the worker. *)
ClientFlush ==
    /\ cpc = "flush"
    /\ recv_lock = 1
    /\ IF wrote_win_sz = 0
         THEN cpc' = "wait_not_empty" /\ UNCHANGED <<flushed_off, req, received, resignalled>>
         ELSE FlushBuffer
    /\ UNCHANGED <<state, isn, win, buf, lockVars, notifVars, started,
                   workerVars, acks>>

(* input_win_wait_not_empty *)
WaitNotEmpty ==
    /\ cpc = "wait_not_empty"
    /\ not_empty_notif > 0
    /\ not_empty_notif' = not_empty_notif - 1
    /\ cpc' = "relock_flush"
    /\ UNCHANGED <<state, isn, win, flushed_off, buf, lockVars, complete_notif,
                   started, workerVars, req, received, resignalled, acks>>

(* The emptiness test is not repeated after the wait. *)
RelockFlush ==
    /\ cpc = "relock_flush"
    /\ recv_lock = 1
    /\ FlushBuffer
    /\ UNCHANGED <<state, isn, win, buf, lockVars, notifVars, started,
                   workerVars, acks>>

(* input_win_signal_completely_flushed, with recv_lock released around it. *)
SignalFlushed ==
    /\ cpc = "signal_flushed"
    /\ complete_notif' = complete_notif + 1
    /\ cpc' = "relock_client"
    /\ UNCHANGED <<state, isn, win, flushed_off, buf, lockVars, not_empty_notif,
                   started, workerVars, req, received, resignalled, acks>>

(* recv_lock is taken and released once more, then recv_proc goes on. *)
RelockClient ==
    /\ cpc = "relock_client"
    /\ recv_lock = 1
    /\ cpc' = LoopOrReturn(req)
    /\ UNCHANGED <<state, isn, win, flushed_off, buf, lockVars, notifVars,
                   started, workerVars, req, received, resignalled, acks>>

-----------------------------------------------------------------------------
Worker ==
    \/ \E s \in Segments : WorkerNextMsg(s)
    \/ WorkerLock \/ OnMsg \/ SignalNotEmpty \/ RelockSignal
    \/ WaitFlushed \/ OnBufferFlushed

RecvLoop ==
    \/ HandshakeRecvLock \/ HandshakeWorkerLock
    \/ ClientFlush \/ WaitNotEmpty \/ RelockFlush
    \/ SignalFlushed \/ RelockClient

Next ==
    \/ Worker
    \/ RecvLoop
    \/ \E n \in RecvSizes : RecvCall(n)

Spec == Init /\ [][Next]_vars

(* The peer retransmits a segment until it is acknowledged and the network *)
(* does not lose every copy: the segment the window waits for is handed    *)
(* over again and again, not just once. *)
ExpectedSegment == \E s \in Segments : s.pos = Accepted /\ WorkerNextMsg(s)

(* Threads and semaphores are scheduled fairly: a thread that stays        *)
(* runnable runs, one that finds a semaphore free again and again gets it. *)
Fairness ==
    /\ SF_vars(ExpectedSegment)
    /\ SF_vars(WorkerLock) /\ SF_vars(OnMsg) /\ WF_vars(SignalNotEmpty)
    /\ SF_vars(RelockSignal) /\ WF_vars(WaitFlushed) /\ SF_vars(OnBufferFlushed)
    /\ SF_vars(HandshakeRecvLock) /\ SF_vars(HandshakeWorkerLock)
    /\ SF_vars(ClientFlush) /\ WF_vars(WaitNotEmpty) /\ SF_vars(RelockFlush)
    /\ WF_vars(SignalFlushed) /\ SF_vars(RelockClient)

FairSpec == Spec /\ Fairness

-----------------------------------------------------------------------------
TypeOK ==
    /\ state \in {"CLOSED", "ESTABLISHED"}
    /\ isn \in Nat
    /\ win \in [start : Nat, off : 0 .. WinSz, sz : {WinSz}]
    /\ flushed_off \in 0 .. WinSz
    /\ buf \in [1 .. WinSz -> 0 .. StreamLen]
    /\ recv_lock \in {0, 1} /\ recv_worker_lock \in {0, 1}
    /\ complete_notif \in Nat /\ not_empty_notif \in Nat
    /\ started \in BOOLEAN
    /\ wpc \in WorkerPc /\ msg \in Segments \cup {NoMsg}
    /\ cpc \in ClientPc /\ req \in Nat
    /\ received \in Seq(0 .. StreamLen)
    /\ acks \subseteq [seq : 0 .. Modulo - 1, win : Nat]
    /\ resignalled \in BOOLEAN

(* recv() returns the stream: every byte it copies out is the next byte of *)
(* the stream, none skipped, repeated or read before it was written.       *)
DeliveredInOrder == \A i \in 1 .. Len(received) : received[i] = i

(* The bytes of the stream are delivered in order as long as recv() has    *)
(* never posted recv_worker_complete_notif twice for one window            *)
(* (client_flush_request does that when it flushes 0 bytes of a window     *)
(* that is already completely read).                                       *)
InOrderUnlessResignalled == ~resignalled => DeliveredInOrder

(* Nothing that was acknowledged is lost: the bytes recv() has returned    *)
(* and the bytes still in the buffer are together all the bytes accepted   *)
(* (with the same exception as InOrderUnlessResignalled).                  *)
AcceptedIsKept == ~resignalled => Len(received) + wrote_win_sz = Accepted

(* What recv() will read next is data the worker has written for this      *)
(* window, never bytes left over from an earlier one.                      *)
UnreadIsFresh ==
    \A o \in flushed_off + 1 .. win.off : buf[o] = WindowBase + o

(* No acknowledgement advertises a window of 0: the worker waits for the   *)
(* reader before it answers the segment that fills the window.  Nagle's    *)
(* loop in the peer would spin on a window of 0.                           *)
NoZeroWindowAdvertised == \A a \in acks : a.win > 0

(* A reader that waits on recv_worker_buf_not_empty_notif while there is   *)
(* data has a post to wake it, or the worker is about to make one.         *)
NoLostDataWakeup ==
    cpc = "wait_not_empty" /\ wrote_win_sz > 0 =>
        not_empty_notif > 0 \/ wpc = "signal_not_empty"

(* A worker that waits on recv_worker_complete_notif for a window that is  *)
(* completely read has a post to wake it, or recv() is about to make one.  *)
NoLostFlushWakeup ==
    wpc = "wait_flushed" /\ wrote_win_sz = 0 =>
        complete_notif > 0 \/ cpc = "signal_flushed"

(* The receive half implements Stream: a byte goes in when on_msg moves    *)
(* the window over it and comes out when recv() copies it; the buffer      *)
(* holds at most a window; a second post for one window breaks it.         *)
Promised == INSTANCE Stream WITH
    Capacity <- WinSz, taken <- Accepted, out <- received, broken <- resignalled

ImplementsStream == Promised!Spec

(* A recv() returns: stream_socket.h promises that it reads all the bytes  *)
(* asked for (or throws).  Checked for one call of the whole stream; a     *)
(* further call may meet a worker that holds recv_worker_lock and waits    *)
(* for it.                                                                 *)
RecvReturns == cpc # "idle" ~> cpc = "idle"
=============================================================================
