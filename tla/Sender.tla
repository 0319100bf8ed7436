------------------------------- MODULE Sender -------------------------------
(***************************************************************************)
(* The send half of one socket: nagles, send_cumulative_window_processing, *)
(* send_output_buffer, congection_window_control and fast_retransmit       *)
(* (src/src/tcp_proto_output.h) driven by the three threads of             *)
(* src/src/newimpl.cpp that use them: the caller of send(), the send       *)
(* worker (output_send_buf_worker), and the receive worker when it is      *)
(* handed an acknowledgement (output_on_ack).                              *)
(*                                                                         *)
(* All three work under send_worker_lock.  A step ends where a thread lets *)
(* go of that lock, or waits.  The lock is a semaphore and is modelled as  *)
(* a count.                                                                *)
(*                                                                         *)
(* The send buffer is modelled cell by cell, because its memory is reused  *)
(* while the send worker still holds a pointer into it: a message is one   *)
(* header cell followed by one cell per byte of data.  A byte of the       *)
(* stream is its position, 1, 2, 3, ...                                    *)
(*                                                                         *)
(* The peer accepts the segment it waits for and answers every segment,    *)
(* as Receiver does; segments and acknowledgements may be lost, repeated   *)
(* and reordered.                                                          *)
(***************************************************************************)
EXTENDS SeqWindow, Sequences

CONSTANTS
    WinSz,        \* OUTPUT_WINDOW_SZ, equal to the peer's INPUT_WINDOW_SZ
    Mtu,          \* data bytes in the largest segment
    CongStart,    \* OUTPUT_CONGECTION_START_SZ
    DupBound,     \* TCP_FAST_RETRANSMIT_BOUND
    MapSz,        \* entries of off_map (OUTPUT_SEND_BUF_SZ in the code)
    LenShift,     \* 256: what get_msg_data_sz divides the sequence number by
    StreamLen,    \* bound: bytes ever passed to send()
    SendSizes,    \* sizes the application passes to send()
    StartSeqs,    \* sequence numbers a handshake may agree on
    MaxCong,      \* bound: the congestion window is not counted past this
    MaxDups,      \* bound: acknowledgements delivered that do not move the window
    MaxFails,     \* bound: calls of sendto that fail
    MaxLosses     \* bound: segments and acknowledgements lost at once (any
                  \* other may be late for as long as fairness allows)

ASSUME SenderAssumption ==
    /\ WinSz \in Nat \ {0} /\ Mtu \in Nat \ {0}
    /\ CongStart \in Nat \ {0} /\ MaxCong \in Nat /\ CongStart <= MaxCong
    /\ DupBound \in Nat \ {0} /\ LenShift \in Nat \ {0}
    /\ MapSz \in Nat /\ WinSz < MapSz
    /\ StreamLen \in Nat /\ SendSizes \subseteq Nat \ {0}
    /\ StartSeqs \subseteq 0 .. Modulo - 1
    /\ MaxDups \in Nat /\ MaxFails \in Nat /\ MaxLosses \in Nat

(* The stream ends before the end of the sequence space: there the window  *)
(* stalls (WindowArith), and nothing more is sent.                         *)
ASSUME NoWrapAssumption == \A s \in StartSeqs : s + StreamLen + WinSz < Modulo

VARIABLES
    state,            \* INTERNAL_STATE area: "CLOSED" or "ESTABLISHED"
    isn,              \* sequence number of stream position 0
    win,              \* send_window in shared memory
    mem, off_map, end_off,   \* send_output_buffer: cells, off_map, end
    lock,             \* send_worker_lock
    empty_notif,      \* send_buf_empty_notif
    not_empty_notif,  \* send_buf_not_empty_notif
    receiver_win, cong,      \* congection_window_control
    fr_last, fr_cnt,  \* fast_retransmit
    wpc, cur, scan,   \* the send worker: where it is, its msg_, its scan offset
    cpc, left, bound, data, seg, futures,   \* send(): its locals
    put,              \* history: bytes of the stream put into the buffer
    wire, acks,       \* the network: every segment and acknowledgement sent
    peer,             \* the peer: the bytes it has accepted
    dups, fails, losses,     \* counters for MaxDups, MaxFails and MaxLosses
    stale,            \* history: the worker used msg_ after its memory was reused
    crashed           \* off_map was indexed past its end

winVars  == <<state, isn, win>>
bufVars  == <<mem, off_map, end_off>>
notifVars == <<empty_notif, not_empty_notif>>
congVars == <<receiver_win, cong>>
frVars   == <<fr_last, fr_cnt>>
workerVars == <<wpc, cur, scan>>
clientVars == <<cpc, left, bound, data, seg, futures, put>>
netVars  == <<wire, acks, peer>>
histVars == <<dups, fails, losses, stale, crashed>>
vars == <<winVars, bufVars, lock, notifVars, congVars, frVars, workerVars,
          clientVars, netVars, histVars>>

MinOf(a, b) == IF a <= b THEN a ELSE b
MaxOf(a, b) == IF a >= b THEN a ELSE b

Cells == 0 .. 2 * WinSz
NoCell == [kind |-> "none", seq |-> 0, len |-> 0, used |-> FALSE, sem |-> 0, pos |-> 0]

(* put_msg_inplace: a message just copied in, its semaphore initialised. *)
HeaderCell(s, n) == [NoCell EXCEPT !.kind = "header", !.seq = s, !.len = n]
DataCell(p)      == [NoCell EXCEPT !.kind = "data", !.pos = p]

(* What a reader may find at a cell it takes for a header: where there is  *)
(* user data, any sequence number and either value of the flag.            *)
SeqsAt(p) == IF mem[p].kind = "data" THEN 0 .. Modulo - 1 ELSE {mem[p].seq}
UsedAt(p) == IF mem[p].kind = "data" THEN BOOLEAN ELSE {mem[p].used}

(* Mutant: the flag lies in the first byte of the data. *)
mark_msg_used_InData(m, p, b) ==
    [q \in Cells |-> IF q = p + 1 THEN [m[q] EXCEPT !.pos = 0] ELSE m[q]]

(* A write through a message pointer: mark_msg_used.  On user data it      *)
(* overwrites a byte.                                                      *)
mark_msg_used(m, p, b) ==
    [m EXCEPT ![p] = IF @.kind = "data" THEN [@ EXCEPT !.pos = 0]
                                        ELSE [@ EXCEPT !.used = b]]

sent_buf_empty == win.sent_off = win.off

bounded_win_sz == MinOf(receiver_win, cong)

(* check_msg_complete, for a message that reads as sequence number s. *)
msg_complete(s) == ~contains(win, SINGLE_WINDOW(s))

-----------------------------------------------------------------------------
Init ==
    /\ state = "CLOSED" /\ isn = 0
    /\ win = [start |-> 0, off |-> 0, sent_off |-> 0, sz |-> WinSz]
    /\ mem = [p \in Cells |-> NoCell]
    /\ off_map = [o \in 0 .. MapSz - 1 |-> 0]
    /\ end_off = 0
    /\ lock = 1 /\ empty_notif = 0 /\ not_empty_notif = 0
    /\ receiver_win = WinSz /\ cong = CongStart
    /\ fr_last = 0 /\ fr_cnt = 0
    /\ wpc = "off" /\ cur = 0 /\ scan = 0
    /\ cpc = "idle" /\ left = 0 /\ bound = 0 /\ data = 0 /\ seg = 0
    /\ futures = << >> /\ put = 0
    /\ wire = {} /\ acks = {} /\ peer = << >>
    /\ dups = 0 /\ fails = 0 /\ losses = 0 /\ stale = FALSE /\ crashed = FALSE

-----------------------------------------------------------------------------
(* The caller of send() *)

SendCall(n) ==
    /\ cpc = "idle"
    /\ put + n <= StreamLen
    /\ left' = n
    /\ cpc' = "handshake"
    /\ UNCHANGED <<winVars, bufVars, lock, notifVars, congVars, frVars,
                   workerVars, bound, data, seg, futures, put, netVars, histVars>>

(* handshake(false) under send_worker_lock: send_established moves the     *)
(* window of a closed socket to the agreed number.  Then the workers start.*)
Handshake ==
    /\ cpc = "handshake"
    /\ lock > 0
    /\ IF state = "CLOSED"
         THEN \E s \in StartSeqs :
                isn' = s /\ win' = [win EXCEPT !.start = s, !.off = 0, !.sent_off = 0]
         ELSE UNCHANGED <<isn, win>>
    /\ state' = "ESTABLISHED"
    /\ wpc' = IF wpc = "off" THEN "lock" ELSE wpc
    /\ cpc' = "round"
    /\ UNCHANGED <<bufVars, lock, notifVars, congVars, frVars, cur, scan, left,
                   bound, data, seg, futures, put, netVars, histVars>>

(* Mutant: a round may run past the end of the window. *)
RoundBound_Unbounded == left

RoundBound == MinOf(get_sz(win), left)

(* One turn of the loop of send(): no more than the rest of the window. *)
BeginRound ==
    /\ cpc = "round"
    /\ lock > 0
    /\ lock' = lock - 1
    /\ bound' = RoundBound
    /\ data' = RoundBound
    /\ cpc' = "nagles"
    /\ UNCHANGED <<winVars, bufVars, notifVars, congVars, frVars, workerVars,
                   left, seg, futures, put, netVars, histVars>>

(* send_output_buffer::put_msg_at: a message of n bytes at the end of the  *)
(* buffer, and the place of the next one.                                  *)
PutMsgAt(p, n) ==
    /\ mem' = [q \in Cells |->
                 IF q = p THEN HeaderCell(tcp_seq(sent_begin(win)), n)
                 ELSE IF q > p /\ q <= p + n THEN DataCell(put + q - p)
                 ELSE mem[q]]
    /\ end_off' = end_off + n + 1
    /\ off_map' = [off_map EXCEPT ![win.sent_off + n] = end_off + n + 1]

(* send_cumulative_window_processing::send: n bytes become one message. *)
PutMsg(n) ==
    /\ PutMsgAt(off_map[win.sent_off], n)
    /\ win' = [win EXCEPT !.sent_off = @ + n]
    /\ not_empty_notif' = not_empty_notif + (IF sent_buf_empty THEN 1 ELSE 0)
    /\ futures' = Append(futures, off_map[win.sent_off])
    /\ data' = data - n
    /\ put' = put + n

(* The test of nagles: a full segment need not wait. *)
FullSegment == bounded_win_sz > Mtu /\ data >= Mtu

(* nagles::send, a full segment; a drop waits for the buffer and retries. *)
NaglesFull ==
    /\ cpc = "nagles" /\ data > 0 /\ FullSegment
    /\ IF sent_sz(win) < Mtu
         THEN /\ cpc' = "wait_empty" /\ seg' = 0
              /\ UNCHANGED <<mem, end_off, off_map, win, not_empty_notif,
                             futures, data, put>>
         ELSE PutMsg(Mtu) /\ UNCHANGED <<cpc, seg>>
    /\ UNCHANGED <<state, isn, lock, empty_notif, congVars, frVars, workerVars,
                   left, bound, netVars, histVars>>

(* nagles::send, anything less: its size is fixed before the wait. *)
NaglesPart ==
    /\ cpc = "nagles" /\ data > 0 /\ ~FullSegment
    /\ seg' = MinOf(Mtu, MinOf(bounded_win_sz, data))
    /\ cpc' = "wait_empty"
    /\ UNCHANGED <<winVars, bufVars, lock, notifVars, congVars, frVars,
                   workerVars, left, bound, data, futures, put, netVars, histVars>>

(* output_wait_on_send_buf_empty, under the lock.  If what is sent after   *)
(* it does not fit, the drop leaves send() with the lock taken.            *)
WaitEmpty ==
    /\ cpc = "wait_empty"
    /\ IF sent_buf_empty
         THEN /\ UNCHANGED lock
              /\ cpc' = IF seg <= sent_sz(win) THEN "nagles" ELSE "threw"
              /\ IF seg > 0 /\ seg <= sent_sz(win) THEN PutMsg(seg)
                 ELSE UNCHANGED <<mem, end_off, off_map, win, not_empty_notif,
                                  futures, data, put>>
         ELSE /\ cpc' = "empty_notif" /\ lock' = lock + 1
              /\ UNCHANGED <<mem, end_off, off_map, win, not_empty_notif,
                             futures, data, put>>
    /\ UNCHANGED <<state, isn, empty_notif, congVars, frVars, workerVars, left,
                   bound, seg, netVars, histVars>>

EmptyNotif ==
    /\ cpc = "empty_notif"
    /\ empty_notif > 0
    /\ empty_notif' = empty_notif - 1
    /\ cpc' = "relock"
    /\ UNCHANGED <<winVars, bufVars, lock, not_empty_notif, congVars, frVars,
                   workerVars, left, bound, data, seg, futures, put, netVars,
                   histVars>>

RelockEmpty ==
    /\ cpc = "relock"
    /\ lock > 0
    /\ lock' = lock - 1
    /\ cpc' = "wait_empty"
    /\ UNCHANGED <<winVars, bufVars, notifVars, congVars, frVars, workerVars,
                   left, bound, data, seg, futures, put, netVars, histVars>>

(* nagles returns the futures; send() unlocks and waits for each. *)
EndRound ==
    /\ cpc = "nagles" /\ data = 0
    /\ lock' = lock + 1
    /\ cpc' = "await"
    /\ UNCHANGED <<winVars, bufVars, notifVars, congVars, frVars, workerVars,
                   left, bound, data, seg, futures, put, netVars, histVars>>

AwaitFuture ==
    /\ cpc = "await" /\ futures # << >>
    /\ mem[Head(futures)].sem > 0
    /\ mem' = [mem EXCEPT ![Head(futures)].sem = @ - 1]
    /\ futures' = Tail(futures)
    /\ UNCHANGED <<winVars, off_map, end_off, lock, notifVars, congVars, frVars,
                   workerVars, cpc, left, bound, data, seg, put, netVars, histVars>>

NextRound ==
    /\ cpc = "await" /\ futures = << >>
    /\ left' = left - bound
    /\ cpc' = IF left = bound THEN "idle" ELSE "round"
    /\ UNCHANGED <<winVars, bufVars, lock, notifVars, congVars, frVars,
                   workerVars, bound, data, seg, futures, put, netVars, histVars>>

-----------------------------------------------------------------------------
(* The send worker *)

(* do_job, or output_sent_buf_wait_not_empty after its wait, takes the     *)
(* lock; the buffer is empty and it waits, or next_msg begins to look for  *)
(* a message that is not in use.                                           *)
WorkerLock ==
    /\ wpc = "lock"
    /\ lock > 0
    /\ state = "ESTABLISHED"
    /\ IF sent_buf_empty
         THEN wpc' = "wait_not_empty" /\ UNCHANGED <<lock, scan>>
         ELSE wpc' = "scan" /\ scan' = win.off /\ lock' = lock - 1
    /\ UNCHANGED <<winVars, bufVars, notifVars, congVars, frVars, cur,
                   clientVars, netVars, histVars>>

(* output_sent_buf_wait_not_empty: woken by a post, or by its timeout. *)
WaitNotEmpty ==
    /\ wpc = "wait_not_empty"
    /\ not_empty_notif' \in {not_empty_notif, not_empty_notif - 1} \cap Nat
    /\ wpc' = "lock"
    /\ UNCHANGED <<winVars, bufVars, lock, empty_notif, congVars, frVars, cur,
                   scan, clientVars, netVars, histVars>>

(* next_msg returns the message at scan: it is marked and the lock goes. *)
TakeMsg ==
    /\ wpc = "scan" /\ scan < win.sent_off
    /\ FALSE \in UsedAt(off_map[scan])
    /\ mem' = mark_msg_used(mem, off_map[scan], TRUE)
    /\ cur' = off_map[scan]
    /\ wpc' = "sendto"
    /\ lock' = lock + 1
    /\ UNCHANGED <<winVars, off_map, end_off, notifVars, congVars, frVars, scan,
                   clientVars, netVars, histVars>>

(* The message at scan is in use and is skipped.  get_msg_data_sz reads    *)
(* the length at the wrong place and finds the sequence number without its *)
(* low byte.                                                               *)
SkipMsg ==
    /\ wpc = "scan" /\ scan < win.sent_off
    /\ TRUE \in UsedAt(off_map[scan])
    /\ \E s \in SeqsAt(off_map[scan]) : scan' = scan + s \div LenShift
    /\ UNCHANGED <<winVars, bufVars, lock, notifVars, congVars, frVars, wpc, cur,
                   clientVars, netVars, histVars>>

(* next_msg throws: every message is in use. *)
ScanTimeout ==
    /\ wpc = "scan" /\ scan >= win.sent_off
    /\ wpc' = "lock"
    /\ lock' = lock + 1
    /\ UNCHANGED <<winVars, bufVars, notifVars, congVars, frVars, cur, scan,
                   clientVars, netVars, histVars>>

(* The segment a header stands for. *)
SegmentAt(p) ==
    [seq  |-> mem[p].seq,
     data |-> [i \in 1 .. mem[p].len |-> mem[p + i].pos]]

(* The network loses what is being sent. *)
Lost == losses < MaxLosses /\ losses' = losses + 1

(* socket_sock_base::send, without the lock: it writes the addresses, the  *)
(* timestamps and the checksum into the message, which sets the byte that  *)
(* serves as the used flag, and sends it.  Where the memory holds user     *)
(* data by now these writes fall on the data, and what is sent, if sendto  *)
(* takes it at all, may carry any sequence number.                         *)
SendTo ==
    /\ wpc = "sendto"
    /\ mem' = mark_msg_used(mem, cur, TRUE)
    /\ IF mem[cur].kind = "header"
         THEN \/ wire' = wire \cup {SegmentAt(cur)} /\ UNCHANGED losses
              \/ UNCHANGED wire /\ Lost
         ELSE /\ UNCHANGED losses
              /\ \/ UNCHANGED wire
                 \/ \E s \in SeqsAt(cur) : wire' = wire \cup {[seq |-> s, data |-> <<0>>]}
    /\ stale' = (stale \/ mem[cur].kind = "data")
    /\ wpc' = "poll"
    /\ UNCHANGED <<winVars, off_map, end_off, lock, notifVars, congVars, frVars,
                   cur, scan, clientVars, acks, peer, dups, fails, crashed>>

(* sendto fails: send throws and do_job's handler releases a lock that     *)
(* this thread does not hold.                                              *)
SendToFails ==
    /\ wpc = "sendto"
    /\ fails < MaxFails
    /\ fails' = fails + 1
    /\ mem' = mark_msg_used(mem, cur, TRUE)
    /\ stale' = (stale \/ mem[cur].kind = "data")
    /\ wpc' = "lock"
    /\ lock' = lock + 1
    /\ UNCHANGED <<winVars, off_map, end_off, notifVars, congVars, frVars, cur,
                   scan, clientVars, netVars, dups, losses, crashed>>

(* congection_window_control::on_retry *)
halved_cong(c) == MaxOf(c \div 2, 1)

(* Mutant: the message stays in use. *)
OnRetry_StaysUsed(s, c) ==
    /\ cong' = halved_cong(c)
    /\ UNCHANGED <<mem, crashed>>

(* Mutant: the sequence number itself is taken for the offset. *)
RetryOffset_Seq(s) == s

(* Where in the window retry looks for the message that reads as s. *)
RetryOffset(s) == get_in_msg_off(win, s) + win.off

(* output_on_retry: halve the congestion window c, mark the message that   *)
(* reads as sequence number s as not in use.                               *)
OnRetry(s, c) ==
    /\ cong' = halved_cong(c)
    /\ IF RetryOffset(s) < MapSz
         THEN /\ mem' = mark_msg_used(mem, off_map[RetryOffset(s)], FALSE)
              /\ UNCHANGED crashed
         ELSE crashed' = TRUE /\ UNCHANGED mem

(* output_send_finally finds the message acknowledged. *)
PollComplete ==
    /\ wpc = "poll"
    /\ lock > 0
    /\ \E s \in SeqsAt(cur) : msg_complete(s)
    /\ wpc' = "lock"
    /\ stale' = (stale \/ mem[cur].kind = "data")
    /\ UNCHANGED <<winVars, bufVars, lock, notifVars, congVars, frVars, cur, scan,
                   clientVars, netVars, dups, fails, losses, crashed>>

(* output_send_finally runs into its timeout and do_job retries. *)
PollTimeout ==
    /\ wpc = "poll"
    /\ lock > 0
    /\ \E s \in SeqsAt(cur) : ~msg_complete(s) /\ OnRetry(s, cong)
    /\ wpc' = "lock"
    /\ stale' = (stale \/ mem[cur].kind = "data")
    /\ UNCHANGED <<winVars, off_map, end_off, lock, notifVars, receiver_win, frVars,
                   cur, scan, clientVars, netVars, dups, fails, losses>>

-----------------------------------------------------------------------------
(* The receive worker, handed an acknowledgement *)

(* congection_window_control::on_ack, for every acknowledgement there is:  *)
(* the congestion window grows by one mtu.                                 *)
grown_cong == MinOf(cong + Mtu, MaxCong)

(* The messages release_range passes over, by the bytes they hold. *)
Released(from, to) ==
    {p \in Cells : mem[p].kind = "header" /\ p >= off_map[from] /\ p < off_map[to]}

(* Mutant: nobody is told that the buffer is empty. *)
EmptyPost_Never(w) == 0

EmptyPost(w) == IF w.sent_off = w.off THEN 1 ELSE 0

(* A window that is used up turns. *)
TurnedWindow(w) == IF get_sz(w) = 0 THEN next_send_window(w) ELSE w

(* on_ack of an acknowledgement inside the window: release what it covers, *)
(* and turn the window, which empties the buffer, when that was all of it. *)
AckMoves(a) ==
    LET w == set_off_from_seq(win, a.seq)
    IN  /\ mem' = [p \in Cells |-> IF p \in Released(win.off, w.off)
                                     THEN [mem[p] EXCEPT !.sem = @ + 1] ELSE mem[p]]
        /\ empty_notif' = empty_notif + EmptyPost(w)
        /\ win' = TurnedWindow(w)
        /\ IF TurnedWindow(w) # w
             THEN end_off' = 0 /\ off_map' = [off_map EXCEPT ![0] = 0]
             ELSE UNCHANGED <<end_off, off_map>>

OnAckInWindow(a) ==
    /\ wpc # "off" /\ lock > 0
    /\ contains(win, SINGLE_WINDOW(a.seq))
    /\ receiver_win' = a.win /\ cong' = grown_cong
    /\ AckMoves(a)
    /\ UNCHANGED <<state, isn, lock, not_empty_notif, frVars, workerVars,
                   clientVars, netVars, histVars>>

(* fast_retransmit::on_ack.  The message it retries is the one at the      *)
(* start of the window, read where off_map says it is, be there one or not.*)
FastRetransmit(a) ==
    IF fr_cnt > 0 /\ a.seq = fr_last /\ fr_cnt + 1 >= DupBound
      THEN /\ fr_cnt' = 0 /\ UNCHANGED fr_last
           /\ \E s \in SeqsAt(off_map[win.off]) : OnRetry(s, grown_cong)
      ELSE /\ fr_cnt' = IF fr_cnt > 0 /\ a.seq = fr_last THEN fr_cnt + 1 ELSE 1
           /\ fr_last' = a.seq
           /\ cong' = grown_cong
           /\ UNCHANGED <<mem, crashed>>

(* on_ack of the acknowledgement just before the window. *)
OnAckPrevWindow(a) ==
    /\ wpc # "off" /\ lock > 0 /\ dups < MaxDups
    /\ ~contains(win, SINGLE_WINDOW(a.seq))
    /\ contains(win, SINGLE_WINDOW(a.seq + 1))
    /\ receiver_win' = a.win
    /\ FastRetransmit(a)
    /\ dups' = dups + 1
    /\ UNCHANGED <<winVars, off_map, end_off, lock, notifVars, workerVars,
                   clientVars, netVars, fails, losses, stale>>

(* on_ack of any other: only the two window sizes change. *)
OnAckElsewhere(a) ==
    /\ wpc # "off" /\ lock > 0 /\ dups < MaxDups
    /\ ~contains(win, SINGLE_WINDOW(a.seq))
    /\ ~contains(win, SINGLE_WINDOW(a.seq + 1))
    /\ receiver_win' = a.win /\ cong' = grown_cong
    /\ dups' = dups + 1
    /\ UNCHANGED <<winVars, bufVars, lock, notifVars, frVars, workerVars,
                   clientVars, netVars, fails, losses, stale, crashed>>

-----------------------------------------------------------------------------
(* on_msg of the peer, whose window is aligned with the stream as          *)
(* Receiver's is: it takes the segment it waits for and acknowledges the   *)
(* last byte it has.  Its test contains accepts all these segments          *)
(* (SegmentsFitPeerWindow), and the wait of a full window for its reader is *)
(* the time the segment is under way.                                      *)
PeerReceive(s) ==
    LET expected == s.seq = tcp_seq(isn + Len(peer))
        got      == IF expected THEN peer \o s.data ELSE peer
    IN  /\ peer' = got
        /\ \/ /\ acks' = acks \cup {[seq |-> tcp_seq(isn + Len(got) + Modulo - 1),
                                     win |-> WinSz - (Len(got) % WinSz)]}
              /\ UNCHANGED losses
           \/ UNCHANGED acks /\ Lost
        /\ UNCHANGED <<winVars, bufVars, lock, notifVars, congVars, frVars,
                       workerVars, clientVars, wire, dups, fails, stale, crashed>>

-----------------------------------------------------------------------------
Client ==
    \/ Handshake \/ BeginRound \/ NaglesFull \/ NaglesPart \/ WaitEmpty
    \/ EmptyNotif \/ RelockEmpty \/ EndRound \/ AwaitFuture \/ NextRound

Worker ==
    \/ WorkerLock \/ WaitNotEmpty \/ TakeMsg \/ SkipMsg \/ ScanTimeout
    \/ SendTo \/ SendToFails \/ PollComplete \/ PollTimeout

Next ==
    /\ ~crashed
    /\ \/ Client
       \/ Worker
       \/ \E n \in SendSizes : SendCall(n)
       \/ \E a \in acks : OnAckInWindow(a) \/ OnAckPrevWindow(a) \/ OnAckElsewhere(a)
       \/ \E s \in wire : PeerReceive(s)

Spec == Init /\ [][Next]_vars

(* The acknowledgement of the last byte the peer has. *)
LatestAck ==
    \E a \in acks : /\ a.seq = tcp_seq(isn + Len(peer) + Modulo - 1)
                    /\ OnAckInWindow(a)
OldestSegment ==
    \E s \in wire : s.seq = tcp_seq(begin(win)) /\ PeerReceive(s)

(* Threads that stay runnable run; a thread that finds the lock free again *)
(* and again gets it; what the network does not lose it delivers, so that  *)
(* a segment sent often enough is answered.                                *)
Fairness ==
    /\ SF_vars(Handshake) /\ SF_vars(BeginRound) /\ WF_vars(NaglesFull)
    /\ WF_vars(NaglesPart) /\ WF_vars(WaitEmpty) /\ WF_vars(EmptyNotif)
    /\ SF_vars(RelockEmpty) /\ WF_vars(EndRound) /\ WF_vars(AwaitFuture)
    /\ WF_vars(NextRound)
    /\ SF_vars(WorkerLock) /\ WF_vars(WaitNotEmpty) /\ WF_vars(TakeMsg)
    /\ WF_vars(SkipMsg) /\ WF_vars(ScanTimeout) /\ WF_vars(SendTo)
    /\ SF_vars(PollComplete) /\ SF_vars(PollTimeout)
    /\ SF_vars(LatestAck) /\ SF_vars(OldestSegment)

FairSpec == Spec /\ Fairness

-----------------------------------------------------------------------------
TypeOK ==
    /\ state \in {"CLOSED", "ESTABLISHED"} /\ isn \in Nat
    /\ win \in [start : Nat, off : 0 .. WinSz, sent_off : 0 .. WinSz, sz : {WinSz}]
    /\ mem \in [Cells -> [kind : {"none", "header", "data"}, seq : 0 .. Modulo - 1,
                          len : 0 .. WinSz, used : BOOLEAN, sem : Nat,
                          pos : 0 .. StreamLen]]
    /\ off_map \in [0 .. MapSz - 1 -> Cells] /\ end_off \in Cells
    /\ lock \in Nat /\ empty_notif \in Nat /\ not_empty_notif \in Nat
    /\ receiver_win \in 1 .. WinSz /\ cong \in 1 .. MaxCong
    /\ fr_last \in 0 .. Modulo - 1 /\ fr_cnt \in 0 .. DupBound
    /\ wpc \in {"off", "lock", "wait_not_empty", "scan", "sendto", "poll"}
    /\ cur \in Cells /\ scan \in Nat
    /\ cpc \in {"idle", "handshake", "round", "nagles", "wait_empty",
                "empty_notif", "relock", "await", "threw"}
    /\ left \in Nat /\ bound \in 0 .. WinSz /\ data \in 0 .. WinSz
    /\ seg \in 0 .. WinSz /\ futures \in Seq(Cells) /\ put \in 0 .. StreamLen
    /\ dups \in 0 .. MaxDups /\ fails \in 0 .. MaxFails /\ losses \in 0 .. MaxLosses
    /\ stale \in BOOLEAN /\ crashed \in BOOLEAN

(* What the peer has accepted is the stream passed to send(), in order and *)
(* unaltered, although segments are sent again from a buffer that is being *)
(* reused.                                                                 *)
PeerHasStream == \A i \in 1 .. Len(peer) : peer[i] = i

(* The send half implements Stream: a byte goes in when nagles puts it     *)
(* into the window and comes out when the peer accepts it, never more than *)
(* a window apart; the first use of a reused message breaks it.            *)
Promised == INSTANCE Stream WITH
    Capacity <- WinSz, taken <- put, out <- peer, broken <- stale

ImplementsStream == Promised!Spec

(* A message whose future was signalled by an acknowledgement               *)
(* (release_range), so that send() may go on or return, is with the peer.  *)
CompletedIsReceived ==
    ~stale => /\ begin(win) - isn <= Len(peer)
              /\ cpc = "idle" => Len(peer) = put
              /\ cpc = "round" => Len(peer) = put

(* nagles' comment "cant drop here": what is left of a round fits in the   *)
(* window, so __check_msg_overhead_throwable never throws out of send().   *)
RoundFits ==
    ~stale => /\ cpc # "threw"
              /\ cpc \in {"nagles", "wait_empty"} => data <= sent_sz(win)

(* No segment crosses the end of the peer's window, where on_msg's test    *)
(* contains would drop it each time it is sent, and the stream would stand  *)
(* still: the two windows turn at the same stream positions.               *)
SegmentsFitPeerWindow ==
    ~stale => \A s \in wire : \E b \in 0 .. StreamLen :
                 /\ s.seq = tcp_seq(isn + b)
                 /\ (b % WinSz) + Len(s.data) <= WinSz

(* The oldest unacknowledged message, if marked as used, is in the hands   *)
(* of the send worker: next_msg will offer any other again, so no message  *)
(* is left that nobody will send again.                                    *)
NoStrandedMessage ==
    ~stale /\ fails = 0 /\ ~sent_buf_empty /\ mem[off_map[win.off]].used =>
        wpc \in {"sendto", "poll"} /\ cur = off_map[win.off]

(* A retry finds its message: retry() indexes off_map out of its range     *)
(* only when a fast retransmit is asked for while the buffer is empty.     *)
RetryFindsMessage == crashed => sent_buf_empty \/ stale

(* The caller of send() that waits in output_wait_on_send_buf_empty has a  *)
(* post to wake it once the buffer is empty.                               *)
NoLostEmptyWakeup ==
    ~stale /\ cpc = "empty_notif" /\ sent_buf_empty => empty_notif > 0

(* send() returns: it sends all the data in buf (stream_socket.h), unless  *)
(* the memory behind msg_ is reused under the worker.                      *)
SendReturnsUnlessStale == cpc # "idle" ~> cpc = "idle" \/ stale
=============================================================================
