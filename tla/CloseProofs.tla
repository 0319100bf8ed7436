---------------------------- MODULE CloseProofs ----------------------------
(***************************************************************************)
(* Neither end of a connection closes alone, for any number of FIN copies, *)
(* resets, connections, numbers, losses and duplicates.                    *)
(*                                                                         *)
(* HalfClosedIsClosing is not inductive.  An end closes when it takes the  *)
(* answer to its FIN or RST, so such an answer must mean that the worker   *)
(* that sent it still waits (Answered); and a worker stops waiting when it *)
(* takes the last acknowledgement, so that must mean that the end which    *)
(* sent it has closed and asks for nothing any more (Confirmed).  Both     *)
(* hold because a number is drawn once: no message of an earlier exchange  *)
(* carries the number of this one (Drawn).                                 *)
(***************************************************************************)
EXTENDS Close, TLAPS

\* The application waits for the answer to its FIN or RST
Asking(e) == app[e] \in {"next_fin_ack", "next_rst_ack"}

IsAnswer(m) == m.type \in {"fin_ack", "rst_ack"}

\* The messages with numbers drawn so far; an ACK acknowledges no number
Sent(n) ==
    {m \in [type : {"data", "ack", "fin", "fin_ack", "rst", "rst_ack"},
            seq : 0 .. n, ack : 0 .. n] : m.type = "ack" => m.ack = 0}

Places ==
    /\ state \in [Ends -> {"ESTABLISHED", "CLOSED"}]
    /\ DOMAIN app = Ends /\ DOMAIN worker = Ends /\ DOMAIN pending = Ends

Drawn ==
    /\ drawn \in Nat
    /\ send_rem \in [Ends -> 0 .. drawn] /\ recv_rem \in [Ends -> 0 .. drawn]
    /\ cur \in [Ends -> Sent(drawn)]
    /\ \A e \in Ends : BagToSet(pending[e]) \subseteq Sent(drawn)

Waiting ==
    \A e \in Ends : (Asking(e) => send_rem[e] # 0) /\ (Closing(e) => recv_rem[e] # 0)

\* Whoever answered e waits for e's acknowledgement
Answered(e) ==
    Asking(e) =>
        \A m \in BagToSet(pending[e]) :
            IsAnswer(m) /\ m.ack = send_rem[e] =>
                Closing(Peer(e)) /\ recv_rem[Peer(e)] = m.seq

\* Whoever acknowledged e's answer has closed
Confirmed(e) ==
    Closing(e) =>
        \A m \in BagToSet(pending[e]) :
            m.type = "ack" /\ m.seq = recv_rem[e] =>
                state[Peer(e)] = "CLOSED" /\ ~Asking(Peer(e))

Agreement ==
    /\ Waiting
    /\ \A e \in Ends : Answered(e) /\ Confirmed(e)
    /\ HalfClosedIsClosing

CInv == Places /\ Drawn /\ Agreement

-----------------------------------------------------------------------------
(* The ends, the bags and the numbers. *)

LEMMA TwoEnds ==
  ASSUME NEW e \in Ends
  PROVE  /\ Peer(e) \in Ends /\ Peer(e) # e /\ Peer(Peer(e)) = e
         /\ \A f \in Ends : f = e \/ f = Peer(e)
BY CloseAssumption DEF Ends, Peer

LEMMA BagSets ==
  ASSUME NEW b, NEW s
  PROVE  /\ BagToSet(b (+) s) = BagToSet(b) \cup BagToSet(s)
         /\ BagToSet(b (-) s) \subseteq BagToSet(b)
BY Zenon DEF BagToSet, (+), (-)

LEMMA SmallBags ==
  /\ BagToSet(EmptyBag) = {}
  /\ \A m : BagToSet(SetToBag({m})) = {m}
BY Zenon DEF BagToSet, EmptyBag, SetToBag

(* What TakeAndSend and Send may add to and take from the two queues. *)
LEMMA TakeAndSendSets ==
  ASSUME DOMAIN pending = Ends, NEW e \in Ends, NEW m, NEW s, TakeAndSend(e, m, s)
  PROVE  /\ DOMAIN pending' = Ends
         /\ m \in BagToSet(pending[e])
         /\ BagToSet(pending'[e]) \subseteq BagToSet(pending[e])
         /\ BagToSet(pending'[Peer(e)]) \subseteq BagToSet(pending[Peer(e)]) \cup BagToSet(s)
<1>1. /\ m \in BagToSet(pending[e]) /\ DOMAIN pending' = Ends
      /\ pending'[e] = pending[e] (-) SetToBag({m})
      /\ pending'[Peer(e)] = pending[Peer(e)] (+) s
  BY TwoEnds, Zenon DEF TakeAndSend, BagIn
<1> QED BY <1>1, BagSets

LEMMA SendSets ==
  ASSUME DOMAIN pending = Ends, NEW e \in Ends, NEW s, Send(e, s)
  PROVE  /\ DOMAIN pending' = Ends
         /\ BagToSet(pending'[e]) \subseteq BagToSet(pending[e])
         /\ BagToSet(pending'[Peer(e)]) \subseteq BagToSet(pending[Peer(e)]) \cup BagToSet(s)
<1>1. /\ DOMAIN pending' = Ends /\ pending'[e] = pending[e]
      /\ pending'[Peer(e)] = pending[Peer(e)] (+) s
  BY TwoEnds, Zenon DEF Send
<1> QED BY <1>1, BagSets

LEMMA SentGrows ==
  ASSUME NEW n \in Nat, NEW k \in Nat, n <= k PROVE Sent(n) \subseteq Sent(k)
<1>1. 0 .. n \subseteq 0 .. k
  OBVIOUS
<1> QED BY <1>1, Zenon DEF Sent

-----------------------------------------------------------------------------
(* A step of end e that sends the messages of S. *)

Moves(e, S) ==
    /\ \A f \in Ends \ {e} : /\ state'[f] = state[f] /\ app'[f] = app[f]
                             /\ worker'[f] = worker[f]
                             /\ send_rem'[f] = send_rem[f] /\ recv_rem'[f] = recv_rem[f]
    /\ BagToSet(pending'[e]) \subseteq BagToSet(pending[e])
    /\ BagToSet(pending'[Peer(e)]) \subseteq BagToSet(pending[Peer(e)]) \cup S

LEMMA DrawnKept ==
  ASSUME Drawn, NEW e \in Ends, NEW S, Moves(e, S), S \subseteq Sent(drawn'),
         drawn' \in Nat, drawn <= drawn',
         send_rem' \in [Ends -> 0 .. drawn'], recv_rem' \in [Ends -> 0 .. drawn'],
         cur' \in [Ends -> Sent(drawn')]
  PROVE  Drawn'
<1>1. Sent(drawn) \subseteq Sent(drawn')
  BY SentGrows, Zenon DEF Drawn
<1>2. ASSUME NEW f \in Ends PROVE BagToSet(pending'[f]) \subseteq Sent(drawn')
  <2>1. BagToSet(pending'[f]) \subseteq BagToSet(pending[f]) \cup S
    BY TwoEnds, Zenon DEF Moves
  <2>2. BagToSet(pending[f]) \subseteq Sent(drawn)
    BY Zenon DEF Drawn
  <2> QED BY <1>1, <2>1, <2>2, Zenon
<1> QED BY <1>2, Zenon DEF Drawn

(* A step that asks, answers, confirms and closes nothing. *)
LEMMA QuietKeeps ==
  ASSUME Agreement, NEW e \in Ends, NEW S, Moves(e, S),
         \A m \in S : ~IsAnswer(m) /\ (m.type = "ack" => m.seq = 0),
         state'[e] = state[e], send_rem'[e] = send_rem[e], recv_rem'[e] = recv_rem[e],
         Asking(e)' => Asking(e), Closing(e)' <=> Closing(e)
  PROVE  Agreement'
<1>1. \A f \in Ends : /\ state'[f] = state[f] /\ Closing(f)' = Closing(f)
                      /\ Asking(f)' => Asking(f)
                      /\ send_rem'[f] = send_rem[f] /\ recv_rem'[f] = recv_rem[f]
  BY DEF Moves, Asking, Closing
<1>2. Waiting' /\ HalfClosedIsClosing'
  BY <1>1, TwoEnds DEF Agreement, Waiting, HalfClosedIsClosing
<1>3. ASSUME NEW f \in Ends PROVE Answered(f)' /\ Confirmed(f)'
  <2>1. BagToSet(pending'[f]) \subseteq BagToSet(pending[f]) \cup S /\ Peer(f) \in Ends
    BY TwoEnds, Zenon DEF Moves
  <2>2. Answered(f) /\ Confirmed(f) /\ (Closing(f) => recv_rem[f] # 0)
    BY Zenon DEF Agreement, Waiting
  <2>3. Answered(f)'
    BY <1>1, <2>1, <2>2, Zenon DEF Answered
  <2>4. Confirmed(f)'
    BY <1>1, <2>1, <2>2, Zenon DEF Confirmed
  <2> QED BY <2>3, <2>4, Zenon
<1> QED BY <1>2, <1>3, Zenon DEF Agreement

(* send_close and recv_close: no message under way has the new number. *)
LEMMA AskKeeps ==
  ASSUME Agreement, Drawn, NEW e \in Ends, NEW S, Moves(e, S),
         \A m \in S : ~IsAnswer(m) /\ m.type # "ack",
         state[e] = "ESTABLISHED", state'[e] = state[e],
         send_rem'[e] = drawn + 1, recv_rem'[e] = recv_rem[e],
         Closing(e)' <=> Closing(e)
  PROVE  Agreement'
<1>1. \A f \in Ends : /\ state'[f] = state[f] /\ Closing(f)' = Closing(f)
                      /\ recv_rem'[f] = recv_rem[f]
                      /\ f # e => (Asking(f)' <=> Asking(f)) /\ send_rem'[f] = send_rem[f]
  BY DEF Moves, Asking, Closing
<1>2. Waiting' /\ HalfClosedIsClosing'
  BY <1>1, TwoEnds DEF Agreement, Waiting, HalfClosedIsClosing, Drawn
<1>3. ASSUME NEW f \in Ends PROVE Answered(f)' /\ Confirmed(f)'
  <2>1. BagToSet(pending'[f]) \subseteq BagToSet(pending[f]) \cup S /\ Peer(f) \in Ends
    BY TwoEnds, Zenon DEF Moves
  <2>2. Answered(f) /\ Confirmed(f)
    BY Zenon DEF Agreement
  <2>3. \A m \in BagToSet(pending[f]) : m.ack # drawn + 1
    BY DEF Drawn, Sent
  <2>4. Answered(f)'
    BY <1>1, <2>1, <2>2, <2>3 DEF Answered
  <2>5. Confirmed(f)'
    BY <1>1, <2>1, <2>2, Zenon DEF Confirmed
  <2> QED BY <2>4, <2>5, Zenon
<1> QED BY <1>2, <1>3, Zenon DEF Agreement

(* next_fin_ack and next_rst_ack take the answer: the other end waits. *)
LEMMA CloseKeeps ==
  ASSUME Agreement, NEW e \in Ends, NEW S, Moves(e, S),
         Asking(e), NEW m \in BagToSet(pending[e]), IsAnswer(m), m.ack = send_rem[e],
         \A x \in S : x.type = "ack",
         state'[e] = "CLOSED", ~Asking(e)', send_rem'[e] = send_rem[e],
         recv_rem'[e] = recv_rem[e], Closing(e)' <=> Closing(e)
  PROVE  Agreement'
<1>1. \A f \in Ends : /\ Closing(f)' = Closing(f) /\ (Asking(f)' => Asking(f))
                      /\ send_rem'[f] = send_rem[f] /\ recv_rem'[f] = recv_rem[f]
                      /\ state'[f] = "ESTABLISHED" => state[f] = "ESTABLISHED" /\ f # e
                      /\ state[f] = "CLOSED" => state'[f] = "CLOSED"
  BY DEF Moves, Asking, Closing
<1>2. Closing(Peer(e))
  BY Zenon DEF Agreement, Answered
<1>3. Waiting' /\ HalfClosedIsClosing'
  <2>1. ASSUME NEW f \in Ends, state'[Peer(f)] = "ESTABLISHED" PROVE Closing(Peer(f))'
    BY <1>1, <1>2, <2>1, TwoEnds, Zenon
  <2> QED BY <1>1, <2>1, Zenon DEF Agreement, Waiting, HalfClosedIsClosing
<1>4. ASSUME NEW f \in Ends PROVE Answered(f)' /\ Confirmed(f)'
  <2>1. /\ Peer(f) \in Ends /\ (f # e => Peer(f) = e)
        /\ f = e => BagToSet(pending'[f]) \subseteq BagToSet(pending[f])
        /\ BagToSet(pending'[f]) \subseteq BagToSet(pending[f]) \cup S
    BY TwoEnds, Zenon DEF Moves
  <2>2. Answered(f) /\ Confirmed(f)
    BY Zenon DEF Agreement
  <2>3. Answered(f)'
    BY <1>1, <2>1, <2>2 DEF Answered, IsAnswer
  <2>4. Confirmed(f)'
    BY <1>1, <2>1, <2>2, Zenon DEF Confirmed
  <2> QED BY <2>3, <2>4, Zenon
<1> QED BY <1>3, <1>4, Zenon DEF Agreement

(* recv_on_fin and send_on_rst: nobody has acknowledged the new number, and *)
(* the worker has answered nothing else that is still asked.                *)
LEMMA AnswerKeeps ==
  ASSUME Agreement, Drawn, NEW e \in Ends, NEW S, Moves(e, S),
         \A m \in S : IsAnswer(m) /\ m.seq = drawn + 1,
         ~Closing(e), Closing(e)', recv_rem'[e] = drawn + 1,
         state'[e] = state[e], app'[e] = app[e], send_rem'[e] = send_rem[e]
  PROVE  Agreement'
<1>1. \A f \in Ends : /\ state'[f] = state[f] /\ (Asking(f)' <=> Asking(f))
                      /\ send_rem'[f] = send_rem[f] /\ (Closing(f) => Closing(f)')
                      /\ f # e => (Closing(f)' <=> Closing(f)) /\ recv_rem'[f] = recv_rem[f]
  BY Zenon DEF Moves, Asking, Closing
<1>2. Waiting' /\ HalfClosedIsClosing'
  BY <1>1, TwoEnds DEF Agreement, Waiting, HalfClosedIsClosing, Drawn
<1>3. ASSUME NEW f \in Ends PROVE Answered(f)' /\ Confirmed(f)'
  <2>1. /\ Peer(f) \in Ends /\ (f # e => Peer(f) = e) /\ Peer(e) # e
        /\ f = e => BagToSet(pending'[f]) \subseteq BagToSet(pending[f])
        /\ BagToSet(pending'[f]) \subseteq BagToSet(pending[f]) \cup S
    BY TwoEnds, Zenon DEF Moves
  <2>2. Answered(f) /\ Confirmed(f)
    BY Zenon DEF Agreement
  <2>3. \A m \in BagToSet(pending[f]) : m.seq # drawn + 1
    BY DEF Drawn, Sent
  <2>4. Answered(f)'
    <3>1. CASE f = e
      BY <1>1, <2>1, <2>2, <3>1 DEF Answered
    <3>2. CASE f # e
      BY <1>1, <2>1, <2>2, <3>2, Zenon DEF Answered
    <3> QED BY <3>1, <3>2, Zenon
  <2>5. Confirmed(f)'
    BY <1>1, <2>1, <2>2, <2>3, Zenon DEF Confirmed, IsAnswer
  <2> QED BY <2>4, <2>5, Zenon
<1> QED BY <1>2, <1>3, Zenon DEF Agreement

(* recv_next_ack and send_next_ack take the last acknowledgement. *)
LEMMA ConfirmKeeps ==
  ASSUME Agreement, NEW e \in Ends, Moves(e, {}),
         Closing(e), NEW m \in BagToSet(pending[e]), m.type = "ack", m.seq = recv_rem[e],
         state'[e] = "CLOSED", ~Closing(e)', app'[e] = app[e],
         send_rem'[e] = send_rem[e], recv_rem'[e] = recv_rem[e]
  PROVE  Agreement' /\ state[Peer(e)] = "CLOSED"
<1>1. \A f \in Ends : /\ (Asking(f)' <=> Asking(f)) /\ send_rem'[f] = send_rem[f]
                      /\ recv_rem'[f] = recv_rem[f]
                      /\ f # e => state'[f] = state[f] /\ (Closing(f)' <=> Closing(f))
  BY Zenon DEF Moves, Asking, Closing
<1>2. state[Peer(e)] = "CLOSED" /\ ~Asking(Peer(e))
  BY Zenon DEF Agreement, Confirmed
<1>3. \A f \in Ends : state'[f] = "CLOSED"
  BY <1>1, <1>2, TwoEnds, Zenon
<1>4. Waiting' /\ HalfClosedIsClosing'
  BY <1>1, <1>3, TwoEnds DEF Agreement, Waiting, HalfClosedIsClosing
<1>5. ASSUME NEW f \in Ends PROVE Answered(f)' /\ Confirmed(f)'
  <2>1. /\ Peer(f) \in Ends /\ (f # e => f = Peer(e)) /\ (f = e => Peer(f) # e)
        /\ BagToSet(pending'[f]) \subseteq BagToSet(pending[f])
    BY TwoEnds, Zenon DEF Moves
  <2>2. Answered(f) /\ Confirmed(f)
    BY Zenon DEF Agreement
  <2>3. Answered(f)'
    BY <1>1, <1>2, <2>1, <2>2, Zenon DEF Answered
  <2>4. Confirmed(f)'
    BY <1>1, <1>3, <2>1, <2>2, Zenon DEF Confirmed
  <2> QED BY <2>3, <2>4, Zenon
<1> QED BY <1>2, <1>4, <1>5, Zenon DEF Agreement

-----------------------------------------------------------------------------
(* The actions, kind by kind. *)

LEMMA QuietStep ==
  ASSUME CInv, NEW e \in Ends, NEW S, Moves(e, S), S \subseteq Sent(drawn),
         \A m \in S : ~IsAnswer(m) /\ (m.type = "ack" => m.seq = 0),
         UNCHANGED <<state, send_rem, recv_rem, drawn>>, Places',
         cur' \in [Ends -> Sent(drawn)],
         Asking(e)' => Asking(e), Closing(e)' <=> Closing(e)
  PROVE  CInv'
<1>1. Drawn'
  <2>1. drawn \in Nat /\ send_rem \in [Ends -> 0 .. drawn] /\ recv_rem \in [Ends -> 0 .. drawn]
    BY Zenon DEF CInv, Drawn
  <2> QED BY <2>1, DrawnKept DEF CInv
<1>2. Agreement'
  BY QuietKeeps, Zenon DEF CInv
<1> QED BY <1>1, <1>2, Zenon DEF CInv

LEMMA DataIsSent == ASSUME CInv PROVE Data \in Sent(drawn) /\ DataAck \in Sent(drawn)
<1>1. 0 \in 0 .. drawn
  BY DEF CInv, Drawn
<1> QED BY <1>1, Zenon DEF Data, DataAck, Msg, Sent

(* Calls, timeouts and dropped messages. *)
LEMMA SilentStep ==
  ASSUME CInv, NEW e \in Ends,
         \/ recv(e) \/ recv_enter(e) \/ recv_flush(e) \/ destroy(e) \/ skip_close(e)
         \/ disconnect(e) \/ (recv_close(e) /\ state[e] # "ESTABLISHED")
         \/ worker_timeout(e) \/ on_usual(e) \/ on_ack(e) \/ on_closing_ack(e)
  PROVE  CInv'
<1>1. UNCHANGED <<state, send_rem, recv_rem, pending, drawn>>
  BY Zenon DEF recv, recv_enter, recv_flush, destroy, skip_close, disconnect, recv_close,
         worker_timeout, on_usual, on_ack, on_closing_ack, area, bounds
<1>2. \/ UNCHANGED app
      \/ /\ ~Asking(e)
         /\ \E l \in {"idle", "recv_enter", "receiving", "next_syn", "close_enter", "join", "done"} :
               app' = [app EXCEPT ![e] = l]
  BY Zenon DEF recv, recv_enter, recv_flush, destroy, skip_close, disconnect, recv_close,
         TakeRecvLock, worker_timeout, on_usual, on_ack, on_closing_ack, App, Asking
<1>3. \/ UNCHANGED <<worker, cur>>
      \/ /\ ~Closing(e) /\ (UNCHANGED cur \/ cur' = [cur EXCEPT ![e] = Data])
         /\ \E l \in {"next_msg", "exit", "on_msg"} : worker' = [worker EXCEPT ![e] = l]
  BY Zenon DEF recv, recv_enter, recv_flush, destroy, skip_close, disconnect, recv_close,
         worker_timeout, on_usual, on_ack, on_closing_ack, Loop, Worker, Closing
<1>4. Places' /\ cur' \in [Ends -> Sent(drawn)]
  BY <1>1, <1>2, <1>3, DataIsSent DEF CInv, Places, Drawn
<1>5. Moves(e, {})
  BY <1>1, <1>2, <1>3, Zenon DEF Moves, CInv, Places
<1>6. Asking(e)' => Asking(e)
  BY <1>2, Zenon DEF Asking, CInv, Places
<1>7. Closing(e)' <=> Closing(e)
  BY <1>3, Zenon DEF Closing, CInv, Places
<1> QED BY <1>1, <1>4, <1>5, <1>6, <1>7, QuietStep

(* Data and its acknowledgement. *)
LEMMA DataStep ==
  ASSUME CInv, NEW e \in Ends,
         send(e) \/ retransmit(e) \/ on_msg(e) \/ on_buffer_flushed(e)
  PROVE  CInv'
<1> DEFINE S == {Data, DataAck}
<1>1. UNCHANGED <<state, send_rem, recv_rem, drawn>>
  BY Zenon DEF send, retransmit, on_msg, on_buffer_flushed, Acknowledge, area, bounds
<1>2. \/ UNCHANGED app
      \/ ~Asking(e) /\ app' = [app EXCEPT ![e] = "sending"]
  BY Zenon DEF send, retransmit, on_msg, on_buffer_flushed, Acknowledge, App, Asking, threads
<1>3. \/ UNCHANGED <<worker, cur>>
      \/ /\ ~Closing(e) /\ (UNCHANGED cur \/ cur' = [cur EXCEPT ![e] = Data])
         /\ \E l \in {"next_msg", "exit", "flush_wait"} : worker' = [worker EXCEPT ![e] = l]
  BY Zenon DEF send, retransmit, on_msg, on_buffer_flushed, Acknowledge, Loop, Worker, Closing, threads
<1>4. UNCHANGED pending \/ Send(e, One(Data)) \/ Send(e, One(DataAck))
  BY Zenon DEF send, retransmit, on_msg, on_buffer_flushed, Acknowledge
<1>5. /\ DOMAIN pending' = Ends
      /\ BagToSet(pending'[e]) \subseteq BagToSet(pending[e])
      /\ BagToSet(pending'[Peer(e)]) \subseteq BagToSet(pending[Peer(e)]) \cup S
  <2>1. DOMAIN pending = Ends
    BY Zenon DEF CInv, Places
  <2>2. ASSUME NEW m \in S, Send(e, One(m))
        PROVE  /\ DOMAIN pending' = Ends
               /\ BagToSet(pending'[e]) \subseteq BagToSet(pending[e])
               /\ BagToSet(pending'[Peer(e)]) \subseteq BagToSet(pending[Peer(e)]) \cup {m}
    <3>1. BagToSet(One(m)) = {m}
      BY SmallBags, Zenon DEF One
    <3> QED BY <2>1, <2>2, <3>1, SendSets, Zenon
  <2> QED BY <1>4, <2>1, <2>2, Zenon
<1>6. Places' /\ cur' \in [Ends -> Sent(drawn)]
  BY <1>1, <1>2, <1>3, <1>5, DataIsSent DEF CInv, Places, Drawn
<1>7. Moves(e, S)
  BY <1>1, <1>2, <1>3, <1>5, Zenon DEF Moves, CInv, Places
<1>8. Asking(e)' => Asking(e)
  BY <1>2, Zenon DEF Asking, CInv, Places
<1>9. Closing(e)' <=> Closing(e)
  BY <1>3, Zenon DEF Closing, CInv, Places
<1>10. S \subseteq Sent(drawn) /\ \A m \in S : ~IsAnswer(m) /\ (m.type = "ack" => m.seq = 0)
  BY DataIsSent DEF Data, DataAck, Msg, IsAnswer
<1> QED BY <1>1, <1>6, <1>7, <1>8, <1>9, <1>10, QuietStep, Zenon

(* A message taken and dropped, or kept for the worker to handle. *)
LEMMA TakeStep ==
  ASSUME CInv, NEW e \in Ends, NEW m, TakeAndSend(e, m, EmptyBag),
         UNCHANGED <<state, send_rem, recv_rem, drawn, app>>,
         \/ UNCHANGED <<worker, cur>>
         \/ /\ ~Closing(e) /\ cur' = [cur EXCEPT ![e] = m]
            /\ worker' = [worker EXCEPT ![e] = "handle"]
  PROVE  CInv'
<1>1. /\ DOMAIN pending' = Ends /\ m \in BagToSet(pending[e])
      /\ BagToSet(pending'[e]) \subseteq BagToSet(pending[e])
      /\ BagToSet(pending'[Peer(e)]) \subseteq BagToSet(pending[Peer(e)]) \cup {}
  BY TakeAndSendSets, SmallBags, Zenon DEF CInv, Places
<1>2. Places' /\ cur' \in [Ends -> Sent(drawn)]
  BY <1>1 DEF CInv, Places, Drawn
<1>3. Moves(e, {})
  BY <1>1, Zenon DEF Moves, CInv, Places
<1>4. Asking(e)' => Asking(e)
  BY Zenon DEF Asking
<1>5. Closing(e)' <=> Closing(e)
  BY Zenon DEF Closing, CInv, Places
<1> QED BY <1>2, <1>3, <1>4, <1>5, QuietStep

(* The network. *)
LEMMA NetworkStep ==
  ASSUME CInv, NEW e \in Ends, Duplicate(e) \/ Lose(e) PROVE CInv'
<1>1. UNCHANGED <<state, send_rem, recv_rem, drawn, app, worker, cur>>
  BY Zenon DEF Duplicate, Lose, area, threads
<1>2. CASE Lose(e)
  BY <1>1, <1>2, TakeStep, Zenon DEF Lose
<1>3. CASE Duplicate(e)
  <2>1. PICK m \in BagToSet(pending[e]) : pending' = [pending EXCEPT ![e] = @ (+) One(m)]
    BY <1>3, Zenon DEF Duplicate
  <2>2. /\ DOMAIN pending' = Ends /\ pending'[e] = pending[e] (+) One(m)
        /\ pending'[Peer(e)] = pending[Peer(e)]
    BY <2>1, TwoEnds, Zenon DEF CInv, Places
  <2>3. BagToSet(pending'[e]) \subseteq BagToSet(pending[e])
    <3>1. BagToSet(One(m)) = {m}
      BY SmallBags, Zenon DEF One
    <3> QED BY <2>2, <3>1, BagSets
  <2>4. Moves(e, {})
    BY <1>1, <2>2, <2>3, Zenon DEF Moves
  <2>5. Places' /\ cur' \in [Ends -> Sent(drawn)]
    BY <1>1, <2>2, Zenon DEF CInv, Places, Drawn
  <2>6. (Asking(e)' => Asking(e)) /\ (Closing(e)' <=> Closing(e))
    BY <1>1, Zenon DEF Asking, Closing
  <2> QED BY <1>1, <2>4, <2>5, <2>6, QuietStep
<1> QED BY <1>2, <1>3, Zenon

(* send_close and recv_close. *)
LEMMA AskStep ==
  ASSUME CInv, NEW e \in Ends,
         send_close(e) \/ (recv_close(e) /\ state[e] = "ESTABLISHED")
  PROVE  CInv'
<1> DEFINE S == {Msg("fin", drawn + 1, 0), Msg("rst", drawn + 1, 0)}
<1>1. /\ state[e] = "ESTABLISHED" /\ drawn' = drawn + 1
      /\ send_rem' = [send_rem EXCEPT ![e] = drawn + 1]
      /\ UNCHANGED <<state, recv_rem, worker, cur>>
      /\ \E l : app' = [app EXCEPT ![e] = l]
  BY Zenon DEF send_close, recv_close, Rand, App
<1>2. \/ Send(e, [m \in {Msg("fin", drawn + 1, 0)} |-> FinCopies])
      \/ Send(e, One(Msg("rst", drawn + 1, 0)))
  BY Zenon DEF send_close, recv_close, Rand
<1>3. /\ DOMAIN pending' = Ends
      /\ BagToSet(pending'[e]) \subseteq BagToSet(pending[e])
      /\ BagToSet(pending'[Peer(e)]) \subseteq BagToSet(pending[Peer(e)]) \cup S
  <2>1. DOMAIN pending = Ends
    BY Zenon DEF CInv, Places
  <2>2. CASE Send(e, [m \in {Msg("fin", drawn + 1, 0)} |-> FinCopies])
    <3>1. BagToSet([m \in {Msg("fin", drawn + 1, 0)} |-> FinCopies]) \subseteq S
      BY Zenon DEF BagToSet
    <3> QED BY <2>1, <2>2, <3>1, SendSets, Zenon
  <2>3. CASE Send(e, One(Msg("rst", drawn + 1, 0)))
    <3>1. BagToSet(One(Msg("rst", drawn + 1, 0))) \subseteq S
      BY SmallBags, Zenon DEF One
    <3> QED BY <2>1, <2>3, <3>1, SendSets, Zenon
  <2> QED BY <1>2, <2>2, <2>3, Zenon
<1>4. Moves(e, S)
  BY <1>1, <1>3, Zenon DEF Moves, CInv, Places, Drawn
<1>5. Places'
  BY <1>1, <1>3, Zenon DEF CInv, Places
<1>6. drawn \in Nat /\ drawn' \in Nat /\ drawn <= drawn' /\ drawn' \in 0 .. drawn'
  BY <1>1 DEF CInv, Drawn
<1>7. Drawn'
  <2>1. S \subseteq Sent(drawn')
    BY <1>1, <1>6 DEF Sent, Msg
  <2>2. send_rem' \in [Ends -> 0 .. drawn'] /\ recv_rem' \in [Ends -> 0 .. drawn']
    BY <1>1, <1>6 DEF CInv, Drawn
  <2>3. cur' \in [Ends -> Sent(drawn')]
    BY <1>1, <1>6, SentGrows, Zenon DEF CInv, Drawn
  <2> QED BY <1>4, <1>6, <2>1, <2>2, <2>3, DrawnKept DEF CInv
<1>8. Agreement'
  <2>1. \A m \in S : ~IsAnswer(m) /\ m.type # "ack"
    BY DEF Msg, IsAnswer
  <2>2. /\ state'[e] = state[e] /\ send_rem'[e] = drawn + 1 /\ recv_rem'[e] = recv_rem[e]
        /\ Closing(e)' <=> Closing(e)
    BY <1>1, Zenon DEF Closing, CInv, Drawn
  <2> QED BY <1>1, <1>4, <2>1, <2>2, AskKeeps DEF CInv
<1> QED BY <1>5, <1>7, <1>8, Zenon DEF CInv

(* The answer to this FIN or RST closes the end that asked. *)
LEMMA CloseStep ==
  ASSUME CInv, NEW e \in Ends, Asking(e),
         NEW m \in BagToSet(pending[e]), IsAnswer(m), m.ack = send_rem[e],
         TakeAndSend(e, m, One(Msg("ack", m.seq, 0))),
         state' = [state EXCEPT ![e] = "CLOSED"],
         NEW l \in {"idle", "done"}, app' = [app EXCEPT ![e] = l],
         UNCHANGED <<send_rem, recv_rem, drawn, worker, cur>>
  PROVE  CInv'
<1> DEFINE S == {Msg("ack", m.seq, 0)}
<1>1. /\ DOMAIN pending' = Ends
      /\ BagToSet(pending'[e]) \subseteq BagToSet(pending[e])
      /\ BagToSet(pending'[Peer(e)]) \subseteq BagToSet(pending[Peer(e)]) \cup S
  <2>1. BagToSet(One(Msg("ack", m.seq, 0))) = S
    BY SmallBags, Zenon DEF One
  <2>2. DOMAIN pending = Ends
    BY Zenon DEF CInv, Places
  <2> HIDE DEF S
  <2> QED BY <2>1, <2>2, TakeAndSendSets, Zenon
<1>2. Moves(e, S)
  BY <1>1, Zenon DEF Moves, CInv, Places
<1>3. Places'
  BY <1>1, Zenon DEF CInv, Places
<1>4. Drawn'
  <2>1. m \in Sent(drawn) /\ drawn \in Nat
    BY Zenon DEF CInv, Drawn
  <2>2. S \subseteq Sent(drawn)
    BY <2>1 DEF Sent, Msg
  <2>3. send_rem' \in [Ends -> 0 .. drawn'] /\ recv_rem' \in [Ends -> 0 .. drawn']
    BY Zenon DEF CInv, Drawn
  <2>4. cur' \in [Ends -> Sent(drawn')]
    BY Zenon DEF CInv, Drawn
  <2> QED BY <1>2, <2>1, <2>2, <2>3, <2>4, DrawnKept DEF CInv
<1>5. Agreement'
  <2>1. \A x \in S : x.type = "ack"
    BY DEF Msg
  <2>2. state'[e] = "CLOSED" /\ ~Asking(e)' /\ (Closing(e)' <=> Closing(e))
    BY Zenon DEF Asking, Closing, CInv, Places
  <2> HIDE DEF S
  <2> QED BY <1>2, <2>1, <2>2, CloseKeeps, Zenon DEF CInv
<1> QED BY <1>3, <1>4, <1>5, Zenon DEF CInv

(* One turn of next_fin_ack or next_rst_ack. *)
LEMMA AskingStep ==
  ASSUME CInv, NEW e \in Ends, next_fin_ack(e) \/ next_rst_ack(e) PROVE CInv'
<1>1. Asking(e) /\ UNCHANGED <<send_rem, recv_rem, drawn, worker, cur>>
  BY Zenon DEF next_fin_ack, next_rst_ack, Asking, area, bounds
<1>2. PICK m \in BagToSet(pending[e]) :
        \/ /\ IsMyFinAck(e, m) \/ IsMyRstAck(e, m)
           /\ TakeAndSend(e, m, One(Msg("ack", m.seq, 0)))
           /\ state' = [state EXCEPT ![e] = "CLOSED"]
           /\ \E l \in {"idle", "done"} : app' = [app EXCEPT ![e] = l]
        \/ TakeAndSend(e, m, EmptyBag) /\ UNCHANGED <<state, app>>
  BY Zenon DEF next_fin_ack, next_rst_ack, App
<1>3. CASE TakeAndSend(e, m, EmptyBag) /\ UNCHANGED <<state, app>>
  BY <1>1, <1>3, TakeStep, Zenon
<1>4. CASE /\ IsMyFinAck(e, m) \/ IsMyRstAck(e, m)
           /\ TakeAndSend(e, m, One(Msg("ack", m.seq, 0)))
           /\ state' = [state EXCEPT ![e] = "CLOSED"]
           /\ \E l \in {"idle", "done"} : app' = [app EXCEPT ![e] = l]
  <2>1. m \in Sent(drawn) /\ send_rem[e] # 0
    BY <1>1, Zenon DEF CInv, Drawn, Agreement, Waiting
  <2>2. m.type # "ack"
    BY <1>4, <2>1, Zenon DEF Sent, IsMyFinAck, IsMyRstAck, is_fin
  <2>3. IsAnswer(m) /\ m.ack = send_rem[e]
    BY <1>4, <2>2, Zenon DEF IsAnswer, IsMyFinAck, IsMyRstAck, is_fin, is_ack
  <2>4. PICK l \in {"idle", "done"} : app' = [app EXCEPT ![e] = l]
    BY <1>4, Zenon
  <2> QED BY <1>1, <1>4, <2>3, <2>4, CloseStep, Zenon
<1> QED BY <1>2, <1>3, <1>4, Zenon

(* recv_on_fin and send_on_rst answer with a number drawn for it. *)
LEMMA AnswerStep ==
  ASSUME CInv, NEW e \in Ends, NEW t \in {"fin_ack", "rst_ack"},
         NEW l \in {"recv_next_ack", "send_next_ack"}, worker[e] = "handle",
         drawn' = Rand, recv_rem' = [recv_rem EXCEPT ![e] = Rand],
         Send(e, One(Msg(t, Rand, cur[e].seq))), Worker(e, l),
         UNCHANGED <<state, send_rem, app, cur>>
  PROVE  CInv'
<1> DEFINE S == {Msg(t, Rand, cur[e].seq)}
<1>1. /\ DOMAIN pending' = Ends
      /\ BagToSet(pending'[e]) \subseteq BagToSet(pending[e])
      /\ BagToSet(pending'[Peer(e)]) \subseteq BagToSet(pending[Peer(e)]) \cup S
  <2>1. BagToSet(One(Msg(t, Rand, cur[e].seq))) = S
    BY SmallBags, Zenon DEF One
  <2>2. DOMAIN pending = Ends
    BY Zenon DEF CInv, Places
  <2> HIDE DEF S
  <2> QED BY <2>1, <2>2, SendSets, Zenon
<1>2. Moves(e, S)
  BY <1>1, Zenon DEF Moves, CInv, Places, Drawn, Worker
<1>3. Places'
  BY <1>1, Zenon DEF CInv, Places, Worker
<1>4. drawn \in Nat /\ drawn' \in Nat /\ drawn <= drawn' /\ drawn' \in 0 .. drawn'
  BY DEF CInv, Drawn, Rand
<1>5. Drawn'
  <2>1. cur[e] \in Sent(drawn')
    BY <1>4, SentGrows, Zenon DEF CInv, Drawn
  <2>2. S \subseteq Sent(drawn')
    BY <1>4, <2>1 DEF Sent, Msg
  <2>3. send_rem' \in [Ends -> 0 .. drawn'] /\ recv_rem' \in [Ends -> 0 .. drawn']
    BY <1>4 DEF CInv, Drawn, Rand
  <2>4. cur' \in [Ends -> Sent(drawn')]
    BY <1>4, SentGrows, Zenon DEF CInv, Drawn
  <2> QED BY <1>2, <1>4, <2>2, <2>3, <2>4, DrawnKept DEF CInv
<1>6. Agreement'
  <2>1. \A m \in S : IsAnswer(m) /\ m.seq = drawn + 1
    BY DEF IsAnswer, Msg, Rand
  <2>2. /\ ~Closing(e) /\ Closing(e)' /\ recv_rem'[e] = drawn + 1
    BY Zenon DEF Closing, CInv, Places, Drawn, Worker, Rand
  <2> HIDE DEF S
  <2> QED BY <1>2, <2>1, <2>2, AnswerKeeps, Zenon DEF CInv
<1> QED BY <1>3, <1>5, <1>6, Zenon DEF CInv

(* A FIN or an RST, answered on an open connection and dropped on a closed one. *)
LEMMA AnsweringStep ==
  ASSUME CInv, NEW e \in Ends, on_fin(e) \/ on_rst(e) PROVE CInv'
<1>1. worker[e] = "handle" /\ UNCHANGED <<state, send_rem, app>>
  BY Zenon DEF on_fin, on_rst
<1>2. \/ /\ drawn' = Rand /\ recv_rem' = [recv_rem EXCEPT ![e] = Rand] /\ UNCHANGED cur
         /\ \E t \in {"fin_ack", "rst_ack"} : Send(e, One(Msg(t, Rand, cur[e].seq)))
         /\ \E l \in {"recv_next_ack", "send_next_ack"} : Worker(e, l)
      \/ Loop(e) /\ UNCHANGED <<drawn, recv_rem, pending>>
  BY Zenon DEF on_fin, on_rst
<1>3. CASE Loop(e) /\ UNCHANGED <<drawn, recv_rem, pending>>
  <2>1. /\ cur' = [cur EXCEPT ![e] = Data]
        /\ \E l \in {"next_msg", "exit"} : worker' = [worker EXCEPT ![e] = l]
    BY <1>3, Zenon DEF Loop, Worker
  <2>2. Places' /\ cur' \in [Ends -> Sent(drawn)]
    BY <1>1, <1>3, <2>1, DataIsSent, Zenon DEF CInv, Places, Drawn
  <2>3. Moves(e, {})
    BY <1>1, <1>3, <2>1, Zenon DEF Moves, CInv, Places
  <2>4. (Asking(e)' => Asking(e)) /\ (Closing(e)' <=> Closing(e))
    BY <1>1, <2>1, Zenon DEF Asking, Closing, CInv, Places
  <2> QED BY <1>1, <1>3, <2>2, <2>3, <2>4, QuietStep
<1>4. CASE /\ drawn' = Rand /\ recv_rem' = [recv_rem EXCEPT ![e] = Rand] /\ UNCHANGED cur
           /\ \E t \in {"fin_ack", "rst_ack"} : Send(e, One(Msg(t, Rand, cur[e].seq)))
           /\ \E l \in {"recv_next_ack", "send_next_ack"} : Worker(e, l)
  BY <1>1, <1>4, AnswerStep, Zenon
<1> QED BY <1>2, <1>3, <1>4, Zenon

(* One turn of recv_next_ack or send_next_ack; the wait ends when the other *)
(* end has closed.                                                          *)
LEMMA ClosingStep ==
  ASSUME CInv, NEW e \in Ends, recv_next_ack(e) \/ send_next_ack(e)
  PROVE  CInv' /\ (~Closing(e)' => state[Peer(e)] = "CLOSED")
<1>1. Closing(e) /\ UNCHANGED <<send_rem, recv_rem, drawn, app>>
  BY Zenon DEF recv_next_ack, send_next_ack, Closing, area, bounds
<1>2. PICK m \in BagToSet(pending[e]) :
        /\ TakeAndSend(e, m, EmptyBag)
        /\ \/ IsMyAck(e, m) /\ state' = [state EXCEPT ![e] = "CLOSED"] /\ Loop(e)
           \/ UNCHANGED <<state, worker, cur>>
  BY Zenon DEF recv_next_ack, send_next_ack
<1>3. CASE UNCHANGED <<state, worker, cur>>
  <2>1. CInv'
    BY <1>1, <1>2, <1>3, TakeStep, Zenon
  <2>2. Closing(e)'
    BY <1>1, <1>3, Zenon DEF Closing
  <2> QED BY <2>1, <2>2, Zenon
<1>4. CASE IsMyAck(e, m) /\ state' = [state EXCEPT ![e] = "CLOSED"] /\ Loop(e)
  <2>1. /\ DOMAIN pending' = Ends
        /\ BagToSet(pending'[e]) \subseteq BagToSet(pending[e])
        /\ BagToSet(pending'[Peer(e)]) \subseteq BagToSet(pending[Peer(e)]) \cup {}
    BY <1>2, TakeAndSendSets, SmallBags, Zenon DEF CInv, Places
  <2>2. /\ cur' = [cur EXCEPT ![e] = Data]
        /\ \E l \in {"next_msg", "exit"} : worker' = [worker EXCEPT ![e] = l]
    BY <1>4, Zenon DEF Loop, Worker
  <2>3. Places' /\ cur' \in [Ends -> Sent(drawn)]
    BY <1>1, <1>4, <2>1, <2>2, DataIsSent, Zenon DEF CInv, Places, Drawn
  <2>4. Moves(e, {})
    BY <1>1, <1>4, <2>1, <2>2, Zenon DEF Moves, CInv, Places
  <2>5. Drawn'
    <3>1. drawn \in Nat /\ send_rem \in [Ends -> 0 .. drawn] /\ recv_rem \in [Ends -> 0 .. drawn]
      BY Zenon DEF CInv, Drawn
    <3> QED BY <1>1, <2>3, <2>4, <3>1, DrawnKept DEF CInv
  <2>6. m.type = "ack" /\ m.seq = recv_rem[e]
    BY <1>4, Zenon DEF IsMyAck, is_ack, is_fin, is_rst
  <2>7. state'[e] = "CLOSED" /\ ~Closing(e)'
    BY <1>4, <2>2, Zenon DEF Closing, CInv, Places
  <2>8. Agreement' /\ state[Peer(e)] = "CLOSED"
    BY <1>1, <2>4, <2>6, <2>7, ConfirmKeeps, Zenon DEF CInv
  <2> QED BY <2>3, <2>5, <2>8, Zenon DEF CInv
<1> QED BY <1>2, <1>3, <1>4, Zenon

(* Reconnect finds both ends closed and nobody waiting. *)
LEMMA ReconnectStep == ASSUME CInv, Reconnect PROVE CInv'
<1>1. /\ UNCHANGED <<send_rem, recv_rem, cur, pending, drawn>>
      /\ state' = [e \in Ends |-> "ESTABLISHED"]
      /\ DOMAIN app' = Ends /\ \A e \in Ends : app'[e] \in {"idle", "receiving"}
      /\ worker' = [e \in Ends |-> "next_msg"]
  BY Zenon DEF Reconnect, area
<1>2. Places'
  BY <1>1, Zenon DEF CInv, Places
<1>3. Drawn'
  BY <1>1, Zenon DEF CInv, Drawn
<1>4. \A e \in Ends : ~Asking(e)' /\ ~Closing(e)' /\ state'[e] = "ESTABLISHED"
  BY <1>1, Zenon DEF Asking, Closing
<1>5. Agreement'
  BY <1>4, Zenon DEF Agreement, Waiting, Answered, Confirmed, HalfClosedIsClosing
<1> QED BY <1>2, <1>3, <1>5, Zenon DEF CInv

-----------------------------------------------------------------------------

LEMMA CInvStep == ASSUME CInv, [Next]_vars PROVE CInv'
<1>1. CASE UNCHANGED vars
  <2>1. UNCHANGED <<state, send_rem, recv_rem, app, worker, cur, pending, drawn>>
    BY <1>1, Zenon DEF vars, area, threads, bounds
  <2>2. Places' /\ Drawn'
    BY <2>1, Zenon DEF CInv, Places, Drawn
  <2>3. Agreement'
    BY <2>1, Zenon DEF CInv, Agreement, Waiting, Answered, Confirmed, HalfClosedIsClosing,
                Asking, Closing
  <2> QED BY <2>2, <2>3, Zenon DEF CInv
<1>2. CASE Reconnect
  BY <1>2, ReconnectStep, Zenon
<1>3. ASSUME NEW e \in Ends, AppStep(e) \/ AppCall(e) PROVE CInv'
  <2>1. CASE next_syn(e)
    <3>1. PICK m : TakeAndSend(e, m, EmptyBag)
      BY <2>1, Zenon DEF next_syn
    <3>2. UNCHANGED <<state, send_rem, recv_rem, drawn, app, worker, cur>>
      BY <2>1, Zenon DEF next_syn, area, threads, bounds
    <3> QED BY <3>1, <3>2, TakeStep, Zenon
  <2>2. CASE recv_close(e)
    <3>1. CASE state[e] = "ESTABLISHED"
      BY <2>2, <3>1, AskStep, Zenon
    <3>2. CASE state[e] # "ESTABLISHED"
      BY <2>2, <3>2, SilentStep, Zenon
    <3> QED BY <3>1, <3>2, Zenon
  <2>3. CASE send_close(e) \/ next_fin_ack(e) \/ next_rst_ack(e)
    BY <2>3, AskStep, AskingStep, Zenon
  <2>4. CASE recv(e) \/ recv_enter(e) \/ recv_flush(e) \/ destroy(e) \/ skip_close(e) \/ disconnect(e)
    BY <2>4, SilentStep, Zenon
  <2>5. CASE send(e) \/ retransmit(e)
    BY <2>5, DataStep, Zenon
  <2> QED BY <1>3, <2>1, <2>2, <2>3, <2>4, <2>5, Zenon DEF AppStep, AppCall
<1>4. ASSUME NEW e \in Ends, WorkerStep(e) PROVE CInv'
  <2>1. CASE worker_next_msg(e)
    <3>1. PICK m : TakeAndSend(e, m, EmptyBag) /\ cur' = [cur EXCEPT ![e] = m]
      BY <2>1, Zenon DEF worker_next_msg
    <3>2. /\ UNCHANGED <<state, send_rem, recv_rem, drawn, app>> /\ ~Closing(e)
          /\ worker' = [worker EXCEPT ![e] = "handle"]
      BY <2>1, Zenon DEF worker_next_msg, area, bounds, Worker, Closing
    <3> QED BY <3>1, <3>2, TakeStep, Zenon
  <2>2. CASE on_msg(e) \/ on_buffer_flushed(e)
    BY <2>2, DataStep, Zenon
  <2>3. CASE worker_timeout(e) \/ on_usual(e) \/ on_ack(e) \/ on_closing_ack(e)
    BY <2>3, SilentStep, Zenon
  <2>4. CASE on_fin(e) \/ on_rst(e)
    BY <2>4, AnsweringStep, Zenon
  <2>5. CASE recv_next_ack(e) \/ send_next_ack(e)
    BY <2>5, ClosingStep, Zenon
  <2> QED BY <1>4, <2>1, <2>2, <2>3, <2>4, <2>5, Zenon DEF WorkerStep
<1>5. ASSUME NEW e \in Ends, Duplicate(e) \/ Lose(e) PROVE CInv'
  BY <1>5, NetworkStep, Zenon
<1> QED BY <1>1, <1>2, <1>3, <1>4, <1>5, Zenon DEF Next

LEMMA CInvInit == Init => CInv
<1> SUFFICES ASSUME Init PROVE CInv
  BY Zenon
<1>1. Places
  BY Zenon DEF Init, Places
<1>2. Data \in Sent(0)
  BY DEF Data, Msg, Sent
<1>3. \A e \in Ends : BagToSet(pending[e]) = {}
  BY SmallBags, Zenon DEF Init
<1>4. Drawn
  BY <1>2, <1>3 DEF Init, Drawn
<1>5. Agreement
  BY <1>3, TwoEnds, Zenon DEF Init, Agreement, Waiting, Answered, Confirmed, HalfClosedIsClosing,
                       Asking, Closing
<1> QED BY <1>1, <1>4, <1>5, Zenon DEF CInv

(* The inductive invariant of the close handshake. *)
THEOREM CloseInvariant == Spec => []CInv
  BY CInvInit, CInvStep, PTL DEF Spec

(* No end closes alone: while one end is closed and the other open, the     *)
(* worker of the open one waits in recv_next_ack or send_next_ack, whatever *)
(* FINs, RSTs and answers of this or of earlier connections arrive.         *)
THEOREM NoEndClosesAlone == Spec => []HalfClosedIsClosing
<1>1. CInv => HalfClosedIsClosing
  BY Zenon DEF CInv, Agreement
<1> QED BY <1>1, CloseInvariant, PTL

(* Only recv_next_ack and send_next_ack end the wait of the worker. *)
LEMMA WaitEnds ==
  ASSUME CInv, [Next]_vars, NEW e \in Ends, Closing(e), ~Closing(e)'
  PROVE  recv_next_ack(e) \/ send_next_ack(e)
<1>1. worker[e] \notin {"next_msg", "handle", "on_msg", "flush_wait", "exit"} /\ worker'[e] # worker[e]
  BY Zenon DEF Closing
<1>2. ~UNCHANGED vars /\ ~Reconnect
  BY <1>1, Zenon DEF vars, threads, Reconnect
<1>3. ASSUME NEW f \in Ends, AppStep(f) \/ AppCall(f) \/ Duplicate(f) \/ Lose(f) PROVE FALSE
  <2>1. UNCHANGED worker
    BY <1>3, Zenon DEF AppStep, AppCall, retransmit, recv_enter, recv_flush, next_syn,
                send_close, skip_close, next_fin_ack, next_rst_ack, send, recv, destroy,
                disconnect, recv_close, Duplicate, Lose, threads
  <2> QED BY <1>1, <2>1, Zenon
<1>4. ASSUME NEW f \in Ends, WorkerStep(f) PROVE recv_next_ack(e) \/ send_next_ack(e)
  <2>1. \E l : worker' = [worker EXCEPT ![f] = l] \/ UNCHANGED worker
    BY <1>4, Zenon DEF WorkerStep, worker_timeout, worker_next_msg, on_usual, on_msg,
                on_buffer_flushed, Acknowledge, on_fin, on_rst, on_ack, on_closing_ack,
                recv_next_ack, send_next_ack, Loop, Worker
  <2>2. f = e
    BY <1>1, <2>1, Zenon DEF CInv, Places
  <2> QED BY <1>1, <1>4, <2>2, Zenon DEF WorkerStep, worker_timeout, worker_next_msg, on_usual,
                on_msg, on_buffer_flushed, on_fin, on_rst, on_ack, on_closing_ack
<1> QED BY <1>2, <1>3, <1>4, Zenon DEF Next

(* The worker that answered a FIN or an RST goes on only when the end that  *)
(* sent it has closed.                                                      *)
THEOREM WorkerWaitsForTheClose == Spec => AnsweringEndClosesLast
<1>1. ASSUME CInv, [Next]_vars
      PROVE  [\A e \in Ends : Closing(e) /\ ~Closing(e)' => state[Peer(e)] = "CLOSED"]_vars
  BY <1>1, WaitEnds, ClosingStep, Zenon
<1> QED BY <1>1, CloseInvariant, PTL DEF Spec, AnsweringEndClosesLast
=============================================================================
