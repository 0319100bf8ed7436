------------------------------- MODULE Close -------------------------------
(***************************************************************************)
(* Closing a connection: socket_full_impl::disconnect, close_handshaker,   *)
(* the receive worker that answers it and the destructor that joins the    *)
(* worker.  The direct way is FIN, FIN ACK, ACK; the reverse way is the    *)
(* same with RST.  Both ends are modelled, each with an application thread *)
(* and a receive worker that take messages from one queue and drop what    *)
(* they do not wait for.                                                   *)
(*                                                                         *)
(* pending holds the messages under way to an end and in its queue, which  *)
(* can be taken in any order: each raw socket of the host may queue a      *)
(* message, sooner or later.                                               *)
(***************************************************************************)
EXTENDS Naturals, Bags

CONSTANTS A, B,        \* the two ends
          SafeEnds,    \* ends built with USE_SAFETY_CLOSE
          FinCopies,   \* FINs that send_fin sends, 10 in the code
          MaxRand,     \* bound: numbers drawn by rand32
          Calls,       \* the calls <<"send", e>> and <<"recv", e>> made, once each
          MaxResets,   \* bound: calls of disconnect(true, NULL)
          MaxConns,    \* bound: connections between the ends
          MaxDups, MaxLosses  \* bounds: messages repeated, and lost

Ends == {A, B}

ASSUME CloseAssumption ==
    /\ A # B /\ SafeEnds \subseteq Ends /\ Calls \subseteq {"send", "recv"} \X Ends
    /\ FinCopies \in Nat \ {0}
    /\ {MaxRand, MaxResets, MaxConns, MaxDups, MaxLosses} \subseteq Nat

VARIABLES state,       \* INTERNAL_STATE, one for both directions
          send_rem, recv_rem, \* CLOSE_HANDSHAKER area
          active,      \* recv_worker->active
          app, worker, \* where the two threads are
          cur,         \* the message the worker handles
          send_lock,   \* who holds send_lock, and send_worker_lock with it
          recv_lock, recv_worker_lock, \* who holds them
          data,        \* the peer's data: "none", "buffered" or "read"
          pending,     \* a bag of messages for each end
          since,       \* history: numbers drawn before this connection
          drawn, made, resets, conns, dups, losses

area == <<send_rem, recv_rem>>
threads == <<active, app, worker, cur>>
locks == <<send_lock, recv_lock, recv_worker_lock>>
bounds == <<since, drawn, made, resets, conns, dups, losses>>
vars == <<state, data, area, threads, locks, pending, bounds>>

Peer(e) == IF e = A THEN B ELSE A

(* The messages: the constructors of close_hadnshaker_keeper, a data       *)
(* segment and its acknowledgement.  A field that is not set is 0.         *)
Msg(type, seq, ack) == [type |-> type, seq |-> seq, ack |-> ack]
Data == Msg("data", 0, 0)
DataAck == Msg("ack", 0, 0)

is_fin(m) == m.type \in {"fin", "fin_ack"}
is_rst(m) == m.type \in {"rst", "rst_ack"}
is_ack(m) == m.type \in {"ack", "fin_ack", "rst_ack"}
is_usual(m) == m.type = "data"

Init ==
    /\ state = [e \in Ends |-> "ESTABLISHED"]
    /\ send_rem = [e \in Ends |-> 0] /\ recv_rem = [e \in Ends |-> 0]
    /\ active = [e \in Ends |-> TRUE]
    /\ app = [e \in Ends |-> "idle"] /\ worker = [e \in Ends |-> "next_msg"]
    /\ cur = [e \in Ends |-> Data]
    /\ send_lock = [e \in Ends |-> "free"] /\ recv_lock = [e \in Ends |-> "free"]
    /\ recv_worker_lock = [e \in Ends |-> "free"]
    /\ data = [e \in Ends |-> "none"]
    /\ pending = [e \in Ends |-> EmptyBag]
    /\ since = 0 /\ drawn = 0 /\ made = {} /\ resets = 0 /\ conns = 1
    /\ dups = 0 /\ losses = 0

(* rand32 returns no number twice, and never 0. *)
Rand == drawn + 1

(* next_msg takes m from the queue of e, and a step may send a bag s. *)
TakeAndSend(e, m, s) ==
    /\ BagIn(m, pending[e])
    /\ pending' = [pending EXCEPT ![e] = @ (-) SetToBag({m}),
                                  ![Peer(e)] = @ (+) s]

Send(e, s) == pending' = [pending EXCEPT ![Peer(e)] = @ (+) s]

One(m) == SetToBag({m})

App(e, l) == app' = [app EXCEPT ![e] = l]
Worker(e, l) == worker' = [worker EXCEPT ![e] = l]

----------------------------------------------------------------------------
(* The application thread.                                                 *)

\* send() takes send_lock and waits for the acknowledgement of its data
send(e) ==
    /\ app[e] = "idle" /\ state[e] = "ESTABLISHED" /\ <<"send", e>> \in Calls \ made
    /\ send_lock[e] = "free"
    /\ send_lock' = [send_lock EXCEPT ![e] = "app"]
    /\ made' = made \cup {<<"send", e>>}
    /\ Send(e, One(Data))
    /\ App(e, "sending")
    /\ UNCHANGED <<state, data, area, active, worker, cur, recv_lock, recv_worker_lock,
                   since, drawn, resets, conns, dups, losses>>

\* The send worker sends the data again when neither it nor its answer is
\* under way
retransmit(e) ==
    /\ app[e] = "sending" /\ state[e] = "ESTABLISHED"
    /\ ~BagIn(Data, pending[Peer(e)]) /\ ~BagIn(DataAck, pending[e])
    /\ Send(e, One(Data))
    /\ UNCHANGED <<state, data, area, threads, locks, bounds>>

\* The locks of the receive half, taken and let go by e's thread t together
BothRecvLocks(e, t) ==
    /\ recv_lock' = [recv_lock EXCEPT ![e] = t]
    /\ recv_worker_lock' = [recv_worker_lock EXCEPT ![e] = t]

\* recv() and disconnect(true, NULL) take recv_lock first
TakeRecvLock(e, l) ==
    /\ app[e] = "idle" /\ state[e] = "ESTABLISHED" /\ recv_lock[e] = "free"
    /\ recv_lock' = [recv_lock EXCEPT ![e] = "app"]
    /\ App(e, l)

\* recv(): handshake(true)
recv(e) ==
    /\ <<"recv", e>> \in Calls \ made
    /\ made' = made \cup {<<"recv", e>>}
    /\ TakeRecvLock(e, "recv_enter")
    /\ UNCHANGED <<state, data, area, active, worker, cur, send_lock, recv_worker_lock,
                   pending, since, drawn, resets, conns, dups, losses>>

(* Mutant: client_flush_request waits for data with recv_lock taken. *)
recv_enter_KeepsLock(e) ==
    /\ app[e] = "recv_enter" /\ recv_worker_lock[e] = "free"
    /\ IF state[e] = "ESTABLISHED"
       THEN UNCHANGED <<recv_lock, recv_worker_lock>> /\ App(e, "receiving")
       ELSE BothRecvLocks(e, "app") /\ App(e, "next_syn")
    /\ UNCHANGED <<state, data, area, active, worker, cur, send_lock, pending, bounds>>

\* then recv_worker_lock; an open connection lets it go on to recv_proc, which
\* waits for data without a lock, a closed one has it wait for a SYN with both
recv_enter(e) ==
    /\ app[e] = "recv_enter" /\ recv_worker_lock[e] = "free"
    /\ IF state[e] = "ESTABLISHED"
       THEN BothRecvLocks(e, "free") /\ App(e, "receiving")
       ELSE BothRecvLocks(e, "app") /\ App(e, "next_syn")
    /\ UNCHANGED <<state, data, area, active, worker, cur, send_lock, pending, bounds>>

\* client_flush_request, once there is data and recv_lock is free
recv_flush(e) ==
    /\ app[e] = "receiving" /\ data[e] = "buffered" /\ recv_lock[e] = "free"
    /\ data' = [data EXCEPT ![e] = "read"]
    /\ App(e, "idle")
    /\ UNCHANGED <<state, area, active, worker, cur, locks, pending, bounds>>

\* next_syn of the handshake drops every message of this module
next_syn(e) ==
    /\ app[e] = "next_syn"
    /\ \E m \in BagToSet(pending[e]) : TakeAndSend(e, m, EmptyBag)
    /\ UNCHANGED <<state, data, area, threads, locks, bounds>>

(* Mutant: the destructor joins a worker it has not told to stop. *)
destroy_NotPassive(e) ==
    /\ app[e] = "idle"
    /\ App(e, "join")
    /\ UNCHANGED <<state, data, area, active, worker, cur, locks, pending, bounds>>

\* ~socket_full_impl: set_passive, then join
destroy(e) ==
    /\ app[e] = "idle"
    /\ active' = [active EXCEPT ![e] = FALSE]
    /\ App(e, "join")
    /\ UNCHANGED <<state, data, area, worker, cur, locks, pending, bounds>>

\* disconnect(false, NULL) with an open connection: send_close
send_close(e) ==
    /\ app[e] = "join" /\ worker[e] = "exit"
    /\ e \in SafeEnds /\ state[e] = "ESTABLISHED" /\ drawn < MaxRand
    /\ send_lock' = [send_lock EXCEPT ![e] = "app"]
    /\ drawn' = Rand
    /\ send_rem' = [send_rem EXCEPT ![e] = Rand]
    /\ Send(e, [m \in {Msg("fin", Rand, 0)} |-> FinCopies])
    /\ App(e, "next_fin_ack")
    /\ UNCHANGED <<state, data, recv_rem, active, worker, cur, recv_lock, recv_worker_lock,
                   made, since, resets, conns, dups, losses>>

\* Neither call of disconnect has anything to do
skip_close(e) ==
    /\ app[e] = "join" /\ worker[e] = "exit"
    /\ ~(e \in SafeEnds /\ state[e] = "ESTABLISHED")
    /\ App(e, "done")
    /\ UNCHANGED <<state, data, area, active, worker, cur, locks, pending, bounds>>

(* Mutant: any FIN ACK will do. *)
IsMyFinAck_AnyNumber(e, m) == is_fin(m) /\ is_ack(m)

\* send_on_fin_ack takes the answer to this FIN only
IsMyFinAck(e, m) == is_fin(m) /\ is_ack(m) /\ m.ack = send_rem[e]

\* One turn of next_fin_ack; once it has closed, disconnect(true, NULL) finds
\* the connection closed and the destructor is through
next_fin_ack(e) ==
    /\ app[e] = "next_fin_ack"
    /\ \E m \in BagToSet(pending[e]) :
         IF IsMyFinAck(e, m)
         THEN /\ TakeAndSend(e, m, One(Msg("ack", m.seq, 0)))
              /\ state' = [state EXCEPT ![e] = "CLOSED"]
              /\ send_lock' = [send_lock EXCEPT ![e] = "free"]
              /\ App(e, "done")
         ELSE TakeAndSend(e, m, EmptyBag) /\ UNCHANGED <<state, send_lock, app>>
    /\ UNCHANGED <<data, area, active, worker, cur, recv_lock, recv_worker_lock, bounds>>

\* disconnect(true, NULL), called by the application
disconnect(e) ==
    /\ resets < MaxResets /\ resets' = resets + 1
    /\ TakeRecvLock(e, "close_enter")
    /\ UNCHANGED <<state, data, area, active, worker, cur, send_lock, recv_worker_lock,
                   pending, made, since, drawn, conns, dups, losses>>

\* recv_close under both locks, if the connection is still open then
recv_close(e) ==
    /\ app[e] = "close_enter" /\ recv_worker_lock[e] = "free"
    /\ IF state[e] = "ESTABLISHED"
       THEN /\ drawn < MaxRand /\ drawn' = Rand
            /\ send_rem' = [send_rem EXCEPT ![e] = Rand]
            /\ Send(e, One(Msg("rst", Rand, 0)))
            /\ BothRecvLocks(e, "app") /\ App(e, "next_rst_ack")
       ELSE /\ BothRecvLocks(e, "free") /\ App(e, "idle")
            /\ UNCHANGED <<drawn, send_rem, pending>>
    /\ UNCHANGED <<state, data, recv_rem, active, worker, cur, send_lock,
                   made, since, resets, conns, dups, losses>>

\* next_rst_ack lets any acknowledgement but a FIN ACK through to
\* recv_on_rst_ack, which looks at the number
IsMyRstAck(e, m) == ~is_fin(m) /\ is_ack(m) /\ m.ack = send_rem[e]

next_rst_ack(e) ==
    /\ app[e] = "next_rst_ack"
    /\ \E m \in BagToSet(pending[e]) :
         IF IsMyRstAck(e, m)
         THEN /\ TakeAndSend(e, m, One(Msg("ack", m.seq, 0)))
              /\ state' = [state EXCEPT ![e] = "CLOSED"]
              /\ BothRecvLocks(e, "free")
              /\ App(e, "idle")
         ELSE /\ TakeAndSend(e, m, EmptyBag)
              /\ UNCHANGED <<state, recv_lock, recv_worker_lock, app>>
    /\ UNCHANGED <<data, area, active, worker, cur, send_lock, bounds>>

----------------------------------------------------------------------------
(* The receive worker, input_recv_worker::do_job.                          *)

\* The end of a turn, back to while(active): the message is let go
Loop(e) ==
    /\ Worker(e, IF active[e] THEN "next_msg" ELSE "exit")
    /\ cur' = [cur EXCEPT ![e] = Data]

\* A timeout of next_msg, which changes nothing while the worker is active
worker_timeout(e) ==
    /\ worker[e] = "next_msg" /\ ~active[e]
    /\ Loop(e)
    /\ UNCHANGED <<state, data, area, active, app, locks, pending, bounds>>

worker_next_msg(e) ==
    /\ worker[e] = "next_msg"
    /\ \E m \in BagToSet(pending[e]) :
         TakeAndSend(e, m, EmptyBag) /\ cur' = [cur EXCEPT ![e] = m]
    /\ Worker(e, "handle")
    /\ UNCHANGED <<state, data, area, active, app, locks, bounds>>

\* input_on_regular_msg: recv_worker_lock and the test of the state
on_usual(e) ==
    /\ worker[e] = "handle" /\ is_usual(cur[e]) /\ recv_worker_lock[e] = "free"
    /\ IF state[e] = "ESTABLISHED"
       THEN /\ recv_worker_lock' = [recv_worker_lock EXCEPT ![e] = "worker"]
            /\ Worker(e, "on_msg") /\ UNCHANGED cur
       ELSE Loop(e) /\ UNCHANGED recv_worker_lock
    /\ UNCHANGED <<state, data, area, active, app, send_lock, recv_lock, pending, bounds>>

\* The acknowledgement is the last thing on_msg does
Acknowledge(e) ==
    /\ Send(e, One(DataAck))
    /\ recv_worker_lock' = [recv_worker_lock EXCEPT ![e] = "free"]
    /\ Loop(e)

\* on_msg under recv_lock.  Data that fills the window is acknowledged when it
\* has been read: input_win_wait_completely_flushed waits with recv_lock let go
\* and recv_worker_lock kept.
on_msg(e) ==
    /\ worker[e] = "on_msg" /\ recv_lock[e] = "free"
    /\ data' = [data EXCEPT ![e] = IF @ = "none" THEN "buffered" ELSE @]
    /\ \/ Acknowledge(e)
       \/ /\ data[e] = "none" /\ Worker(e, "flush_wait")
          /\ UNCHANGED <<cur, recv_worker_lock, pending>>
    /\ UNCHANGED <<state, area, active, app, send_lock, recv_lock, bounds>>

on_buffer_flushed(e) ==
    /\ worker[e] = "flush_wait" /\ data[e] = "read" /\ recv_lock[e] = "free"
    /\ Acknowledge(e)
    /\ UNCHANGED <<state, data, area, active, app, send_lock, recv_lock, bounds>>

\* disconnect(false, msg) on a FIN: recv_on_fin under recv_lock and
\* recv_worker_lock, which is free when recv_lock is
on_fin(e) ==
    /\ worker[e] = "handle" /\ is_fin(cur[e]) /\ ~is_ack(cur[e])
    /\ recv_lock[e] = "free"
    /\ IF state[e] = "ESTABLISHED"
       THEN /\ drawn < MaxRand /\ drawn' = Rand
            /\ BothRecvLocks(e, "worker")
            /\ recv_rem' = [recv_rem EXCEPT ![e] = Rand]
            /\ Send(e, One(Msg("fin_ack", Rand, cur[e].seq)))
            /\ Worker(e, "recv_next_ack") /\ UNCHANGED cur
       ELSE Loop(e) /\ UNCHANGED <<drawn, recv_lock, recv_worker_lock, recv_rem, pending>>
    /\ UNCHANGED <<state, data, send_rem, active, app, send_lock,
                   made, since, resets, conns, dups, losses>>

\* disconnect(false, msg) on an RST: send_on_rst under send_lock and
\* send_worker_lock
on_rst(e) ==
    /\ worker[e] = "handle" /\ is_rst(cur[e]) /\ ~is_ack(cur[e])
    /\ send_lock[e] = "free"
    /\ IF state[e] = "ESTABLISHED"
       THEN /\ drawn < MaxRand /\ drawn' = Rand
            /\ send_lock' = [send_lock EXCEPT ![e] = "worker"]
            /\ recv_rem' = [recv_rem EXCEPT ![e] = Rand]
            /\ Send(e, One(Msg("rst_ack", Rand, cur[e].seq)))
            /\ Worker(e, "send_next_ack") /\ UNCHANGED cur
       ELSE Loop(e) /\ UNCHANGED <<drawn, send_lock, recv_rem, pending>>
    /\ UNCHANGED <<state, data, send_rem, active, app, recv_lock, recv_worker_lock,
                   made, since, resets, conns, dups, losses>>

\* output_on_ack completes the message of a send(); an acknowledgement of the
\* close handshake acknowledges no data
on_ack(e) ==
    /\ worker[e] = "handle" /\ cur[e].type = "ack"
    /\ IF cur[e] = DataAck /\ app[e] = "sending" /\ state[e] = "ESTABLISHED"
       THEN App(e, "idle") /\ send_lock' = [send_lock EXCEPT ![e] = "free"]
       ELSE UNCHANGED <<app, send_lock>>
    /\ Loop(e)
    /\ UNCHANGED <<state, data, area, active, recv_lock, recv_worker_lock, pending, bounds>>

\* disconnect(false, msg) has no case for a FIN ACK or an RST ACK
on_closing_ack(e) ==
    /\ worker[e] = "handle" /\ cur[e].type \in {"fin_ack", "rst_ack"}
    /\ Loop(e)
    /\ UNCHANGED <<state, data, area, active, app, locks, pending, bounds>>

(* Mutant: any acknowledgement ends the close handshake. *)
IsMyAck_AnyNumber(e, m) == ~is_rst(m) /\ ~is_fin(m) /\ is_ack(m)

\* recv_on_ack and send_on_ack take the answer to this FIN ACK or RST ACK only
IsMyAck(e, m) == ~is_rst(m) /\ ~is_fin(m) /\ is_ack(m) /\ m.seq = recv_rem[e]

recv_next_ack(e) ==
    /\ worker[e] = "recv_next_ack"
    /\ \E m \in BagToSet(pending[e]) :
         /\ TakeAndSend(e, m, EmptyBag)
         /\ IF IsMyAck(e, m)
            THEN /\ state' = [state EXCEPT ![e] = "CLOSED"]
                 /\ BothRecvLocks(e, "free")
                 /\ Loop(e)
            ELSE UNCHANGED <<state, recv_lock, recv_worker_lock, worker, cur>>
    /\ UNCHANGED <<data, area, active, app, send_lock, bounds>>

send_next_ack(e) ==
    /\ worker[e] = "send_next_ack"
    /\ \E m \in BagToSet(pending[e]) :
         /\ TakeAndSend(e, m, EmptyBag)
         /\ IF IsMyAck(e, m)
            THEN /\ state' = [state EXCEPT ![e] = "CLOSED"]
                 /\ send_lock' = [send_lock EXCEPT ![e] = "free"]
                 /\ Loop(e)
            ELSE UNCHANGED <<state, send_lock, worker, cur>>
    /\ UNCHANGED <<data, area, active, app, recv_lock, recv_worker_lock, bounds>>

----------------------------------------------------------------------------
(* The network, and a later connection of the same pair of addresses.      *)

Duplicate(e) ==
    /\ dups < MaxDups /\ dups' = dups + 1
    /\ \E m \in BagToSet(pending[e]) :
         pending' = [pending EXCEPT ![e] = @ (+) One(m)]
    /\ UNCHANGED <<state, data, area, threads, locks, drawn, made, since, resets, conns, losses>>

Lose(e) ==
    /\ losses < MaxLosses /\ losses' = losses + 1
    /\ \E m \in BagToSet(pending[e]) : TakeAndSend(e, m, EmptyBag)
    /\ UNCHANGED <<state, data, area, threads, locks, drawn, made, since, resets, conns, dups>>

\* The handshake (module Handshake) opens the next connection, on the same
\* socket or on a new one where the old one is destroyed, with empty windows.
\* One end is open before the other there; here both open in one step, so that
\* half open never means half closed.  A recv() that waits does so in the new
\* connection, where a segment of an old one is outside the window.
Reconnect ==
    /\ conns < MaxConns /\ conns' = conns + 1
    /\ \A e \in Ends : /\ state[e] = "CLOSED"
                       /\ app[e] \in {"idle", "receiving", "next_syn", "done"}
                       /\ worker[e] \in {"next_msg", "exit"}
    /\ state' = [e \in Ends |-> "ESTABLISHED"]
    /\ active' = [e \in Ends |-> TRUE]
    /\ app' = [e \in Ends |-> IF app[e] \in {"receiving", "next_syn"}
                              THEN "receiving" ELSE "idle"]
    /\ worker' = [e \in Ends |-> "next_msg"]
    /\ recv_lock' = [e \in Ends |-> "free"] /\ recv_worker_lock' = [e \in Ends |-> "free"]
    /\ since' = drawn
    /\ data' = [e \in Ends |-> IF <<"send", Peer(e)>> \in made THEN "read" ELSE "none"]
    /\ UNCHANGED <<area, cur, send_lock, pending, drawn, made, resets, dups, losses>>

----------------------------------------------------------------------------

AppStep(e) ==
    \/ retransmit(e) \/ recv_enter(e) \/ recv_flush(e) \/ next_syn(e)
    \/ send_close(e) \/ skip_close(e) \/ next_fin_ack(e)
    \/ recv_close(e) \/ next_rst_ack(e)

AppCall(e) == send(e) \/ recv(e) \/ destroy(e) \/ disconnect(e)

WorkerStep(e) ==
    \/ worker_timeout(e) \/ worker_next_msg(e)
    \/ on_usual(e) \/ on_msg(e) \/ on_buffer_flushed(e)
    \/ on_fin(e) \/ on_rst(e) \/ on_ack(e) \/ on_closing_ack(e)
    \/ recv_next_ack(e) \/ send_next_ack(e)

Next ==
    \/ \E e \in Ends : \/ AppStep(e) \/ AppCall(e) \/ WorkerStep(e)
                       \/ Duplicate(e) \/ Lose(e)
    \/ Reconnect

Spec == Init /\ [][Next]_vars

(* Every thread that can run does, and the answer a thread waits for is not *)
(* overtaken for ever by other messages: a queue is first in, first out.    *)
TakesAnswer(e) ==
    \/ (next_fin_ack(e) \/ next_rst_ack(e)) /\ app'[e] # app[e]
    \/ (recv_next_ack(e) \/ send_next_ack(e)) /\ worker'[e] # worker[e]

FairSpec ==
    Spec /\ \A e \in Ends : /\ WF_vars(AppStep(e)) /\ WF_vars(WorkerStep(e))
                            /\ WF_vars(TakesAnswer(e))

----------------------------------------------------------------------------

Messages ==
    [type : {"data", "ack", "fin", "fin_ack", "rst", "rst_ack"},
     seq : 0..MaxRand, ack : 0..MaxRand]

(* Every variable has its type, and no thread holds a lock it does not     *)
(* wait under: the state set by disconnect is one the rest of the socket   *)
(* knows.                                                                  *)
TypeOK ==
    /\ state \in [Ends -> {"ESTABLISHED", "CLOSED"}]
    /\ send_rem \in [Ends -> 0..MaxRand] /\ recv_rem \in [Ends -> 0..MaxRand]
    /\ active \in [Ends -> BOOLEAN]
    /\ app \in [Ends -> {"idle", "sending", "recv_enter", "receiving", "next_syn", "join",
                         "next_fin_ack", "close_enter", "next_rst_ack", "done"}]
    /\ data \in [Ends -> {"none", "buffered", "read"}]
    /\ worker \in [Ends -> {"next_msg", "handle", "on_msg", "flush_wait",
                            "recv_next_ack", "send_next_ack", "exit"}]
    /\ cur \in [Ends -> Messages]
    /\ \A e \in Ends : IsABag(pending[e]) /\ BagToSet(pending[e]) \subseteq Messages
    /\ \A e \in Ends :
         /\ send_lock[e] = "worker" <=> worker[e] = "send_next_ack"
         /\ send_lock[e] = "app" <=> app[e] \in {"sending", "next_fin_ack"}
         /\ recv_lock[e] = "worker" <=> worker[e] = "recv_next_ack"
         /\ recv_lock[e] = "app" <=>
               app[e] \in {"recv_enter", "close_enter", "next_syn", "next_rst_ack"}
         /\ recv_worker_lock[e] = "worker" <=>
               worker[e] \in {"on_msg", "flush_wait", "recv_next_ack"}
         /\ recv_worker_lock[e] = "app" <=> app[e] \in {"next_syn", "next_rst_ack"}

Closing(e) == worker[e] \in {"recv_next_ack", "send_next_ack"}

(* An end that is closed while the other one is open has been answered by   *)
(* it: the other end's worker is waiting for the last acknowledgement.  No  *)
(* FIN ACK or RST ACK of an earlier exchange closes one end alone.          *)
HalfClosedIsClosing ==
    \A e \in Ends : state[e] = "CLOSED" /\ state[Peer(e)] = "ESTABLISHED"
                      => Closing(Peer(e))

(* The worker that answered a FIN or an RST ends its wait only when the end *)
(* that asked has closed: no acknowledgement of data, and none of an earlier *)
(* exchange, passes for the last message of the three.  The end itself may  *)
(* close first, by a reset of its own that crosses the other one.           *)
AnsweringEndClosesLast ==
    [][\A e \in Ends : Closing(e) /\ ~Closing(e)' => state[Peer(e)] = "CLOSED"]_vars

(* The worker handles a FIN or an RST that an earlier connection left       *)
(* behind: it answers it and waits for an acknowledgement nobody will send, *)
(* or it waits for the send_lock that a send() holds.                       *)
AnswersOldClose(e) ==
    /\ Closing(e) \/ worker[e] = "handle"
    /\ cur[e].type \in {"fin", "rst"} /\ cur[e].seq <= since

(* Two resets crossed: the end has closed by its own, and its worker still  *)
(* waits for the last message of the other, which next_rst_ack may have     *)
(* taken from the queue the two threads share.                              *)
CrossedReset(e) == Closing(e) /\ state[e] = "CLOSED"

Faulty == losses > 0 \/ \E e \in Ends : AnswersOldClose(e) \/ CrossedReset(e)

(* The worker keeps recv_worker_lock and the acknowledgement until a full   *)
(* window has been read, and no recv() is there to read it.  A later one    *)
(* wants recv_worker_lock first.                                            *)
UnreadWindow(e) == worker[e] = "flush_wait" /\ data[e] = "buffered" /\ app[e] # "receiving"

(* recv() and disconnect take recv_lock before recv_worker_lock, the worker  *)
(* takes them the other way round.                                          *)
LockCycle(e) == app[e] \in {"recv_enter", "close_enter"} /\ worker[e] = "on_msg"

Stuck == \E e \in Ends : UnreadWindow(e) \/ LockCycle(e)

ClosesItself(e) == app[e] \in {"join", "next_fin_ack", "close_enter", "next_rst_ack", "done"}

(* ~socket_full_impl returns: its worker ends, and the close handshake it   *)
(* may do is answered, also while the other end waits in send() or recv().  *)
(* It may hang where the other end closes too, where the worker of an end   *)
(* waits for the application to read a full window or has its locks in the  *)
(* other order than a call, or where a message is lost, an old FIN is       *)
(* answered or two resets crossed.                                          *)
DestructorReturns ==
    \A e \in Ends :
      app[e] = "join" ~> app[e] = "done" \/ Faulty \/ Stuck \/ ClosesItself(Peer(e))

(* A send() that waits for its acknowledgement returns, also when the other *)
(* end waits in recv() for just these data.  It may hang where the other    *)
(* end closes under it (disconnect completes no future), and in the cases   *)
(* above.                                                                   *)
SendReturns ==
    \A e \in Ends :
      app[e] = "sending" ~> app[e] = "idle" \/ Faulty \/ Stuck \/ ClosesItself(Peer(e))
=============================================================================
