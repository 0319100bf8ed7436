------------------------- MODULE SenderSendProofs -------------------------
(***************************************************************************)
(* The safety properties of Sender for every window size, mtu, length of   *)
(* the stream, sizes of sends, starting number, and any number of repeated *)
(* acknowledgements, failed and lost segments.                             *)
(*                                                                         *)
(* The properties speak of the time before the worker uses a reused        *)
(* message (stale).  Until then Good holds.  It says                       *)
(*  - how the messages of the window lie in the buffer, and that a message *)
(*    found anywhere else in it is acknowledged (Layout);                  *)
(*  - that the messages in the buffer and on the wire, old ones included,  *)
(*    are pieces of one division of the stream (SpansOK), so that what the *)
(*    peer has and what it has acknowledged ends with a message (Places);  *)
(*  - that the data of what is not acknowledged is intact, unless a wrong  *)
(*    offset has just led next_msg into it, which makes the next step of   *)
(*    the worker stale (Data), and that such an offset leads at least to   *)
(*    what was a message once (Written);                                   *)
(*  - who has a message that is in use, which message is signalled, and    *)
(*    what a round of send() has left to do (Used, Signalled, Round).      *)
(***************************************************************************)
EXTENDS Sender, TLAPS

(* Most steps follow at once; the limit leaves room for a busy machine. *)
USE SMTT(30)

-----------------------------------------------------------------------------
(* The facts on sequences that the proofs below cite: those of the library's *)
(* SequenceTheorems, without the weight of that module on every obligation.  *)

LEMMA SeqDef ==
    ASSUME NEW S
    PROVE  Seq(S) = UNION {[1 .. n -> S] : n \in Nat}
  OBVIOUS

LEMMA ElementOfSeq ==
    ASSUME NEW S, NEW q \in Seq(S), NEW n \in 1 .. Len(q)
    PROVE  q[n] \in S
  OBVIOUS

LEMMA EmptySeq ==
    ASSUME NEW S
    PROVE  /\ <<>> \in Seq(S)
           /\ Len(<<>>) = 0
           /\ \A q \in Seq(S) : q # <<>> => Len(q) \in Nat \ {0}
  OBVIOUS

LEMMA LenProperties ==
    ASSUME NEW S, NEW q \in Seq(S)
    PROVE  /\ Len(q) \in Nat
           /\ q \in [1 .. Len(q) -> S]
           /\ DOMAIN q = 1 .. Len(q)
  OBVIOUS

LEMMA ConcatProperties ==
    ASSUME NEW S, NEW p \in Seq(S), NEW q \in Seq(S)
    PROVE  /\ p \o q \in Seq(S)
           /\ Len(p \o q) = Len(p) + Len(q)
           /\ \A i \in 1 .. Len(p) + Len(q) :
                  (p \o q)[i] = IF i <= Len(p) THEN p[i] ELSE q[i - Len(p)]
  OBVIOUS

LEMMA HeadTailProperties ==
    ASSUME NEW S, NEW q \in Seq(S), q # <<>>
    PROVE  /\ Head(q) \in S
           /\ Tail(q) \in Seq(S)
           /\ Len(Tail(q)) = Len(q) - 1
           /\ \A i \in 1 .. Len(Tail(q)) : Tail(q)[i] = q[i + 1]
  OBVIOUS

-----------------------------------------------------------------------------

Header(p) == mem[p].kind = "header"

\* The bytes of the stream a header stands for: those after From(p), up to To(p)
From(p) == mem[p].seq - isn
To(p) == From(p) + mem[p].len

\* A message of the window that is in use
Live(p) == Header(p) /\ p < end_off

Base == win.start - isn
Acked == Base + win.off

Spans == {<<From(p), To(p)>> : p \in {c \in Cells : Header(c)}}
           \cup {<<s.seq - isn, s.seq - isn + Len(s.data)>> : s \in wire}

SpansOK ==
    /\ \A x \in Spans : /\ x[1] \in Nat /\ x[2] \in Nat /\ x[1] < x[2] /\ x[2] <= put
                        /\ (x[1] % WinSz) + (x[2] - x[1]) <= WinSz
    /\ \A x, y \in Spans : x = y \/ x[2] <= y[1] \/ y[2] <= x[1]

\* No message goes on both sides of a position
Whole(n) == \A x \in Spans : n <= x[1] \/ x[2] <= n

Types ==
    /\ TypeOK /\ isn \in 0 .. Modulo - 1
    /\ \A s \in wire : s.seq \in 0 .. Modulo - 1 /\ s.data \in Seq(Nat)
    /\ peer \in Seq(Nat)

\* The same, group of variables by group of variables
WinTypes ==
    /\ state \in {"CLOSED", "ESTABLISHED"} /\ isn \in 0 .. Modulo - 1
    /\ win \in [start : Nat, off : 0 .. WinSz, sent_off : 0 .. WinSz, sz : {WinSz}]
BufTypes ==
    /\ mem \in [Cells -> [kind : {"none", "header", "data"}, seq : 0 .. Modulo - 1,
                          len : 0 .. WinSz, used : BOOLEAN, sem : Nat,
                          pos : 0 .. StreamLen]]
    /\ off_map \in [0 .. MapSz - 1 -> Cells] /\ end_off \in Cells
SemTypes == lock \in Nat /\ empty_notif \in Nat /\ not_empty_notif \in Nat
CongTypes == receiver_win \in 1 .. WinSz /\ cong \in 1 .. MaxCong
FrTypes == fr_last \in 0 .. Modulo - 1 /\ fr_cnt \in 0 .. DupBound
WorkerTypes ==
    /\ wpc \in {"off", "lock", "wait_not_empty", "scan", "sendto", "poll"}
    /\ cur \in Cells /\ scan \in Nat
ClientTypes ==
    /\ cpc \in {"idle", "handshake", "round", "nagles", "wait_empty",
                "empty_notif", "relock", "await", "threw"}
    /\ left \in Nat /\ bound \in 0 .. WinSz /\ data \in 0 .. WinSz
    /\ seg \in 0 .. WinSz /\ futures \in Seq(Cells) /\ put \in 0 .. StreamLen
NetTypes ==
    /\ \A s \in wire : s.seq \in 0 .. Modulo - 1 /\ s.data \in Seq(Nat)
    /\ peer \in Seq(Nat)
HistTypes ==
    /\ dups \in 0 .. MaxDups /\ fails \in 0 .. MaxFails /\ losses \in 0 .. MaxLosses
    /\ stale \in BOOLEAN /\ crashed \in BOOLEAN

Closed ==
    /\ state = "CLOSED" <=> wpc = "off"
    /\ state = "CLOSED" =>
          /\ isn = 0 /\ win.start = 0 /\ win.off = 0 /\ win.sent_off = 0 /\ put = 0
          /\ wire = {} /\ acks = {} /\ peer = << >> /\ cpc \in {"idle", "handshake"}
          /\ \A p \in Cells : ~Header(p)
    /\ state # "CLOSED" => isn + StreamLen + WinSz < Modulo

Layout ==
    /\ win.off <= win.sent_off /\ Base \in Nat /\ Base % WinSz = 0
    /\ put = Base + win.sent_off
    /\ end_off <= 2 * win.sent_off /\ off_map[win.sent_off] = end_off
    /\ \A p \in Cells : Header(p) =>
          /\ mem[p].len > 0 /\ p + mem[p].len \in Cells
          /\ \A i \in 1 .. mem[p].len : mem[p + i].kind = "data"
          /\ p >= end_off => To(p) <= Base
    /\ \A p \in Cells : Live(p) =>
          /\ From(p) >= Base /\ To(p) <= put /\ off_map[From(p) - Base] = p
          /\ p + mem[p].len < end_off
    /\ \A p, r \in Cells : Live(p) /\ Live(r) /\ p < r => To(p) <= From(r)
    /\ \A n \in Base .. put - 1 : \E p \in Cells : Live(p) /\ From(p) <= n /\ n < To(p)

Places ==
    /\ Acked <= Len(peer) /\ Len(peer) <= put /\ Whole(Acked) /\ Whole(Len(peer))
    /\ \A a \in acks : /\ a.win \in 1 .. WinSz
                       /\ \E n \in 0 .. Len(peer) :
                             Whole(n) /\ a.seq = tcp_seq(isn + n + Modulo - 1)

\* The data of a message the peer may still wait for
Data ==
    /\ \A p \in Cells : Live(p) /\ To(p) > Acked =>
          \A i \in 1 .. mem[p].len :
             mem[p + i].pos = From(p) + i \/ (wpc = "sendto" /\ cur = p + i)
    /\ \A s \in wire : s.seq - isn >= Len(peer) =>
          \A i \in 1 .. Len(s.data) : s.data[i] = s.seq - isn + i

\* What next_msg may be led to by a wrong offset was a message once
Written ==
    /\ \A o \in 0 .. WinSz - 1 : o # win.sent_off =>
          mem[off_map[o]].kind # "none" \/ (put = 0 /\ off_map[o] = 0)
    /\ wpc \in {"sendto", "poll"} => mem[cur].kind # "none"

Used ==
    fails = 0 => \A p \in Cells : Live(p) /\ From(p) >= Acked /\ mem[p].used =>
                    wpc \in {"sendto", "poll"} /\ cur = p

Signalled ==
    /\ \A p \in Cells : Live(p) /\ mem[p].sem > 0 => To(p) <= Acked
    /\ \/ sent_buf_empty
       \/ futures # << >> /\ Live(futures[Len(futures)]) /\ To(futures[Len(futures)]) = put

Waiting == {"wait_empty", "empty_notif", "relock"}

Round ==
    /\ cpc # "threw"
    /\ cpc \in {"idle", "handshake", "round"} => futures = << >>
    /\ cpc \in {"handshake", "round"} => put + left <= StreamLen
    /\ cpc \in {"nagles", "await"} \cup Waiting =>
          bound <= left /\ data <= sent_sz(win) /\ put + data + left - bound <= StreamLen
    /\ cpc \in Waiting => seg <= data
    /\ cpc = "await" => data = 0
    /\ cpc = "empty_notif" /\ sent_buf_empty => empty_notif > 0

Retry == crashed => sent_buf_empty

Good ==
    /\ Types /\ Closed /\ Layout /\ SpansOK /\ Places /\ Data /\ Written /\ Used
    /\ Signalled /\ Round /\ Retry

IInv == stale \in BOOLEAN /\ (~stale => Good)

-----------------------------------------------------------------------------
(* Numbers. *)

LEMMA Constants ==
  /\ WinSz \in Nat \ {0} /\ Mtu \in Nat \ {0} /\ MapSz \in Nat /\ WinSz < MapSz
  /\ StreamLen \in Nat /\ Modulo \in Nat \ {0}
BY SenderAssumption, ModuloAssumption, ZenonT(30)

(* A step keeps the types when it keeps, or leaves alone, each group. *)
LEMMA TypesParts ==
  Types <=> /\ WinTypes /\ BufTypes /\ SemTypes /\ CongTypes /\ FrTypes
            /\ WorkerTypes /\ ClientTypes /\ NetTypes /\ HistTypes
<1>1. isn \in 0 .. Modulo - 1 => isn \in Nat
  BY Constants
<1> QED BY <1>1, ZenonT(30) DEF Types, TypeOK, WinTypes, BufTypes, SemTypes, CongTypes, FrTypes,
                           WorkerTypes, ClientTypes, NetTypes, HistTypes

LEMMA TypesKept ==
  ASSUME Types,
         UNCHANGED winVars \/ WinTypes', UNCHANGED bufVars \/ BufTypes',
         UNCHANGED <<lock, notifVars>> \/ SemTypes', UNCHANGED congVars \/ CongTypes',
         UNCHANGED frVars \/ FrTypes', UNCHANGED workerVars \/ WorkerTypes',
         UNCHANGED clientVars \/ ClientTypes', UNCHANGED netVars \/ NetTypes',
         UNCHANGED histVars \/ HistTypes'
  PROVE  Types'
<1>1. /\ WinTypes /\ BufTypes /\ SemTypes /\ CongTypes /\ FrTypes
      /\ WorkerTypes /\ ClientTypes /\ NetTypes /\ HistTypes
  BY TypesParts, ZenonT(30)
<1>2. WinTypes'
  BY <1>1, ZenonT(30) DEF WinTypes, winVars
<1>3. BufTypes'
  BY <1>1, ZenonT(30) DEF BufTypes, bufVars
<1>4. SemTypes'
  BY <1>1, ZenonT(30) DEF SemTypes, notifVars
<1>5. CongTypes'
  BY <1>1, ZenonT(30) DEF CongTypes, congVars
<1>6. FrTypes'
  BY <1>1, ZenonT(30) DEF FrTypes, frVars
<1>7. WorkerTypes'
  BY <1>1, ZenonT(30) DEF WorkerTypes, workerVars
<1>8. ClientTypes'
  BY <1>1, ZenonT(30) DEF ClientTypes, clientVars
<1>9. NetTypes'
  BY <1>1, ZenonT(30) DEF NetTypes, netVars
<1>10. HistTypes'
  BY <1>1, ZenonT(30) DEF HistTypes, histVars
<1>11. isn' \in 0 .. Modulo - 1 => isn' \in Nat
  BY Constants
<1> QED BY <1>2, <1>3, <1>4, <1>5, <1>6, <1>7, <1>8, <1>9, <1>10, <1>11, ZenonT(30)
        DEF Types, TypeOK, WinTypes, BufTypes, SemTypes, CongTypes, FrTypes, WorkerTypes,
            ClientTypes, NetTypes, HistTypes

(* The window and the stream are plain numbers. *)
LEMMA Numbers ==
  ASSUME Types, Layout
  PROVE  /\ isn \in Nat /\ win.start \in Nat /\ win.off \in 0 .. WinSz
         /\ win.sent_off \in 0 .. WinSz /\ win.sz = WinSz
         /\ Base \in Nat /\ Acked \in Nat /\ put \in 0 .. StreamLen /\ Len(peer) \in Nat
         /\ win.start = isn + Base /\ Acked = Base + win.off /\ put = Base + win.sent_off
         /\ win.off <= win.sent_off /\ end_off \in Cells
<1>1. /\ isn \in Nat /\ put \in 0 .. StreamLen /\ end_off \in Cells
      /\ win \in [start : Nat, off : 0 .. WinSz, sent_off : 0 .. WinSz, sz : {WinSz}]
  BY ZenonT(30) DEF Types, TypeOK
<1>2. win.start \in Nat /\ win.off \in 0 .. WinSz /\ win.sent_off \in 0 .. WinSz /\ win.sz = WinSz
  BY <1>1, ZenonT(30)
<1>3. Base \in Nat /\ put = Base + win.sent_off /\ win.off <= win.sent_off
  BY ZenonT(30) DEF Layout
<1>4. Len(peer) \in Nat
  BY LenProperties, ZenonT(30) DEF Types
<1>5. win.start = isn + Base /\ Acked = Base + win.off
  BY <1>1, <1>2 DEF Base, Acked
<1>6. Acked \in Nat
  BY <1>2, <1>3, <1>5, Constants
<1> QED BY <1>1, <1>2, <1>3, <1>4, <1>5, <1>6, ZenonT(30)

(* The counters and the locals of send(). *)
LEMMA Counters ==
  ASSUME Types
  PROVE  /\ lock \in Nat /\ empty_notif \in Nat /\ not_empty_notif \in Nat
         /\ left \in Nat /\ bound \in 0 .. WinSz /\ data \in 0 .. WinSz /\ seg \in 0 .. WinSz
         /\ put \in 0 .. StreamLen /\ receiver_win \in 1 .. WinSz /\ cong \in 1 .. MaxCong
         /\ dups \in 0 .. MaxDups /\ fails \in 0 .. MaxFails /\ losses \in 0 .. MaxLosses
         /\ cur \in Cells /\ scan \in Nat /\ fr_cnt \in 0 .. DupBound
BY ZenonT(30) DEF Types, TypeOK

LEMMA Remainder == ASSUME NEW n \in Nat, n < Modulo PROVE tcp_seq(n) = n
BY Constants DEF tcp_seq

(* Until the end of the sequence space, contains compares as it looks. *)
LEMMA ContainsSeq ==
  ASSUME Types, Closed, Layout, state # "CLOSED", NEW s \in 0 .. Modulo - 1
  PROVE  contains(win, SINGLE_WINDOW(s)) <=> isn + Acked <= s /\ s < isn + Base + WinSz
<1>0. /\ isn \in Nat /\ win.start \in Nat /\ win.off \in 0 .. WinSz /\ win.sz = WinSz
      /\ Base \in Nat /\ Acked \in Nat /\ put \in 0 .. StreamLen
      /\ win.start = isn + Base /\ Acked = Base + win.off /\ put = Base + win.sent_off
      /\ win.off <= win.sent_off /\ win.sent_off \in 0 .. WinSz
  BY Numbers, ZenonT(30)
<1>1. isn + StreamLen + WinSz < Modulo
  BY ZenonT(30) DEF Closed
<1>2. begin(win) = isn + Acked /\ end(win) = isn + Base + WinSz
  BY <1>0 DEF begin, end
<1>3. isn + Base + WinSz \in Nat /\ isn + Base + WinSz < Modulo /\ isn + Acked <= isn + Base + WinSz
  BY <1>0, <1>1, Constants
<1>4. tcp_seq(end(win)) = end(win) /\ ~(tcp_seq(end(win)) < begin(win))
  BY <1>0, <1>2, <1>3, Remainder
<1>5. begin(SINGLE_WINDOW(s)) = s /\ end(SINGLE_WINDOW(s)) = s + 1
  BY DEF begin, end, SINGLE_WINDOW, receiver_window
<1>6. contains(win, SINGLE_WINDOW(s)) <=> begin(win) <= s /\ end(win) >= s + 1
  BY <1>4, <1>5, ZenonT(30) DEF contains
<1> QED BY <1>0, <1>2, <1>3, <1>6

(* Where a sequence number of the window is. *)
LEMMA OffsetOf ==
  ASSUME Types, Closed, Layout, state # "CLOSED", NEW s \in 0 .. Modulo - 1
  PROVE  /\ get_in_msg_off(win, s) \in Nat
         /\ isn + Acked <= s => get_in_msg_off(win, s) = s - (isn + Acked)
<1>0. /\ isn \in Nat /\ win.start \in Nat /\ win.off \in 0 .. WinSz /\ win.sz = WinSz
      /\ Base \in Nat /\ Acked \in Nat /\ put \in 0 .. StreamLen
      /\ win.start = isn + Base /\ Acked = Base + win.off /\ put = Base + win.sent_off
      /\ win.off <= win.sent_off /\ win.sent_off \in 0 .. WinSz
  BY Numbers, ZenonT(30)
<1>1. isn + StreamLen + WinSz < Modulo
  BY ZenonT(30) DEF Closed
<1>2. begin(win) = isn + Acked /\ isn + Acked \in Nat /\ isn + Acked < Modulo
  BY <1>0, <1>1, Constants DEF begin
<1>3. tcp_seq(begin(win)) = isn + Acked
  BY <1>2, Remainder, ZenonT(30)
<1> QED BY <1>2, <1>3, Constants DEF get_in_msg_off

LEMMA PutModWindow ==
  ASSUME NEW b \in Nat, b % WinSz = 0, NEW o \in 0 .. WinSz - 1
  PROVE  (b + o) % WinSz = o
BY Constants

LEMMA NextModWindow ==
  ASSUME NEW b \in Nat, b % WinSz = 0 PROVE (b + WinSz) % WinSz = 0
<1> DEFINE k == b \div WinSz
<1>1. k \in Nat /\ b = WinSz * k
  BY Constants
<1>2. b + WinSz = WinSz * (k + 1) /\ k + 1 \in Nat
  BY <1>1, Constants
<1> HIDE DEF k
<1> QED BY <1>1, <1>2, Constants

-----------------------------------------------------------------------------
(* Messages. *)

LEMMA CellType ==
  ASSUME Types, NEW p \in Cells
  PROVE  /\ mem[p].kind \in {"none", "header", "data"} /\ mem[p].seq \in 0 .. Modulo - 1
         /\ mem[p].len \in 0 .. WinSz /\ mem[p].used \in BOOLEAN /\ mem[p].sem \in Nat
         /\ mem[p].pos \in 0 .. StreamLen /\ p \in Nat /\ p <= 2 * WinSz
<1>1. mem[p] \in [kind : {"none", "header", "data"}, seq : 0 .. Modulo - 1, len : 0 .. WinSz,
                  used : BOOLEAN, sem : Nat, pos : 0 .. StreamLen]
  BY ZenonT(30) DEF Types, TypeOK
<1>2. p \in Nat /\ p <= 2 * WinSz
  BY Constants DEF Cells
<1> QED BY <1>1, <1>2, ZenonT(30)

LEMMA WithinCells ==
  ASSUME NEW p \in Cells, NEW n \in Nat, p + n \in Cells, NEW i \in 0 .. n
  PROVE  p + i \in Cells
<1>1. 2 * WinSz \in Nat
  BY Constants
<1> QED BY <1>1 DEF Cells

(* What SpansOK says of a message. *)
LEMMA HeaderSpan ==
  ASSUME Types, SpansOK, NEW p \in Cells, Header(p)
  PROVE  /\ <<From(p), To(p)>> \in Spans
         /\ From(p) \in Nat /\ To(p) \in Nat /\ From(p) < To(p) /\ To(p) <= put
         /\ mem[p].seq = isn + From(p) /\ mem[p].len = To(p) - From(p)
<1>1. <<From(p), To(p)>> \in Spans
  BY ZenonT(30) DEF Spans
<1>2. From(p) \in Nat /\ To(p) \in Nat /\ From(p) < To(p) /\ To(p) <= put
  BY <1>1, ZenonT(30) DEF SpansOK
<1>3. isn \in Nat /\ mem[p].seq \in Nat /\ mem[p].len \in Nat
  BY CellType DEF Types
<1> QED BY <1>1, <1>2, <1>3 DEF From, To

LEMMA SegmentSpan ==
  ASSUME Types, SpansOK, NEW s \in wire
  PROVE  /\ <<s.seq - isn, s.seq - isn + Len(s.data)>> \in Spans
         /\ s.seq - isn \in Nat /\ Len(s.data) \in Nat \ {0}
         /\ s.seq - isn + Len(s.data) <= put
         /\ ((s.seq - isn) % WinSz) + Len(s.data) <= WinSz
<1>1. <<s.seq - isn, s.seq - isn + Len(s.data)>> \in Spans
  BY ZenonT(30) DEF Spans
<1>2. Len(s.data) \in Nat
  BY LenProperties, ZenonT(30) DEF Types
<1>3. /\ s.seq - isn \in Nat /\ s.seq - isn < s.seq - isn + Len(s.data)
      /\ s.seq - isn + Len(s.data) <= put
      /\ ((s.seq - isn) % WinSz) + (s.seq - isn + Len(s.data) - (s.seq - isn)) <= WinSz
  BY <1>1 DEF SpansOK
<1> HIDE <1>1
<1>4. s.seq - isn + Len(s.data) - (s.seq - isn) = Len(s.data)
  BY <1>2, <1>3
<1> QED BY <1>1, <1>2, <1>3, <1>4

(* A message starts wherever the window may be moved to. *)
LEMMA MessageAt ==
  ASSUME Types, Layout, SpansOK, NEW o \in 0 .. WinSz, o < win.sent_off, Whole(Base + o)
  PROVE  Live(off_map[o]) /\ From(off_map[o]) = Base + o /\ off_map[o] \in Cells
<1>1. Base \in Nat /\ put = Base + win.sent_off /\ win.sent_off \in 0 .. WinSz
  BY Numbers, ZenonT(30)
<1>2. Base + o \in Base .. put - 1
  BY <1>1, Constants
<1>3. PICK p \in Cells : Live(p) /\ From(p) <= Base + o /\ Base + o < To(p)
  BY <1>2, ZenonT(30) DEF Layout
<1>4. Header(p) /\ From(p) \in Nat /\ To(p) \in Nat /\ <<From(p), To(p)>> \in Spans
  BY <1>3, HeaderSpan, ZenonT(30) DEF Live
<1>5. Base + o <= From(p) \/ To(p) <= Base + o
  BY <1>4, ZenonT(30) DEF Whole
<1>6. From(p) = Base + o
  BY <1>1, <1>3, <1>4, <1>5, Constants
<1>7. From(p) - Base = o
  BY <1>1, <1>6, Constants
<1>8. off_map[o] = p
  BY <1>3, <1>7, ZenonT(30) DEF Layout
<1> QED BY <1>3, <1>6, <1>8, ZenonT(30)

(* A message outside the window is acknowledged. *)
LEMMA UnackedIsLive ==
  ASSUME Types, Layout, SpansOK, NEW p \in Cells, Header(p), To(p) > Acked
  PROVE  Live(p)
<1>1. Base \in Nat /\ Acked = Base + win.off /\ win.off \in 0 .. WinSz /\ end_off \in Cells
  BY Numbers, ZenonT(30)
<1>2. ~(To(p) <= Base)
  <2>1. To(p) \in Nat
    BY HeaderSpan, ZenonT(30)
  <2> QED BY <1>1, <2>1, Constants
<1>3. ~(p >= end_off)
  BY <1>2, ZenonT(30) DEF Layout
<1> QED BY <1>1, <1>3 DEF Live, Cells

-----------------------------------------------------------------------------
(* Steps that leave the messages where they are. *)

SameCells ==
    /\ UNCHANGED <<isn, off_map, end_off, put>>
    /\ win'.start = win.start /\ win'.sent_off = win.sent_off
    /\ \A p \in Cells : /\ mem'[p].kind = mem[p].kind /\ mem'[p].seq = mem[p].seq
                        /\ mem'[p].len = mem[p].len

LEMMA CellSpans ==
  ASSUME SameCells
  PROVE  /\ \A p \in Cells : (Header(p)' <=> Header(p)) /\ From(p)' = From(p) /\ To(p)' = To(p)
                             /\ (Live(p)' <=> Live(p))
         /\ Base' = Base
         /\ wire' = wire => Spans' = Spans
<1>1. \A p \in Cells : (Header(p)' <=> Header(p)) /\ From(p)' = From(p) /\ To(p)' = To(p)
                       /\ (Live(p)' <=> Live(p))
  BY ZenonT(30) DEF SameCells, Header, From, To, Live
<1>2. Base' = Base
  BY ZenonT(30) DEF SameCells, Base
<1>3. ASSUME wire' = wire PROVE Spans' = Spans
  <2>1. isn' = isn
    BY ZenonT(30) DEF SameCells
  <2> QED BY <1>1, <1>3, <2>1, ZenonT(30) DEF Spans
<1> QED BY <1>1, <1>2, <1>3, ZenonT(30)

LEMMA CellLayout == ASSUME SameCells, Layout, Types, win'.off <= win'.sent_off PROVE Layout'
<1>1. /\ UNCHANGED <<isn, off_map, end_off, put>> /\ Base' = Base
      /\ win'.start = win.start /\ win'.sent_off = win.sent_off
      /\ \A p \in Cells : (Header(p)' <=> Header(p)) /\ From(p)' = From(p) /\ To(p)' = To(p)
                          /\ (Live(p)' <=> Live(p))
      /\ \A p \in Cells : mem'[p].kind = mem[p].kind /\ mem'[p].len = mem[p].len
  BY CellSpans, ZenonT(30) DEF SameCells
<1>2. /\ win'.off <= win'.sent_off /\ Base' \in Nat /\ Base' % WinSz = 0
      /\ put' = Base' + win'.sent_off
      /\ end_off' <= 2 * win'.sent_off /\ off_map'[win'.sent_off] = end_off'
  BY <1>1, ZenonT(30) DEF Layout
<1>3. ASSUME NEW p \in Cells, Header(p)'
      PROVE  /\ mem'[p].len > 0 /\ p + mem'[p].len \in Cells
             /\ \A i \in 1 .. mem'[p].len : mem'[p + i].kind = "data"
             /\ p >= end_off' => To(p)' <= Base'
  <2>1. /\ mem[p].len > 0 /\ p + mem[p].len \in Cells
        /\ \A i \in 1 .. mem[p].len : mem[p + i].kind = "data"
        /\ p >= end_off => To(p) <= Base
    BY <1>1, <1>3, ZenonT(30) DEF Layout
  <2>2. \A i \in 1 .. mem[p].len : p + i \in Cells
    BY <2>1, WithinCells, CellType
  <2> QED BY <1>1, <2>1, <2>2, ZenonT(30)
<1>4. ASSUME NEW p \in Cells, Live(p)'
      PROVE  /\ From(p)' >= Base' /\ To(p)' <= put' /\ off_map'[From(p)' - Base'] = p
             /\ p + mem'[p].len < end_off'
  BY <1>1, <1>4, ZenonT(30) DEF Layout
<1>5. ASSUME NEW p \in Cells, NEW r \in Cells, Live(p)', Live(r)', p < r PROVE To(p)' <= From(r)'
  BY <1>1, <1>5, ZenonT(30) DEF Layout
<1>6. ASSUME NEW n \in Base' .. put' - 1
      PROVE  \E p \in Cells : Live(p)' /\ From(p)' <= n /\ n < To(p)'
  <2>1. PICK p \in Cells : Live(p) /\ From(p) <= n /\ n < To(p)
    BY <1>1, ZenonT(30) DEF Layout
  <2> QED BY <1>1, <2>1, ZenonT(30)
<1> QED BY <1>2, <1>3, <1>4, <1>5, <1>6, ZenonT(30) DEF Layout

SameMessages == SameCells /\ win' = win

LEMMA SameSpans ==
  ASSUME SameMessages
  PROVE  /\ \A p \in Cells : (Header(p)' <=> Header(p)) /\ From(p)' = From(p) /\ To(p)' = To(p)
                             /\ (Live(p)' <=> Live(p))
         /\ Base' = Base /\ Acked' = Acked
         /\ wire' = wire => Spans' = Spans
<1>1. Base' = Base /\ win' = win
  BY CellSpans, ZenonT(30) DEF SameMessages
<1>2. Acked' = Acked
  BY <1>1, ZenonT(30) DEF Acked
<1> QED BY <1>1, <1>2, CellSpans, ZenonT(30) DEF SameMessages

LEMMA LayoutKept == ASSUME SameMessages, Layout, Types PROVE Layout'
<1>1. win'.off <= win'.sent_off
  BY ZenonT(30) DEF SameMessages, Layout
<1> QED BY <1>1, CellLayout, ZenonT(30) DEF SameMessages

LEMMA SpansKept == ASSUME SpansOK, Spans' \subseteq Spans, put' = put PROVE SpansOK'
BY ZenonT(30) DEF SpansOK

LEMMA PlacesKept ==
  ASSUME Places, Acked' = Acked, Spans' \subseteq Spans, UNCHANGED <<isn, put, acks, peer>>
  PROVE  Places'
<1>1. \A n : Whole(n) => Whole(n)'
  BY ZenonT(30) DEF Whole
<1> QED BY <1>1, ZenonT(30) DEF Places

LEMMA ClientKeeps ==
  ASSUME Good, UNCHANGED <<winVars, bufVars, workerVars, futures, put, netVars, fails, crashed>>,
         Types', Round', state = "CLOSED" => cpc' \in {"idle", "handshake"}
  PROVE  Good'
<1>1. UNCHANGED <<state, isn, win, mem, off_map, end_off, wpc, cur, futures, put, wire, acks,
                  peer, fails, crashed>>
  BY ZenonT(30) DEF winVars, bufVars, workerVars, netVars
<1>2. SameMessages
  BY <1>1, ZenonT(30) DEF SameMessages, SameCells
<1>3. /\ \A p \in Cells : (Header(p)' <=> Header(p)) /\ From(p)' = From(p) /\ To(p)' = To(p)
                          /\ (Live(p)' <=> Live(p))
      /\ Acked' = Acked /\ Spans' = Spans
  BY <1>1, <1>2, SameSpans, ZenonT(30)
<1>4. Layout' /\ SpansOK' /\ Places'
  BY <1>1, <1>2, <1>3, LayoutKept, SpansKept, PlacesKept, ZenonT(30) DEF Good
<1>5. Closed'
  BY <1>1, <1>3, ZenonT(30) DEF Good, Closed
<1>6. Data' /\ Written' /\ Used'
  BY <1>1, <1>3, ZenonT(30) DEF Good, Data, Written, Used
<1>7. Signalled'
  BY <1>1, <1>3, ZenonT(30) DEF Good, Signalled, sent_buf_empty, Live, Header, To, From
<1>8. Retry'
  BY <1>1 DEF Good, Retry, sent_buf_empty
<1> QED BY <1>4, <1>5, <1>6, <1>7, <1>8, ZenonT(30) DEF Good

LEMMA WorkerKeeps ==
  ASSUME Good, UNCHANGED <<winVars, bufVars, clientVars, empty_notif, netVars, fails, cur>>,
         crashed' => crashed \/ sent_buf_empty,
         Types', wpc # "off", wpc' # "off", wpc' = wpc \/ wpc' \notin {"sendto", "poll"},
         wpc = "sendto" => wpc' = "sendto",
         wpc = "poll" /\ wpc' # "poll" => ~(Live(cur) /\ From(cur) >= Acked)
  PROVE  Good'
<1>1. UNCHANGED <<state, isn, win, mem, off_map, end_off, cur, cpc, left, bound, data, seg, futures,
                  put, empty_notif, wire, acks, peer, fails>>
  BY ZenonT(30) DEF winVars, bufVars, clientVars, netVars
<1>2. SameMessages
  BY <1>1, ZenonT(30) DEF SameMessages, SameCells
<1>3. /\ \A p \in Cells : (Header(p)' <=> Header(p)) /\ From(p)' = From(p) /\ To(p)' = To(p)
                          /\ (Live(p)' <=> Live(p))
      /\ Acked' = Acked /\ Spans' = Spans
  BY <1>1, <1>2, SameSpans, ZenonT(30)
<1>4. Layout' /\ SpansOK' /\ Places'
  BY <1>1, <1>2, <1>3, LayoutKept, SpansKept, PlacesKept, ZenonT(30) DEF Good
<1>5. Closed'
  BY <1>1, <1>3, ZenonT(30) DEF Good, Closed
<1>6. Data'
  BY <1>1, <1>3, ZenonT(30) DEF Good, Data
<1>7. Written'
  BY <1>1, ZenonT(30) DEF Good, Written
<1>8. Used'
  BY <1>1, <1>3, ZenonT(30) DEF Good, Used
<1>9. Signalled'
  BY <1>1, <1>3, ZenonT(30) DEF Good, Signalled, sent_buf_empty, Live, Header, To, From
<1>10. Round' /\ Retry'
  BY <1>1, ZenonT(30) DEF Good, Round, Retry, sent_buf_empty, sent_sz
<1> QED BY <1>4, <1>5, <1>6, <1>7, <1>8, <1>9, <1>10, ZenonT(30) DEF Good

-----------------------------------------------------------------------------
(* The steps of send() that put nothing into the buffer. *)

LEMMA SendCallStep == ASSUME Good, NEW n \in SendSizes, SendCall(n) PROVE Good'
<1>1. /\ UNCHANGED <<winVars, bufVars, workerVars, bound, data, seg, futures, put, netVars, histVars>>
      /\ cpc = "idle" /\ cpc' = "handshake" /\ left' = n /\ put + n <= StreamLen
      /\ n \in Nat
  BY SenderAssumption, ZenonT(30) DEF SendCall
<1>2. Types'
  <2>1. ClientTypes'
    BY <1>1, TypesParts, ZenonT(30) DEF Good, ClientTypes
  <2> QED BY <1>1, <2>1, TypesKept, ZenonT(30) DEF Good, SendCall
<1>3. Round'
  BY <1>1, ZenonT(30) DEF Good, Round, Waiting
<1> QED BY <1>1, <1>2, <1>3, ClientKeeps, ZenonT(30) DEF histVars

LEMMA BeginRoundStep == ASSUME Good, BeginRound PROVE Good'
<1>1. /\ UNCHANGED <<winVars, bufVars, workerVars, left, seg, futures, put, netVars, histVars>>
      /\ UNCHANGED <<notifVars, congVars, frVars>>
      /\ cpc = "round" /\ cpc' = "nagles" /\ lock > 0 /\ lock' = lock - 1
      /\ bound' = RoundBound /\ data' = RoundBound
  BY ZenonT(30) DEF BeginRound
<1>2. left \in Nat /\ win.off \in 0 .. WinSz /\ win.sent_off = win.off /\ win.sz = WinSz
  <2>1. sent_buf_empty
    BY <1>1, ZenonT(30) DEF Good, Round, Signalled
  <2> QED BY <2>1, Numbers, ZenonT(30) DEF Good, Types, TypeOK, sent_buf_empty
<1>3. RoundBound \in 0 .. WinSz /\ RoundBound <= left /\ RoundBound <= sent_sz(win)
  BY <1>2, Constants DEF RoundBound, MinOf, get_sz, sent_sz
<1>4. Types'
  <2>1. lock \in Nat
    BY Counters, ZenonT(30) DEF Good
  <2>2. lock' \in Nat
    BY <1>1, <2>1
  <2>3. SemTypes'
    BY <1>1, <2>2, TypesParts, ZenonT(30) DEF Good, SemTypes, notifVars
  <2>4. ClientTypes'
    BY <1>1, <1>3, TypesParts, ZenonT(30) DEF Good, ClientTypes
  <2> QED BY <1>1, <2>3, <2>4, TypesKept, ZenonT(30) DEF Good
<1>5. Round'
  <2>1. put + left <= StreamLen /\ put \in Nat /\ put + RoundBound + left - RoundBound = put + left
    BY <1>1, <1>2, <1>3 DEF Good, Round, Types, TypeOK
  <2>2. UNCHANGED <<win, left, put>>
    BY <1>1, ZenonT(30) DEF winVars
  <2> QED BY <1>1, <1>3, <2>1, <2>2, ZenonT(30) DEF Round, Waiting, sent_sz
<1>6. state # "CLOSED"
  BY <1>1, ZenonT(30) DEF Good, Closed
<1> QED BY <1>1, <1>4, <1>5, <1>6, ClientKeeps, ZenonT(30) DEF histVars

LEMMA NaglesPartStep == ASSUME Good, NaglesPart PROVE Good'
<1>1. /\ UNCHANGED <<winVars, bufVars, workerVars, left, bound, data, futures, put, netVars, histVars>>
      /\ UNCHANGED <<lock, notifVars, congVars, frVars>>
      /\ cpc = "nagles" /\ cpc' = "wait_empty"
      /\ seg' = MinOf(Mtu, MinOf(bounded_win_sz, data))
  BY ZenonT(30) DEF NaglesPart
<1>2. data \in 0 .. WinSz /\ bounded_win_sz \in Nat
  BY DEF Good, Types, TypeOK, bounded_win_sz, MinOf
<1>3. seg' \in 0 .. WinSz /\ seg' <= data
  BY <1>1, <1>2, Constants DEF MinOf
<1>4. Types'
  <2>1. ClientTypes'
    BY <1>1, <1>3, TypesParts, ZenonT(30) DEF Good, ClientTypes
  <2> QED BY <1>1, <2>1, TypesKept, ZenonT(30) DEF Good
<1>5. Round'
  BY <1>1, <1>3, ZenonT(30) DEF Good, Round, Waiting, winVars
<1>6. state # "CLOSED"
  BY <1>1, ZenonT(30) DEF Good, Closed
<1> QED BY <1>1, <1>4, <1>5, <1>6, ClientKeeps, ZenonT(30) DEF histVars

(* A full segment that does not fit, and output_wait_on_send_buf_empty with  *)
(* nothing to send after it or with the buffer not empty.                    *)
LEMMA NoPutStep ==
  ASSUME Good, NaglesFull \/ WaitEmpty, UNCHANGED <<mem, end_off, off_map, win, futures, data, put>>
  PROVE  Good'
<1>1. /\ UNCHANGED <<state, isn, empty_notif, congVars, frVars, workerVars, left, bound, netVars,
                     histVars, not_empty_notif>>
      /\ \/ /\ cpc = "nagles" /\ cpc' = "wait_empty" /\ seg' = 0 /\ lock' = lock
         \/ /\ cpc = "wait_empty" /\ sent_buf_empty /\ seg' = seg /\ lock' = lock
            /\ cpc' = IF seg <= sent_sz(win) THEN "nagles" ELSE "threw"
         \/ /\ cpc = "wait_empty" /\ ~sent_buf_empty /\ seg' = seg /\ lock' = lock + 1
            /\ cpc' = "empty_notif"
  <2>1. \A n \in Nat \ {0} : data \in Int /\ data' = data => data' # data - n
    OBVIOUS
  <2>2. data \in Int /\ Mtu \in Nat \ {0} /\ seg \in Nat
    BY Constants DEF Good, Types, TypeOK
  <2>3. CASE NaglesFull
    BY <2>1, <2>2, <2>3, ZenonT(30) DEF NaglesFull, PutMsg
  <2>4. CASE WaitEmpty
    BY <2>1, <2>2, <2>4 DEF WaitEmpty, PutMsg
  <2> QED BY <2>3, <2>4, ZenonT(30)
<1>2. seg <= sent_sz(win) \/ cpc # "wait_empty"
  <2>1. /\ data \in Int /\ seg \in Int /\ win.sz \in Int /\ win.sent_off \in Int
    BY Numbers, Constants DEF Good, Types, TypeOK
  <2>2. cpc = "wait_empty" => seg <= data /\ data <= sent_sz(win)
    BY ZenonT(30) DEF Good, Round, Waiting
  <2> QED BY <2>1, <2>2 DEF sent_sz
<1>3. Types'
  <2>0. lock \in Nat /\ seg \in 0 .. WinSz
    BY Counters, ZenonT(30) DEF Good
  <2>1. seg' \in 0 .. WinSz /\ lock' \in Nat
    BY <1>1, <2>0, Constants
  <2>2. SemTypes'
    BY <1>1, <2>1, TypesParts, ZenonT(30) DEF Good, SemTypes
  <2>3. ClientTypes'
    BY <1>1, <1>2, <2>1, TypesParts, ZenonT(30) DEF Good, ClientTypes
  <2> QED BY <1>1, <2>2, <2>3, TypesKept, ZenonT(30) DEF Good, winVars, bufVars
<1>4. Round'
  <2>0. data \in Nat /\ (cpc = "wait_empty" => seg <= data)
    BY Counters DEF Good, Round, Waiting
  <2>1. seg' <= data' \/ cpc' \notin Waiting
    BY <1>1, <1>2, <2>0 DEF Waiting
  <2> QED BY <1>1, <1>2, <2>1, ZenonT(30) DEF Good, Round, Waiting, sent_buf_empty, sent_sz
<1>5. state # "CLOSED"
  BY <1>1, ZenonT(30) DEF Good, Closed
<1> QED BY <1>1, <1>3, <1>4, <1>5, ClientKeeps, ZenonT(30) DEF histVars, winVars, bufVars

LEMMA WakeStep == ASSUME Good, EmptyNotif \/ RelockEmpty PROVE Good'
<1>1. /\ UNCHANGED <<winVars, bufVars, workerVars, left, bound, data, seg, futures, put, netVars,
                     histVars, not_empty_notif, congVars, frVars>>
      /\ \/ /\ cpc = "empty_notif" /\ cpc' = "relock" /\ empty_notif > 0
            /\ empty_notif' = empty_notif - 1 /\ lock' = lock
         \/ /\ cpc = "relock" /\ cpc' = "wait_empty" /\ lock > 0 /\ lock' = lock - 1
            /\ empty_notif' = empty_notif
  BY ZenonT(30) DEF EmptyNotif, RelockEmpty, notifVars
<1>2. Types'
  <2>0. lock \in Nat /\ empty_notif \in Nat
    BY Counters, ZenonT(30) DEF Good
  <2>1. lock' \in Nat /\ empty_notif' \in Nat
    BY <1>1, <2>0
  <2>2. SemTypes'
    BY <1>1, <2>1, TypesParts, ZenonT(30) DEF Good, SemTypes
  <2>3. ClientTypes'
    BY <1>1, TypesParts, ZenonT(30) DEF Good, ClientTypes
  <2> QED BY <1>1, <2>2, <2>3, TypesKept, ZenonT(30) DEF Good
<1>3. Round'
  BY <1>1, ZenonT(30) DEF Good, Round, Waiting, winVars
<1>4. state # "CLOSED"
  BY <1>1, ZenonT(30) DEF Good, Closed
<1> QED BY <1>1, <1>2, <1>3, <1>4, ClientKeeps, ZenonT(30) DEF histVars

LEMMA EndRoundStep == ASSUME Good, EndRound \/ NextRound PROVE Good'
<1>1. /\ UNCHANGED <<winVars, bufVars, workerVars, bound, data, seg, futures, put, netVars,
                     histVars, notifVars, congVars, frVars>>
      /\ \/ cpc = "nagles" /\ data = 0 /\ cpc' = "await" /\ lock' = lock + 1 /\ left' = left
         \/ /\ cpc = "await" /\ futures = << >> /\ cpc' = (IF left = bound THEN "idle" ELSE "round")
            /\ left' = left - bound /\ lock' = lock
  BY ZenonT(30) DEF EndRound, NextRound
<1>2. left \in Nat /\ bound \in Nat /\ put \in Nat /\ data \in Nat
  BY DEF Good, Types, TypeOK
<1>3. cpc = "await" => bound <= left /\ put + data + left - bound <= StreamLen /\ data = 0
  BY ZenonT(30) DEF Good, Round
<1>4. Types'
  <2>0. lock \in Nat
    BY Counters, ZenonT(30) DEF Good
  <2>1. left' \in Nat /\ lock' \in Nat
    BY <1>1, <1>2, <1>3, <2>0
  <2>2. SemTypes'
    BY <1>1, <2>1, TypesParts, ZenonT(30) DEF Good, SemTypes, notifVars
  <2>3. ClientTypes'
    BY <1>1, <2>1, TypesParts, ZenonT(30) DEF Good, ClientTypes
  <2> QED BY <1>1, <2>2, <2>3, TypesKept, ZenonT(30) DEF Good
<1>5. Round'
  <2>1. CASE cpc = "nagles"
    BY <1>1, <2>1, ZenonT(30) DEF Good, Round, Waiting, winVars
  <2>2. CASE cpc = "await"
    <3>1. put + (left - bound) <= StreamLen
      BY <1>2, <1>3, <2>2, Constants
    <3> QED BY <1>1, <2>2, <3>1, ZenonT(30) DEF Round, Waiting
  <2> QED BY <1>1, <2>1, <2>2, ZenonT(30)
<1>6. state # "CLOSED"
  BY <1>1, ZenonT(30) DEF Good, Closed
<1> QED BY <1>1, <1>4, <1>5, <1>6, ClientKeeps, ZenonT(30) DEF histVars

-----------------------------------------------------------------------------
(* The steps of the worker and of output_on_ack that leave the buffer alone. *)

LEMMA WorkerLockStep == ASSUME Good, WorkerLock PROVE Good'
<1>1. /\ UNCHANGED <<winVars, bufVars, notifVars, congVars, frVars, cur, clientVars, netVars, histVars>>
      /\ wpc = "lock" /\ wpc' \in {"wait_not_empty", "scan"} /\ lock > 0
      /\ lock' \in {lock, lock - 1} /\ scan' \in {scan, win.off}
  BY ZenonT(30) DEF WorkerLock
<1>2. lock' \in Nat /\ scan' \in Nat
  <2>1. lock \in Nat /\ scan \in Nat /\ win.off \in 0 .. WinSz
    BY Counters, Numbers, ZenonT(30) DEF Good
  <2> QED BY <1>1, <2>1
<1>3. Types'
  <2>1. SemTypes'
    BY <1>1, <1>2, TypesParts, ZenonT(30) DEF Good, SemTypes, notifVars
  <2>2. WorkerTypes'
    BY <1>1, <1>2, TypesParts, ZenonT(30) DEF Good, WorkerTypes
  <2> QED BY <1>1, <2>1, <2>2, TypesKept, ZenonT(30) DEF Good
<1> QED BY <1>1, <1>3, WorkerKeeps, ZenonT(30) DEF notifVars, histVars

LEMMA WaitNotEmptyStep == ASSUME Good, WaitNotEmpty PROVE Good'
<1>1. /\ UNCHANGED <<winVars, bufVars, lock, empty_notif, congVars, frVars, cur, scan, clientVars,
                     netVars, histVars>>
      /\ wpc = "wait_not_empty" /\ wpc' = "lock" /\ not_empty_notif' \in Nat
  BY ZenonT(30) DEF WaitNotEmpty
<1>2. Types'
  <2>1. SemTypes'
    BY <1>1, TypesParts, ZenonT(30) DEF Good, SemTypes
  <2>2. WorkerTypes'
    BY <1>1, TypesParts, ZenonT(30) DEF Good, WorkerTypes
  <2> QED BY <1>1, <2>1, <2>2, TypesKept, ZenonT(30) DEF Good
<1> QED BY <1>1, <1>2, WorkerKeeps, ZenonT(30) DEF histVars

LEMMA ScanStep == ASSUME Good, SkipMsg \/ ScanTimeout PROVE Good'
<1>1. /\ UNCHANGED <<winVars, bufVars, notifVars, congVars, frVars, cur, clientVars, netVars, histVars>>
      /\ wpc = "scan"
      /\ \/ /\ wpc' = wpc /\ scan < win.sent_off /\ lock' = lock
            /\ \E s \in SeqsAt(off_map[scan]) : scan' = scan + s \div LenShift
         \/ wpc' = "lock" /\ lock' = lock + 1 /\ scan' = scan
  BY ZenonT(30) DEF SkipMsg, ScanTimeout
<1>2. lock' \in Nat /\ scan' \in Nat
  <2>1. lock \in Nat /\ scan \in Nat /\ win.sent_off \in 0 .. WinSz /\ LenShift \in Nat \ {0}
    BY Counters, Numbers, SenderAssumption, ZenonT(30) DEF Good
  <2>2. ASSUME scan < win.sent_off PROVE SeqsAt(off_map[scan]) \subseteq Nat
    <3>1. scan \in 0 .. MapSz - 1
      BY <2>1, <2>2, Constants
    <3>2. off_map[scan] \in Cells
      BY <3>1, ZenonT(30) DEF Good, Types, TypeOK
    <3>3. mem[off_map[scan]].seq \in Nat
      BY <3>2, CellType DEF Good
    <3>4. 0 .. Modulo - 1 \subseteq Nat
      OBVIOUS
    <3> QED BY <3>3, <3>4, ZenonT(30) DEF SeqsAt
  <2>3. \A x \in Nat : x \div LenShift \in Nat
    BY <2>1
  <2>4. CASE scan < win.sent_off /\ lock' = lock
             /\ \E s \in SeqsAt(off_map[scan]) : scan' = scan + s \div LenShift
    <3>1. PICK k \in Nat : scan' = scan + k
      BY <2>2, <2>3, <2>4, ZenonT(30)
    <3> QED BY <2>1, <2>4, <3>1
  <2>5. CASE lock' = lock + 1 /\ scan' = scan
    BY <2>1, <2>5
  <2> QED BY <1>1, <2>4, <2>5, ZenonT(30)
<1>3. Types'
  <2>1. SemTypes'
    BY <1>1, <1>2, TypesParts, ZenonT(30) DEF Good, SemTypes, notifVars
  <2>2. WorkerTypes'
    BY <1>1, <1>2, TypesParts, ZenonT(30) DEF Good, WorkerTypes
  <2> QED BY <1>1, <2>1, <2>2, TypesKept, ZenonT(30) DEF Good
<1> QED BY <1>1, <1>3, WorkerKeeps, ZenonT(30) DEF notifVars, histVars

(* Before the first stale step the worker's message is a header. *)
LEMMA CurIsHeader ==
  ASSUME Good, wpc \in {"sendto", "poll"}, mem[cur].kind # "data"
  PROVE  Header(cur) /\ cur \in Cells /\ SeqsAt(cur) = {mem[cur].seq}
<1>1. cur \in Cells
  BY Counters, ZenonT(30) DEF Good
<1>2. mem[cur].kind \in {"none", "header", "data"} /\ mem[cur].kind # "none"
  BY <1>1, CellType, ZenonT(30) DEF Good, Written
<1> QED BY <1>1, <1>2, ZenonT(30) DEF Header, SeqsAt

(* A message of the window that is not acknowledged is inside the window. *)
LEMMA UnackedContained ==
  ASSUME Good, state # "CLOSED", NEW p \in Cells, Header(p)
  PROVE  contains(win, SINGLE_WINDOW(mem[p].seq)) <=> Live(p) /\ From(p) >= Acked
<1>1. /\ From(p) \in Nat /\ To(p) \in Nat /\ From(p) < To(p) /\ To(p) <= put
      /\ mem[p].seq = isn + From(p)
  BY HeaderSpan, ZenonT(30) DEF Good
<1>2. mem[p].seq \in 0 .. Modulo - 1
  BY CellType, ZenonT(30) DEF Good
<1>3. contains(win, SINGLE_WINDOW(mem[p].seq))
        <=> isn + Acked <= mem[p].seq /\ mem[p].seq < isn + Base + WinSz
  BY <1>2, ContainsSeq, ZenonT(30) DEF Good
<1>4. /\ isn \in Nat /\ Acked \in Nat /\ Base \in Nat /\ put = Base + win.sent_off
      /\ win.sent_off \in 0 .. WinSz
  BY Numbers, ZenonT(30) DEF Good
<1>5. isn + Acked <= mem[p].seq <=> From(p) >= Acked
  BY <1>1, <1>4
<1>6. mem[p].seq < isn + Base + WinSz
  BY <1>1, <1>4, Constants
<1>7. From(p) >= Acked => To(p) > Acked
  BY <1>1, <1>4
<1> QED BY <1>3, <1>5, <1>6, <1>7, UnackedIsLive, ZenonT(30) DEF Good

LEMMA PollCompleteStep == ASSUME Good, PollComplete, ~stale' PROVE Good'
<1>1. /\ UNCHANGED <<winVars, bufVars, lock, notifVars, congVars, frVars, cur, scan, clientVars,
                     netVars, dups, fails, losses, crashed>>
      /\ wpc = "poll" /\ wpc' = "lock" /\ stale' = (stale \/ mem[cur].kind = "data")
      /\ \E s \in SeqsAt(cur) : msg_complete(s)
  BY ZenonT(30) DEF PollComplete
<1>2. mem[cur].kind # "data" /\ stale' \in BOOLEAN
  BY <1>1, ZenonT(30)
<1>3. Header(cur) /\ cur \in Cells /\ SeqsAt(cur) = {mem[cur].seq}
  BY <1>1, <1>2, CurIsHeader, ZenonT(30)
<1>4. ~contains(win, SINGLE_WINDOW(mem[cur].seq))
  BY <1>1, <1>3, ZenonT(30) DEF msg_complete
<1>5. state # "CLOSED"
  BY <1>1, ZenonT(30) DEF Good, Closed
<1>6. ~(Live(cur) /\ From(cur) >= Acked)
  BY <1>3, <1>4, <1>5, UnackedContained, ZenonT(30)
<1>7. Types'
  <2>1. WorkerTypes'
    BY <1>1, TypesParts, ZenonT(30) DEF Good, WorkerTypes
  <2>2. HistTypes'
    BY <1>1, <1>2, TypesParts, ZenonT(30) DEF Good, HistTypes
  <2> QED BY <1>1, <2>1, <2>2, TypesKept, ZenonT(30) DEF Good
<1> QED BY <1>1, <1>6, <1>7, WorkerKeeps, ZenonT(30) DEF notifVars

(* The congestion window stays positive and below its bound. *)
LEMMA GrownCong ==
  ASSUME Types PROVE grown_cong \in 1 .. MaxCong /\ MaxOf(cong \div 2, 1) \in 1 .. MaxCong
                     /\ MaxOf(grown_cong \div 2, 1) \in 1 .. MaxCong
<1>1. cong \in 1 .. MaxCong /\ MaxCong \in Nat /\ MaxCong >= 1
  BY Counters, SenderAssumption
<1>2. grown_cong \in 1 .. MaxCong
  BY <1>1, Constants DEF grown_cong, MinOf
<1>3. ASSUME NEW c \in 1 .. MaxCong PROVE MaxOf(c \div 2, 1) \in 1 .. MaxCong
  BY <1>1 DEF MaxOf
<1> QED BY <1>1, <1>2, <1>3, ZenonT(30)

LEMMA OnAckElsewhereStep == ASSUME Good, NEW a \in acks, OnAckElsewhere(a) PROVE Good'
<1>1. /\ UNCHANGED <<winVars, bufVars, lock, notifVars, frVars, workerVars, clientVars, netVars,
                     fails, losses, stale, crashed>>
      /\ wpc # "off" /\ receiver_win' = a.win /\ cong' = grown_cong /\ dups < MaxDups
      /\ dups' = dups + 1
  BY ZenonT(30) DEF OnAckElsewhere
<1>2. receiver_win' \in 1 .. WinSz /\ cong' \in 1 .. MaxCong /\ dups' \in 0 .. MaxDups
  <2>1. dups \in 0 .. MaxDups /\ MaxDups \in Nat
    BY Counters, SenderAssumption, ZenonT(30) DEF Good
  <2> QED BY <1>1, <2>1, GrownCong DEF Good, Places
<1>3. Types'
  <2>1. CongTypes'
    BY <1>2, TypesParts, ZenonT(30) DEF Good, CongTypes
  <2>2. HistTypes'
    BY <1>1, <1>2, TypesParts, ZenonT(30) DEF Good, HistTypes
  <2> QED BY <1>1, <2>1, <2>2, TypesKept, ZenonT(30) DEF Good
<1> QED BY <1>1, <1>3, WorkerKeeps, ZenonT(30) DEF notifVars, workerVars

-----------------------------------------------------------------------------
(* The steps that mark a message. *)

LEMMA MarkEffect ==
  ASSUME Types, NEW c \in Cells, NEW b \in BOOLEAN, mem' = mark_msg_used(mem, c, b)
  PROVE  /\ mem' \in [Cells -> [kind : {"none", "header", "data"}, seq : 0 .. Modulo - 1,
                                len : 0 .. WinSz, used : BOOLEAN, sem : Nat, pos : 0 .. StreamLen]]
         /\ \A p \in Cells : /\ mem'[p].kind = mem[p].kind /\ mem'[p].seq = mem[p].seq
                             /\ mem'[p].len = mem[p].len /\ mem'[p].sem = mem[p].sem
         /\ \A p \in Cells : p # c => mem'[p] = mem[p]
         /\ mem[c].kind # "data" => mem'[c].used = b /\ mem'[c].pos = mem[c].pos
         /\ mem[c].kind = "data" => mem'[c].used = mem[c].used
<1> DEFINE R == [kind : {"none", "header", "data"}, seq : 0 .. Modulo - 1,
                 len : 0 .. WinSz, used : BOOLEAN, sem : Nat, pos : 0 .. StreamLen]
           v == IF mem[c].kind = "data" THEN [mem[c] EXCEPT !.pos = 0]
                                        ELSE [mem[c] EXCEPT !.used = b]
<1>1. mem \in [Cells -> R] /\ mem[c] \in R
  BY ZenonT(30) DEF Types, TypeOK
<1>2. mem' = [mem EXCEPT ![c] = v]
  BY ZenonT(30) DEF mark_msg_used
<1>3. 0 \in 0 .. StreamLen
  BY Constants
<1>4. /\ v \in R /\ v.kind = mem[c].kind /\ v.seq = mem[c].seq /\ v.len = mem[c].len
      /\ v.sem = mem[c].sem
      /\ mem[c].kind # "data" => v.used = b /\ v.pos = mem[c].pos
      /\ mem[c].kind = "data" => v.used = mem[c].used
  <2>1. CASE mem[c].kind = "data"
    <3>1. v = [mem[c] EXCEPT !.pos = 0]
      BY <2>1, ZenonT(30)
    <3> QED BY <1>1, <1>3, <2>1, <3>1, ZenonT(30)
  <2>2. CASE mem[c].kind # "data"
    <3>1. v = [mem[c] EXCEPT !.used = b]
      BY <2>2, ZenonT(30)
    <3> QED BY <1>1, <2>2, <3>1, ZenonT(30)
  <2> QED BY <2>1, <2>2, ZenonT(30)
<1> HIDE DEF v
<1> QED BY <1>1, <1>2, <1>4

LEMMA MarkKeeps ==
  ASSUME Good, NEW c \in Cells, NEW b \in BOOLEAN, mem' = mark_msg_used(mem, c, b),
         UNCHANGED <<winVars, off_map, end_off, empty_notif, clientVars, acks, peer>>,
         wpc # "off", wpc' # "off", Spans' \subseteq Spans,
         wpc' \in {"sendto", "poll"} => mem[cur'].kind # "none",
         Types', Data', Used', Retry'
  PROVE  Good'
<1>1. /\ UNCHANGED <<state, isn, win, off_map, end_off, cpc, left, bound, data, seg, futures, put,
                     empty_notif, acks, peer>>
      /\ \A p \in Cells : /\ mem'[p].kind = mem[p].kind /\ mem'[p].seq = mem[p].seq
                          /\ mem'[p].len = mem[p].len /\ mem'[p].sem = mem[p].sem
  BY MarkEffect, ZenonT(30) DEF Good, winVars, clientVars
<1>2. SameMessages
  BY <1>1, ZenonT(30) DEF SameMessages, SameCells
<1>3. /\ \A p \in Cells : (Header(p)' <=> Header(p)) /\ From(p)' = From(p) /\ To(p)' = To(p)
                          /\ (Live(p)' <=> Live(p))
      /\ Acked' = Acked
  BY <1>2, SameSpans, ZenonT(30)
<1>4. Layout' /\ SpansOK' /\ Places'
  BY <1>1, <1>2, <1>3, LayoutKept, SpansKept, PlacesKept, ZenonT(30) DEF Good
<1>5. Closed'
  BY <1>1, ZenonT(30) DEF Good, Closed
<1>6. Written'
  <2>1. \A o \in 0 .. WinSz - 1 : off_map[o] \in Cells
    <3>1. \A o \in 0 .. WinSz - 1 : o \in 0 .. MapSz - 1
      BY Constants
    <3> QED BY <3>1, ZenonT(30) DEF Good, Types, TypeOK
  <2>2. cur' \in Cells
    BY ZenonT(30) DEF Types, TypeOK
  <2>3. /\ \A o \in 0 .. WinSz - 1 : o # win.sent_off =>
             mem[off_map[o]].kind # "none" \/ (put = 0 /\ off_map[o] = 0)
    BY ZenonT(30) DEF Good, Written
  <2> QED BY <1>1, <2>1, <2>2, <2>3 DEF Written
<1>7. Signalled'
  <2>1. sent_buf_empty' <=> sent_buf_empty
    BY <1>1, ZenonT(30) DEF sent_buf_empty
  <2>2. \A p \in Cells : Live(p)' /\ mem'[p].sem > 0 => To(p)' <= Acked'
    BY <1>1, <1>3, ZenonT(30) DEF Good, Signalled
  <2>3. futures \in Seq(Cells)
    BY ZenonT(30) DEF Good, Types, TypeOK
  <2>4. futures # << >> => futures[Len(futures)] \in Cells
    BY <2>3, LenProperties, ElementOfSeq, EmptySeq
  <2>5. ASSUME ~sent_buf_empty
        PROVE  /\ futures' # << >> /\ Live(futures[Len(futures)])'
               /\ To(futures[Len(futures)])' = put'
    <3>1. futures # << >> /\ Live(futures[Len(futures)]) /\ To(futures[Len(futures)]) = put
      BY <2>5, ZenonT(30) DEF Good, Signalled
    <3> DEFINE f == futures[Len(futures)]
    <3>2. f \in Cells /\ f' = f /\ Live(f) /\ To(f) = put
      BY <1>1, <2>4, <3>1, ZenonT(30)
    <3>3. Live(f)' /\ To(f)' = put'
      <4>1. Live(f)' <=> f < end_off' /\ mem'[f].kind = "header"
        BY <3>2, ZenonT(30) DEF Live, Header
      <4>2. To(f)' = mem'[f].seq - isn' + mem'[f].len
        BY <3>2, ZenonT(30) DEF To, From
      <4>3. f < end_off /\ mem[f].kind = "header" /\ mem[f].seq - isn + mem[f].len = put
        BY <3>2, ZenonT(30) DEF Live, Header, To, From
      <4> QED BY <1>1, <3>2, <4>1, <4>2, <4>3, ZenonT(30)
    <3> QED BY <1>1, <3>1, <3>3, ZenonT(30)
  <2> QED BY <2>1, <2>2, <2>5, ZenonT(30) DEF Signalled
<1>8. Round'
  BY <1>1, ZenonT(30) DEF Good, Round, sent_buf_empty, sent_sz
<1> QED BY <1>4, <1>5, <1>6, <1>7, <1>8, ZenonT(30) DEF Good

LEMMA MarkSpans ==
  ASSUME Good, NEW c \in Cells, NEW b \in BOOLEAN, mem' = mark_msg_used(mem, c, b),
         UNCHANGED <<winVars, off_map, end_off, clientVars>>
  PROVE  /\ \A p \in Cells : (Header(p)' <=> Header(p)) /\ From(p)' = From(p) /\ To(p)' = To(p)
                             /\ (Live(p)' <=> Live(p)) /\ mem'[p].len = mem[p].len
         /\ Acked' = Acked /\ (wire' = wire => Spans' = Spans) /\ isn' = isn
<1>1. /\ UNCHANGED <<isn, win, off_map, end_off, put>>
      /\ \A p \in Cells : /\ mem'[p].kind = mem[p].kind /\ mem'[p].seq = mem[p].seq
                          /\ mem'[p].len = mem[p].len
  BY MarkEffect, ZenonT(30) DEF Good, winVars, clientVars
<1>2. SameMessages
  BY <1>1, ZenonT(30) DEF SameMessages, SameCells
<1> QED BY <1>1, <1>2, SameSpans, ZenonT(30)

LEMMA TakeMsgStep == ASSUME Good, TakeMsg PROVE Good'
<1> DEFINE c == off_map[scan]
<1>1. /\ UNCHANGED <<winVars, off_map, end_off, notifVars, congVars, frVars, scan, clientVars,
                     netVars, histVars>>
      /\ wpc = "scan" /\ wpc' = "sendto" /\ scan < win.sent_off /\ lock' = lock + 1
      /\ cur' = c /\ mem' = mark_msg_used(mem, c, TRUE)
  BY ZenonT(30) DEF TakeMsg
<1>2. /\ lock \in Nat /\ scan \in Nat /\ win.sent_off \in 0 .. WinSz /\ Base \in Nat
      /\ put = Base + win.sent_off
  BY Counters, Numbers, ZenonT(30) DEF Good
<1>3. scan \in 0 .. WinSz - 1 /\ scan \in 0 .. MapSz - 1 /\ scan # win.sent_off /\ put # 0
  BY <1>1, <1>2, Constants
<1>4. c \in Cells
  BY <1>3, ZenonT(30) DEF Good, Types, TypeOK
<1>5. mem[c].kind # "none"
  BY <1>3, ZenonT(30) DEF Good, Written
<1> HIDE DEF c
<1>6. /\ mem' \in [Cells -> [kind : {"none", "header", "data"}, seq : 0 .. Modulo - 1,
                             len : 0 .. WinSz, used : BOOLEAN, sem : Nat, pos : 0 .. StreamLen]]
      /\ \A p \in Cells : p # c => mem'[p] = mem[p]
  BY <1>1, <1>4, MarkEffect, ZenonT(30) DEF Good
<1>7. /\ \A p \in Cells : (Header(p)' <=> Header(p)) /\ From(p)' = From(p) /\ To(p)' = To(p)
                          /\ (Live(p)' <=> Live(p)) /\ mem'[p].len = mem[p].len
      /\ Acked' = Acked /\ Spans' = Spans /\ isn' = isn
  BY <1>1, <1>4, MarkSpans, ZenonT(30) DEF netVars
<1>8. Types'
  <2>1. lock' \in Nat
    BY <1>1, <1>2
  <2>2. BufTypes'
    BY <1>1, <1>6, TypesParts, ZenonT(30) DEF Good, BufTypes
  <2>3. SemTypes'
    BY <1>1, <2>1, TypesParts, ZenonT(30) DEF Good, SemTypes, notifVars
  <2>4. WorkerTypes'
    BY <1>1, <1>4, TypesParts, ZenonT(30) DEF Good, WorkerTypes
  <2> QED BY <1>1, <2>2, <2>3, <2>4, TypesKept, ZenonT(30) DEF Good
<1>9. Data'
  <2>1. ASSUME NEW p \in Cells, Live(p)', To(p)' > Acked', NEW i \in 1 .. mem'[p].len
        PROVE  mem'[p + i].pos = From(p)' + i \/ (wpc' = "sendto" /\ cur' = p + i)
    <3>1. Live(p) /\ To(p) > Acked /\ i \in 1 .. mem[p].len
      BY <1>7, <2>1, ZenonT(30)
    <3>2. mem[p + i].pos = From(p) + i
      BY <1>1, <3>1, ZenonT(30) DEF Good, Data
    <3>3. p + i \in Cells
      <4>1. p + mem[p].len \in Cells
        BY <3>1, ZenonT(30) DEF Good, Layout, Live
      <4>2. mem[p].len \in Nat
        BY CellType DEF Good
      <4>3. i \in 0 .. mem[p].len
        BY <3>1, <4>2
      <4> QED BY <4>1, <4>2, <4>3, WithinCells, ZenonT(30)
    <3> QED BY <1>1, <1>6, <1>7, <3>2, <3>3, ZenonT(30)
  <2>2. \A s \in wire' : s.seq - isn' >= Len(peer') =>
          \A i \in 1 .. Len(s.data) : s.data[i] = s.seq - isn' + i
    BY <1>1, <1>7, ZenonT(30) DEF Good, Data, netVars
  <2> QED BY <2>1, <2>2, ZenonT(30) DEF Data
<1>10. Used'
  BY <1>1, <1>6, <1>7, ZenonT(30) DEF Good, Used, histVars
<1>11. Retry'
  BY <1>1, ZenonT(30) DEF Good, Retry, sent_buf_empty, winVars, histVars
<1> QED BY <1>1, <1>4, <1>5, <1>7, <1>8, <1>9, <1>10, <1>11, MarkKeeps, ZenonT(30) DEF netVars, notifVars

(* The data of a message that the worker is about to send. *)
LEMMA HeaderKeepsData ==
  ASSUME Good, NEW c \in Cells, NEW b \in BOOLEAN, mem' = mark_msg_used(mem, c, b), Header(c),
         UNCHANGED <<winVars, off_map, end_off, clientVars>>,
         wpc = "sendto" => cur = c
  PROVE  /\ \A p \in Cells : Live(p)' /\ To(p)' > Acked' =>
              \A i \in 1 .. mem'[p].len : mem'[p + i].pos = From(p)' + i
         /\ \A p \in Cells : Live(p) /\ To(p) > Acked =>
              \A i \in 1 .. mem[p].len : mem[p + i].pos = From(p) + i
<1>1. \A p \in Cells : (Live(p)' <=> Live(p)) /\ To(p)' = To(p) /\ From(p)' = From(p)
                       /\ mem'[p].len = mem[p].len /\ Acked' = Acked
  BY MarkSpans, ZenonT(30)
<1>2. ASSUME NEW p \in Cells, Live(p), To(p) > Acked, NEW i \in 1 .. mem[p].len
      PROVE  mem[p + i].pos = From(p) + i /\ mem'[p + i].pos = mem[p + i].pos
  <2>1. p + mem[p].len \in Cells /\ mem[p + i].kind = "data"
    BY <1>2, ZenonT(30) DEF Good, Layout, Live
  <2>2. p + i \in Cells
    <3>1. mem[p].len \in Nat
      BY CellType DEF Good
    <3>2. i \in 0 .. mem[p].len
      BY <3>1
    <3> QED BY <2>1, <3>1, <3>2, WithinCells, ZenonT(30)
  <2>3. p + i # c
    BY <2>1, ZenonT(30) DEF Header
  <2>4. mem'[p + i] = mem[p + i]
    BY <2>2, <2>3, MarkEffect, ZenonT(30) DEF Good
  <2>5. mem[p + i].pos = From(p) + i \/ (wpc = "sendto" /\ cur = p + i)
    BY <1>2, ZenonT(30) DEF Good, Data
  <2> QED BY <2>3, <2>4, <2>5, ZenonT(30)
<1> QED BY <1>1, <1>2

LEMMA SameInterval == ASSUME NEW a \in Nat, NEW b \in Nat, 1 .. a = 1 .. b PROVE a = b
<1>1. CASE a < b
  <2>1. b \in 1 .. b /\ b \notin 1 .. a
    BY <1>1
  <2> QED BY <2>1, ZenonT(30)
<1>2. CASE b < a
  <2>1. a \in 1 .. a /\ a \notin 1 .. b
    BY <1>2
  <2> QED BY <2>1, ZenonT(30)
<1> QED BY <1>1, <1>2

LEMMA SegmentShape ==
  ASSUME Good, NEW c \in Cells, Header(c)
  PROVE  /\ SegmentAt(c).seq = mem[c].seq /\ SegmentAt(c).data \in Seq(Nat)
         /\ Len(SegmentAt(c).data) = mem[c].len
         /\ \A i \in 1 .. mem[c].len : SegmentAt(c).data[i] = mem[c + i].pos
<1> DEFINE n == mem[c].len
           d == [i \in 1 .. n |-> mem[c + i].pos]
<1>1. n \in Nat /\ c + n \in Cells
  BY CellType DEF Good, Layout
<1>2. \A i \in 1 .. n : mem[c + i].pos \in Nat
  <2> SUFFICES ASSUME NEW i \in 1 .. n PROVE mem[c + i].pos \in Nat
    BY ZenonT(30)
  <2>1. i \in 0 .. n
    BY <1>1
  <2>2. c + i \in Cells
    BY <1>1, <2>1, WithinCells, ZenonT(30)
  <2>3. mem[c + i].pos \in 0 .. StreamLen
    BY <2>2, CellType, ZenonT(30) DEF Good
  <2> QED BY <2>3
<1>3. SegmentAt(c).seq = mem[c].seq /\ SegmentAt(c).data = d
  BY ZenonT(30) DEF SegmentAt
<1> HIDE DEF n
<1>4. d \in [1 .. n -> Nat]
  BY <1>2, ZenonT(30)
<1>5. d \in Seq(Nat) /\ Len(d) = n
  <2>1. d \in Seq(Nat)
    BY <1>1, <1>4, SeqDef, ZenonT(30)
  <2>2. Len(d) \in Nat /\ DOMAIN d = 1 .. Len(d) /\ DOMAIN d = 1 .. n
    BY <2>1, LenProperties, ZenonT(30)
  <2>3. 1 .. Len(d) = 1 .. n
    BY <2>2, ZenonT(30)
  <2> HIDE DEF d
  <2>4. Len(d) = n
    BY <1>1, <2>2, <2>3, SameInterval, ZenonT(30)
  <2> QED BY <2>1, <2>4, ZenonT(30)
<1>6. \A i \in 1 .. n : d[i] = mem[c + i].pos
  BY ZenonT(30)
<1> QED BY <1>3, <1>5, <1>6, ZenonT(30) DEF n

(* A segment that is sent is a message of the buffer. *)
LEMMA WireGains ==
  ASSUME Good, NEW c \in Cells, NEW b \in BOOLEAN, mem' = mark_msg_used(mem, c, b), Header(c),
         UNCHANGED <<winVars, off_map, end_off, clientVars>>,
         wire' = wire \cup {SegmentAt(c)}
  PROVE  Spans' = Spans
<1>1. /\ \A p \in Cells : (Header(p)' <=> Header(p)) /\ From(p)' = From(p) /\ To(p)' = To(p)
      /\ isn' = isn
  BY MarkSpans, ZenonT(30)
<1>2. {<<From(p), To(p)>> : p \in {q \in Cells : Header(q)}}'
        = {<<From(p), To(p)>> : p \in {q \in Cells : Header(q)}}
  BY <1>1, ZenonT(30)
<1>3. <<SegmentAt(c).seq - isn, SegmentAt(c).seq - isn + Len(SegmentAt(c).data)>>
        = <<From(c), To(c)>>
  BY SegmentShape, ZenonT(30) DEF From, To
<1> DEFINE g == SegmentAt(c)
<1> HIDE DEF g
<1>4. {<<s.seq - isn, s.seq - isn + Len(s.data)>> : s \in wire'}
        = {<<s.seq - isn, s.seq - isn + Len(s.data)>> : s \in wire} \cup {<<From(c), To(c)>>}
  <2>1. wire' = wire \cup {g} /\ <<g.seq - isn, g.seq - isn + Len(g.data)>> = <<From(c), To(c)>>
    BY <1>3, ZenonT(30) DEF g
  <2> QED BY <2>1, ZenonT(30)
<1>5. {<<s.seq - isn, s.seq - isn + Len(s.data)>> : s \in wire}'
        = {<<s.seq - isn, s.seq - isn + Len(s.data)>> : s \in wire'}
  BY <1>1, ZenonT(30)
<1>6. <<From(c), To(c)>> \in {<<From(p), To(p)>> : p \in {q \in Cells : Header(q)}}
  BY ZenonT(30)
<1> QED BY <1>2, <1>4, <1>5, <1>6, ZenonT(30) DEF Spans

LEMMA SendToStep == ASSUME Good, SendTo, ~stale' PROVE Good'
<1>1. /\ UNCHANGED <<winVars, off_map, end_off, lock, notifVars, congVars, frVars, cur, scan,
                     clientVars, acks, peer, dups, fails, crashed>>
      /\ wpc = "sendto" /\ wpc' = "poll" /\ stale' = (stale \/ mem[cur].kind = "data")
      /\ mem' = mark_msg_used(mem, cur, TRUE)
  BY ZenonT(30) DEF SendTo
<1>2. mem[cur].kind # "data" /\ stale' \in BOOLEAN
  BY <1>1, ZenonT(30)
<1>3. Header(cur) /\ cur \in Cells
  BY <1>1, <1>2, CurIsHeader, ZenonT(30)
<1>4. wire' = wire \/ wire' = wire \cup {SegmentAt(cur)}
  BY <1>3, ZenonT(30) DEF SendTo, Header
<1>5. losses' \in 0 .. MaxLosses
  <2>1. losses' = losses \/ (losses < MaxLosses /\ losses' = losses + 1)
    BY <1>3, ZenonT(30) DEF SendTo, Header, Lost
  <2>2. losses \in 0 .. MaxLosses /\ MaxLosses \in Nat
    BY Counters, SenderAssumption, ZenonT(30) DEF Good
  <2> QED BY <2>1, <2>2
<1>6. /\ mem' \in [Cells -> [kind : {"none", "header", "data"}, seq : 0 .. Modulo - 1,
                             len : 0 .. WinSz, used : BOOLEAN, sem : Nat, pos : 0 .. StreamLen]]
      /\ \A p \in Cells : p # cur => mem'[p] = mem[p]
  BY <1>1, <1>3, MarkEffect, ZenonT(30) DEF Good
<1>7. /\ \A p \in Cells : (Header(p)' <=> Header(p)) /\ From(p)' = From(p) /\ To(p)' = To(p)
                          /\ (Live(p)' <=> Live(p)) /\ mem'[p].len = mem[p].len
      /\ Acked' = Acked /\ (wire' = wire => Spans' = Spans) /\ isn' = isn
  BY <1>1, <1>3, MarkSpans, ZenonT(30)
<1>8. Spans' = Spans
  BY <1>1, <1>3, <1>4, <1>7, WireGains, ZenonT(30)
<1>9. /\ SegmentAt(cur).seq = mem[cur].seq /\ SegmentAt(cur).data \in Seq(Nat)
      /\ Len(SegmentAt(cur).data) = mem[cur].len
      /\ \A i \in 1 .. mem[cur].len : SegmentAt(cur).data[i] = mem[cur + i].pos
  BY <1>3, SegmentShape, ZenonT(30)
<1>10. Types'
  <2>1. mem[cur].seq \in 0 .. Modulo - 1
    BY <1>3, CellType, ZenonT(30) DEF Good
  <2>2. \A s \in wire' : s.seq \in 0 .. Modulo - 1 /\ s.data \in Seq(Nat)
    BY <1>4, <1>9, <2>1, ZenonT(30) DEF Good, Types
  <2>3. BufTypes'
    BY <1>1, <1>6, TypesParts, ZenonT(30) DEF Good, BufTypes
  <2>4. WorkerTypes'
    BY <1>1, TypesParts, ZenonT(30) DEF Good, WorkerTypes
  <2>5. HistTypes'
    BY <1>1, <1>2, <1>5, TypesParts, ZenonT(30) DEF Good, HistTypes
  <2>6. NetTypes'
    BY <1>1, <2>2, TypesParts, ZenonT(30) DEF Good, NetTypes
  <2> QED BY <1>1, <2>3, <2>4, <2>5, <2>6, TypesKept, ZenonT(30) DEF Good
<1>11. Data'
  <2>1. /\ \A p \in Cells : Live(p)' /\ To(p)' > Acked' =>
              \A i \in 1 .. mem'[p].len : mem'[p + i].pos = From(p)' + i
        /\ \A p \in Cells : Live(p) /\ To(p) > Acked =>
              \A i \in 1 .. mem[p].len : mem[p + i].pos = From(p) + i
    BY <1>1, <1>3, HeaderKeepsData, ZenonT(30)
  <2>2. ASSUME SegmentAt(cur).seq - isn >= Len(peer), NEW i \in 1 .. Len(SegmentAt(cur).data)
        PROVE  SegmentAt(cur).data[i] = SegmentAt(cur).seq - isn + i
    <3>1. From(cur) >= Len(peer)
      BY <1>9, <2>2, ZenonT(30) DEF From
    <3>2. To(cur) > Acked
      <4>1. From(cur) \in Nat /\ To(cur) \in Nat /\ From(cur) < To(cur)
        BY <1>3, HeaderSpan, ZenonT(30) DEF Good
      <4>2. Acked \in Nat /\ Len(peer) \in Nat /\ Acked <= Len(peer)
        BY Numbers, ZenonT(30) DEF Good, Places
      <4> QED BY <3>1, <4>1, <4>2
    <3>3. Live(cur)
      BY <1>3, <3>2, UnackedIsLive, ZenonT(30) DEF Good
    <3> QED BY <1>3, <1>9, <2>1, <3>2, <3>3, ZenonT(30) DEF From
  <2>3. \A s \in wire' : s.seq - isn' >= Len(peer') =>
          \A i \in 1 .. Len(s.data) : s.data[i] = s.seq - isn' + i
    BY <1>1, <1>4, <1>7, <2>2, ZenonT(30) DEF Good, Data
  <2> QED BY <2>1, <2>3, ZenonT(30) DEF Data
<1>12. Used'
  BY <1>1, <1>3, <1>6, <1>7, ZenonT(30) DEF Good, Used
<1>13. Retry'
  BY <1>1, ZenonT(30) DEF Good, Retry, sent_buf_empty, winVars
<1>14. mem[cur'].kind # "none" /\ empty_notif' = empty_notif
  BY <1>1, <1>3, ZenonT(30) DEF Header, notifVars
<1> QED BY <1>1, <1>3, <1>8, <1>10, <1>11, <1>12, <1>13, <1>14, MarkKeeps, ZenonT(30)

LEMMA SendToFailsStep == ASSUME Good, SendToFails, ~stale' PROVE Good'
<1>1. /\ UNCHANGED <<winVars, off_map, end_off, notifVars, congVars, frVars, cur, scan, clientVars,
                     netVars, dups, losses, crashed>>
      /\ wpc = "sendto" /\ wpc' = "lock" /\ stale' = (stale \/ mem[cur].kind = "data")
      /\ mem' = mark_msg_used(mem, cur, TRUE)
      /\ fails < MaxFails /\ fails' = fails + 1 /\ lock' = lock + 1
  BY ZenonT(30) DEF SendToFails
<1>2. mem[cur].kind # "data" /\ stale' \in BOOLEAN
  BY <1>1, ZenonT(30)
<1>3. Header(cur) /\ cur \in Cells
  BY <1>1, <1>2, CurIsHeader, ZenonT(30)
<1>4. fails' \in 0 .. MaxFails /\ lock' \in Nat /\ fails' # 0
  <2>1. fails \in 0 .. MaxFails /\ MaxFails \in Nat /\ lock \in Nat
    BY Counters, SenderAssumption, ZenonT(30) DEF Good
  <2> QED BY <1>1, <2>1
<1>5. mem' \in [Cells -> [kind : {"none", "header", "data"}, seq : 0 .. Modulo - 1,
                          len : 0 .. WinSz, used : BOOLEAN, sem : Nat, pos : 0 .. StreamLen]]
  BY <1>1, <1>3, MarkEffect, ZenonT(30) DEF Good
<1>6. Spans' = Spans
  BY <1>1, <1>3, MarkSpans, ZenonT(30) DEF netVars
<1>7. Types'
  <2>1. BufTypes'
    BY <1>1, <1>5, TypesParts, ZenonT(30) DEF Good, BufTypes
  <2>2. SemTypes'
    BY <1>1, <1>4, TypesParts, ZenonT(30) DEF Good, SemTypes, notifVars
  <2>3. WorkerTypes'
    BY <1>1, TypesParts, ZenonT(30) DEF Good, WorkerTypes
  <2>4. HistTypes'
    BY <1>1, <1>2, <1>4, TypesParts, ZenonT(30) DEF Good, HistTypes
  <2> QED BY <1>1, <2>1, <2>2, <2>3, <2>4, TypesKept, ZenonT(30) DEF Good
<1>8. Data'
  <2>1. \A p \in Cells : Live(p)' /\ To(p)' > Acked' =>
              \A i \in 1 .. mem'[p].len : mem'[p + i].pos = From(p)' + i
    BY <1>1, <1>3, HeaderKeepsData, ZenonT(30)
  <2>2. \A s \in wire' : s.seq - isn' >= Len(peer') =>
          \A i \in 1 .. Len(s.data) : s.data[i] = s.seq - isn' + i
    BY <1>1, ZenonT(30) DEF Good, Data, netVars, winVars
  <2> QED BY <2>1, <2>2, ZenonT(30) DEF Data
<1>9. Used' /\ Retry'
  BY <1>1, <1>4, ZenonT(30) DEF Good, Used, Retry, sent_buf_empty, winVars
<1> QED BY <1>1, <1>3, <1>6, <1>7, <1>8, <1>9, MarkKeeps, ZenonT(30) DEF netVars, notifVars

(* The message retry() finds for an unacknowledged message is that message. *)
LEMMA RetryFinds ==
  ASSUME Good, state # "CLOSED", NEW p \in Cells, Live(p), From(p) >= Acked
  PROVE  RetryOffset(mem[p].seq) < MapSz /\ off_map[RetryOffset(mem[p].seq)] = p
<1>1. /\ From(p) \in Nat /\ To(p) \in Nat /\ From(p) < To(p) /\ To(p) <= put
      /\ mem[p].seq = isn + From(p)
  BY HeaderSpan, ZenonT(30) DEF Good, Live
<1>2. mem[p].seq \in 0 .. Modulo - 1
  BY CellType, ZenonT(30) DEF Good
<1>3. /\ isn \in Nat /\ Acked \in Nat /\ Base \in Nat /\ put = Base + win.sent_off
      /\ win.sent_off \in 0 .. WinSz /\ Acked = Base + win.off /\ win.off \in 0 .. WinSz
  BY Numbers, ZenonT(30) DEF Good
<1>4. isn + Acked <= mem[p].seq
  BY <1>1, <1>3
<1>5. get_in_msg_off(win, mem[p].seq) = mem[p].seq - (isn + Acked)
  BY <1>2, <1>4, OffsetOf, ZenonT(30) DEF Good
<1>6. RetryOffset(mem[p].seq) = From(p) - Base
  <2>1. mem[p].seq - (isn + Acked) + win.off = From(p) - Base
    BY <1>1, <1>3
  <2> QED BY <1>5, <2>1, ZenonT(30) DEF RetryOffset
<1>7. From(p) - Base < MapSz
  BY <1>1, <1>3, Constants
<1> QED BY <1>6, <1>7, ZenonT(30) DEF Good, Layout

LEMMA PollTimeoutStep == ASSUME Good, PollTimeout, ~stale' PROVE Good'
<1>1. /\ UNCHANGED <<winVars, off_map, end_off, lock, notifVars, receiver_win, frVars, cur, scan,
                     clientVars, netVars, dups, fails, losses>>
      /\ wpc = "poll" /\ wpc' = "lock" /\ stale' = (stale \/ mem[cur].kind = "data")
      /\ \E s \in SeqsAt(cur) : ~msg_complete(s) /\ OnRetry(s, cong)
  BY ZenonT(30) DEF PollTimeout
<1>2. mem[cur].kind # "data" /\ stale' \in BOOLEAN
  BY <1>1, ZenonT(30)
<1>3. Header(cur) /\ cur \in Cells /\ SeqsAt(cur) = {mem[cur].seq}
  BY <1>1, <1>2, CurIsHeader, ZenonT(30)
<1>4. contains(win, SINGLE_WINDOW(mem[cur].seq)) /\ OnRetry(mem[cur].seq, cong)
  BY <1>1, <1>3, ZenonT(30) DEF msg_complete
<1>5. state # "CLOSED"
  BY <1>1, ZenonT(30) DEF Good, Closed
<1>6. Live(cur) /\ From(cur) >= Acked
  BY <1>3, <1>4, <1>5, UnackedContained, ZenonT(30)
<1>7. RetryOffset(mem[cur].seq) < MapSz /\ off_map[RetryOffset(mem[cur].seq)] = cur
  BY <1>3, <1>5, <1>6, RetryFinds, ZenonT(30)
<1>8. mem' = mark_msg_used(mem, cur, FALSE) /\ crashed' = crashed /\ cong' = MaxOf(cong \div 2, 1)
  BY <1>4, <1>7, ZenonT(30) DEF OnRetry, halved_cong
<1>9. cong' \in 1 .. MaxCong
  BY <1>8, GrownCong, ZenonT(30) DEF Good
<1>10. /\ mem' \in [Cells -> [kind : {"none", "header", "data"}, seq : 0 .. Modulo - 1,
                          len : 0 .. WinSz, used : BOOLEAN, sem : Nat, pos : 0 .. StreamLen]]
       /\ \A p \in Cells : p # cur => mem'[p] = mem[p]
       /\ mem'[cur].used = FALSE
  BY <1>2, <1>3, <1>8, MarkEffect, ZenonT(30) DEF Good
<1>11. /\ \A p \in Cells : From(p)' = From(p) /\ (Live(p)' <=> Live(p))
       /\ Acked' = Acked /\ Spans' = Spans
  BY <1>1, <1>3, <1>8, MarkSpans, ZenonT(30) DEF netVars
<1>12. Types'
  <2>1. BufTypes'
    BY <1>1, <1>10, TypesParts, ZenonT(30) DEF Good, BufTypes
  <2>2. CongTypes'
    BY <1>1, <1>9, TypesParts, ZenonT(30) DEF Good, CongTypes
  <2>3. WorkerTypes'
    BY <1>1, TypesParts, ZenonT(30) DEF Good, WorkerTypes
  <2>4. HistTypes'
    BY <1>1, <1>2, <1>8, TypesParts, ZenonT(30) DEF Good, HistTypes
  <2> QED BY <1>1, <2>1, <2>2, <2>3, <2>4, TypesKept, ZenonT(30) DEF Good
<1>13. Data'
  <2>1. \A p \in Cells : Live(p)' /\ To(p)' > Acked' =>
              \A i \in 1 .. mem'[p].len : mem'[p + i].pos = From(p)' + i
    BY <1>1, <1>3, <1>8, HeaderKeepsData, ZenonT(30)
  <2>2. \A s \in wire' : s.seq - isn' >= Len(peer') =>
          \A i \in 1 .. Len(s.data) : s.data[i] = s.seq - isn' + i
    BY <1>1, ZenonT(30) DEF Good, Data, netVars, winVars
  <2> QED BY <2>1, <2>2, ZenonT(30) DEF Data
<1>14. Used'
  BY <1>1, <1>10, <1>11, ZenonT(30) DEF Good, Used
<1>15. Retry'
  BY <1>1, <1>8, ZenonT(30) DEF Good, Retry, sent_buf_empty, winVars
<1> QED BY <1>1, <1>3, <1>8, <1>11, <1>12, <1>13, <1>14, <1>15, MarkKeeps, ZenonT(30) DEF netVars, notifVars

-----------------------------------------------------------------------------
(* send() takes the post of a future. *)

LEMMA AwaitFutureStep == ASSUME Good, AwaitFuture PROVE Good'
<1> DEFINE f == Head(futures)
           R == [kind : {"none", "header", "data"}, seq : 0 .. Modulo - 1,
                 len : 0 .. WinSz, used : BOOLEAN, sem : Nat, pos : 0 .. StreamLen]
<1>1. /\ UNCHANGED <<winVars, off_map, end_off, lock, notifVars, congVars, frVars, workerVars, cpc,
                     left, bound, data, seg, put, netVars, histVars>>
      /\ cpc = "await" /\ futures # << >> /\ mem[f].sem > 0 /\ futures' = Tail(futures)
      /\ mem' = [mem EXCEPT ![f].sem = @ - 1]
  BY ZenonT(30) DEF AwaitFuture
<1>2. UNCHANGED <<state, isn, win, off_map, end_off, wpc, cur, put, empty_notif, wire, acks, peer,
                  fails, crashed>>
  BY <1>1, ZenonT(30) DEF winVars, notifVars, workerVars, netVars, histVars
<1>3. /\ futures \in Seq(Cells) /\ f \in Cells /\ Tail(futures) \in Seq(Cells)
      /\ Len(Tail(futures)) = Len(futures) - 1
      /\ \A i \in 1 .. Len(Tail(futures)) : Tail(futures)[i] = futures[i + 1]
      /\ Len(futures) \in Nat \ {0}
  <2>1. futures \in Seq(Cells)
    BY ZenonT(30) DEF Good, Types, TypeOK
  <2> QED BY <1>1, <2>1, HeadTailProperties, EmptySeq, ZenonT(30)
<1>4. f = futures[1]
  BY <1>1, <1>3
<1> HIDE DEF f
<1>5. /\ mem' \in [Cells -> R]
      /\ \A p \in Cells : /\ mem'[p].kind = mem[p].kind /\ mem'[p].seq = mem[p].seq
                          /\ mem'[p].len = mem[p].len /\ mem'[p].used = mem[p].used
                          /\ mem'[p].pos = mem[p].pos /\ (mem'[p].sem > 0 => mem[p].sem > 0)
  <2>1. mem \in [Cells -> R] /\ mem[f] \in R
    BY <1>3, ZenonT(30) DEF Good, Types, TypeOK
  <2>2. mem[f].sem \in Nat /\ mem[f].sem - 1 \in Nat
    BY <1>1, <2>1
  <2> DEFINE v == [mem[f] EXCEPT !.sem = mem[f].sem - 1]
  <2>3. mem' = [mem EXCEPT ![f] = v]
    BY <1>1, ZenonT(30)
  <2>4. /\ v \in R /\ v.kind = mem[f].kind /\ v.seq = mem[f].seq /\ v.len = mem[f].len
        /\ v.used = mem[f].used /\ v.pos = mem[f].pos
    BY <2>1, <2>2, ZenonT(30)
  <2> HIDE DEF v
  <2>5. mem' \in [Cells -> R]
    BY <2>1, <2>3, <2>4, ZenonT(30)
  <2> QED BY <1>1, <1>3, <2>1, <2>3, <2>4, <2>5, ZenonT(30)
<1>6. SameMessages
  BY <1>2, <1>5, ZenonT(30) DEF SameMessages, SameCells
<1>7. /\ \A p \in Cells : (Header(p)' <=> Header(p)) /\ From(p)' = From(p) /\ To(p)' = To(p)
                          /\ (Live(p)' <=> Live(p))
      /\ Acked' = Acked /\ Spans' = Spans
  BY <1>2, <1>6, SameSpans, ZenonT(30)
<1>8. Types'
  <2>1. BufTypes'
    BY <1>1, <1>5, TypesParts, ZenonT(30) DEF Good, BufTypes
  <2>2. ClientTypes'
    BY <1>1, <1>3, TypesParts, ZenonT(30) DEF Good, ClientTypes
  <2> QED BY <1>1, <2>1, <2>2, TypesKept, ZenonT(30) DEF Good
<1>9. Layout' /\ SpansOK' /\ Places'
  BY <1>2, <1>6, <1>7, LayoutKept, SpansKept, PlacesKept, ZenonT(30) DEF Good
<1>10. Closed'
  BY <1>1, <1>2, ZenonT(30) DEF Good, Closed
<1>11. Data'
  <2>1. ASSUME NEW p \in Cells, Live(p)', To(p)' > Acked', NEW i \in 1 .. mem'[p].len
        PROVE  mem'[p + i].pos = From(p)' + i \/ (wpc' = "sendto" /\ cur' = p + i)
    <3>1. Live(p) /\ To(p) > Acked /\ i \in 1 .. mem[p].len
      BY <1>5, <1>7, <2>1, ZenonT(30)
    <3>2. mem[p + i].pos = From(p) + i \/ (wpc = "sendto" /\ cur = p + i)
      BY <3>1, ZenonT(30) DEF Good, Data
    <3>3. p + i \in Cells
      <4>1. p + mem[p].len \in Cells
        BY <3>1, ZenonT(30) DEF Good, Layout, Live
      <4>2. mem[p].len \in Nat
        BY CellType DEF Good
      <4>3. i \in 0 .. mem[p].len
        BY <3>1, <4>2
      <4> QED BY <4>1, <4>2, <4>3, WithinCells, ZenonT(30)
    <3> QED BY <1>2, <1>5, <1>7, <3>2, <3>3, ZenonT(30)
  <2>2. \A s \in wire' : s.seq - isn' >= Len(peer') =>
          \A i \in 1 .. Len(s.data) : s.data[i] = s.seq - isn' + i
    BY <1>2, ZenonT(30) DEF Good, Data
  <2> QED BY <2>1, <2>2, ZenonT(30) DEF Data
<1>12. Written'
  <2>1. \A o \in 0 .. WinSz - 1 : off_map[o] \in Cells
    <3>1. \A o \in 0 .. WinSz - 1 : o \in 0 .. MapSz - 1
      BY Constants
    <3> QED BY <3>1, ZenonT(30) DEF Good, Types, TypeOK
  <2>2. cur \in Cells
    BY Counters, ZenonT(30) DEF Good
  <2> QED BY <1>2, <1>5, <2>1, <2>2 DEF Good, Written
<1>13. Used'
  BY <1>2, <1>5, <1>7, ZenonT(30) DEF Good, Used
<1>14. Signalled'
  <2>1. sent_buf_empty' <=> sent_buf_empty
    BY <1>2, ZenonT(30) DEF sent_buf_empty
  <2>2. \A p \in Cells : Live(p)' /\ mem'[p].sem > 0 => To(p)' <= Acked'
    BY <1>5, <1>7, ZenonT(30) DEF Good, Signalled
  <2>3. ASSUME ~sent_buf_empty
        PROVE  /\ futures' # << >> /\ Live(futures[Len(futures)])'
               /\ To(futures[Len(futures)])' = put'
    <3> DEFINE l == futures[Len(futures)]
    <3>1. Live(l) /\ To(l) = put /\ l \in Cells
      BY <1>3, <2>3, ElementOfSeq DEF Good, Signalled
    <3>2. Len(futures) # 1
      <4> SUFFICES ASSUME Len(futures) = 1 PROVE FALSE
        BY ZenonT(30)
      <4>1. Live(f) /\ To(f) = put
        BY <1>4, <3>1, ZenonT(30)
      <4>2. To(f) <= Acked
        BY <1>1, <1>3, <4>1, ZenonT(30) DEF Good, Signalled
      <4>3. /\ put = Base + win.sent_off /\ Acked = Base + win.off /\ win.off <= win.sent_off
            /\ Base \in Nat /\ win.off \in 0 .. WinSz /\ win.sent_off \in 0 .. WinSz
        BY Numbers, ZenonT(30) DEF Good
      <4> QED BY <2>3, <4>1, <4>2, <4>3 DEF sent_buf_empty
    <3>3. Len(futures') \in 1 .. Len(futures') /\ futures'[Len(futures')] = l /\ futures' # << >>
      <4>1. Len(Tail(futures)) \in 1 .. Len(Tail(futures)) /\ Len(Tail(futures)) + 1 = Len(futures)
        BY <1>3, <3>2
      <4>2. Tail(futures)[Len(Tail(futures))] = l
        BY <1>3, <4>1, ZenonT(30)
      <4>3. Tail(futures) # << >>
        <5> DEFINE t == Tail(futures)
        <5>1. 1 <= Len(t)
          BY <4>1
        <5> HIDE DEF t
        <5>2. t # << >>
          BY <5>1
        <5> QED BY <5>2, ZenonT(30) DEF t
      <4> QED BY <1>1, <4>1, <4>2, <4>3, ZenonT(30)
    <3> HIDE DEF l
    <3>4. /\ l < end_off' /\ mem'[l].kind = "header" /\ mem'[l].seq - isn' + mem'[l].len = put'
      BY <1>2, <1>5, <3>1, ZenonT(30) DEF Live, Header, To, From
    <3> QED BY <3>3, <3>4, ZenonT(30) DEF Live, Header, To, From
  <2> QED BY <2>1, <2>2, <2>3, ZenonT(30) DEF Signalled
<1>15. Round'
  BY <1>1, <1>2, ZenonT(30) DEF Good, Round, Waiting, sent_sz
<1>16. Retry'
  BY <1>2, ZenonT(30) DEF Good, Retry, sent_buf_empty
<1> QED BY <1>8, <1>9, <1>10, <1>11, <1>12, <1>13, <1>14, <1>15, <1>16, ZenonT(30) DEF Good
=============================================================================
