-------------------------- MODULE TcpClientProofs --------------------------
(***************************************************************************)
(* The safety properties of TcpClient and its refinement of Relay, for      *)
(* every buffer size and any amount of data.                               *)
(*                                                                         *)
(* The inductive invariant is ClientInv(c).  The proof follows the C code:  *)
(* one lemma per function, whose ASSUME is the function's precondition (its *)
(* ASSERTs among it) and whose conclusion is ClientInv of the result, or    *)
(* the fields the function changes and that it keeps the others (Keeps).    *)
(***************************************************************************)
EXTENDS TcpClient, TLAPS, SequenceTheorems

Fields ==
    { "ok", "live", "num_clients", "aborted", "client_closed", "socks_up",
      "socks_closed", "buf", "sending", "receiving", "recv_buf", "waiting",
      "tcp_pending", "pcb", "cb", "rcv_wnd", "unacked", "callback", "sync",
      "dead", "dead_aborted" }

(* t differs from s in the fields F at most.                               *)
Keeps(t, s, F) == \A f \in Fields \ F : t[f] = s[f]

Shape(s) ==
    /\ s \in ClientType
    /\ Len(s.buf) <= TCP_WND /\ s.sending <= Len(s.buf)
    /\ Len(s.recv_buf) <= RECV_BUF_SIZE /\ Len(s.unacked) <= TCP_SND_BUF

(* The dead flag of the callback on the stack, and who points to it.       *)
FrameOK(s) ==
    /\ s.callback = "none" => s.dead = 0
    /\ s.callback # "none" => (s.dead = 1 <=> s.pcb = "aborted")
    /\ s.callback # "none" /\ s.dead = 0 => s.live
    /\ s.live /\ s.callback # "none" => s.dead # -1 /\ s.dead_aborted = "frame"
    /\ s.live /\ s.callback = "none" =>
         s.dead_aborted = "NULL" \/ (s.dead_aborted = "stale" /\ s.aborted)

(* A client the C code may work on: allocated and counted, and aborted is  *)
(* set exactly when its pcb was aborted.                                   *)
Sound(s) ==
    /\ Shape(s) /\ s.ok /\ FrameOK(s)
    /\ s.live /\ s.num_clients = 1
    /\ s.aborted <=> s.pcb = "aborted"

(* Which callbacks are registered on a pcb the client still has.           *)
PcbOK(s) ==
    /\ s.client_closed <=> s.pcb # "open"
    /\ s.client_closed => s.cb = {}
    /\ ~s.client_closed => /\ "err" \in s.cb
                           /\ "recv" \in s.cb <=> ~s.socks_closed
                           /\ "sent" \in s.cb <=> s.socks_up

(* A half-closed client waits for something: upstream data not yet sent,   *)
(* downstream data not yet confirmed.                                      *)
WaitsOK(s) ==
    /\ s.client_closed => ~s.socks_closed /\ s.buf # <<>>
    /\ s.socks_closed => s.socks_up /\ (s.recv_buf # <<>> \/ s.tcp_pending > 0)

(* A send is outstanding exactly when there is data; the window fits.      *)
IdleOK(s) == ~s.socks_up \/ s.socks_closed => s.sending = 0 /\ ~s.receiving
WindowOK(s) ==
    ~s.socks_closed /\ ~s.client_closed => s.rcv_wnd + Len(s.buf) <= TCP_WND
SendOK(s) ==
    s.socks_up /\ ~s.socks_closed => (s.sending > 0 <=> s.buf # <<>>)

(* A receive is outstanding only into an empty buffer, and always into one *)
(* that both sides may still use; everything queued in lwIP is accounted   *)
(* for; a full send buffer is waited for.                                  *)
RecvOK(s) == s.receiving => s.recv_buf = <<>>
AskingOK(s) ==
    s.socks_up /\ ~s.socks_closed /\ ~s.client_closed =>
        (s.receiving <=> s.recv_buf = <<>>)
PendingOK(s) ==
    ~s.client_closed => Len(s.unacked) = IF s.socks_up THEN s.tcp_pending ELSE 0
WaitingOK(s) ==
    s.socks_up /\ ~s.client_closed /\ s.recv_buf # <<>> =>
        s.waiting /\ s.tcp_pending > 0

LiveInv(s) ==
    /\ Sound(s) /\ PcbOK(s) /\ WaitsOK(s)
    /\ IdleOK(s) /\ WindowOK(s) /\ SendOK(s)
    /\ RecvOK(s) /\ AskingOK(s) /\ PendingOK(s) /\ WaitingOK(s)

DeadInv(s) ==
    /\ Shape(s) /\ s.ok /\ FrameOK(s)
    /\ ~s.live /\ s.num_clients = 0
    /\ s.pcb # "open" /\ s.cb = {} /\ s.sending = 0 /\ ~s.receiving
    /\ s.pcb # "none" => s.socks_closed

ClientInv(s) == LiveInv(s) \/ DeadInv(s)

-----------------------------------------------------------------------------
(* Sequences.                                                              *)
LEMMA TakeRest ==
    ASSUME NEW q \in Seq(Nat), NEW n \in 0..Len(q)
    PROVE  /\ Take(q, n) \in Seq(Nat) /\ Len(Take(q, n)) = n
           /\ Rest(q, n) \in Seq(Nat) /\ Len(Rest(q, n)) = Len(q) - n
BY DEF Take, Rest

LEMMA Empty == ASSUME NEW q \in Seq(Nat) PROVE q # <<>> <=> Len(q) > 0
OBVIOUS

LEMMA Concat ==
    ASSUME NEW q \in Seq(Nat), NEW r \in Seq(Nat)
    PROVE  q \o r \in Seq(Nat) /\ Len(q \o r) = Len(q) + Len(r)
OBVIOUS

LEMMA BytesType ==
    ASSUME NEW m \in Nat, NEW k \in Nat
    PROVE  Bytes(m, m + k) \in Seq(Nat) /\ Len(Bytes(m, m + k)) = k
<1>1. (m + k) - m = k
  OBVIOUS
<1>2. Bytes(m, m + k) = [i \in 1..k |-> m + i]
  BY <1>1 DEF Bytes
<1>3. \A i \in 1..k : m + i \in Nat
  OBVIOUS
<1> QED
  BY <1>2, <1>3

(* A passing ASSERT changes nothing.                                       *)
LEMMA AssertTrue ==
    ASSUME NEW s \in ClientType, s.ok, NEW P \in BOOLEAN, P
    PROVE  Asserting(s, P) = s
BY DEF Asserting, ClientType

-----------------------------------------------------------------------------
(* The lemmas of the C functions.                                          *)
LEMMA Kill ==
    ASSUME NEW s \in ClientType, s.ok, NEW v \in {-1, 1},
           s.dead_aborted \in {"NULL", "frame"},
           NEW t, t = DEAD_KILL_WITH(s, v)
    PROVE  /\ t \in ClientType
           /\ t.dead = IF s.dead_aborted = "frame" THEN v ELSE s.dead
           /\ Keeps(t, s, {"dead"})
<1>1. CASE s.dead_aborted = "NULL"
  BY <1>1 DEF DEAD_KILL_WITH, Keeps, Fields
<1>2. CASE s.dead_aborted = "frame"
  <2>1. Asserting(s, s.dead_aborted = "frame") = s
    BY <1>2, AssertTrue
  <2>2. t = [s EXCEPT !.dead = v]
    BY <1>2, <2>1 DEF DEAD_KILL_WITH
  <2>3. v \in {-1, 0, 1}
    OBVIOUS
  <2>4. t \in ClientType
    BY <2>2, <2>3, ZenonT(60) DEF ClientType
  <2> QED
    BY <1>2, <2>2, <2>4 DEF Keeps, Fields, ClientType
<1> QED
  BY <1>1, <1>2

(* What client_dealloc needs of its caller.                                *)
Detached(s) ==
    /\ Sound(s) /\ s.client_closed /\ s.socks_closed
    /\ s.pcb # "open" /\ s.cb = {} /\ s.sending = 0 /\ ~s.receiving

LEMMA Dealloc ==
    ASSUME NEW s, Detached(s), NEW t, t = client_dealloc(s)
    PROVE  DeadInv(t) /\ Keeps(t, s, {"live", "num_clients", "dead"})
<1> DEFINE P == s.client_closed /\ s.socks_closed /\ s.num_clients > 0
           k == IF s.aborted THEN s ELSE DEAD_KILL_WITH(s, -1)
<1>1. /\ Shape(s) /\ s \in ClientType /\ s.ok /\ FrameOK(s) /\ s.live /\ s.num_clients = 1
      /\ s.client_closed /\ s.socks_closed /\ s.pcb # "open" /\ s.cb = {}
      /\ s.sending = 0 /\ ~s.receiving /\ (s.aborted <=> s.pcb = "aborted")
  BY DEF Detached, Sound, Shape
<1>p. P = TRUE
  BY <1>1
<1>2. Asserting(s, P) = s
  BY <1>1, <1>p, AssertTrue
<1>3. t = [k EXCEPT !.live = FALSE, !.num_clients = @ - 1]
  BY <1>2 DEF client_dealloc
<1>4. /\ k \in ClientType /\ Keeps(k, s, {"dead"})
      /\ k.dead = IF ~s.aborted /\ s.dead_aborted = "frame" THEN -1 ELSE s.dead
  <2>1. CASE s.aborted
    BY <1>1, <2>1 DEF Keeps
  <2>2. CASE ~s.aborted
    <3>1. s.dead_aborted \in {"NULL", "frame"}
      BY <1>1, <2>2 DEF FrameOK, ClientType
    <3> QED
      BY <1>1, <2>2, <3>1, Kill
  <2> QED
    BY <2>1, <2>2
<1> HIDE DEF k, P
<1>5. k.num_clients - 1 \in 0..1 /\ k.num_clients - 1 = 0
  BY <1>1, <1>4 DEF Keeps, Fields
<1>6. t \in ClientType
  BY <1>3, <1>4, <1>5, ZenonT(60) DEF ClientType
<1>7. t.live = FALSE /\ t.num_clients = 0 /\ Keeps(t, k, {"live", "num_clients"})
  BY <1>3, <1>4, <1>5 DEF Keeps, Fields, ClientType
<1>8. /\ Keeps(t, s, {"live", "num_clients", "dead"}) /\ t.dead = k.dead
  BY <1>4, <1>7 DEF Keeps, Fields
<1>9. FrameOK(t)
  BY <1>1, <1>4, <1>6, <1>7, <1>8 DEF FrameOK, Keeps, Fields, ClientType
<1> QED
  BY <1>1, <1>6, <1>7, <1>8, <1>9 DEF DeadInv, Shape, Keeps, Fields

LEMMA Closing ==
    ASSUME NEW s \in ClientType, s.ok, ~s.socks_closed,
           s.client_closed \/ s.pcb = "open",
           NEW t, t = CloseSocks(s)
    PROVE  /\ t \in ClientType /\ t.socks_closed /\ t.sending = 0 /\ ~t.receiving
           /\ t.cb = IF s.socks_up /\ ~s.client_closed THEN s.cb \ {"recv"} ELSE s.cb
           /\ Keeps(t, s, {"socks_closed", "sending", "receiving", "cb"})
<1> DEFINE b == IF s.socks_up /\ ~s.client_closed THEN s.cb \ {"recv"} ELSE s.cb
           r == IF s.socks_up /\ ~s.client_closed
                THEN RemoveCallbacks(s, {"recv"}) ELSE s
<1>1. Asserting(s, ~s.socks_closed) = s
  BY AssertTrue
<1>2. t = [[r EXCEPT !.sending = 0, !.receiving = FALSE] EXCEPT !.socks_closed = TRUE]
  BY <1>1 DEF CloseSocks, BSocksClient_Free
<1>3. b \in SUBSET Callbacks
  BY DEF ClientType
<1>4. r \in ClientType /\ r.cb = b /\ Keeps(r, s, {"cb"})
  <2>1. CASE s.socks_up /\ ~s.client_closed
    <3>1. Asserting(s, s.pcb = "open") = s
      BY <2>1, AssertTrue
    <3>2. r = [s EXCEPT !.cb = b]
      BY <2>1, <3>1 DEF RemoveCallbacks, ClientType
    <3> HIDE DEF b, r
    <3>3. r \in ClientType
      BY <1>3, <3>2, ZenonT(60) DEF ClientType
    <3> QED
      BY <3>2, <3>3 DEF Keeps, Fields, ClientType
  <2>2. CASE ~(s.socks_up /\ ~s.client_closed)
    BY <2>2 DEF Keeps
  <2> QED
    BY <2>1, <2>2
<1> HIDE DEF r
<1>5. 0 \in Nat
  OBVIOUS
<1> DEFINE q == [r EXCEPT !.sending = 0, !.receiving = FALSE]
<1>q. q \in ClientType
  BY <1>4, <1>5, ZenonT(60) DEF ClientType
<1>6. t \in ClientType
  <2>1. t = [q EXCEPT !.socks_closed = TRUE]
    BY <1>2
  <2> HIDE DEF q
  <2> QED
    BY <1>q, <2>1, ZenonT(60) DEF ClientType
<1>7. /\ t.socks_closed = TRUE /\ t.sending = 0 /\ t.receiving = FALSE
      /\ Keeps(t, r, {"socks_closed", "sending", "receiving"})
  BY <1>2, <1>4 DEF Keeps, Fields, ClientType
<1> QED
  BY <1>4, <1>6, <1>7 DEF Keeps, Fields

LEMMA AbortPcb ==
    ASSUME NEW s \in ClientType, s.ok, ~s.aborted, s.pcb = "open", "err" \notin s.cb,
           s.dead_aborted \in {"NULL", "frame"},
           NEW t, t = client_abort_pcb(s)
    PROVE  /\ t \in ClientType /\ t.pcb = "aborted" /\ t.aborted
           /\ t.dead = IF s.dead_aborted = "frame" THEN 1 ELSE s.dead
           /\ Keeps(t, s, {"pcb", "aborted", "dead"})
<1> DEFINE m == [s EXCEPT !.pcb = "aborted", !.aborted = TRUE]
<1>p. (~s.aborted /\ s.pcb = "open" /\ "err" \notin s.cb) = TRUE
  OBVIOUS
<1>1. Asserting(s, ~s.aborted /\ s.pcb = "open" /\ "err" \notin s.cb) = s
  BY <1>p, AssertTrue
<1>2. t = DEAD_KILL_WITH(m, 1)
  BY <1>1 DEF client_abort_pcb
<1>3. m \in ClientType
  BY Zenon DEF ClientType
<1>4. m.pcb = "aborted" /\ m.aborted = TRUE /\ Keeps(m, s, {"pcb", "aborted"})
  BY DEF Keeps, Fields, ClientType
<1> HIDE DEF m
<1>5. /\ t \in ClientType /\ t.dead = IF m.dead_aborted = "frame" THEN 1 ELSE m.dead
      /\ Keeps(t, m, {"dead"})
  BY <1>2, <1>3, <1>4, Kill DEF Keeps, Fields
<1> QED
  BY <1>4, <1>5 DEF Keeps, Fields

(* What giving up the client leaves: a pcb given back, the upstream data    *)
(* as it was, and SOCKS closed only if nothing is left for it.             *)
GaveUp(t, s) ==
    /\ t.pcb \notin {"none", "open"} /\ t.buf = s.buf
    /\ s.socks_closed => t.socks_closed
    /\ t.socks_closed => s.socks_closed \/ s.buf = <<>>

(* What client_handle_freed_client needs: the pcb has been dealt with.     *)
Freed(s) ==
    /\ Sound(s) /\ ~s.client_closed /\ s.pcb # "open" /\ s.cb = {}
    /\ IdleOK(s) /\ SendOK(s) /\ RecvOK(s)

LEMMA HandleFreed ==
    ASSUME NEW s, Freed(s), NEW t, t = client_handle_freed_client(s)
    PROVE  /\ ClientInv(t) /\ t.aborted = s.aborted /\ t.pcb = s.pcb
           /\ s.pcb # "none" => GaveUp(t, s)
<1> DEFINE a == [s EXCEPT !.client_closed = TRUE]
           d == IF a.socks_closed THEN a ELSE CloseSocks(a)
<1>1. s \in ClientType /\ s.ok /\ ~s.client_closed
  BY DEF Freed, Sound, Shape
<1>2. Asserting(s, ~s.client_closed) = s
  BY <1>1, AssertTrue
<1>3. a \in ClientType /\ a.client_closed = TRUE /\ Keeps(a, s, {"client_closed"})
  <2>1. a \in ClientType
    BY <1>1, ZenonT(60) DEF ClientType
  <2> QED
    BY <1>1, <2>1 DEF Keeps, Fields, ClientType
<1>4. t = IF a.buf # <<>> /\ ~a.socks_closed THEN a ELSE client_dealloc(d)
  BY <1>2 DEF client_handle_freed_client
<1> HIDE DEF a
<1>5. Sound(a) /\ a.pcb # "open" /\ a.cb = {}
  BY <1>3 DEF Freed, Sound, Shape, FrameOK, Keeps, Fields
<1>6. CASE a.buf # <<>> /\ ~a.socks_closed
  <2>1. LiveInv(a)
    BY <1>3, <1>5, <1>6 DEF LiveInv, Freed, PcbOK, WaitsOK, IdleOK, WindowOK, SendOK,
         RecvOK, PendingOK, WaitingOK, AskingOK, Keeps, Fields
  <2> QED
    BY <1>3, <1>4, <1>5, <1>6, <2>1 DEF ClientInv, GaveUp, Keeps, Fields
<1>7. CASE ~(a.buf # <<>> /\ ~a.socks_closed)
  <2>1. Detached(d) /\ d.aborted = s.aborted /\ d.pcb = s.pcb /\ d.buf = s.buf
    <3>1. CASE a.socks_closed
      BY <1>3, <1>5, <3>1 DEF Detached, Freed, IdleOK, Keeps, Fields
    <3>2. CASE ~a.socks_closed
      <4>1. a.ok
        BY <1>5 DEF Sound
      <4>2. /\ d \in ClientType /\ d.socks_closed /\ d.sending = 0 /\ ~d.receiving
            /\ d.cb = a.cb
            /\ Keeps(d, a, {"socks_closed", "sending", "receiving", "cb"})
        BY <1>3, <3>2, <4>1, Closing
      <4> HIDE DEF d
      <4>3. Len(d.buf) \in Nat
        BY <4>2 DEF ClientType
      <4> QED
        BY <1>3, <1>5, <4>2, <4>3 DEF Detached, Sound, Shape, FrameOK, Keeps, Fields
    <3> QED
      BY <3>1, <3>2
  <2>2. t = client_dealloc(d)
    BY <1>4, <1>7
  <2> HIDE DEF d
  <2>3. DeadInv(t) /\ Keeps(t, d, {"live", "num_clients", "dead"})
    BY <2>1, <2>2, Dealloc
  <2>4. t.socks_closed /\ (s.socks_closed \/ s.buf = <<>>)
    BY <1>3, <1>7, <2>1, <2>3 DEF Detached, Keeps, Fields
  <2>5. s.pcb # "open"
    BY DEF Freed
  <2> QED
    BY <2>1, <2>3, <2>4, <2>5 DEF ClientInv, GaveUp, Keeps, Fields
<1> QED
  BY <1>6, <1>7

(* What client_free_client and client_abort_client need: an open pcb.      *)
Open(s) ==
    /\ Sound(s) /\ ~s.client_closed /\ s.pcb = "open"
    /\ IdleOK(s) /\ SendOK(s) /\ RecvOK(s)

LEMMA RemoveAll ==
    ASSUME NEW s, Open(s),
           NEW t, t = RemoveCallbacks(Asserting(s, ~s.client_closed), Callbacks)
    PROVE  Open(t) /\ t.cb = {} /\ Keeps(t, s, {"cb"})
<1>1. s \in ClientType /\ s.ok /\ ~s.client_closed /\ s.pcb = "open"
  BY DEF Open, Sound, Shape
<1>2. Asserting(s, ~s.client_closed) = s /\ Asserting(s, s.pcb = "open") = s
  BY <1>1, AssertTrue
<1>3. s.cb \ Callbacks = {}
  BY <1>1 DEF ClientType
<1>4. t = [s EXCEPT !.cb = {}]
  BY <1>1, <1>2, <1>3, ZenonT(60) DEF RemoveCallbacks, ClientType
<1>5. t \in ClientType
  BY <1>1, <1>4, ZenonT(60) DEF ClientType
<1>6. t.cb = {} /\ Keeps(t, s, {"cb"})
  BY <1>1, <1>4 DEF Keeps, Fields, ClientType
<1> QED
  BY <1>5, <1>6 DEF Open, Sound, Shape, FrameOK, IdleOK, SendOK, RecvOK, Keeps, Fields

(* client_abort_pcb of a client whose callbacks have been removed.         *)
LEMMA AbortFreed ==
    ASSUME NEW s, Open(s), s.cb = {}, NEW t, t = client_abort_pcb(s)
    PROVE  Freed(t) /\ t.aborted /\ t.pcb = "aborted" /\ Keeps(t, s, {"pcb", "aborted", "dead"})
<1>1. s \in ClientType /\ s.ok /\ ~s.aborted /\ s.pcb = "open" /\ "err" \notin s.cb
  BY DEF Open, Sound, Shape
<1>2. s.dead_aborted \in {"NULL", "frame"}
  BY <1>1 DEF Open, Sound, FrameOK
<1>3. /\ t \in ClientType /\ t.pcb = "aborted" /\ t.aborted
      /\ t.dead = IF s.dead_aborted = "frame" THEN 1 ELSE s.dead
      /\ Keeps(t, s, {"pcb", "aborted", "dead"})
  BY <1>1, <1>2, AbortPcb
<1>4. FrameOK(t)
  BY <1>1, <1>2, <1>3 DEF Open, Sound, FrameOK, Keeps, Fields, ClientType
<1> QED
  BY <1>3, <1>4 DEF Open, Freed, Sound, Shape, IdleOK, SendOK, RecvOK, Keeps, Fields

LEMMA AbortClient ==
    ASSUME NEW s, Open(s), NEW t, t = client_abort_client(s)
    PROVE  ClientInv(t) /\ t.aborted /\ t.pcb = "aborted" /\ GaveUp(t, s)
<1> DEFINE r == RemoveCallbacks(Asserting(s, ~s.client_closed), Callbacks)
           d == client_abort_pcb(r)
<1>1. Open(r) /\ r.cb = {} /\ Keeps(r, s, {"cb"})
  BY RemoveAll
<1>2. t = client_handle_freed_client(d)
  BY DEF client_abort_client
<1> HIDE DEF r
<1>3. Freed(d) /\ d.aborted /\ d.pcb = "aborted" /\ Keeps(d, r, {"pcb", "aborted", "dead"})
  BY <1>1, AbortFreed
<1> HIDE DEF d
<1>4. ClientInv(t) /\ t.aborted /\ t.pcb = "aborted" /\ GaveUp(t, d)
  BY <1>2, <1>3, HandleFreed
<1>5. d.buf = s.buf /\ d.socks_closed = s.socks_closed
  BY <1>1, <1>3 DEF Keeps, Fields
<1> QED
  BY <1>4, <1>5 DEF GaveUp

LEMMA FreeClient ==
    ASSUME NEW s, Open(s), NEW closeOk \in BOOLEAN,
           NEW t, t = client_free_client(s, closeOk)
    PROVE  ClientInv(t) /\ GaveUp(t, s)
<1> DEFINE r == RemoveCallbacks(Asserting(s, ~s.client_closed), Callbacks)
           d == IF closeOk THEN [r EXCEPT !.pcb = "closed"] ELSE client_abort_pcb(r)
<1>1. Open(r) /\ r.cb = {} /\ Keeps(r, s, {"cb"})
  BY RemoveAll
<1>2. t = client_handle_freed_client(d)
  BY DEF client_free_client
<1> HIDE DEF r
<1>3. CASE closeOk
  <2>1. d = [r EXCEPT !.pcb = "closed"]
    BY <1>3
  <2>2. r \in ClientType
    BY <1>1 DEF Open, Sound, Shape
  <2> HIDE DEF d
  <2>3. d \in ClientType
    BY <2>1, <2>2, ZenonT(60) DEF ClientType
  <2>4. d.pcb = "closed" /\ Keeps(d, r, {"pcb"})
    BY <2>1, <2>2 DEF Keeps, Fields, ClientType
  <2>5. Freed(d)
    BY <1>1, <2>3, <2>4 DEF Open, Freed, Sound, Shape, FrameOK, IdleOK, SendOK, RecvOK,
         Keeps, Fields
  <2>6. ClientInv(t) /\ GaveUp(t, d)
    BY <1>2, <2>4, <2>5, HandleFreed
  <2>7. d.buf = s.buf /\ d.socks_closed = s.socks_closed
    BY <1>1, <2>4 DEF Keeps, Fields
  <2> QED
    BY <2>6, <2>7 DEF GaveUp
<1>4. CASE ~closeOk
  <2>1. Freed(d) /\ d.pcb = "aborted" /\ Keeps(d, r, {"pcb", "aborted", "dead"})
    BY <1>1, <1>4, AbortFreed
  <2> HIDE DEF d
  <2>2. ClientInv(t) /\ GaveUp(t, d)
    BY <1>2, <2>1, HandleFreed
  <2>3. d.buf = s.buf /\ d.socks_closed = s.socks_closed
    BY <1>1, <2>1 DEF Keeps, Fields
  <2> QED
    BY <2>2, <2>3 DEF GaveUp
<1> QED
  BY <1>3, <1>4

(* What client_free_socks needs: a client between two handlers, except that *)
(* a closed one may already have sent everything.                          *)
Working(s) ==
    /\ Sound(s) /\ ~s.socks_closed /\ PcbOK(s)
    /\ WindowOK(s) /\ RecvOK(s) /\ PendingOK(s) /\ WaitingOK(s)

LEMMA FreeSocks ==
    ASSUME NEW s, Working(s), NEW closeOk \in BOOLEAN,
           NEW t, t = client_free_socks(s, closeOk)
    PROVE  /\ ClientInv(t) /\ t.socks_closed /\ t.buf = s.buf
           /\ t.pcb # "open" /\ s.pcb = "open" =>
                t.pcb # "none" /\ (s.socks_up => s.recv_buf = <<>> /\ s.tcp_pending = 0)
           /\ t.pcb = "open" => Keeps(t, s, {"socks_closed", "sending", "receiving", "cb"})
           /\ s.pcb # "open" => t.pcb = s.pcb
<1> DEFINE a == CloseSocks(s)
<1>1. s \in ClientType /\ s.ok /\ ~s.socks_closed /\ (s.client_closed \/ s.pcb = "open")
  BY DEF Working, Sound, Shape, PcbOK
<1>2. /\ a \in ClientType /\ a.socks_closed /\ a.sending = 0 /\ ~a.receiving
      /\ a.cb = IF s.socks_up /\ ~s.client_closed THEN s.cb \ {"recv"} ELSE s.cb
      /\ Keeps(a, s, {"socks_closed", "sending", "receiving", "cb"})
  BY <1>1, Closing
<1>3. t = IF a.socks_up /\ (a.recv_buf # <<>> \/ a.tcp_pending > 0) /\ ~a.client_closed
          THEN a
          ELSE IF ~a.client_closed THEN client_free_client(a, closeOk)
          ELSE client_dealloc(a)
  BY DEF client_free_socks
<1> HIDE DEF a
<1>4. Sound(a)
  <2>1. Len(a.buf) \in Nat
    BY <1>2 DEF ClientType
  <2> QED
    BY <1>2, <2>1 DEF Working, Sound, Shape, FrameOK, Keeps, Fields
<1>5. CASE a.socks_up /\ (a.recv_buf # <<>> \/ a.tcp_pending > 0) /\ ~a.client_closed
  <2>1. t = a /\ s.pcb = "open"
    BY <1>2, <1>3, <1>5 DEF Working, PcbOK, Keeps, Fields
  <2>2. t.buf = s.buf /\ t.pcb = "open"
    BY <1>2, <2>1 DEF Keeps, Fields
  <2>3. ClientInv(t)
    BY <1>2, <1>4, <1>5, <2>1 DEF Working, ClientInv, LiveInv, PcbOK, WaitsOK, IdleOK,
       WindowOK, SendOK, RecvOK, PendingOK, WaitingOK, AskingOK, Keeps, Fields
  <2> QED
    BY <1>2, <2>1, <2>2, <2>3
<1>0. /\ s.client_closed <=> s.pcb # "open"
      /\ a.client_closed = s.client_closed /\ a.pcb = s.pcb /\ a.buf = s.buf
      /\ a.socks_up = s.socks_up /\ a.recv_buf = s.recv_buf /\ a.tcp_pending = s.tcp_pending
      /\ s.tcp_pending \in Nat
  BY <1>1, <1>2 DEF Working, PcbOK, ClientType, Keeps, Fields
<1>6. CASE /\ ~(a.socks_up /\ (a.recv_buf # <<>> \/ a.tcp_pending > 0) /\ ~a.client_closed)
           /\ ~a.client_closed
  <2>1. Open(a)
    BY <1>2, <1>4, <1>6 DEF Working, Open, PcbOK, IdleOK, SendOK, RecvOK, Keeps, Fields
  <2>2. ClientInv(t) /\ GaveUp(t, a)
    BY <1>3, <1>6, <2>1, FreeClient
  <2> QED
    BY <1>0, <1>2, <1>6, <2>2 DEF GaveUp
<1>7. CASE a.client_closed
  <2>1. Detached(a)
    BY <1>2, <1>4, <1>7 DEF Working, Detached, PcbOK, Keeps, Fields
  <2>2. DeadInv(t) /\ Keeps(t, a, {"live", "num_clients", "dead"})
    BY <1>3, <1>7, <2>1, Dealloc
  <2> QED
    BY <1>0, <1>2, <1>7, <2>2 DEF ClientInv, Keeps, Fields
<1> QED
  BY <1>5, <1>6, <1>7

LEMMA MurderInv ==
    ASSUME NEW s, LiveInv(s), NEW t, t = client_murder(s)
    PROVE  DeadInv(t) /\ (t.pcb = s.pcb \/ (s.pcb = "open" /\ t.pcb = "aborted"))
<1> DEFINE r == RemoveCallbacks(s, Callbacks)
           p == client_abort_pcb(r)
           a == IF s.client_closed THEN s ELSE [p EXCEPT !.client_closed = TRUE]
           b == IF a.socks_closed THEN a
                ELSE [BSocksClient_Free(a) EXCEPT !.socks_closed = TRUE]
<1>1. t = client_dealloc(b)
  BY DEF client_murder
<1>2. /\ Sound(a) /\ a.client_closed /\ a.pcb # "open" /\ a.cb = {}
      /\ a.socks_closed => a.sending = 0 /\ ~a.receiving
      /\ a.pcb = s.pcb \/ (s.pcb = "open" /\ a.pcb = "aborted")
  <2>1. CASE s.client_closed
    BY <2>1 DEF LiveInv, PcbOK, IdleOK
  <2>2. CASE ~s.client_closed
    <3>1. s \in ClientType /\ s.ok /\ Open(s)
      BY <2>2 DEF LiveInv, Sound, Shape, Open, PcbOK
    <3>2. Asserting(s, ~s.client_closed) = s
      BY <2>2, <3>1, AssertTrue
    <3>3. Open(r) /\ r.cb = {} /\ Keeps(r, s, {"cb"})
      BY <3>1, <3>2, RemoveAll
    <3> HIDE DEF r
    <3>4. Freed(p) /\ p.pcb = "aborted"
      BY <3>3, AbortFreed
    <3> HIDE DEF p
    <3>5. p \in ClientType
      BY <3>4 DEF Freed, Sound, Shape
    <3>6. a = [p EXCEPT !.client_closed = TRUE]
      BY <2>2
    <3> HIDE DEF a
    <3>7. a \in ClientType
      BY <3>5, <3>6, ZenonT(60) DEF ClientType
    <3>8. a.client_closed = TRUE /\ Keeps(a, p, {"client_closed"})
      BY <3>5, <3>6 DEF Keeps, Fields, ClientType
    <3> QED
      BY <3>1, <3>4, <3>7, <3>8 DEF Open, Freed, Sound, Shape, FrameOK, IdleOK, Keeps, Fields
  <2> QED
    BY <2>1, <2>2
<1> HIDE DEF a
<1>3. Detached(b) /\ b.pcb = a.pcb
  <2>1. CASE a.socks_closed
    BY <1>2, <2>1 DEF Detached
  <2>2. CASE ~a.socks_closed
    <3> DEFINE q == [a EXCEPT !.sending = 0, !.receiving = FALSE]
    <3>1. a \in ClientType /\ 0 \in Nat
      BY <1>2 DEF Sound, Shape
    <3>2. q \in ClientType
      BY <3>1, ZenonT(60) DEF ClientType
    <3>3. q.sending = 0 /\ q.receiving = FALSE /\ Keeps(q, a, {"sending", "receiving"})
      BY <3>1 DEF Keeps, Fields, ClientType
    <3>4. b = [q EXCEPT !.socks_closed = TRUE]
      BY <2>2 DEF BSocksClient_Free
    <3> HIDE DEF q, b
    <3>5. b \in ClientType
      BY <3>2, <3>4, ZenonT(60) DEF ClientType
    <3>6. b.socks_closed = TRUE /\ Keeps(b, q, {"socks_closed"})
      BY <3>2, <3>4 DEF Keeps, Fields, ClientType
    <3>7. Len(b.buf) \in Nat
      BY <3>5 DEF ClientType
    <3> QED
      BY <1>2, <3>3, <3>5, <3>6, <3>7 DEF Detached, Sound, Shape, FrameOK, Keeps, Fields
  <2> QED
    BY <2>1, <2>2
<1> HIDE DEF b
<1>4. DeadInv(t) /\ Keeps(t, b, {"live", "num_clients", "dead"})
  BY <1>1, <1>3, Dealloc
<1> QED
  BY <1>2, <1>3, <1>4 DEF Keeps, Fields

LEMMA Sending ==
    ASSUME NEW s \in ClientType, s.ok, ~s.socks_closed, s.socks_up, s.buf # <<>>,
           s.sending = 0, NEW t, t = client_send_to_socks(s)
    PROVE  t \in ClientType /\ t.sending = Len(s.buf) /\ Keeps(t, s, {"sending"})
<1> DEFINE P == ~s.socks_closed /\ s.socks_up /\ s.buf # <<>> /\ s.sending = 0
<1>1. P = TRUE
  OBVIOUS
<1>2. Asserting(s, P) = s
  BY <1>1, AssertTrue
<1> DEFINE n == Len(s.buf)
<1>3. t = [s EXCEPT !.sending = n]
  BY <1>2 DEF client_send_to_socks
<1>4. n \in Nat
  BY DEF ClientType
<1> HIDE DEF n, P
<1>5. t \in ClientType
  <2>1. s \in ClientType
    OBVIOUS
  <2> QED
    BY ONLY <1>3, <1>4, <2>1, ZenonT(60) DEF ClientType
<1>6. t.sending = n /\ Keeps(t, s, {"sending"})
  BY <1>3, <1>5 DEF Keeps, Fields, ClientType
<1> QED
  BY <1>5, <1>6 DEF n

LEMMA Receiving ==
    ASSUME NEW s \in ClientType, s.ok, ~s.client_closed, ~s.socks_closed, s.socks_up,
           s.recv_buf = <<>>, ~s.receiving, NEW t, t = client_socks_recv_initiate(s)
    PROVE  t \in ClientType /\ t.receiving /\ Keeps(t, s, {"receiving"})
<1> DEFINE P == /\ ~s.client_closed /\ ~s.socks_closed /\ s.socks_up
                /\ s.recv_buf = <<>> /\ ~s.receiving
<1>1. P = TRUE
  OBVIOUS
<1>2. Asserting(s, P) = s
  BY <1>1, AssertTrue
<1>3. t = [s EXCEPT !.receiving = TRUE]
  BY <1>2 DEF client_socks_recv_initiate
<1>4. t \in ClientType
  BY <1>3, ZenonT(60) DEF ClientType
<1> QED
  BY <1>3, <1>4 DEF Keeps, Fields, ClientType

(* What client_socks_recv_send_out needs, and what it leaves if it does    *)
(* not abort: the rest of the data waits for confirmations.                *)
OutReady(s) ==
    /\ Open(s) /\ s.socks_up /\ ~s.receiving /\ ~s.waiting
    /\ s.recv_buf # <<>> /\ s.tcp_pending = Len(s.unacked)

(* The first bytes of rb join un in lwIP; nothing else of the relay moves. *)
Moved(t, s, un, rb) ==
    /\ Keeps(t, s, Fields \ {"pcb", "buf", "socks_closed", "socks_up", "live"})
    /\ \E k \in 0..Len(rb) : t.unacked = un \o Take(rb, k) /\ t.recv_buf = Rest(rb, k)

SentOut(t, s) ==
    /\ Shape(t) /\ ~t.aborted
    /\ t.tcp_pending = Len(t.unacked) /\ t.tcp_pending > 0
    /\ t.recv_buf # <<>> => t.waiting
    /\ Keeps(t, s, {"recv_buf", "unacked", "tcp_pending", "waiting"})
    /\ Moved(t, s, s.unacked, s.recv_buf)

Aborted(t, s) == t.aborted /\ t.pcb = "aborted" /\ GaveUp(t, s)

LEMMA SendOut ==
    ASSUME NEW s, OutReady(s), NEW lwip, NEW t, t = client_socks_recv_send_out(s, lwip)
    PROVE  (ClientInv(t) /\ Aborted(t, s)) \/ SentOut(t, s)
<1> DEFINE P == /\ ~s.client_closed /\ s.socks_up /\ s.pcb = "open"
                /\ s.recv_buf # <<>> /\ ~s.waiting
           n == IF lwip = "mem" THEN 0
                ELSE Least(Len(s.recv_buf), TCP_SND_BUF - Len(s.unacked))
           u == s.unacked \o Take(s.recv_buf, n)
           w == Rest(s.recv_buf, n)
           m == s.tcp_pending + n
           q == [s EXCEPT !.unacked = @ \o Take(s.recv_buf, n),
                          !.recv_buf = Rest(@, n), !.tcp_pending = @ + n]
<1>1. /\ s \in ClientType /\ s.ok /\ Shape(s) /\ Open(s) /\ ~s.aborted
      /\ s.tcp_pending = Len(s.unacked) /\ s.recv_buf # <<>>
  BY DEF OutReady, Open, Sound, Shape
<1>2. P = TRUE
  BY DEF OutReady, Open
<1>3. Asserting(s, P) = s
  BY <1>1, <1>2, AssertTrue
<1>4. t = IF lwip = "fail" THEN client_abort_client(s)
          ELSE IF q.recv_buf = <<>> THEN q
          ELSE IF q.tcp_pending = 0 THEN client_abort_client(q)
          ELSE [q EXCEPT !.waiting = TRUE]
  BY <1>3, ZenonT(60) DEF client_socks_recv_send_out
<1>5. s.recv_buf \in Seq(Nat) /\ s.unacked \in Seq(Nat) /\ s.tcp_pending \in Nat
  BY <1>1 DEF ClientType
<1>6. /\ n \in 0..Len(s.recv_buf) /\ n <= TCP_SND_BUF - Len(s.unacked)
      /\ lwip # "mem" => n = Len(s.recv_buf) \/ n = TCP_SND_BUF - Len(s.unacked)
  BY <1>1, <1>5, SizesAssumption DEF Least, Shape
<1> HIDE DEF n
<1>7. /\ u \in Seq(Nat) /\ Len(u) = Len(s.unacked) + n
      /\ w \in Seq(Nat) /\ Len(w) = Len(s.recv_buf) - n
      /\ m \in Nat
  <2>1. /\ Take(s.recv_buf, n) \in Seq(Nat) /\ Len(Take(s.recv_buf, n)) = n
        /\ w \in Seq(Nat) /\ Len(w) = Len(s.recv_buf) - n
    BY <1>5, <1>6, TakeRest
  <2>2. u \in Seq(Nat) /\ Len(u) = Len(s.unacked) + Len(Take(s.recv_buf, n))
    BY <1>5, <2>1, Concat
  <2> QED
    BY <1>5, <1>6, <2>1, <2>2
<1>8. q \in ClientType
  <2>1. q = [s EXCEPT !.unacked = u, !.recv_buf = w, !.tcp_pending = m]
    BY <1>1 DEF ClientType
  <2> HIDE DEF q, u, w, m
  <2> QED
    BY <1>1, <1>7, <2>1, ZenonT(60) DEF ClientType
<1>9. /\ q.unacked = u /\ q.recv_buf = w /\ q.tcp_pending = m
      /\ Keeps(q, s, {"unacked", "recv_buf", "tcp_pending"})
  BY <1>1 DEF Keeps, Fields, ClientType
<1>m. Moved(q, s, s.unacked, s.recv_buf)
  BY <1>6, <1>9 DEF Moved, Keeps, Fields
<1> HIDE DEF q, u, w
<1>10. /\ Shape(q) /\ q.tcp_pending = Len(q.unacked)
  <2>1. q.buf = s.buf /\ q.sending = s.sending
    BY <1>9 DEF Keeps, Fields
  <2>2. Len(u) <= TCP_SND_BUF /\ Len(w) <= RECV_BUF_SIZE /\ m = Len(u)
    BY <1>1, <1>5, <1>6, <1>7, SizesAssumption DEF Shape
  <2> QED
    BY <1>1, <1>8, <1>9, <2>1, <2>2 DEF Shape
<1>11. CASE lwip = "fail"
  BY <1>1, <1>4, <1>11, AbortClient DEF Aborted
<1>12. CASE lwip # "fail" /\ q.recv_buf = <<>>
  <2>1. Len(s.recv_buf) > 0 /\ Len(w) = 0
    BY <1>1, <1>5, <1>7, <1>9, <1>12, Empty
  <2>2. q.tcp_pending > 0
    BY <1>1, <1>5, <1>6, <1>7, <1>9, <2>1
  <2>3. t = q /\ ~q.aborted
    BY <1>1, <1>4, <1>9, <1>12 DEF Keeps, Fields
  <2> QED
    BY <1>9, <1>10, <1>12, <1>m, <2>2, <2>3 DEF SentOut, Keeps, Fields
<1>13. CASE lwip # "fail" /\ q.recv_buf # <<>> /\ q.tcp_pending = 0
  <2>1. t = client_abort_client(q)
    BY <1>4, <1>13
  <2>2. Open(q)
    <3>1. ~q.receiving
      BY <1>9 DEF OutReady, Keeps, Fields
    <3> QED
      BY <1>1, <1>9, <1>10, <3>1 DEF Open, Sound, FrameOK, IdleOK, SendOK, RecvOK, Keeps, Fields
  <2>3. ClientInv(t) /\ t.aborted /\ t.pcb = "aborted" /\ GaveUp(t, q)
    BY <2>1, <2>2, AbortClient
  <2>4. q.buf = s.buf /\ q.socks_closed = s.socks_closed
    BY <1>9 DEF Keeps, Fields
  <2> QED
    BY <2>3, <2>4 DEF Aborted, GaveUp
<1>14. CASE lwip # "fail" /\ q.recv_buf # <<>> /\ q.tcp_pending # 0
  <2>1. t = [q EXCEPT !.waiting = TRUE]
    BY <1>4, <1>14
  <2>2. t \in ClientType
    BY <1>8, <2>1, ZenonT(60) DEF ClientType
  <2>3. t.waiting = TRUE /\ Keeps(t, q, {"waiting"})
    BY <1>8, <2>1 DEF Keeps, Fields, ClientType
  <2>4. q.tcp_pending \in Nat
    BY <1>8 DEF ClientType
  <2>5. /\ t.tcp_pending = Len(t.unacked) /\ t.tcp_pending > 0 /\ ~t.aborted
        /\ Keeps(t, s, {"recv_buf", "unacked", "tcp_pending", "waiting"})
    BY <1>1, <1>9, <1>10, <1>14, <2>3, <2>4 DEF Keeps, Fields
  <2>6. Moved(t, s, s.unacked, s.recv_buf)
    BY <1>m, <2>3 DEF Moved, Keeps, Fields
  <2> QED
    BY <1>10, <2>2, <2>3, <2>5, <2>6 DEF SentOut, Shape, Keeps, Fields
<1> QED
  BY <1>11, <1>12, <1>13, <1>14

LEMMA SendDone ==
    ASSUME NEW s, LiveInv(s), NEW n \in 1..s.sending, NEW closeOk \in BOOLEAN,
           NEW t, t = client_socks_send_handler_done(s, n, closeOk)
    PROVE  /\ ClientInv(t) /\ t.buf = Rest(s.buf, n) /\ t.pcb = s.pcb
           /\ t.socks_closed => t.buf = <<>> /\ t.pcb # "open"
           /\ t.pcb = "open" \/ t.live => Keeps(t, s, {"buf", "sending", "rcv_wnd"})
<1> DEFINE P == ~s.socks_closed /\ s.socks_up /\ n \in 1..Len(s.buf)
           w == Rest(s.buf, n)
           a == [s EXCEPT !.sending = 0, !.buf = Rest(@, n)]
           b == IF a.client_closed THEN a ELSE tcp_recved(a, n)
<1>1. /\ s \in ClientType /\ s.ok /\ Shape(s) /\ s.socks_up /\ ~s.socks_closed
      /\ s.buf \in Seq(Nat) /\ s.sending \in Nat /\ s.rcv_wnd \in 0..TCP_WND
  BY DEF LiveInv, Sound, Shape, IdleOK, ClientType
<1>2. n \in 1..Len(s.buf) /\ n \in 0..Len(s.buf) /\ n \in Nat
  BY <1>1 DEF Shape
<1>p. P = TRUE
  BY <1>1, <1>2
<1>3. Asserting(s, P) = s
  BY <1>1, <1>p, AssertTrue
<1>4. t = IF b.buf # <<>> THEN client_send_to_socks(b)
          ELSE IF b.client_closed THEN client_free_socks(b, closeOk) ELSE b
  BY <1>3 DEF client_socks_send_handler_done
<1>5. w \in Seq(Nat) /\ Len(w) = Len(s.buf) - n
  BY <1>1, <1>2, TakeRest
<1>6. a \in ClientType
  <2>1. a = [s EXCEPT !.sending = 0, !.buf = w]
    BY <1>1 DEF ClientType
  <2>2. s \in ClientType /\ 0 \in Nat /\ w \in Seq(Nat)
    BY <1>1, <1>5
  <2> HIDE DEF a, w
  <2> QED
    BY ONLY <2>1, <2>2, ZenonT(60) DEF ClientType
<1>7. a.buf = w /\ a.sending = 0 /\ Keeps(a, s, {"buf", "sending"})
  BY <1>1 DEF Keeps, Fields, ClientType
<1>w. w = Rest(s.buf, n)
  OBVIOUS
<1> HIDE DEF a, w, P
<1>8. /\ b \in ClientType /\ Keeps(b, a, {"rcv_wnd"})
      /\ ~s.client_closed => b.rcv_wnd + Len(w) <= TCP_WND
  <2>1. CASE a.client_closed
    BY <1>6, <1>7, <2>1 DEF Keeps, Fields
  <2>2. CASE ~a.client_closed
    <3>1. /\ a.pcb = "open" /\ a.rcv_wnd = s.rcv_wnd /\ a.ok
          /\ s.rcv_wnd + Len(s.buf) <= TCP_WND
      BY <1>1, <1>7, <2>2 DEF LiveInv, PcbOK, WindowOK, Keeps, Fields
    <3>2. a.rcv_wnd + n \in 0..TCP_WND /\ a.rcv_wnd + n + Len(w) <= TCP_WND
      BY <1>1, <1>2, <1>5, <3>1, SizesAssumption, SMTT(60)
    <3> DEFINE Q == a.pcb = "open"
               v == a.rcv_wnd + n
    <3>q. Q = TRUE /\ Least(v, TCP_WND) = v
      BY <3>1, <3>2 DEF Least
    <3>3. Asserting(a, Q) = a
      BY <1>6, <3>1, <3>q, AssertTrue
    <3>4. b = [a EXCEPT !.rcv_wnd = v]
      BY <1>6, <2>2, <3>q, <3>3 DEF tcp_recved, ClientType
    <3>5. v \in 0..TCP_WND
      BY <3>2
    <3>6. v + Len(w) <= TCP_WND
      BY <3>2
    <3> HIDE DEF b, v, Q
    <3>7. b \in ClientType
      BY ONLY <1>6, <3>4, <3>5, ZenonT(60) DEF ClientType
    <3> QED
      BY <1>6, <3>4, <3>6, <3>7 DEF Keeps, Fields, ClientType
  <2> QED
    BY <2>1, <2>2
<1> HIDE DEF b
<1>9. /\ b.buf = w /\ b.sending = 0 /\ Keeps(b, s, {"buf", "sending", "rcv_wnd"})
  BY <1>7, <1>8 DEF Keeps, Fields
<1>10. /\ Sound(b) /\ PcbOK(b) /\ WindowOK(b) /\ RecvOK(b) /\ AskingOK(b)
       /\ PendingOK(b) /\ WaitingOK(b)
  <2>1. Len(b.buf) <= TCP_WND /\ b.sending <= Len(b.buf)
    BY <1>1, <1>2, <1>5, <1>9, SizesAssumption, SMTT(60) DEF Shape
  <2>2. Sound(b)
    BY <1>8, <1>9, <2>1 DEF LiveInv, Sound, Shape, FrameOK, Keeps, Fields
  <2> QED
    BY <1>8, <1>9, <2>2 DEF LiveInv, PcbOK, WindowOK, RecvOK, PendingOK, WaitingOK, AskingOK, Keeps, Fields
<1>11. b.ok /\ ~b.socks_closed /\ b.socks_up
  BY <1>1, <1>9 DEF Keeps, Fields
<1>12. CASE b.buf # <<>>
  <2>1. t = client_send_to_socks(b)
    BY <1>4, <1>12
  <2>2. t \in ClientType /\ t.sending = Len(b.buf) /\ Keeps(t, b, {"sending"})
    BY <1>8, <1>9, <1>11, <1>12, <2>1, Sending
  <2>3. Len(b.buf) > 0 /\ Len(b.buf) \in Nat
    BY <1>5, <1>9, <1>12, Empty
  <2>4. Sound(t)
    BY <1>10, <2>2, <2>3 DEF Sound, Shape, FrameOK, Keeps, Fields
  <2>5. LiveInv(t)
    BY <1>10, <1>11, <1>12, <2>2, <2>3, <2>4 DEF LiveInv, PcbOK, WaitsOK, IdleOK, WindowOK,
       SendOK, RecvOK, PendingOK, WaitingOK, AskingOK, Keeps, Fields
  <2>6. t.buf = w /\ t.pcb = s.pcb /\ ~t.socks_closed /\ Keeps(t, s, {"buf", "sending", "rcv_wnd"})
    BY <1>9, <1>11, <2>2 DEF Keeps, Fields
  <2> QED
    BY <1>w, <2>5, <2>6 DEF ClientInv
<1>13. CASE b.buf = <<>> /\ b.client_closed
  <2>1. Working(b)
    BY <1>10, <1>11 DEF Working
  <2>2. b.pcb # "open"
    BY <1>10, <1>13 DEF PcbOK
  <2>3. ClientInv(t) /\ t.buf = b.buf /\ t.pcb = b.pcb /\ t.socks_closed
    BY <1>4, <1>13, <2>1, <2>2, FreeSocks
  <2>4. b.pcb = s.pcb
    BY <1>9 DEF Keeps, Fields
  <2>5. ~t.live
    BY <2>2, <2>3 DEF ClientInv, LiveInv, DeadInv, PcbOK, WaitsOK
  <2> QED
    BY <1>9, <1>13, <1>w, <2>2, <2>3, <2>4, <2>5
<1>14. CASE b.buf = <<>> /\ ~b.client_closed
  <2>1. LiveInv(b)
    BY <1>9, <1>10, <1>11, <1>14 DEF LiveInv, WaitsOK, IdleOK, SendOK
  <2>2. t = b /\ b.pcb = s.pcb
    BY <1>4, <1>9, <1>14 DEF Keeps, Fields
  <2> QED
    BY <1>9, <1>11, <1>w, <2>1, <2>2 DEF ClientInv
<1> QED
  BY <1>12, <1>13, <1>14

LEMMA RecvDone ==
    ASSUME NEW s, LiveInv(s), s.receiving, NEW lwip,
           NEW data \in Seq(Nat), Len(data) \in 1..RECV_BUF_SIZE,
           NEW t, t = client_socks_recv_handler_done(s, data, lwip)
    PROVE  /\ ClientInv(t)
           /\ s.pcb # "open" => Keeps(t, s, {"receiving"})
           /\ s.pcb = "open" => Aborted(t, s) \/ Moved(t, s, s.unacked, data)
<1> DEFINE P == ~s.socks_closed /\ s.socks_up /\ s.recv_buf = <<>>
           a == [s EXCEPT !.receiving = FALSE]
           o == [a EXCEPT !.recv_buf = data, !.waiting = FALSE]
           r == client_socks_recv_send_out(o, lwip)
<1>1. s \in ClientType /\ s.ok /\ Shape(s) /\ s.socks_up /\ ~s.socks_closed /\ s.recv_buf = <<>>
  BY DEF LiveInv, Sound, Shape, IdleOK, RecvOK
<1>p. P = TRUE
  BY <1>1
<1>2. Asserting(s, P) = s
  BY <1>1, <1>p, AssertTrue
<1>3. t = IF a.client_closed THEN a
          ELSE IF r.aborted \/ r.recv_buf # <<>> THEN r
          ELSE client_socks_recv_initiate(r)
  BY <1>2 DEF client_socks_recv_handler_done
<1>4. a \in ClientType
  BY ONLY <1>1, ZenonT(60) DEF ClientType
<1>5. a.receiving = FALSE /\ Keeps(a, s, {"receiving"})
  BY <1>1 DEF Keeps, Fields, ClientType
<1> HIDE DEF a, P
<1>6. Sound(a)
  BY <1>4, <1>5 DEF LiveInv, Sound, Shape, FrameOK, Keeps, Fields
<1>7. CASE a.client_closed
  <2>1. LiveInv(a)
    BY <1>5, <1>6, <1>7 DEF LiveInv, PcbOK, WaitsOK, IdleOK, WindowOK, SendOK, RecvOK,
       PendingOK, WaitingOK, AskingOK, Keeps, Fields
  <2>2. s.pcb # "open"
    BY <1>5, <1>7 DEF LiveInv, PcbOK, Keeps, Fields
  <2> QED
    BY <1>3, <1>5, <1>7, <2>1, <2>2 DEF ClientInv
<1>8. CASE ~a.client_closed
  <2>1. o \in ClientType
    BY <1>4, ZenonT(60) DEF ClientType
  <2>2. /\ o.recv_buf = data /\ o.waiting = FALSE /\ Keeps(o, a, {"recv_buf", "waiting"})
    BY <1>4 DEF Keeps, Fields, ClientType
  <2> HIDE DEF o
  <2>3. Keeps(o, s, {"receiving", "recv_buf", "waiting"}) /\ o.receiving = FALSE
    BY <1>5, <2>2 DEF Keeps, Fields
  <2>4. Len(data) > 0 /\ Len(data) <= RECV_BUF_SIZE /\ data # <<>>
    BY SizesAssumption
  <2>5. Sound(o)
    BY <1>6, <2>1, <2>2, <2>4 DEF Sound, Shape, FrameOK, Keeps, Fields
  <2>6. OutReady(o)
    BY <1>1, <1>5, <1>8, <2>2, <2>3, <2>4, <2>5 DEF LiveInv, OutReady, Open, PcbOK, IdleOK,
       SendOK, RecvOK, PendingOK, Keeps, Fields
  <2>7. (ClientInv(r) /\ Aborted(r, o)) \/ SentOut(r, o)
    BY <2>6, SendOut
  <2>8. t = IF r.aborted \/ r.recv_buf # <<>> THEN r ELSE client_socks_recv_initiate(r)
    BY <1>3, <1>8
  <2>p. s.pcb = "open"
    BY <1>5, <1>8 DEF LiveInv, PcbOK, Keeps, Fields
  <2> HIDE DEF r
  <2>9. CASE ClientInv(r) /\ Aborted(r, o)
    <3>1. o.buf = s.buf /\ o.socks_closed = s.socks_closed
      BY <2>3 DEF Keeps, Fields
    <3> QED
      BY <2>8, <2>9, <2>p, <3>1 DEF Aborted, GaveUp
  <2>10. CASE SentOut(r, o)
    <3>1. Keeps(r, s, {"receiving", "recv_buf", "waiting", "unacked", "tcp_pending"})
      BY <2>3, <2>10 DEF SentOut, Keeps, Fields
    <3>m. Moved(r, s, s.unacked, data)
      <4>1. o.unacked = s.unacked
        BY <2>3 DEF Keeps, Fields
      <4> QED
        BY <2>2, <2>3, <2>10, <4>1 DEF SentOut, Moved, Keeps, Fields
    <3>2. r \in ClientType /\ r.receiving = FALSE /\ ~r.aborted
      BY <2>3, <2>10 DEF SentOut, Shape, Keeps, Fields
    <3>3. Sound(r)
      BY <2>10, <3>1 DEF LiveInv, SentOut, Sound, FrameOK, Keeps, Fields
    <3>4. ~r.client_closed /\ ~r.socks_closed /\ r.socks_up /\ r.ok
      BY <1>1, <1>5, <1>8, <3>1 DEF Keeps, Fields
    <3>5. /\ PcbOK(r) /\ WaitsOK(r) /\ IdleOK(r) /\ WindowOK(r) /\ SendOK(r)
          /\ PendingOK(r) /\ WaitingOK(r)
      BY <2>10, <3>1, <3>4 DEF LiveInv, SentOut, PcbOK, WaitsOK, IdleOK, WindowOK, SendOK,
         PendingOK, WaitingOK, AskingOK, Keeps, Fields
    <3>6. CASE r.recv_buf # <<>>
      BY <2>8, <2>p, <3>2, <3>3, <3>5, <3>6, <3>m DEF ClientInv, LiveInv, RecvOK, AskingOK
    <3>7. CASE r.recv_buf = <<>>
      <4>1. t = client_socks_recv_initiate(r)
        BY <2>8, <3>2, <3>7
      <4>2. t \in ClientType /\ t.receiving /\ Keeps(t, r, {"receiving"})
        BY <3>2, <3>4, <3>7, <4>1, Receiving
      <4>3. Sound(t)
        BY <3>3, <4>2 DEF Sound, Shape, FrameOK, Keeps, Fields
      <4>4. Moved(t, s, s.unacked, data)
        BY <3>m, <4>2 DEF Moved, Keeps, Fields
      <4> QED
        BY <2>p, <3>4, <3>5, <3>7, <4>2, <4>3, <4>4 DEF ClientInv, LiveInv, PcbOK, WaitsOK, IdleOK,
           WindowOK, SendOK, RecvOK, PendingOK, WaitingOK, AskingOK, Keeps, Fields
    <3> QED
      BY <3>6, <3>7
  <2> QED
    BY <2>7, <2>9, <2>10
<1> QED
  BY <1>7, <1>8

LEMMA Up ==
    ASSUME NEW s, LiveInv(s), ~s.socks_up, ~s.socks_closed, NEW t, t = client_socks_up(s)
    PROVE  /\ ClientInv(t) /\ t.recv_buf = <<>> /\ t.socks_up
           /\ Keeps(t, s, {"recv_buf", "tcp_pending", "socks_up", "cb", "sending", "receiving"})
<1> DEFINE P == ~s.socks_closed /\ ~s.socks_up
           e == IF s.client_closed THEN s.cb ELSE s.cb \cup {"sent"}
           a == [s EXCEPT !.recv_buf = <<>>, !.tcp_pending = 0, !.socks_up = TRUE,
                          !.cb = IF s.client_closed THEN @ ELSE @ \cup {"sent"}]
           b == IF a.buf # <<>> THEN client_send_to_socks(a) ELSE a
<1>1. s \in ClientType /\ s.ok /\ Shape(s) /\ s.sending = 0 /\ ~s.receiving
  BY DEF LiveInv, Sound, Shape, IdleOK
<1>p. P = TRUE
  OBVIOUS
<1>2. Asserting(s, P) = s
  BY <1>1, <1>p, AssertTrue
<1>3. t = IF b.client_closed THEN b ELSE client_socks_recv_initiate(b)
  BY <1>2 DEF client_socks_up
<1>4. e \in SUBSET Callbacks /\ <<>> \in Seq(Nat) /\ 0 \in Nat
  BY <1>1 DEF ClientType, Callbacks
<1>5. a \in ClientType
  <2>1. a = [s EXCEPT !.recv_buf = <<>>, !.tcp_pending = 0, !.socks_up = TRUE, !.cb = e]
    BY <1>1 DEF ClientType
  <2> HIDE DEF a, e
  <2> QED
    BY ONLY <1>1, <1>4, <2>1, ZenonT(60) DEF ClientType
<1>6. /\ a.recv_buf = <<>> /\ a.tcp_pending = 0 /\ a.socks_up = TRUE /\ a.cb = e
      /\ Keeps(a, s, {"recv_buf", "tcp_pending", "socks_up", "cb"})
  BY <1>1 DEF Keeps, Fields, ClientType
<1> HIDE DEF a, P
<1>7. Sound(a)
  <2>1. Len(a.recv_buf) = 0
    BY <1>6
  <2> QED
    BY <1>5, <1>6, <2>1, SizesAssumption DEF LiveInv, Sound, Shape, FrameOK, Keeps, Fields
<1>8. /\ b \in ClientType /\ Keeps(b, a, {"sending"})
      /\ b.sending = IF a.buf # <<>> THEN Len(a.buf) ELSE 0
  <2>1. CASE a.buf # <<>>
    <3>1. a.ok /\ ~a.socks_closed /\ a.socks_up /\ a.sending = 0
      BY <1>1, <1>6 DEF Keeps, Fields
    <3> QED
      BY <1>5, <2>1, <3>1, Sending
  <2>2. CASE a.buf = <<>>
    BY <1>1, <1>5, <1>6, <2>2 DEF Keeps, Fields
  <2> QED
    BY <2>1, <2>2
<1> HIDE DEF b
<1>9. a.buf \in Seq(Nat) /\ (a.buf # <<>> <=> Len(a.buf) > 0) /\ Len(a.buf) \in Nat
  <2>1. a.buf \in Seq(Nat)
    BY <1>5 DEF ClientType
  <2> QED
    BY <2>1, Empty
<1>10. Sound(b)
  BY <1>7, <1>8, <1>9 DEF Sound, Shape, FrameOK, Keeps, Fields
<1>11. /\ Keeps(b, s, {"recv_buf", "tcp_pending", "socks_up", "cb", "sending"})
       /\ b.recv_buf = <<>> /\ b.tcp_pending = 0 /\ b.socks_up /\ b.cb = e
  BY <1>6, <1>8 DEF Keeps, Fields
<1>12. /\ PcbOK(b) /\ WaitsOK(b) /\ IdleOK(b) /\ WindowOK(b)
       /\ PendingOK(b) /\ WaitingOK(b)
  BY <1>11 DEF LiveInv, PcbOK, WaitsOK, IdleOK, WindowOK, PendingOK, WaitingOK, AskingOK, Keeps, Fields
<1>13. SendOK(b)
  BY <1>8, <1>9 DEF SendOK, Keeps, Fields
<1>14. CASE b.client_closed
  <2>1. RecvOK(b) /\ AskingOK(b)
    BY <1>11, <1>14 DEF RecvOK, AskingOK
  <2> QED
    BY <1>3, <1>10, <1>11, <1>12, <1>13, <1>14, <2>1 DEF ClientInv, LiveInv, Keeps, Fields
<1>15. CASE ~b.client_closed
  <2>1. b.ok /\ ~b.socks_closed /\ b.socks_up /\ b.recv_buf = <<>> /\ ~b.receiving
    BY <1>1, <1>11 DEF Keeps, Fields
  <2>2. t \in ClientType /\ t.receiving /\ Keeps(t, b, {"receiving"})
    BY <1>3, <1>8, <1>15, <2>1, Receiving
  <2>3. Sound(t)
    BY <1>10, <2>2 DEF Sound, Shape, FrameOK, Keeps, Fields
  <2>4. /\ t.recv_buf = <<>> /\ t.socks_up
        /\ Keeps(t, s, {"recv_buf", "tcp_pending", "socks_up", "cb", "sending", "receiving"})
    BY <1>11, <2>1, <2>2 DEF Keeps, Fields
  <2> QED
    BY <1>11, <1>12, <1>13, <1>15, <2>4, <2>1, <2>2, <2>3 DEF ClientInv, LiveInv, PcbOK, WaitsOK,
       IdleOK, WindowOK, SendOK, RecvOK, PendingOK, WaitingOK, AskingOK, Keeps, Fields
<1> QED
  BY <1>14, <1>15

LEMMA EnterFields ==
    ASSUME NEW s \in ClientType, NEW name \in {"accept", "recv", "sent"},
           NEW t, t = DEAD_ENTER(s, name)
    PROVE  /\ t \in ClientType
           /\ t.callback = name /\ t.dead = 0 /\ t.dead_aborted = "frame"
           /\ Keeps(t, s, {"callback", "sync", "dead", "dead_aborted"})
<1>1. 0 \in {-1, 0, 1} /\ name \in {"none", "accept", "recv", "sent"} /\ s \in ClientType
  OBVIOUS
<1>2. t = [s EXCEPT !.callback = name, !.sync = FALSE, !.dead = 0, !.dead_aborted = "frame"]
  BY DEF DEAD_ENTER
<1>3. t \in ClientType
  BY ONLY <1>1, <1>2, ZenonT(60) DEF ClientType
<1> QED
  BY <1>2, <1>3 DEF Keeps, Fields, ClientType

(* Entering a callback on an open pcb: no other callback is on the stack,  *)
(* so the client's pointer is free.                                        *)
LEMMA Enter ==
    ASSUME NEW s, LiveInv(s), ~s.client_closed,
           NEW name \in {"recv", "sent"}, NEW t, t = DEAD_ENTER(s, name)
    PROVE  /\ LiveInv(t) /\ t.dead = 0
           /\ Keeps(t, s, {"callback", "sync", "dead", "dead_aborted"})
<1>1. s \in ClientType /\ s.pcb = "open" /\ s.live
  BY DEF LiveInv, Sound, Shape, PcbOK
<1>2. /\ t \in ClientType
      /\ t.callback = name /\ t.dead = 0 /\ t.dead_aborted = "frame"
      /\ Keeps(t, s, {"callback", "sync", "dead", "dead_aborted"})
  BY <1>1, EnterFields
<1>3. Sound(t)
  BY <1>1, <1>2 DEF LiveInv, Sound, Shape, FrameOK, Keeps, Fields
<1> QED
  BY <1>2, <1>3 DEF LiveInv, PcbOK, WaitsOK, IdleOK, WindowOK, SendOK, RecvOK, PendingOK,
     WaitingOK, AskingOK, Keeps, Fields

LEMMA SetSync ==
    ASSUME NEW s, LiveInv(s), NEW t, t = [s EXCEPT !.sync = TRUE]
    PROVE  LiveInv(t) /\ Keeps(t, s, {"sync"})
<1>1. s \in ClientType
  BY DEF LiveInv, Sound, Shape
<1>2. t \in ClientType
  BY ONLY <1>1, t = [s EXCEPT !.sync = TRUE], ZenonT(60) DEF ClientType
<1>3. Keeps(t, s, {"sync"})
  BY <1>1 DEF Keeps, Fields, ClientType
<1>4. LiveInv(t)
  BY <1>2, <1>3 DEF LiveInv, Sound, Shape, FrameOK, PcbOK, WaitsOK, IdleOK, WindowOK, SendOK,
     RecvOK, PendingOK, WaitingOK, AskingOK, Keeps, Fields
<1> QED
  BY <1>3, <1>4

LEMMA RecvFunc ==
    ASSUME NEW s, LiveInv(s), "recv" \in s.cb,
           NEW data \in Seq(Nat), Len(data) > 0,
           s.rcv_wnd + Len(s.buf) + Len(data) <= TCP_WND,
           NEW t, t = client_recv_func(s, data)
    PROVE  /\ ClientInv(t) /\ t.buf = s.buf \o data
           /\ Keeps(t, s, {"callback", "sync", "dead", "dead_aborted", "buf", "sending"})
<1> DEFINE e == DEAD_ENTER(s, "recv")
           P == ~s.client_closed /\ Len(data) > 0
           w == s.buf \o data
           b == [e EXCEPT !.buf = @ \o data]
<1>1. /\ s \in ClientType /\ s.ok /\ Shape(s) /\ ~s.client_closed /\ ~s.socks_closed
      /\ s.buf \in Seq(Nat) /\ s.rcv_wnd \in 0..TCP_WND
  BY DEF LiveInv, Sound, Shape, PcbOK, ClientType
<1>2. LiveInv(e) /\ Keeps(e, s, {"callback", "sync", "dead", "dead_aborted"})
  BY <1>1, Enter
<1> HIDE DEF e
<1>p. P = TRUE
  BY <1>1
<1>3. e \in ClientType /\ e.ok /\ Sound(e)
  BY <1>2 DEF LiveInv, Sound, Shape
<1>4. Asserting(e, P) = e
  BY <1>p, <1>3, AssertTrue
<1>5. Len(data) \in Nat /\ Len(s.buf) \in Nat /\ Len(data) <= TCP_WND - Len(s.buf)
  BY <1>1, SizesAssumption
<1>6. e.buf = s.buf
  BY <1>2 DEF Keeps, Fields
<1>7. t = IF Len(b.buf) = Len(data) /\ b.socks_up
          THEN [client_send_to_socks(b) EXCEPT !.sync = TRUE] ELSE b
  <2>1. ~(Len(data) > TCP_WND - Len(e.buf))
    BY <1>5, <1>6, SizesAssumption
  <2>2. t = IF Len(data) > TCP_WND - Len(e.buf)
            THEN [e EXCEPT !.rcv_wnd = @ + Len(data)]
            ELSE IF Len(b.buf) = Len(data) /\ b.socks_up
            THEN [client_send_to_socks(b) EXCEPT !.sync = TRUE] ELSE b
    BY <1>4 DEF client_recv_func, e
  <2> QED
    BY <2>1, <2>2
<1>8. w \in Seq(Nat) /\ Len(w) = Len(s.buf) + Len(data)
  BY <1>1, Concat
<1>9. b \in ClientType
  <2>1. b = [e EXCEPT !.buf = w]
    BY <1>3, <1>6 DEF ClientType
  <2>2. w \in Seq(Nat)
    BY <1>8
  <2> HIDE DEF b, w
  <2> QED
    BY ONLY <1>3, <2>1, <2>2, ZenonT(60) DEF ClientType
<1>10. b.buf = w /\ Keeps(b, e, {"buf"})
  BY <1>3, <1>6 DEF Keeps, Fields, ClientType
<1>w. w = s.buf \o data
  OBVIOUS
<1> HIDE DEF b, w, P
<1>11. w # <<>> /\ Len(w) > 0 /\ Len(w) <= TCP_WND /\ s.rcv_wnd + Len(w) <= TCP_WND
       /\ Len(w) >= Len(s.buf) /\ (Len(w) = Len(data) <=> s.buf = <<>>)
  <2>1. s.buf # <<>> <=> Len(s.buf) > 0
    BY <1>1, Empty
  <2>2. w # <<>> <=> Len(w) > 0
    BY <1>8, Empty
  <2> DEFINE k == Len(data)
             l == Len(s.buf)
             x == Len(w)
  <2>3. k \in Nat /\ l \in Nat /\ x = l + k /\ k > 0 /\ s.rcv_wnd \in Nat /\ TCP_WND \in Nat
        /\ s.rcv_wnd + l + k <= TCP_WND
    BY <1>1, <1>5, <1>8, SizesAssumption
  <2> HIDE DEF k, l, x
  <2>4. x > 0 /\ x <= TCP_WND /\ s.rcv_wnd + x <= TCP_WND /\ x >= l /\ (x = k <=> ~(l > 0))
    BY <2>3
  <2> QED
    BY <2>1, <2>2, <2>4 DEF k, l, x
<1>12. Keeps(b, s, {"callback", "sync", "dead", "dead_aborted", "buf"})
  BY <1>2, <1>10 DEF Keeps, Fields
<1>13. Sound(b)
  <2>1. s.sending <= Len(w)
    BY <1>1, <1>5, <1>8 DEF Shape, ClientType
  <2> QED
    BY <1>3, <1>9, <1>10, <1>11, <1>12, <2>1 DEF Sound, Shape, FrameOK, Keeps, Fields
<1>14. /\ PcbOK(b) /\ WaitsOK(b) /\ IdleOK(b) /\ WindowOK(b)
       /\ RecvOK(b) /\ AskingOK(b) /\ PendingOK(b) /\ WaitingOK(b)
  BY <1>1, <1>10, <1>11, <1>12 DEF LiveInv, PcbOK, WaitsOK, IdleOK, WindowOK, RecvOK, PendingOK,
     WaitingOK, AskingOK, Keeps, Fields
<1>15. CASE s.buf = <<>> /\ b.socks_up
  <2> DEFINE d == client_send_to_socks(b)
  <2>1. t = [d EXCEPT !.sync = TRUE]
    BY <1>7, <1>10, <1>11, <1>15
  <2>2. b.ok /\ ~b.socks_closed /\ b.socks_up /\ b.buf # <<>> /\ b.sending = 0
    BY <1>1, <1>10, <1>11, <1>12, <1>15 DEF LiveInv, Sound, SendOK, Shape, Keeps, Fields, ClientType
  <2>3. d \in ClientType /\ d.sending = Len(w) /\ Keeps(d, b, {"sending"})
    BY <1>9, <1>10, <2>2, Sending
  <2> HIDE DEF d
  <2>4. LiveInv(d)
    <3>1. Sound(d)
      BY <1>10, <1>13, <2>3, SMTT(60) DEF Sound, Shape, FrameOK, Keeps, Fields
    <3> QED
      BY <1>10, <1>11, <1>14, <2>2, <2>3, <3>1 DEF LiveInv, PcbOK, WaitsOK, IdleOK, WindowOK, SendOK,
         RecvOK, PendingOK, WaitingOK, AskingOK, Keeps, Fields
  <2>5. LiveInv(t) /\ Keeps(t, d, {"sync"})
    BY <2>1, <2>4, SetSync
  <2> QED
    BY <1>10, <1>12, <1>w, <2>3, <2>5 DEF ClientInv, Keeps, Fields
<1>16. CASE ~(s.buf = <<>> /\ b.socks_up)
  <2>1. t = b
    BY <1>7, <1>10, <1>11, <1>16
  <2>2. SendOK(b)
    BY <1>10, <1>11, <1>12, <1>16 DEF LiveInv, SendOK, Keeps, Fields
  <2> QED
    BY <1>10, <1>12, <1>13, <1>14, <1>w, <2>1, <2>2 DEF ClientInv, LiveInv, Keeps, Fields
<1> QED
  BY <1>15, <1>16

LEMMA SentFunc ==
    ASSUME NEW s, LiveInv(s), "sent" \in s.cb, NEW n \in 1..Len(s.unacked),
           NEW lwip, NEW closeOk \in BOOLEAN,
           NEW t, t = client_sent_func([s EXCEPT !.unacked = Rest(@, n)], n, lwip, closeOk)
    PROVE  /\ ClientInv(t)
           /\ \/ Aborted(t, s) \/ Moved(t, s, Rest(s.unacked, n), s.recv_buf)
              \/ GaveUp(t, s) /\ s.recv_buf = <<>> /\ n = Len(s.unacked)
<1> DEFINE v == Rest(s.unacked, n)
           u == [s EXCEPT !.unacked = Rest(@, n)]
           e == DEAD_ENTER(u, "sent")
           P == ~u.client_closed /\ u.socks_up /\ n \in 1..u.tcp_pending
           a == [e EXCEPT !.tcp_pending = @ - n]
           o == [Asserting(a, a.waiting) EXCEPT !.waiting = FALSE]
           r == client_socks_recv_send_out(o, lwip)
           p == Asserting(r, r.tcp_pending > 0)
<1>1. /\ s \in ClientType /\ s.ok /\ Shape(s) /\ ~s.client_closed /\ s.socks_up
      /\ s.pcb = "open" /\ s.live /\ ~s.aborted /\ s.unacked \in Seq(Nat)
      /\ s.tcp_pending = Len(s.unacked) /\ n \in 0..Len(s.unacked) /\ n \in Nat
  BY DEF LiveInv, Sound, Shape, PcbOK, PendingOK, ClientType
<1>2. v \in Seq(Nat) /\ Len(v) = Len(s.unacked) - n
  BY <1>1, TakeRest
<1>3. u \in ClientType
  <2>1. u = [s EXCEPT !.unacked = v]
    BY <1>1 DEF ClientType
  <2>2. v \in Seq(Nat)
    BY <1>2
  <2> HIDE DEF u, v
  <2> QED
    BY ONLY <1>1, <2>1, <2>2, ZenonT(60) DEF ClientType
<1>4. u.unacked = v /\ Keeps(u, s, {"unacked"})
  BY <1>1 DEF Keeps, Fields, ClientType
<1>5. t = LET x == [Asserting(e, P) EXCEPT !.tcp_pending = @ - n]
              y == client_socks_recv_send_out(
                       [Asserting(x, x.waiting) EXCEPT !.waiting = FALSE], lwip)
              z == Asserting(y, y.tcp_pending > 0)
          IN  IF x.recv_buf # <<>>
              THEN IF y.aborted THEN y
                   ELSE IF z.recv_buf = <<>> /\ ~z.socks_closed
                   THEN [client_socks_recv_initiate(z) EXCEPT !.sync = TRUE]
                   ELSE z
              ELSE IF x.socks_closed /\ x.tcp_pending = 0
              THEN client_free_client(x, closeOk) ELSE x
  BY DEF client_sent_func
<1>v. v = Rest(s.unacked, n)
  OBVIOUS
<1> HIDE DEF u, v
<1>6. /\ e \in ClientType
      /\ e.callback = "sent" /\ e.dead = 0 /\ e.dead_aborted = "frame"
      /\ Keeps(e, u, {"callback", "sync", "dead", "dead_aborted"})
  BY <1>3, EnterFields
<1> HIDE DEF e
<1>7. P = TRUE /\ e.ok
  BY <1>1, <1>4, <1>6 DEF Keeps, Fields
<1>8. Asserting(e, P) = e
  BY <1>6, <1>7, AssertTrue
<1>9. t = IF a.recv_buf # <<>>
          THEN IF r.aborted THEN r
               ELSE IF p.recv_buf = <<>> /\ ~p.socks_closed
               THEN [client_socks_recv_initiate(p) EXCEPT !.sync = TRUE] ELSE p
          ELSE IF a.socks_closed /\ a.tcp_pending = 0
          THEN client_free_client(a, closeOk) ELSE a
  BY <1>5, <1>8
<1> HIDE DEF P
<1>10. /\ a \in ClientType /\ a.tcp_pending = Len(a.unacked)
       /\ Keeps(a, e, {"tcp_pending"})
  <2> DEFINE k == e.tcp_pending - n
  <2>0. e.tcp_pending = s.tcp_pending
    BY <1>4, <1>6 DEF Keeps, Fields
  <2>1. k = Len(v) /\ k \in Nat
    BY <1>1, <1>2, <2>0
  <2>k. k \in Nat
    BY <2>1
  <2>2. a = [e EXCEPT !.tcp_pending = k]
    BY <1>6 DEF ClientType
  <2> HIDE DEF a, k
  <2>3. a \in ClientType
    BY ONLY <1>6, <2>k, <2>2, ZenonT(60) DEF ClientType
  <2>4. a.tcp_pending = k /\ Keeps(a, e, {"tcp_pending"})
    BY <1>6, <2>2 DEF Keeps, Fields, ClientType
  <2> QED
    BY <1>4, <1>6, <2>1, <2>3, <2>4 DEF Keeps, Fields
<1> HIDE DEF a
<1>11. /\ Keeps(a, s, {"tcp_pending", "unacked", "callback", "sync", "dead", "dead_aborted"})
       /\ a.unacked = v /\ a.callback = "sent" /\ a.dead = 0 /\ a.dead_aborted = "frame"
  BY <1>4, <1>6, <1>10 DEF Keeps, Fields
<1>12. Sound(a)
  <2>1. Len(a.unacked) <= TCP_SND_BUF
    BY <1>1, <1>2, <1>11, SizesAssumption DEF Shape
  <2>2. a.pcb = "open" /\ a.live /\ ~a.aborted
    BY <1>1, <1>11 DEF Keeps, Fields
  <2>3. FrameOK(a)
    BY <1>11, <2>2 DEF FrameOK
  <2>4. Shape(a)
    BY <1>1, <1>10, <1>11, <2>1 DEF Shape, Keeps, Fields
  <2> QED
    BY <1>11, <2>2, <2>3, <2>4 DEF LiveInv, Sound, Keeps, Fields
<1>13. /\ PcbOK(a) /\ IdleOK(a) /\ WindowOK(a) /\ SendOK(a) /\ RecvOK(a) /\ AskingOK(a)
       /\ PendingOK(a)
  BY <1>1, <1>10, <1>11, ZenonT(60) DEF LiveInv, PcbOK, IdleOK, WindowOK, SendOK, RecvOK,
     AskingOK, PendingOK, Keeps, Fields
<1>14. /\ ~a.client_closed /\ a.pcb = "open" /\ a.socks_up /\ a.ok
  BY <1>1, <1>11 DEF Keeps, Fields
<1>s. /\ a.buf = s.buf /\ a.socks_closed = s.socks_closed /\ a.recv_buf = s.recv_buf
      /\ a.recv_buf \in Seq(Nat)
  BY <1>10, <1>11 DEF Keeps, Fields, ClientType
<1>15. CASE a.recv_buf # <<>>
  <2>1. a.waiting = TRUE
    <3>1. a.waiting = s.waiting /\ a.recv_buf = s.recv_buf
      BY <1>11 DEF Keeps, Fields
    <3>2. s.waiting
      BY <1>1, <1>15, <3>1 DEF LiveInv, WaitingOK, AskingOK
    <3>3. a.waiting \in BOOLEAN
      BY <1>10 DEF ClientType
    <3> QED
      BY <3>1, <3>2, <3>3
  <2>2. Asserting(a, a.waiting) = a
    BY <1>10, <1>14, <2>1, AssertTrue
  <2>3. o = [a EXCEPT !.waiting = FALSE]
    BY <2>2
  <2> HIDE DEF o
  <2>4. o \in ClientType
    BY ONLY <1>10, <2>3, ZenonT(60) DEF ClientType
  <2>5. o.waiting = FALSE /\ Keeps(o, a, {"waiting"})
    BY <1>10, <2>3 DEF Keeps, Fields, ClientType
  <2>6. OutReady(o)
    <3>1. Sound(o)
      BY <1>12, <2>4, <2>5 DEF Sound, Shape, FrameOK, Keeps, Fields
    <3>2. IdleOK(o) /\ SendOK(o) /\ RecvOK(o)
      BY <1>13, <2>5 DEF IdleOK, SendOK, RecvOK, Keeps, Fields
    <3>3. /\ ~o.client_closed /\ o.pcb = "open" /\ o.socks_up /\ ~o.waiting
          /\ o.recv_buf # <<>> /\ o.tcp_pending = Len(o.unacked) /\ ~o.receiving
      BY <1>10, <1>13, <1>14, <1>15, <2>5 DEF RecvOK, Keeps, Fields
    <3> QED
      BY <3>1, <3>2, <3>3 DEF OutReady, Open
  <2>7. (ClientInv(r) /\ Aborted(r, o)) \/ SentOut(r, o)
    BY <2>6, SendOut
  <2> HIDE DEF r
  <2>8. CASE ClientInv(r) /\ Aborted(r, o)
    <3>1. o.buf = s.buf /\ o.socks_closed = s.socks_closed
      BY <1>s, <2>5 DEF Keeps, Fields
    <3>2. Aborted(r, s)
      BY <2>8, <3>1 DEF Aborted, GaveUp
    <3> QED
      BY <1>9, <1>15, <2>8, <3>2 DEF Aborted
  <2>9. CASE SentOut(r, o)
    <3>1. Keeps(r, a, {"recv_buf", "waiting", "unacked", "tcp_pending"})
      BY <2>5, <2>9 DEF SentOut, Keeps, Fields
    <3>m. Moved(r, s, Rest(s.unacked, n), s.recv_buf)
      <4>1. o.unacked = v /\ o.recv_buf = s.recv_buf
        BY <1>11, <1>s, <2>5 DEF Keeps, Fields
      <4>2. Keeps(r, s, Fields \ {"pcb", "buf", "socks_closed", "socks_up", "live"})
        BY <1>11, <3>1 DEF Keeps, Fields
      <4>3. \E k \in 0..Len(o.recv_buf) :
               r.unacked = o.unacked \o Take(o.recv_buf, k) /\ r.recv_buf = Rest(o.recv_buf, k)
        BY <2>9 DEF SentOut, Moved
      <4> QED
        BY <1>v, <4>1, <4>2, <4>3 DEF Moved
    <3>2. r \in ClientType /\ ~r.receiving /\ ~r.aborted /\ r.ok /\ r.tcp_pending > 0
          /\ ~r.client_closed /\ r.socks_up
      BY <1>13, <1>14, <1>15, <2>9, <3>1 DEF SentOut, Shape, RecvOK, Keeps, Fields
    <3>3. p = r
      BY <3>2, AssertTrue
    <3>4. Sound(r)
      BY <1>12, <2>9, <3>1 DEF SentOut, Sound, FrameOK, Keeps, Fields
    <3>5. /\ PcbOK(r) /\ WaitsOK(r) /\ IdleOK(r) /\ WindowOK(r) /\ SendOK(r)
          /\ PendingOK(r) /\ WaitingOK(r) /\ RecvOK(r)
      BY <1>13, <2>9, <3>1, <3>2 DEF SentOut, PcbOK, WaitsOK, IdleOK, WindowOK, SendOK,
         PendingOK, WaitingOK, AskingOK, RecvOK, Keeps, Fields
    <3>6. CASE ~(r.recv_buf = <<>> /\ ~r.socks_closed)
      <4>1. LiveInv(r)
        BY <3>2, <3>4, <3>5, <3>6 DEF LiveInv, AskingOK
      <4> QED
        BY <1>9, <1>15, <3>2, <3>3, <3>6, <3>m, <4>1 DEF ClientInv
    <3>7. CASE r.recv_buf = <<>> /\ ~r.socks_closed
      <4> DEFINE d == client_socks_recv_initiate(r)
      <4>1. t = [d EXCEPT !.sync = TRUE]
        BY <1>9, <1>15, <3>2, <3>3, <3>7
      <4>2. d \in ClientType /\ d.receiving /\ Keeps(d, r, {"receiving"})
        BY <3>2, <3>7, Receiving
      <4> HIDE DEF d
      <4>3. Sound(d)
        BY <3>4, <4>2 DEF Sound, Shape, FrameOK, Keeps, Fields
      <4>4. LiveInv(d)
        BY <3>2, <3>5, <3>7, <4>2, <4>3 DEF LiveInv, PcbOK, WaitsOK, IdleOK, WindowOK,
           SendOK, RecvOK, PendingOK, WaitingOK, AskingOK, Keeps, Fields
      <4>5. LiveInv(t) /\ Keeps(t, d, {"sync"})
        BY <4>1, <4>4, SetSync
      <4>6. Moved(t, s, Rest(s.unacked, n), s.recv_buf)
        BY <3>m, <4>2, <4>5 DEF Moved, Keeps, Fields
      <4> QED
        BY <4>5, <4>6 DEF ClientInv
    <3> QED
      BY <3>6, <3>7
  <2> QED
    BY <2>7, <2>8, <2>9
<1>16. CASE a.recv_buf = <<>> /\ a.socks_closed /\ a.tcp_pending = 0
  <2>1. Open(a)
    BY <1>12, <1>13, <1>14 DEF Open
  <2>2. ClientInv(t) /\ GaveUp(t, a)
    BY <1>9, <1>16, <2>1, FreeClient
  <2>3. GaveUp(t, s)
    BY <1>s, <2>2 DEF GaveUp
  <2>4. n = Len(s.unacked)
    BY <1>1, <1>2, <1>10, <1>11, <1>16
  <2> QED
    BY <1>16, <1>s, <2>2, <2>3, <2>4
<1>17. CASE a.recv_buf = <<>> /\ ~(a.socks_closed /\ a.tcp_pending = 0)
  <2>1. a.tcp_pending \in Nat
    BY <1>10 DEF ClientType
  <2>2. LiveInv(a)
    BY <1>12, <1>13, <1>14, <1>17, <2>1 DEF LiveInv, WaitsOK, WaitingOK, AskingOK
  <2>3. v \o Take(s.recv_buf, 0) = v /\ Rest(s.recv_buf, 0) = s.recv_buf /\ 0 \in 0..Len(s.recv_buf)
    <3>1. Take(s.recv_buf, 0) = <<>> /\ Rest(s.recv_buf, 0) = <<>>
      BY <1>17, <1>s DEF Take, Rest
    <3> QED
      BY <1>2, <1>17, <1>s, <3>1
  <2>4. Moved(a, s, Rest(s.unacked, n), s.recv_buf)
    BY <1>11, <1>s, <1>v, <2>3 DEF Moved, Keeps, Fields
  <2> QED
    BY <1>9, <1>17, <2>2, <2>4 DEF ClientInv
<1> QED
  BY <1>15, <1>16, <1>17

-----------------------------------------------------------------------------
(* The inductive invariant, and that every action preserves it.            *)
IInv ==
    /\ ClientInv(c)
    /\ upRecv \in 0..MaxUp /\ downRecv \in 0..MaxDown
    /\ toSocks \in Seq(Nat) /\ acked \in Seq(Nat)
    /\ ended \subseteq Endings

LEMMA InitInv == Init => IInv
<1> SUFFICES ASSUME Init PROVE IInv
  OBVIOUS
<1>1. /\ <<>> \in Seq(Nat) /\ 0 \in Nat /\ 0 \in 0..1 /\ 0 \in 0..TCP_WND
      /\ 0 \in {-1, 0, 1} /\ {} \in SUBSET Callbacks
  BY SizesAssumption
<1>2. NoClient \in ClientType
  BY ONLY <1>1, Zenon DEF NoClient, ClientType
<1>3. c = NoClient
  BY DEF Init
<1>4. /\ ~c.live /\ c.ok /\ c.num_clients = 0 /\ c.pcb = "none" /\ c.cb = {}
      /\ c.sending = 0 /\ ~c.receiving /\ c.callback = "none" /\ c.dead = 0
      /\ c.buf = <<>> /\ c.recv_buf = <<>> /\ c.unacked = <<>>
  BY <1>3 DEF NoClient
<1>5. DeadInv(c)
  BY <1>2, <1>3, <1>4, SizesAssumption DEF DeadInv, Shape, FrameOK
<1> QED
  BY <1>5, SizesAssumption DEF Init, IInv, ClientInv

LEMMA AcceptInv == ASSUME IInv, listener_accept_func PROVE IInv'
<1> DEFINE e == DEAD_ENTER(c, "accept")
           k == e.num_clients + 1
           a == [e EXCEPT
                    !.sync = TRUE, !.live = TRUE, !.num_clients = k,
                    !.aborted = FALSE, !.client_closed = FALSE,
                    !.socks_up = FALSE, !.socks_closed = FALSE,
                    !.buf = <<>>, !.sending = 0, !.receiving = FALSE,
                    !.pcb = "open", !.cb = {"err", "recv"},
                    !.rcv_wnd = TCP_WND, !.unacked = <<>>]
<1>1. DeadInv(c)
  BY DEF IInv, ClientInv, LiveInv, Sound, listener_accept_func
<1>2. c \in ClientType /\ c.ok /\ c.num_clients = 0 /\ Len(c.recv_buf) <= RECV_BUF_SIZE
  BY <1>1 DEF DeadInv, Shape
<1>3. /\ e \in ClientType
      /\ e.callback = "accept" /\ e.dead = 0 /\ e.dead_aborted = "frame"
      /\ Keeps(e, c, {"callback", "sync", "dead", "dead_aborted"})
  BY <1>2, EnterFields
<1>4. c' = a
  BY <1>3 DEF listener_accept_func, ClientType
<1> HIDE DEF e
<1>5. k = 1 /\ k \in 0..1
  BY <1>2, <1>3 DEF Keeps, Fields
<1>k. k \in 0..1
  BY <1>5
<1> HIDE DEF k
<1>6. /\ <<>> \in Seq(Nat) /\ 0 \in Nat /\ TCP_WND \in 0..TCP_WND
      /\ {"err", "recv"} \in SUBSET Callbacks
  BY SizesAssumption DEF Callbacks
<1>7. a \in ClientType
  <2> DEFINE x == [e EXCEPT !.sync = TRUE, !.live = TRUE, !.num_clients = k]
             y == [x EXCEPT !.aborted = FALSE, !.client_closed = FALSE,
                            !.socks_up = FALSE, !.socks_closed = FALSE]
             z == [y EXCEPT !.buf = <<>>, !.sending = 0, !.receiving = FALSE]
  <2>1. x \in ClientType
    BY ONLY <1>3, <1>k, ZenonT(60) DEF ClientType
  <2>2. a = [z EXCEPT !.pcb = "open", !.cb = {"err", "recv"},
                      !.rcv_wnd = TCP_WND, !.unacked = <<>>]
    BY <1>3 DEF ClientType
  <2> HIDE DEF x
  <2>3. y \in ClientType
    BY ONLY <2>1, ZenonT(60) DEF ClientType
  <2> HIDE DEF y
  <2>4. z \in ClientType
    BY ONLY <1>6, <2>3, ZenonT(60) DEF ClientType
  <2> HIDE DEF z, a
  <2> QED
    BY ONLY <1>6, <2>2, <2>4, ZenonT(60) DEF ClientType
<1>8. /\ a.live = TRUE /\ a.num_clients = k /\ a.aborted = FALSE
      /\ a.client_closed = FALSE /\ a.socks_up = FALSE /\ a.socks_closed = FALSE
      /\ a.buf = <<>> /\ a.sending = 0 /\ a.receiving = FALSE
      /\ a.pcb = "open" /\ a.cb = {"err", "recv"}
      /\ a.rcv_wnd = TCP_WND /\ a.unacked = <<>>
      /\ a.ok = e.ok /\ a.recv_buf = e.recv_buf
      /\ a.callback = e.callback /\ a.dead = e.dead /\ a.dead_aborted = e.dead_aborted
  BY <1>3 DEF ClientType
<1> HIDE DEF a
<1>9. a.ok /\ a.recv_buf = c.recv_buf
  BY <1>2, <1>3, <1>8 DEF Keeps, Fields
<1>10. Sound(a)
  BY <1>2, <1>3, <1>5, <1>7, <1>8, <1>9, SizesAssumption DEF Sound, Shape, FrameOK
<1>11. LiveInv(a)
  BY <1>8, <1>10, SizesAssumption DEF LiveInv, PcbOK, WaitsOK, IdleOK, WindowOK, SendOK, RecvOK,
     PendingOK, WaitingOK, AskingOK
<1> QED
  BY <1>4, <1>11, SizesAssumption DEF IInv, ClientInv, listener_accept_func

LEMMA ReturnInv == ASSUME IInv, CallbackReturn PROVE IInv'
<1> DEFINE P == c.dead = 0 => c.live
           q == IF c.dead = 0 THEN "NULL" ELSE "stale"
           a == [c EXCEPT !.callback = "none", !.sync = FALSE, !.dead = 0,
                          !.dead_aborted = q]
<1>1. c \in ClientType /\ c.ok /\ Shape(c) /\ FrameOK(c) /\ c.callback # "none"
  BY DEF IInv, ClientInv, LiveInv, DeadInv, Sound, Shape, CallbackReturn
<1>2. P = TRUE
  BY <1>1 DEF FrameOK
<1>3. Asserting(c, P) = c
  BY <1>1, <1>2, AssertTrue
<1>4. c' = a
  BY <1>3 DEF CallbackReturn, DEAD_LEAVE2
<1>5. q \in {"NULL", "frame", "stale"} /\ 0 \in {-1, 0, 1}
  OBVIOUS
<1> HIDE DEF q, P
<1>6. a \in ClientType
  BY ONLY <1>1, <1>5, ZenonT(60) DEF ClientType
<1>7. /\ a.callback = "none" /\ a.dead = 0 /\ a.dead_aborted = q
      /\ Keeps(a, c, {"callback", "sync", "dead", "dead_aborted"})
  BY <1>1 DEF Keeps, Fields, ClientType
<1> HIDE DEF a
<1>8. Shape(a)
  BY <1>1, <1>6, <1>7 DEF Shape, Keeps, Fields
<1>9. FrameOK(a) /\ (LiveInv(c) => Sound(a))
  <2>1. LiveInv(c) => (c.aborted <=> c.pcb = "aborted") /\ c.live
    BY DEF LiveInv, Sound
  <2>2. LiveInv(c) => c.dead = 0 \/ c.aborted
    BY <1>1, <2>1 DEF FrameOK, ClientType
  <2>3. DeadInv(c) => ~c.live
    BY DEF DeadInv
  <2>4. FrameOK(a)
    BY <1>7, <2>1, <2>2, <2>3 DEF IInv, ClientInv, FrameOK, Keeps, Fields, q
  <2> QED
    BY <1>7, <1>8, <2>4 DEF LiveInv, Sound, Keeps, Fields
<1>10. ClientInv(a)
  <2>1. CASE LiveInv(c)
    BY <1>7, <1>9, <2>1 DEF ClientInv, LiveInv, PcbOK, WaitsOK, IdleOK, WindowOK, SendOK, RecvOK,
       PendingOK, WaitingOK, AskingOK, Keeps, Fields
  <2>2. CASE DeadInv(c)
    BY <1>7, <1>8, <1>9, <2>2 DEF ClientInv, DeadInv, Keeps, Fields
  <2> QED
    BY <2>1, <2>2 DEF IInv, ClientInv
<1> QED
  BY <1>4, <1>10 DEF IInv, CallbackReturn

(* A registered callback, or a client in use, belongs to a live client.    *)
LEMMA LiveCases ==
    ASSUME IInv
    PROVE  /\ c.cb # {} => LiveInv(c) /\ ~c.client_closed
           /\ c.live => LiveInv(c)
           /\ c.sending > 0 \/ c.receiving => LiveInv(c)
<1>1. CASE LiveInv(c)
  BY <1>1 DEF LiveInv, PcbOK
<1>2. CASE DeadInv(c)
  BY <1>2 DEF DeadInv
<1> QED
  BY <1>1, <1>2 DEF IInv, ClientInv

(* The bytes in flight have left the window and fit the buffer.            *)
LEMMA Window ==
    ASSUME LiveInv(c), "recv" \in c.cb,
           NEW k \in Nat, k > 0, k <= c.rcv_wnd, NEW s, s = [c EXCEPT !.rcv_wnd = @ - k]
    PROVE  /\ LiveInv(s) /\ "recv" \in s.cb /\ Keeps(s, c, {"rcv_wnd"})
           /\ s.rcv_wnd + Len(s.buf) + k <= TCP_WND
<1> DEFINE v == c.rcv_wnd - k
<1>2. /\ c \in ClientType /\ Shape(c) /\ ~c.socks_closed /\ ~c.client_closed
      /\ c.rcv_wnd \in 0..TCP_WND /\ c.buf \in Seq(Nat)
      /\ c.rcv_wnd + Len(c.buf) <= TCP_WND
  BY DEF LiveInv, Sound, Shape, PcbOK, WindowOK, ClientType
<1>4. v \in 0..TCP_WND
  BY <1>2, SizesAssumption, SMTT(60)
<1>5. s \in ClientType /\ s.rcv_wnd = v /\ Keeps(s, c, {"rcv_wnd"})
  <2>1. s = [c EXCEPT !.rcv_wnd = v]
    BY <1>2 DEF ClientType
  <2> HIDE DEF v
  <2>2. s \in ClientType
    BY ONLY <1>2, <1>4, <2>1, ZenonT(60) DEF ClientType
  <2> QED
    BY <1>2, <2>1, <2>2 DEF Keeps, Fields, ClientType
<1>6. s.buf = c.buf
  BY <1>5 DEF Keeps, Fields
<1>9. s.rcv_wnd + Len(s.buf) + k <= TCP_WND
  <2>2. Len(c.buf) \in Nat /\ v + Len(c.buf) + k <= TCP_WND
    BY <1>2, SizesAssumption, SMTT(60)
  <2> HIDE DEF v
  <2> QED
    BY <1>5, <1>6, <2>2
<1>10. LiveInv(s) /\ "recv" \in s.cb
  <2>1. Sound(s)
    BY <1>5 DEF LiveInv, Sound, Shape, FrameOK, Keeps, Fields
  <2>2. WindowOK(s)
    BY <1>2, <1>5, <1>6, SizesAssumption, SMTT(60) DEF WindowOK
  <2> QED
    BY <1>5, <2>1, <2>2 DEF LiveInv, PcbOK, WaitsOK, IdleOK, SendOK, RecvOK,
       PendingOK, WaitingOK, AskingOK, Keeps, Fields
<1> QED
  BY <1>5, <1>9, <1>10

LEMMA DataInv == ASSUME IInv, AppData PROVE IInv'
<1> PICK k \in 1..Least(c.rcv_wnd, MaxUp - upRecv) :
        LET s == [c EXCEPT !.rcv_wnd = @ - k]
            t == client_recv_func(s, Bytes(upRecv, upRecv + k))
        IN  /\ c' = t
            /\ upRecv' = IF k > TCP_WND - Len(s.buf) THEN upRecv ELSE upRecv + k
  BY DEF AppData
<1>s. PICK s : s = [c EXCEPT !.rcv_wnd = @ - k]
  OBVIOUS
<1>d. PICK data : data = Bytes(upRecv, upRecv + k)
  OBVIOUS
<1>1. LiveInv(c) /\ "recv" \in c.cb
  BY LiveCases DEF AppData
<1>2. c.rcv_wnd \in 0..TCP_WND
  BY <1>1 DEF LiveInv, Sound, Shape, ClientType
<1>3. k \in Nat /\ k > 0 /\ k <= c.rcv_wnd /\ k <= MaxUp - upRecv /\ upRecv \in Nat
  BY <1>2, SizesAssumption, SMTT(60) DEF IInv, Least
<1>6. data \in Seq(Nat) /\ Len(data) = k
  BY <1>3, <1>d, BytesType
<1>7. c' = client_recv_func(s, data)
  BY <1>s, <1>d
<1>8. upRecv' \in {upRecv, upRecv + k}
  OBVIOUS
<1>10. LiveInv(s) /\ "recv" \in s.cb /\ s.rcv_wnd + Len(s.buf) + Len(data) <= TCP_WND
  BY <1>1, <1>3, <1>6, <1>s, Window
<1>11. ClientInv(c')
  BY <1>3, <1>6, <1>7, <1>10, RecvFunc
<1>12. upRecv' \in 0..MaxUp
  BY <1>3, <1>8, SizesAssumption DEF IInv
<1> QED
  BY <1>11, <1>12 DEF IInv, AppData

LEMMA FinInv == ASSUME IInv, AppFin PROVE IInv'
<1> PICK closeOk \in BOOLEAN : c' = client_free_client(DEAD_ENTER(c, "recv"), closeOk)
  BY DEF AppFin
<1> DEFINE e == DEAD_ENTER(c, "recv")
<1>1. LiveInv(c) /\ ~c.client_closed
  BY LiveCases DEF AppFin
<1>2. LiveInv(e) /\ Keeps(e, c, {"callback", "sync", "dead", "dead_aborted"})
  BY <1>1, Enter
<1>3. c' = client_free_client(e, closeOk)
  OBVIOUS
<1> HIDE DEF e
<1>4. Open(e)
  BY <1>1, <1>2 DEF LiveInv, Open, PcbOK, Keeps, Fields
<1>5. ClientInv(c')
  BY <1>3, <1>4, FreeClient
<1> QED
  BY <1>5 DEF IInv, AppFin, Endings

LEMMA AckInv == ASSUME IInv, AppAck PROVE IInv'
<1> PICK n \in 1..Len(c.unacked), lwip \in {"ok", "mem", "fail"}, closeOk \in BOOLEAN :
          /\ c' = client_sent_func([c EXCEPT !.unacked = Rest(@, n)], n, lwip, closeOk)
          /\ acked' = acked \o Take(c.unacked, n)
  BY DEF AppAck
<1>1. LiveInv(c) /\ "sent" \in c.cb
  BY LiveCases DEF AppAck
<1>2. ClientInv(c')
  BY <1>1, SentFunc
<1>3. c.unacked \in Seq(Nat) /\ n \in 0..Len(c.unacked)
  BY <1>1 DEF LiveInv, Sound, Shape, ClientType
<1>4. acked' \in Seq(Nat)
  <2>1. Take(c.unacked, n) \in Seq(Nat)
    BY <1>3, TakeRest
  <2> QED
    BY <2>1, Concat DEF IInv
<1> QED
  BY <1>2, <1>4 DEF IInv, AppAck

LEMMA ErrInv == ASSUME IInv, client_err_func PROVE IInv'
<1> DEFINE a == [c EXCEPT !.pcb = "gone", !.cb = {}]
<1>1. /\ LiveInv(c) /\ ~c.client_closed /\ c.callback = "none"
      /\ c' = client_handle_freed_client(a)
  BY LiveCases DEF client_err_func
<1>2. c \in ClientType /\ {} \in SUBSET Callbacks
  BY <1>1 DEF LiveInv, Sound, Shape
<1>3. a \in ClientType
  BY ONLY <1>2, ZenonT(60) DEF ClientType
<1>4. a.pcb = "gone" /\ a.cb = {} /\ Keeps(a, c, {"pcb", "cb"})
  BY <1>2 DEF Keeps, Fields, ClientType
<1> HIDE DEF a
<1>5. Freed(a)
  BY <1>1, <1>3, <1>4 DEF LiveInv, Freed, Sound, Shape, FrameOK, PcbOK, IdleOK, SendOK, RecvOK,
     Keeps, Fields
<1>6. ClientInv(c')
  BY <1>1, <1>5, HandleFreed
<1> QED
  BY <1>6 DEF IInv, client_err_func, Endings

LEMMA SocksErrorInv == ASSUME IInv, SocksError PROVE IInv'
<1> PICK closeOk \in BOOLEAN : c' = client_free_socks(c, closeOk)
  BY DEF SocksError
<1>1. LiveInv(c) /\ ~c.socks_closed
  BY LiveCases DEF SocksError
<1>2. Working(c)
  BY <1>1 DEF LiveInv, Working
<1>3. ClientInv(c')
  BY <1>2, FreeSocks
<1> QED
  BY <1>3 DEF IInv, SocksError, Endings

LEMMA SendDoneInv == ASSUME IInv, SocksSendDone PROVE IInv'
<1> PICK n \in 1..c.sending, closeOk \in BOOLEAN :
          /\ c' = client_socks_send_handler_done(c, n, closeOk)
          /\ toSocks' = toSocks \o Take(c.buf, n)
  BY DEF SocksSendDone
<1>1. LiveInv(c)
  <2>1. c.sending \in Nat
    BY DEF IInv, ClientInv, LiveInv, DeadInv, Sound, Shape, ClientType
  <2> QED
    BY <2>1, LiveCases
<1>2. ClientInv(c')
  BY <1>1, SendDone
<1>3. c.buf \in Seq(Nat) /\ n \in 0..Len(c.buf)
  BY <1>1 DEF LiveInv, Sound, Shape, ClientType
<1>4. toSocks' \in Seq(Nat)
  <2>1. Take(c.buf, n) \in Seq(Nat)
    BY <1>3, TakeRest
  <2> QED
    BY <2>1, Concat DEF IInv
<1> QED
  BY <1>2, <1>4 DEF IInv, SocksSendDone

LEMMA RecvDoneInv == ASSUME IInv, SocksRecvDone PROVE IInv'
<1> PICK k \in 1..Least(RECV_BUF_SIZE, MaxDown - downRecv), lwip \in {"ok", "mem", "fail"} :
          /\ c' = client_socks_recv_handler_done(c, Bytes(downRecv, downRecv + k), lwip)
          /\ downRecv' = IF c.client_closed THEN downRecv ELSE downRecv + k
  BY DEF SocksRecvDone
<1>1. LiveInv(c) /\ c.receiving
  BY LiveCases DEF SocksRecvDone
<1>2. /\ k \in Nat /\ k \in 1..RECV_BUF_SIZE /\ downRecv \in Nat
      /\ downRecv + k \in 0..MaxDown
  BY SizesAssumption DEF IInv, Least
<1>3. /\ Bytes(downRecv, downRecv + k) \in Seq(Nat)
      /\ Len(Bytes(downRecv, downRecv + k)) = k
  BY <1>2, BytesType
<1>4. ClientInv(c')
  BY <1>1, <1>2, <1>3, RecvDone
<1>5. downRecv' \in 0..MaxDown
  BY <1>2 DEF IInv
<1> QED
  BY <1>4, <1>5 DEF IInv, SocksRecvDone

LEMMA StepInv == IInv /\ [Next]_vars => IInv'
<1> SUFFICES ASSUME IInv, [Next]_vars PROVE IInv'
  OBVIOUS
<1>1. CASE listener_accept_func
  BY <1>1, AcceptInv
<1>2. CASE CallbackReturn
  BY <1>2, ReturnInv
<1>3. CASE AppData
  BY <1>3, DataInv
<1>4. CASE AppFin
  BY <1>4, FinInv
<1>5. CASE AppAck
  BY <1>5, AckInv
<1>6. CASE client_err_func
  BY <1>6, ErrInv
<1>7. CASE SocksUp
  <2>1. ClientInv(c')
    BY <1>7, LiveCases, Up DEF SocksUp
  <2> QED
    BY <1>7, <2>1 DEF IInv, SocksUp
<1>8. CASE SocksError
  BY <1>8, SocksErrorInv
<1>9. CASE SocksSendDone
  BY <1>9, SendDoneInv
<1>10. CASE SocksRecvDone
  BY <1>10, RecvDoneInv
<1>11. CASE Murder
  <2>1. ClientInv(c')
    BY <1>11, LiveCases, MurderInv DEF Murder, ClientInv
  <2> QED
    BY <1>11, <2>1 DEF IInv, Murder, Endings
<1>12. CASE UNCHANGED vars
  BY <1>12 DEF vars, IInv, ClientInv, LiveInv, DeadInv, Sound, Shape, FrameOK, PcbOK, WaitsOK,
     IdleOK, WindowOK, SendOK, RecvOK, PendingOK, WaitingOK, AskingOK
<1> QED
  BY <1>1, <1>2, <1>3, <1>4, <1>5, <1>6, <1>7, <1>8, <1>9, <1>10, <1>11, <1>12 DEF Next

(* IInv holds in every reachable state.                                    *)
THEOREM Invariance == Spec => []IInv
<1> QED
  BY InitInv, StepInv, PTL DEF Spec

(* client->buf, socks_recv_buf, the lwIP send buffer and the receive       *)
(* window never overflow, whatever their sizes.                            *)
THEOREM TypeCorrect == Spec => []TypeOK
<1>1. IInv => TypeOK
  BY DEF IInv, TypeOK, ClientInv, LiveInv, DeadInv, Sound, Shape
<1> QED
  BY <1>1, Invariance, PTL

(* No ASSERT of the TCP client's functions can fail, no pcb is used after  *)
(* tun2socks gave it back, and no dead flag is written through a dangling  *)
(* pointer.                                                                *)
THEOREM NoAssertFails == Spec => []AssertsHold
<1>1. IInv => AssertsHold
  BY DEF IInv, AssertsHold, ClientInv, LiveInv, DeadInv, Sound
<1> QED
  BY <1>1, Invariance, PTL

(* lwIP is told ERR_ABRT exactly when the callback aborted the pcb.        *)
THEOREM AbortsReported == Spec => []AbrtIffAborted
<1>1. IInv => AbrtIffAborted
  BY DEF IInv, AbrtIffAborted, ClientInv, LiveInv, DeadInv, Sound, FrameOK
<1> QED
  BY <1>1, Invariance, PTL

(* Received data always fits client->buf.                                  *)
THEOREM WindowFits == Spec => []WindowFitsBuffer
<1>1. IInv => WindowFitsBuffer
  BY DEF IInv, WindowFitsBuffer, ClientInv, LiveInv, DeadInv, PcbOK, WindowOK
<1> QED
  BY <1>1, Invariance, PTL

(* No open pcb, and no registered callback, outlives its client.           *)
THEOREM PcbsOwned == Spec => []NoOrphanPcb
<1>1. IInv => NoOrphanPcb
  BY DEF IInv, NoOrphanPcb, ClientInv, LiveInv, DeadInv, Sound, PcbOK
<1> QED
  BY <1>1, Invariance, PTL
-----------------------------------------------------------------------------
(* The safety half of ClientReleased: whatever a client holds is waited for *)
(* by a send or an acknowledgement, and a half-closed client only drains.  *)

(* Nothing a client holds lies still, for every buffer size.                *)
THEOREM NothingStranded == Spec => []NeverStranded
<1>1. IInv => NeverStranded
  <2> SUFFICES ASSUME IInv, c.live PROVE NeverStranded
    BY DEF NeverStranded
  <2>1. LiveInv(c)
    BY LiveCases
  <2>2. c.unacked \in Seq(Nat) /\ c.tcp_pending \in Nat /\ c.sending \in Nat
    BY <2>1 DEF LiveInv, Sound, Shape, ClientType
  <2>3. Len(c.unacked) > 0 => c.unacked # <<>>
    BY <2>2, Empty
  <2>4. ~c.client_closed /\ c.socks_up =>
          /\ {"err", "sent"} \subseteq c.cb
          /\ c.recv_buf # <<>> \/ c.tcp_pending > 0 => c.unacked # <<>>
    BY <2>1, <2>3 DEF LiveInv, PcbOK, PendingOK, WaitingOK
  <2>5. c.client_closed \/ (c.buf # <<>> /\ ~c.socks_closed) => SocksOwes
    BY <2>1 DEF LiveInv, WaitsOK, SendOK, SocksOwes
  <2>6. ~c.client_closed /\ c.socks_up => AppOwes \/ c.recv_buf = <<>>
    BY <2>4 DEF AppOwes
  <2>7. c.socks_closed => AppOwes
    BY <2>1, <2>4 DEF LiveInv, WaitsOK, AppOwes
  <2>8. c.socks_up /\ ~c.client_closed /\ ~c.socks_closed => (c.receiving <=> c.recv_buf = <<>>)
    BY <2>1 DEF LiveInv, AskingOK
  <2> QED
    BY <2>5, <2>6, <2>7, <2>8 DEF NeverStranded
<1> QED
  BY <1>1, Invariance, PTL

(* What the lengths do when no byte moves, when n bytes leave client->buf,  *)
(* and when n are acknowledged and k more follow them into lwIP.            *)
LEMMA NoneMoves ==
    ASSUME NEW h \in Nat, NEW x \in Nat, NEW y \in Nat
    PROVE  h - h = (x - x) + (y - y)
OBVIOUS

LEMMA SomeSent ==
    ASSUME NEW b \in Nat, NEW u \in Nat, NEW r \in Nat, NEW x \in Nat, NEW y \in Nat,
           NEW n \in Nat
    PROVE  (b + u + r) - ((b - n) + u + r) = ((x + n) - x) + (y - y)
OBVIOUS

LEMMA SomeAcked ==
    ASSUME NEW b \in Nat, NEW u \in Nat, NEW r \in Nat, NEW x \in Nat, NEW y \in Nat,
           NEW n \in Nat, NEW k \in Nat
    PROVE  (b + u + r) - (b + ((u - n) + k) + (r - k)) = (x - x) + ((y + n) - y)
OBVIOUS

LEMMA SumsNat ==
    ASSUME NEW b \in Nat, NEW u \in Nat, NEW r \in Nat
    PROVE  b + u + r \in Nat /\ b + u + 0 \in Nat
OBVIOUS

LEMMA HoldsIs ==
    ASSUME NEW s
    PROVE  /\ s.socks_up => Holds(s) = Len(s.buf) + Len(s.unacked) + Len(s.recv_buf)
           /\ ~s.socks_up => Holds(s) = Len(s.buf) + Len(s.unacked) + 0
BY DEF Holds

LEMMA HeldLengths ==
    ASSUME IInv, c.live
    PROVE  /\ Len(c.buf) \in Nat /\ Len(c.unacked) \in Nat /\ Len(c.recv_buf) \in Nat
           /\ Len(toSocks) \in Nat /\ Len(acked) \in Nat /\ Holds(c) \in Nat
<1>1. LiveInv(c)
  BY LiveCases
<1>2. c.buf \in Seq(Nat) /\ c.unacked \in Seq(Nat) /\ c.recv_buf \in Seq(Nat)
  BY <1>1 DEF LiveInv, Sound, Shape, ClientType
<1>3. /\ Len(c.buf) \in Nat /\ Len(c.unacked) \in Nat /\ Len(c.recv_buf) \in Nat
      /\ Len(toSocks) \in Nat /\ Len(acked) \in Nat
  BY <1>2 DEF IInv
<1>4. Holds(c) \in Nat
  <2>1. /\ Len(c.buf) + Len(c.unacked) + Len(c.recv_buf) \in Nat
        /\ Len(c.buf) + Len(c.unacked) + 0 \in Nat
    BY <1>3, SumsNat
  <2>2. Holds(c) \in {Len(c.buf) + Len(c.unacked) + Len(c.recv_buf),
                      Len(c.buf) + Len(c.unacked) + 0}
    BY HoldsIs
  <2> QED
    BY <2>1, <2>2
<1> QED
  BY <1>3, <1>4

Drains ==
    /\ c'.client_closed = c.client_closed /\ c'.socks_closed = c.socks_closed
    /\ Holds(c) - Holds(c') = (Len(toSocks') - Len(toSocks)) + (Len(acked') - Len(acked))

(* A step that moves no byte.                                              *)
LEMMA HoldsKept ==
    ASSUME IInv, c.live,
           c'.client_closed = c.client_closed, c'.socks_closed = c.socks_closed,
           Holds(c') = Holds(c), toSocks' = toSocks, acked' = acked
    PROVE  Drains
<1>1. /\ Len(toSocks) \in Nat /\ Len(acked) \in Nat /\ Holds(c) \in Nat
  BY HeldLengths
<1>2. Holds(c) - Holds(c) = (Len(toSocks) - Len(toSocks)) + (Len(acked) - Len(acked))
  BY <1>1, NoneMoves
<1> QED
  BY <1>2 DEF Drains

(* A live client without a pcb still has SOCKS: without either it is freed. *)
LEMMA OneSideLeft ==
    ASSUME NEW t, ClientInv(t), t.live
    PROVE  /\ t.pcb # "open" => t.client_closed /\ ~t.socks_closed
           /\ t.client_closed <=> t.pcb # "open"
BY DEF ClientInv, LiveInv, DeadInv, PcbOK, WaitsOK

(* The two actions whose effect the proofs below need once more.            *)
LEMMA ReturnKeeps ==
    ASSUME IInv, CallbackReturn
    PROVE  /\ c'.live = c.live /\ c'.client_closed = c.client_closed
           /\ c'.socks_closed = c.socks_closed /\ Holds(c') = Holds(c)
<1> DEFINE P == c.dead = 0 => c.live
<1>1. c \in ClientType /\ c.ok /\ FrameOK(c) /\ c.callback # "none"
  BY DEF IInv, ClientInv, LiveInv, DeadInv, Sound, Shape, CallbackReturn
<1>2. P = TRUE
  BY <1>1 DEF FrameOK
<1>3. Asserting(c, P) = c
  BY <1>1, <1>2, AssertTrue
<1>4. c' = [c EXCEPT !.callback = "none", !.sync = FALSE, !.dead = 0,
                     !.dead_aborted = IF c.dead = 0 THEN "NULL" ELSE "stale"]
  BY <1>3 DEF CallbackReturn, DEAD_LEAVE2
<1>5. /\ c'.live = c.live /\ c'.client_closed = c.client_closed
      /\ c'.socks_closed = c.socks_closed /\ c'.buf = c.buf /\ c'.unacked = c.unacked
      /\ c'.recv_buf = c.recv_buf /\ c'.socks_up = c.socks_up
  BY <1>1, <1>4 DEF ClientType
<1> QED
  BY <1>5 DEF Holds

LEMMA ErrGivesUp == ASSUME IInv, client_err_func PROVE GaveUp(c', c) /\ c'.pcb = "gone"
<1> DEFINE a == [c EXCEPT !.pcb = "gone", !.cb = {}]
<1>1. /\ LiveInv(c) /\ ~c.client_closed /\ c.callback = "none" /\ c.live /\ c.pcb = "open"
      /\ c' = client_handle_freed_client(a)
  BY LiveCases DEF client_err_func, LiveInv, Sound, PcbOK
<1>2. c \in ClientType /\ {} \in SUBSET Callbacks
  BY <1>1 DEF LiveInv, Sound, Shape
<1>3. a \in ClientType
  BY ONLY <1>2, ZenonT(60) DEF ClientType
<1>4. a.pcb = "gone" /\ a.cb = {} /\ Keeps(a, c, {"pcb", "cb"})
  BY <1>2 DEF Keeps, Fields, ClientType
<1> HIDE DEF a
<1>5. Freed(a)
  BY <1>1, <1>3, <1>4 DEF LiveInv, Freed, Sound, Shape, FrameOK, PcbOK, IdleOK, SendOK, RecvOK,
     Keeps, Fields
<1>6. c'.pcb = "gone" /\ GaveUp(c', a)
  BY <1>1, <1>4, <1>5, HandleFreed
<1> QED
  BY <1>4, <1>6 DEF GaveUp, Keeps, Fields

(* The application has closed first.                                        *)
LEMMA ClosedDrains ==
    ASSUME IInv, IInv', [Next]_vars, c.live, c.client_closed, c'.live
    PROVE  Drains
<1>1. /\ LiveInv(c) /\ ~c.socks_closed /\ c.pcb # "open" /\ c.cb = {}
      /\ ClientInv(c) /\ ClientInv(c')
  BY LiveCases DEF LiveInv, PcbOK, WaitsOK, IInv
<1>2. CASE UNCHANGED vars
  BY <1>2, HoldsKept DEF vars
<1>3. CASE CallbackReturn
  BY <1>3, ReturnKeeps, HoldsKept DEF CallbackReturn
<1>4. CASE SocksUp
  <2>1. /\ ~c.socks_up /\ c'.recv_buf = <<>> /\ c'.socks_up
        /\ Keeps(c', c, {"recv_buf", "tcp_pending", "socks_up", "cb", "sending", "receiving"})
        /\ toSocks' = toSocks /\ acked' = acked
    BY <1>1, <1>4, Up DEF SocksUp
  <2>2. /\ c'.buf = c.buf /\ c'.unacked = c.unacked
        /\ c'.client_closed = c.client_closed /\ c'.socks_closed = c.socks_closed
    BY <2>1 DEF Keeps, Fields
  <2>3. Holds(c') = Holds(c)
    <3>1. Len(c'.recv_buf) = 0
      BY <2>1
    <3> QED
      BY <2>1, <2>2, <3>1, HoldsIs
  <2> QED
    BY <2>1, <2>2, <2>3, HoldsKept
<1>5. CASE SocksError
  <2>1. PICK closeOk \in BOOLEAN : c' = client_free_socks(c, closeOk)
    BY <1>5 DEF SocksError
  <2>2. Working(c)
    BY <1>1 DEF LiveInv, Working
  <2>3. c'.socks_closed /\ c'.pcb # "open"
    BY <1>1, <2>1, <2>2, FreeSocks
  <2> QED
    BY <1>1, <2>3, OneSideLeft
<1>6. CASE SocksSendDone
  <2>1. PICK n \in 1..c.sending, closeOk \in BOOLEAN :
          /\ c' = client_socks_send_handler_done(c, n, closeOk)
          /\ toSocks' = toSocks \o Take(c.buf, n) /\ acked' = acked
    BY <1>6 DEF SocksSendDone
  <2>2. /\ c'.buf = Rest(c.buf, n)
        /\ Keeps(c', c, {"buf", "sending", "rcv_wnd"})
    BY <1>1, <2>1, SendDone
  <2>3. c.buf \in Seq(Nat) /\ n \in 0..Len(c.buf) /\ n \in Nat /\ n <= Len(c.buf)
    BY <1>1 DEF LiveInv, Sound, Shape, ClientType
  <2>4. Len(c'.buf) = Len(c.buf) - n /\ Len(toSocks') = Len(toSocks) + n
    <3>1. Take(c.buf, n) \in Seq(Nat) /\ Len(Take(c.buf, n)) = n
      BY <2>3, TakeRest
    <3>2. Len(toSocks') = Len(toSocks) + Len(Take(c.buf, n))
      BY <2>1, <3>1, Concat DEF IInv
    <3> QED
      BY <2>2, <2>3, <3>1, <3>2, TakeRest
  <2>5. /\ c'.unacked = c.unacked /\ c'.recv_buf = c.recv_buf /\ c'.socks_up = c.socks_up
        /\ c'.client_closed = c.client_closed /\ c'.socks_closed = c.socks_closed
        /\ c.socks_up
    <3>1. c.sending # 0
      BY <2>1
    <3> QED
      BY <1>1, <2>2, <3>1 DEF LiveInv, IdleOK, Keeps, Fields
  <2>6. Holds(c) - Holds(c') = (Len(toSocks') - Len(toSocks)) + (Len(acked') - Len(acked))
    <3>1. /\ Len(c.buf) \in Nat /\ Len(c.unacked) \in Nat /\ Len(c.recv_buf) \in Nat
          /\ Len(toSocks) \in Nat /\ Len(acked) \in Nat
      BY HeldLengths
    <3>2. (Len(c.buf) + Len(c.unacked) + Len(c.recv_buf))
            - ((Len(c.buf) - n) + Len(c.unacked) + Len(c.recv_buf))
          = ((Len(toSocks) + n) - Len(toSocks)) + (Len(acked) - Len(acked))
      BY <2>3, <3>1, SomeSent
    <3> QED
      BY <2>1, <2>4, <2>5, <3>2, HoldsIs
  <2> QED
    BY <2>5, <2>6 DEF Drains
<1>7. CASE SocksRecvDone
  <2>1. PICK k \in 1..Least(RECV_BUF_SIZE, MaxDown - downRecv), lwip \in {"ok", "mem", "fail"} :
          c' = client_socks_recv_handler_done(c, Bytes(downRecv, downRecv + k), lwip)
    BY <1>7 DEF SocksRecvDone
  <2>2. k \in Nat /\ k \in 1..RECV_BUF_SIZE /\ downRecv \in Nat
    BY SizesAssumption DEF IInv, Least
  <2>3. Bytes(downRecv, downRecv + k) \in Seq(Nat) /\ Len(Bytes(downRecv, downRecv + k)) = k
    BY <2>2, BytesType
  <2>4. Keeps(c', c, {"receiving"}) /\ toSocks' = toSocks /\ acked' = acked
    BY <1>1, <1>7, <2>1, <2>2, <2>3, RecvDone DEF SocksRecvDone
  <2>5. /\ c'.client_closed = c.client_closed /\ c'.socks_closed = c.socks_closed
        /\ c'.buf = c.buf /\ c'.unacked = c.unacked /\ c'.recv_buf = c.recv_buf
        /\ c'.socks_up = c.socks_up
    BY <2>4 DEF Keeps, Fields
  <2>6. Holds(c') = Holds(c)
    BY <2>5 DEF Holds
  <2> QED
    BY <2>4, <2>5, <2>6, HoldsKept
<1>8. CASE Murder
  BY <1>1, <1>8, MurderInv DEF Murder, DeadInv
<1>9. ~listener_accept_func /\ ~AppData /\ ~AppFin /\ ~AppAck /\ ~client_err_func
  BY <1>1 DEF listener_accept_func, AppData, AppFin, AppAck, client_err_func
<1> QED
  BY <1>2, <1>3, <1>4, <1>5, <1>6, <1>7, <1>8, <1>9 DEF Next

(* SOCKS has closed first.                                                  *)
LEMMA FreedDrains ==
    ASSUME IInv, IInv', [Next]_vars, c.live, c.socks_closed, c'.live
    PROVE  Drains
<1>1. /\ LiveInv(c) /\ ~c.client_closed /\ c.pcb = "open" /\ c.socks_up
      /\ "recv" \notin c.cb /\ c.sending = 0 /\ ~c.receiving
      /\ ClientInv(c) /\ ClientInv(c')
  BY LiveCases DEF LiveInv, PcbOK, WaitsOK, IdleOK, IInv
<1>2. CASE UNCHANGED vars
  BY <1>2, HoldsKept DEF vars
<1>3. CASE CallbackReturn
  BY <1>3, ReturnKeeps, HoldsKept DEF CallbackReturn
<1>4. CASE AppAck
  <2>1. PICK n \in 1..Len(c.unacked), lwip \in {"ok", "mem", "fail"}, closeOk \in BOOLEAN :
          /\ c' = client_sent_func([c EXCEPT !.unacked = Rest(@, n)], n, lwip, closeOk)
          /\ acked' = acked \o Take(c.unacked, n)
    BY <1>4 DEF AppAck
  <2>2. \/ Aborted(c', c) \/ Moved(c', c, Rest(c.unacked, n), c.recv_buf)
        \/ GaveUp(c', c) /\ c.recv_buf = <<>> /\ n = Len(c.unacked)
    BY <1>1, <1>4, <2>1, SentFunc DEF AppAck
  <2>3. ~GaveUp(c', c)
    BY <1>1, OneSideLeft DEF GaveUp
  <2>4. Moved(c', c, Rest(c.unacked, n), c.recv_buf)
    BY <2>2, <2>3 DEF Aborted
  <2>5. /\ c'.pcb = c.pcb /\ c'.buf = c.buf /\ c'.socks_closed = c.socks_closed
        /\ c'.socks_up = c.socks_up
    BY <2>4 DEF Moved, Keeps, Fields
  <2>6. c'.client_closed = c.client_closed
    <3>1. c.client_closed \in BOOLEAN /\ c'.client_closed \in BOOLEAN
      BY <1>1 DEF ClientInv, LiveInv, DeadInv, Sound, Shape, ClientType
    <3> QED
      BY <1>1, <2>5, <3>1, OneSideLeft
  <2>7. PICK k \in 0..Len(c.recv_buf) :
          c'.unacked = Rest(c.unacked, n) \o Take(c.recv_buf, k) /\ c'.recv_buf = Rest(c.recv_buf, k)
    BY <2>4 DEF Moved
  <2>8. /\ c.unacked \in Seq(Nat) /\ c.recv_buf \in Seq(Nat)
        /\ n \in 0..Len(c.unacked) /\ n \in Nat /\ k \in Nat
        /\ n <= Len(c.unacked) /\ k <= Len(c.recv_buf)
    BY <1>1 DEF LiveInv, Sound, Shape, ClientType
  <2>9. /\ Len(c'.unacked) = (Len(c.unacked) - n) + k
        /\ Len(c'.recv_buf) = Len(c.recv_buf) - k
        /\ Len(acked') = Len(acked) + n
    <3>1. /\ Take(c.unacked, n) \in Seq(Nat) /\ Len(Take(c.unacked, n)) = n
          /\ Rest(c.unacked, n) \in Seq(Nat) /\ Len(Rest(c.unacked, n)) = Len(c.unacked) - n
          /\ Take(c.recv_buf, k) \in Seq(Nat) /\ Len(Take(c.recv_buf, k)) = k
          /\ Len(Rest(c.recv_buf, k)) = Len(c.recv_buf) - k
      BY <2>8, TakeRest
    <3>2. Len(c'.unacked) = Len(Rest(c.unacked, n)) + Len(Take(c.recv_buf, k))
      BY <2>7, <3>1, Concat
    <3>3. Len(acked') = Len(acked) + Len(Take(c.unacked, n))
      BY <2>1, <3>1, Concat DEF IInv
    <3> QED
      BY <2>7, <3>1, <3>2, <3>3
  <2>10. Holds(c) - Holds(c') = (Len(toSocks') - Len(toSocks)) + (Len(acked') - Len(acked))
    <3>1. /\ Len(c.buf) \in Nat /\ Len(c.unacked) \in Nat /\ Len(c.recv_buf) \in Nat
          /\ Len(toSocks) \in Nat /\ Len(acked) \in Nat
      BY HeldLengths
    <3>2. (Len(c.buf) + Len(c.unacked) + Len(c.recv_buf))
            - (Len(c.buf) + ((Len(c.unacked) - n) + k) + (Len(c.recv_buf) - k))
          = (Len(toSocks) - Len(toSocks)) + ((Len(acked) + n) - Len(acked))
      <4> DEFINE b == Len(c.buf)
                 u == Len(c.unacked)
                 r == Len(c.recv_buf)
                 x == Len(toSocks)
                 y == Len(acked)
      <4>1. /\ b \in Nat /\ u \in Nat /\ r \in Nat /\ x \in Nat /\ y \in Nat
            /\ n \in Nat /\ k \in Nat
        BY <2>8, <3>1
      <4> HIDE DEF b, u, r, x, y
      <4>2. (b + u + r) - (b + ((u - n) + k) + (r - k)) = (x - x) + ((y + n) - y)
        BY ONLY <4>1, SomeAcked
      <4> QED
        BY <4>2 DEF b, u, r, x, y
    <3>3. toSocks' = toSocks
      BY <1>4 DEF AppAck
    <3> QED
      BY <1>1, <2>5, <2>9, <3>2, <3>3, HoldsIs
  <2> QED
    BY <2>5, <2>6, <2>10 DEF Drains
<1>5. CASE client_err_func
  <2>1. GaveUp(c', c)
    BY <1>5, ErrGivesUp
  <2> QED
    BY <1>1, <2>1, OneSideLeft DEF GaveUp
<1>6. CASE Murder
  BY <1>1, <1>6, MurderInv DEF Murder, DeadInv
<1>7. /\ ~listener_accept_func /\ ~AppData /\ ~AppFin /\ ~SocksUp /\ ~SocksError
      /\ ~SocksSendDone /\ ~SocksRecvDone
  BY <1>1 DEF listener_accept_func, AppData, AppFin, SocksUp, SocksError,
              SocksSendDone, SocksRecvDone
<1> QED
  BY <1>2, <1>3, <1>4, <1>5, <1>6, <1>7 DEF Next

(* A half-closed client only drains, for every buffer size and amount of    *)
(* data.                                                                   *)
THEOREM HalfClosedDrains == Spec => OnlyDrains
<1>1. IInv /\ IInv' /\ [Next]_vars =>
        [HalfClosed(c) /\ c'.live =>
           /\ c'.client_closed = c.client_closed /\ c'.socks_closed = c.socks_closed
           /\ Holds(c) - Holds(c') = (Len(toSocks') - Len(toSocks))
                                      + (Len(acked') - Len(acked))]_vars
  BY ClosedDrains, FreedDrains DEF HalfClosed, Drains
<1> QED
  BY <1>1, Invariance, PTL DEF Spec, OnlyDrains

-----------------------------------------------------------------------------
(* The two streams, cut and joined.                                        *)
LEMMA BytesLen ==
    ASSUME NEW m \in Nat, NEW n \in Nat, m <= n
    PROVE  /\ Bytes(m, n) \in Seq(Nat) /\ Len(Bytes(m, n)) = n - m
           /\ \A i \in 1..(n - m) : Bytes(m, n)[i] = m + i
<1>1. n - m \in Nat /\ \A i \in 1..(n - m) : m + i \in Nat
  OBVIOUS
<1> QED
  BY <1>1 DEF Bytes

LEMMA BytesTake ==
    ASSUME NEW m \in Nat, NEW n \in Nat, m <= n, NEW k \in 0..(n - m)
    PROVE  Take(Bytes(m, n), k) = Bytes(m, m + k) /\ Rest(Bytes(m, n), k) = Bytes(m + k, n)
<1> DEFINE q == Bytes(m, n)
           a == Take(q, k)
           b == Rest(q, k)
<1>1. /\ q \in Seq(Nat) /\ Len(q) = n - m /\ \A i \in 1..(n - m) : q[i] = m + i
      /\ k \in Nat /\ m + k \in Nat /\ m + k <= n /\ m <= m + k
  BY BytesLen
<1>2. /\ Bytes(m, m + k) \in Seq(Nat) /\ Len(Bytes(m, m + k)) = k
      /\ \A i \in 1..k : Bytes(m, m + k)[i] = m + i
  <2>1. (m + k) - m = k
    BY <1>1
  <2> QED
    BY <1>1, <2>1, BytesLen
<1>3. /\ Bytes(m + k, n) \in Seq(Nat) /\ Len(Bytes(m + k, n)) = n - (m + k)
      /\ \A i \in 1..(n - (m + k)) : Bytes(m + k, n)[i] = (m + k) + i
  BY <1>1, BytesLen
<1> HIDE DEF q
<1>4. a \in Seq(Nat) /\ Len(a) = k /\ \A i \in 1..k : a[i] = q[i]
  <2>1. a = SubSeq(q, 1, k)
    BY DEF Take
  <2>2. k \in Nat /\ \A i \in 1..k : q[i] \in Nat
    BY <1>1
  <2>3. /\ a \in Seq(Nat) /\ Len(a) = IF 1 <= k THEN k - 1 + 1 ELSE 0
        /\ \A i \in 1..(k - 1 + 1) : a[i] = q[1 + i - 1]
    BY ONLY <2>1, <2>2, SubSeqProperties
  <2>4. k - 1 + 1 = k /\ \A i \in Nat : 1 + i - 1 = i
    BY <2>2
  <2>5. Len(a) = k
    BY <2>2, <2>3, <2>4
  <2> QED
    BY <2>2, <2>3, <2>4, <2>5
<1>5. b \in Seq(Nat) /\ Len(b) = n - (m + k) /\ \A i \in 1..(n - (m + k)) : b[i] = q[k + i]
  <2>1. b = SubSeq(q, k + 1, n - m)
    BY <1>1 DEF Rest
  <2>2. \A i \in (k + 1)..(n - m) : q[i] \in Nat
    BY <1>1
  <2>3. /\ b \in Seq(Nat) /\ Len(b) = IF k + 1 <= n - m THEN (n - m) - (k + 1) + 1 ELSE 0
        /\ \A i \in 1..((n - m) - (k + 1) + 1) : b[i] = q[(k + 1) + i - 1]
    BY ONLY <1>1, <2>1, <2>2, SubSeqProperties
  <2>4. (n - m) - (k + 1) + 1 = n - (m + k) /\ \A i \in Nat : (k + 1) + i - 1 = k + i
    BY <1>1
  <2>5. Len(b) = n - (m + k)
    BY <1>1, <2>3, <2>4
  <2> QED
    BY <2>3, <2>4, <2>5
<1> HIDE DEF a, b
<1>6. \A i \in 1..k : a[i] = Bytes(m, m + k)[i]
  <2> TAKE i \in 1..k
  <2>1. i \in 1..(n - m)
    BY <1>1
  <2> QED
    BY <1>1, <1>2, <1>4, <2>1
<1>7. \A i \in 1..(n - (m + k)) : b[i] = Bytes(m + k, n)[i]
  <2> TAKE i \in 1..(n - (m + k))
  <2>1. k + i \in 1..(n - m) /\ m + (k + i) = (m + k) + i
    BY <1>1
  <2> QED
    BY <1>1, <1>3, <1>5, <2>1
<1>8. a = Bytes(m, m + k)
  BY <1>2, <1>4, <1>6, SeqEqual
<1>9. b = Bytes(m + k, n)
  BY <1>3, <1>5, <1>7, SeqEqual
<1> QED
  BY <1>8, <1>9 DEF a, b, q

LEMMA BytesJoin ==
    ASSUME NEW m \in Nat, NEW k \in Nat, NEW n \in Nat, m <= k, k <= n
    PROVE  Bytes(m, k) \o Bytes(k, n) = Bytes(m, n)
<1> DEFINE a == Bytes(m, k)
           b == Bytes(k, n)
           u == a \o b
           q == Bytes(m, n)
<1>a. a \in Seq(Nat) /\ Len(a) = k - m /\ \A i \in 1..(k - m) : a[i] = m + i
  BY BytesLen
<1>b. b \in Seq(Nat) /\ Len(b) = n - k /\ \A i \in 1..(n - k) : b[i] = k + i
  BY BytesLen
<1>q. q \in Seq(Nat) /\ Len(q) = n - m /\ \A i \in 1..(n - m) : q[i] = m + i
  BY BytesLen
<1> HIDE DEF a, b, q
<1>2. /\ u \in Seq(Nat) /\ Len(u) = Len(a) + Len(b)
      /\ \A j \in 1..Len(a) + Len(b) : u[j] = IF j <= Len(a) THEN a[j] ELSE b[j - Len(a)]
  BY <1>a, <1>b, <1>q, ConcatProperties, Zenon
<1> HIDE DEF u
<1>3. Len(u) = n - m
  BY <1>a, <1>b, <1>q, <1>2
<1>4. \A j \in 1..(n - m) : u[j] = q[j]
  <2> TAKE j \in 1..(n - m)
  <2>1. CASE j <= k - m
    BY <1>a, <1>b, <1>q, <1>2, <1>3, <2>1
  <2>2. CASE ~(j <= k - m)
    <3>1. j - (k - m) \in 1..(n - k) /\ k + (j - (k - m)) = m + j
      BY <2>2
    <3> QED
      BY <1>a, <1>b, <1>q, <1>2, <1>3, <2>2, <3>1
  <2> QED
    BY <2>1, <2>2
<1> QED
  BY <1>a, <1>b, <1>q, <1>2, <1>3, <1>4, SeqEqual DEF u, a, b, q

LEMMA BytesNone == ASSUME NEW n \in Nat PROVE Bytes(n, n) = <<>>
<1>1. Bytes(n, n) \in Seq(Nat) /\ Len(Bytes(n, n)) = 0
  BY BytesLen
<1> QED
  BY <1>1, Empty

-----------------------------------------------------------------------------
(* The refinement of Relay.  Where the bytes of each direction are: what   *)
(* SOCKS was given, then client->buf; what the application acknowledged,    *)
(* then lwIP's queue, then socks_recv_buf.                                 *)
UpHist ==
    /\ toSocks = Bytes(0, Len(toSocks)) /\ Len(toSocks) <= upRecv
    /\ c.live /\ ~c.socks_closed => c.buf = Bytes(Len(toSocks), upRecv)
    /\ UpState = "done" => Len(toSocks) = upRecv

DownHist ==
    /\ acked = Bytes(0, Len(acked)) /\ Len(acked) <= downRecv
    /\ c.pcb = "open" =>
         /\ Len(acked) + Len(c.unacked) <= downRecv
         /\ c.unacked = Bytes(Len(acked), Len(acked) + Len(c.unacked))
         /\ c.socks_up => c.recv_buf = Bytes(Len(acked) + Len(c.unacked), downRecv)
         /\ ~c.socks_up => downRecv = 0
    /\ DownState = "done" => Len(acked) = downRecv

(* Only a failure of SOCKS closes it under a client that lives on.         *)
EndHist ==
    /\ c.live => c.pcb # "none"
    /\ c.live /\ c.socks_closed => "socks" \in ended

History == UpHist /\ DownHist /\ EndHist

(* What R!Direction asks of a step beyond History before and after it.     *)
UpStep ==
    /\ upRecv' >= upRecv /\ Len(toSocks') >= Len(toSocks)
    /\ UpState' = UpState \/ (UpState = "open" /\ UpState' \in {"done", "cut"})
    /\ UpState # "open" => upRecv' = upRecv /\ toSocks' = toSocks

DownStep ==
    /\ downRecv' >= downRecv /\ Len(acked') >= Len(acked)
    /\ DownState' = DownState \/ (DownState = "open" /\ DownState' \in {"done", "cut"})
    /\ DownState # "open" => downRecv' = downRecv /\ acked' = acked

LEMMA FirstIsBytes == ASSUME NEW n \in Nat PROVE R!FirstBytes(n) = Bytes(0, n)
<1>1. n - 0 = n /\ \A i \in 1..n : 0 + i = i
  OBVIOUS
<1>2. Bytes(0, n) = [i \in 1..n |-> 0 + i]
  BY <1>1 DEF Bytes
<1> QED
  BY <1>1, <1>2 DEF R!FirstBytes

LEMMA Relayed ==
    ASSUME IInv, IInv', History', UpStep, DownStep
    PROVE  R!Relaying
<1>1. /\ Len(toSocks) \in Nat /\ Len(toSocks') \in Nat /\ upRecv \in Nat /\ upRecv' \in Nat
      /\ Len(acked) \in Nat /\ Len(acked') \in Nat /\ downRecv \in Nat /\ downRecv' \in Nat
  BY SizesAssumption DEF IInv
<1>2. R!Direction(upRecv, toSocks, upRecv', toSocks', UpState, UpState')
  <2>1. toSocks' = R!FirstBytes(Len(toSocks'))
    BY <1>1, FirstIsBytes DEF History, UpHist
  <2>2. Len(toSocks') \in Len(toSocks)..upRecv'
    BY <1>1 DEF History, UpHist, UpStep
  <2> QED
    BY <2>1, <2>2 DEF R!Direction, History, UpHist, UpStep
<1>3. R!Direction(downRecv, acked, downRecv', acked', DownState, DownState')
  <2>1. acked' = R!FirstBytes(Len(acked'))
    BY <1>1, FirstIsBytes DEF History, DownHist
  <2>2. Len(acked') \in Len(acked)..downRecv'
    BY <1>1 DEF History, DownHist, DownStep
  <2> QED
    BY <2>1, <2>2 DEF R!Direction, History, DownHist, DownStep
<1> QED
  BY <1>2, <1>3 DEF R!Relaying

(* An action that moves no upstream byte: it keeps the direction, or ends   *)
(* it with nothing left, or because SOCKS or the loop is gone.             *)
LEMMA UpKept ==
    ASSUME IInv, History, c.live, c'.pcb # "none",
           upRecv' = upRecv, toSocks' = toSocks, ended \subseteq ended',
           c.socks_closed => c'.socks_closed,
           c'.live /\ ~c'.socks_closed => c'.buf = c.buf,
           c'.socks_closed => c.socks_closed \/ c.buf = <<>>
                                \/ ended' \cap {"socks", "murder"} # {}
    PROVE  UpHist' /\ UpStep
<1>1. c.pcb # "none" /\ (c.socks_closed => UpState = "cut" /\ UpState' = "cut")
  BY DEF History, EndHist, UpState
<1>2. upRecv \in Nat /\ Len(toSocks) \in Nat /\ Len(toSocks) <= upRecv
  BY SizesAssumption DEF IInv, History, UpHist
<1>3. CASE c.socks_closed
  <2>1. UpHist'
    BY <1>1, <1>2, <1>3 DEF History, UpHist
  <2> QED
    BY <1>1, <1>2, <1>3, <2>1 DEF UpStep
<1>4. CASE ~c.socks_closed
  <2>1. UpState = "open" /\ UpState' \in {"open", "done", "cut"}
    BY <1>1, <1>4 DEF UpState
  <2>2. c.buf = Bytes(Len(toSocks), upRecv)
    BY <1>4 DEF History, UpHist
  <2>3. ASSUME UpState' = "done" PROVE Len(toSocks) = upRecv
    <3>1. c.buf = <<>>
      BY <1>4, <2>3 DEF UpState
    <3>2. Len(c.buf) = upRecv - Len(toSocks)
      BY <1>2, <2>2, BytesLen
    <3> QED
      BY <1>2, <3>1, <3>2
  <2>4. UpHist'
    BY <1>4, <2>2, <2>3 DEF History, UpHist
  <2> QED
    BY <1>2, <2>1, <2>4 DEF UpStep
<1> QED
  BY <1>3, <1>4

(* The same downstream: the pcb is kept with its data, or was given back    *)
(* before, or is now, and in order only when all has been acknowledged.    *)
LEMMA DownKept ==
    ASSUME IInv, History, c.live, downRecv' = downRecv, acked' = acked,
           \/ /\ c.pcb = "open" /\ c'.pcb = "open"
              /\ c'.unacked = c.unacked /\ c'.recv_buf = c.recv_buf
              /\ c'.socks_up = c.socks_up
           \/ /\ c.pcb # "open" /\ c'.pcb = c.pcb
              /\ "fin" \in ended' <=> "fin" \in ended
           \/ /\ c.pcb = "open" /\ c'.pcb \notin {"none", "open"}
              /\ c'.pcb = "closed" /\ "fin" \notin ended' => Len(acked) = downRecv
    PROVE  DownHist' /\ DownStep
<1>1. c.pcb # "none"
  BY DEF History, EndHist
<1>2. downRecv \in Nat /\ Len(acked) \in Nat /\ Len(acked) <= downRecv
  BY SizesAssumption DEF IInv, History, DownHist
<1>3. CASE /\ c.pcb = "open" /\ c'.pcb = "open"
           /\ c'.unacked = c.unacked /\ c'.recv_buf = c.recv_buf
           /\ c'.socks_up = c.socks_up
  BY <1>2, <1>3 DEF History, DownHist, DownStep, DownState
<1>4. CASE c.pcb # "open" /\ c'.pcb = c.pcb /\ ("fin" \in ended' <=> "fin" \in ended)
  BY <1>2, <1>4 DEF History, DownHist, DownStep, DownState
<1>5. CASE /\ c.pcb = "open" /\ c'.pcb \notin {"none", "open"}
           /\ c'.pcb = "closed" /\ "fin" \notin ended' => Len(acked) = downRecv
  BY <1>2, <1>5 DEF History, DownHist, DownStep, DownState
<1> QED
  BY <1>3, <1>4, <1>5

(* Giving up the client, as UpKept and EndHist see it.                     *)
LEMMA UpGivenUp ==
    ASSUME IInv, IInv', History, c.live, GaveUp(c', c),
           upRecv' = upRecv, toSocks' = toSocks, ended \subseteq ended'
    PROVE  UpHist' /\ UpStep /\ EndHist'
<1>1. UpHist' /\ UpStep
  BY UpKept DEF GaveUp
<1>2. c'.live => ~c'.socks_closed
  BY DEF IInv, ClientInv, LiveInv, DeadInv, PcbOK, WaitsOK, GaveUp
<1> QED
  BY <1>1, <1>2 DEF EndHist, GaveUp

(* Everything received from SOCKS has been acknowledged.                   *)
LEMMA AllAcked ==
    ASSUME IInv, History, c.pcb = "open", c.unacked = <<>>,
           c.socks_up => c.recv_buf = <<>>
    PROVE  Len(acked) = downRecv
<1>1. downRecv \in Nat /\ Len(acked) \in Nat /\ Len(acked) <= downRecv
  BY SizesAssumption DEF IInv, History, DownHist
<1>2. CASE c.socks_up
  <2>1. c.recv_buf = Bytes(Len(acked) + 0, downRecv) /\ Len(acked) + 0 = Len(acked)
    BY <1>1, <1>2 DEF History, DownHist
  <2>2. Len(c.recv_buf) = downRecv - Len(acked)
    BY <1>1, <2>1, BytesLen
  <2> QED
    BY <1>1, <1>2, <2>2
<1>3. CASE ~c.socks_up
  BY <1>1, <1>3 DEF History, DownHist
<1> QED
  BY <1>2, <1>3

LEMMA FinRelays == ASSUME IInv, IInv', History, AppFin PROVE History' /\ UpStep /\ DownStep
<1> PICK closeOk \in BOOLEAN : c' = client_free_client(DEAD_ENTER(c, "recv"), closeOk)
  BY DEF AppFin
<1> DEFINE e == DEAD_ENTER(c, "recv")
<1>1. LiveInv(c) /\ ~c.client_closed /\ c.live /\ c.pcb = "open"
  BY LiveCases DEF AppFin, LiveInv, Sound, PcbOK
<1>2. LiveInv(e) /\ Keeps(e, c, {"callback", "sync", "dead", "dead_aborted"})
  BY <1>1, Enter
<1>3. c' = client_free_client(e, closeOk)
  OBVIOUS
<1> HIDE DEF e
<1>4. Open(e)
  BY <1>1, <1>2 DEF LiveInv, Open, PcbOK, Keeps, Fields
<1>5. GaveUp(c', e)
  BY <1>3, <1>4, FreeClient
<1>6. GaveUp(c', c)
  BY <1>2, <1>5 DEF GaveUp, Keeps, Fields
<1>7. UpHist' /\ UpStep /\ EndHist'
  BY <1>1, <1>6, UpGivenUp DEF AppFin
<1>8. DownHist' /\ DownStep
  BY <1>1, <1>6, DownKept DEF AppFin, GaveUp
<1> QED
  BY <1>7, <1>8 DEF History

LEMMA ErrRelays ==
    ASSUME IInv, IInv', History, client_err_func PROVE History' /\ UpStep /\ DownStep
<1>1. c.live /\ c.pcb = "open"
  BY LiveCases DEF client_err_func, LiveInv, Sound, PcbOK
<1>2. c'.pcb = "gone" /\ GaveUp(c', c)
  BY ErrGivesUp
<1>3. UpHist' /\ UpStep /\ EndHist'
  BY <1>1, <1>2, UpGivenUp DEF client_err_func
<1>4. DownHist' /\ DownStep
  BY <1>1, <1>2, DownKept DEF client_err_func
<1> QED
  BY <1>3, <1>4 DEF History

LEMMA ReturnRelays == ASSUME IInv, History, CallbackReturn PROVE History' /\ UpStep /\ DownStep
<1> DEFINE P == c.dead = 0 => c.live
<1>1. c \in ClientType /\ c.ok /\ FrameOK(c) /\ c.callback # "none"
  BY DEF IInv, ClientInv, LiveInv, DeadInv, Sound, Shape, CallbackReturn
<1>2. P = TRUE
  BY <1>1 DEF FrameOK
<1>3. Asserting(c, P) = c
  BY <1>1, <1>2, AssertTrue
<1>4. c' = [c EXCEPT !.callback = "none", !.sync = FALSE, !.dead = 0,
                     !.dead_aborted = IF c.dead = 0 THEN "NULL" ELSE "stale"]
  BY <1>3 DEF CallbackReturn, DEAD_LEAVE2
<1>5. /\ c'.live = c.live /\ c'.pcb = c.pcb /\ c'.buf = c.buf /\ c'.unacked = c.unacked
      /\ c'.recv_buf = c.recv_buf /\ c'.socks_up = c.socks_up
      /\ c'.socks_closed = c.socks_closed
  BY <1>1, <1>4 DEF ClientType
<1>6. /\ upRecv' = upRecv /\ toSocks' = toSocks /\ downRecv' = downRecv /\ acked' = acked
      /\ ended' = ended /\ upRecv \in Nat /\ downRecv \in Nat
      /\ Len(toSocks) \in Nat /\ Len(acked) \in Nat
  BY SizesAssumption DEF CallbackReturn, IInv
<1>7. UpState' = UpState /\ DownState' = DownState
  BY <1>5, <1>6 DEF UpState, DownState
<1> QED
  BY <1>5, <1>6, <1>7 DEF History, UpHist, DownHist, EndHist, UpStep, DownStep

LEMMA MurderRelays ==
    ASSUME IInv, History, Murder PROVE History' /\ UpStep /\ DownStep
<1>1. LiveInv(c) /\ c.live /\ c.pcb # "none"
  BY LiveCases DEF Murder, History, EndHist
<1>2. DeadInv(c') /\ (c'.pcb = c.pcb \/ (c.pcb = "open" /\ c'.pcb = "aborted"))
  BY <1>1, MurderInv DEF Murder
<1>3. c'.pcb \notin {"none", "open"} /\ ~c'.live /\ c'.socks_closed
  BY <1>1, <1>2 DEF DeadInv
<1>4. UpHist' /\ UpStep
  BY <1>1, <1>3, UpKept DEF Murder
<1>5. DownHist' /\ DownStep
  BY <1>1, <1>2, <1>3, DownKept DEF Murder
<1> QED
  BY <1>3, <1>4, <1>5 DEF History, EndHist

LEMMA SocksErrorRelays ==
    ASSUME IInv, History, SocksError PROVE History' /\ UpStep /\ DownStep
<1> PICK closeOk \in BOOLEAN : c' = client_free_socks(c, closeOk)
  BY DEF SocksError
<1>1. LiveInv(c) /\ ~c.socks_closed /\ c.live /\ c.pcb # "none"
  BY LiveCases DEF SocksError, History, EndHist
<1>2. Working(c)
  BY <1>1 DEF LiveInv, Working
<1>3. /\ c'.socks_closed /\ c'.buf = c.buf
      /\ c'.pcb # "open" /\ c.pcb = "open" =>
           c'.pcb # "none" /\ (c.socks_up => c.recv_buf = <<>> /\ c.tcp_pending = 0)
      /\ c'.pcb = "open" => Keeps(c', c, {"socks_closed", "sending", "receiving", "cb"})
      /\ c.pcb # "open" => c'.pcb = c.pcb
  BY <1>2, FreeSocks
<1>4. c'.pcb # "none"
  BY <1>1, <1>3
<1>5. "socks" \in ended'
  BY DEF SocksError
<1>6. UpHist' /\ UpStep
  BY <1>1, <1>3, <1>4, <1>5, UpKept DEF SocksError
<1>7. ASSUME c.pcb = "open", c'.pcb # "open" PROVE Len(acked) = downRecv
  <2>1. Len(c.unacked) = 0 /\ c.unacked \in Seq(Nat)
    BY <1>1, <1>3, <1>7 DEF LiveInv, PcbOK, PendingOK, Sound, Shape, ClientType
  <2>2. c.unacked = <<>>
    BY <2>1, Empty
  <2> QED
    BY <1>3, <1>7, <2>2, AllAcked
<1>8. CASE c'.pcb = "open"
  <2>1. /\ c.pcb = "open" /\ c'.unacked = c.unacked /\ c'.recv_buf = c.recv_buf
        /\ c'.socks_up = c.socks_up
    BY <1>3, <1>8 DEF Keeps, Fields
  <2>2. DownHist' /\ DownStep
    BY <1>1, <1>8, <2>1, DownKept DEF SocksError
  <2> QED
    BY <1>4, <1>5, <1>6, <2>2 DEF History, EndHist
<1>9. CASE c'.pcb # "open"
  <2>1. DownHist' /\ DownStep
    BY <1>1, <1>3, <1>4, <1>7, <1>9, DownKept DEF SocksError
  <2> QED
    BY <1>4, <1>5, <1>6, <2>1 DEF History, EndHist
<1> QED
  BY <1>8, <1>9

LEMMA UpRelays ==
    ASSUME IInv, History, SocksUp PROVE History' /\ UpStep /\ DownStep
<1>1. /\ LiveInv(c) /\ c.live /\ c.pcb # "none" /\ ~c.socks_up /\ ~c.socks_closed
      /\ upRecv' = upRecv /\ toSocks' = toSocks /\ downRecv' = downRecv /\ acked' = acked
      /\ ended' = ended
  BY LiveCases DEF SocksUp, History, EndHist
<1>2. /\ c'.recv_buf = <<>> /\ c'.socks_up
      /\ Keeps(c', c, {"recv_buf", "tcp_pending", "socks_up", "cb", "sending", "receiving"})
  BY <1>1, Up DEF SocksUp
<1>3. /\ c'.live = c.live /\ c'.pcb = c.pcb /\ c'.buf = c.buf /\ c'.unacked = c.unacked
      /\ c'.socks_closed = c.socks_closed
  BY <1>2 DEF Keeps, Fields
<1>4. UpHist' /\ UpStep
  BY <1>1, <1>3, UpKept
<1>5. DownHist' /\ DownStep
  <2>1. CASE c.pcb = "open"
    <3>1. Len(c.unacked) = 0
      BY <1>1, <2>1 DEF LiveInv, PcbOK, PendingOK
    <3>2. downRecv = 0 /\ Len(acked) \in Nat /\ Len(acked) <= downRecv
      BY <1>1, <2>1 DEF History, DownHist, IInv
    <3>3. Len(acked) = 0 /\ Len(acked) + Len(c.unacked) = 0 /\ Bytes(0, 0) = <<>>
      BY <3>1, <3>2, BytesNone
    <3>4. DownState' = "open" /\ DownState = "open"
      BY <1>3, <2>1 DEF DownState
    <3>5. DownHist'
      BY <1>1, <1>2, <1>3, <2>1, <3>2, <3>3, <3>4 DEF History, DownHist
    <3> QED
      BY <1>1, <3>2, <3>4, <3>5 DEF DownStep
  <2>2. CASE c.pcb # "open"
    BY <1>1, <1>3, <2>2, DownKept
  <2> QED
    BY <2>1, <2>2
<1> QED
  BY <1>1, <1>3, <1>4, <1>5 DEF History, EndHist

LEMMA DataRelays ==
    ASSUME IInv, IInv', History, AppData PROVE History' /\ UpStep /\ DownStep
<1> PICK k \in 1..Least(c.rcv_wnd, MaxUp - upRecv) :
        LET s == [c EXCEPT !.rcv_wnd = @ - k]
            t == client_recv_func(s, Bytes(upRecv, upRecv + k))
        IN  /\ c' = t
            /\ upRecv' = IF k > TCP_WND - Len(s.buf) THEN upRecv ELSE upRecv + k
  BY DEF AppData
<1>1. PICK s : s = [c EXCEPT !.rcv_wnd = @ - k]
  OBVIOUS
<1>2. PICK data : data = Bytes(upRecv, upRecv + k)
  OBVIOUS
<1>3. c' = client_recv_func(s, data)
  BY <1>1, <1>2
<1>u. upRecv' = IF k > TCP_WND - Len(s.buf) THEN upRecv ELSE upRecv + k
  BY <1>1
<1>4. LiveInv(c) /\ c.live /\ ~c.socks_closed /\ c.pcb = "open" /\ "recv" \in c.cb
  BY LiveCases DEF AppData, LiveInv, PcbOK, Sound
<1>w. /\ c \in ClientType /\ c.rcv_wnd \in 0..TCP_WND /\ c.buf \in Seq(Nat)
      /\ c.rcv_wnd + Len(c.buf) <= TCP_WND
  BY <1>4 DEF LiveInv, Sound, Shape, WindowOK, PcbOK, ClientType
<1>5. k \in Nat /\ k > 0 /\ k <= c.rcv_wnd /\ upRecv \in Nat
  <2>1. c.rcv_wnd \in 0..TCP_WND
    BY <1>w
  <2> QED
    BY <2>1, SizesAssumption, SMTT(60) DEF IInv, Least
<1>6. data \in Seq(Nat) /\ Len(data) = k
  BY <1>2, <1>5, BytesType
<1>7. LiveInv(s) /\ "recv" \in s.cb /\ Keeps(s, c, {"rcv_wnd"})
      /\ s.rcv_wnd + Len(s.buf) + Len(data) <= TCP_WND
  BY <1>1, <1>4, <1>5, <1>6, Window
<1>8. c'.buf = s.buf \o data /\ Keeps(c', s, {"callback", "sync", "dead", "dead_aborted", "buf", "sending"})
  BY <1>3, <1>5, <1>6, <1>7, RecvFunc
<1>9. /\ c'.buf = c.buf \o data /\ c'.pcb = "open" /\ ~c'.socks_closed /\ c'.live = c.live
      /\ c'.unacked = c.unacked /\ c'.recv_buf = c.recv_buf /\ c'.socks_up = c.socks_up
      /\ s.buf = c.buf
  BY <1>4, <1>7, <1>8 DEF Keeps, Fields
<1>10. upRecv' = upRecv + k
  <2>1. k <= TCP_WND - Len(c.buf)
    <3>1. Len(c.buf) \in Nat /\ c.rcv_wnd \in Nat /\ TCP_WND \in Nat
      BY <1>w, SizesAssumption
    <3> QED
      BY ONLY <1>5, <1>w, <3>1, SMTT(60)
  <2> QED
    BY <1>5, <1>9, <1>u, <1>w, <2>1, SizesAssumption
<1>11. /\ toSocks' = toSocks /\ downRecv' = downRecv /\ acked' = acked /\ ended' = ended
       /\ Len(toSocks) \in Nat /\ Len(toSocks) <= upRecv /\ c.buf = Bytes(Len(toSocks), upRecv)
  BY <1>4 DEF AppData, IInv, History, UpHist
<1>12. c'.buf = Bytes(Len(toSocks), upRecv + k)
  <2>1. c'.buf = Bytes(Len(toSocks), upRecv) \o Bytes(upRecv, upRecv + k)
    BY <1>2, <1>9, <1>11
  <2>2. upRecv + k \in Nat /\ upRecv <= upRecv + k
    BY <1>5
  <2> QED
    BY <1>5, <1>11, <2>1, <2>2, BytesJoin
<1>13. UpState' = "open" /\ UpState = "open"
  BY <1>4, <1>9 DEF UpState
<1>14. UpHist' /\ UpStep
  BY <1>5, <1>10, <1>11, <1>12, <1>13 DEF History, UpHist, UpStep
<1>15. DownHist' /\ DownStep
  BY <1>4, <1>9, <1>11, DownKept
<1> QED
  BY <1>4, <1>9, <1>14, <1>15 DEF History, EndHist

LEMMA SendDoneRelays ==
    ASSUME IInv, IInv', History, SocksSendDone PROVE History' /\ UpStep /\ DownStep
<1> PICK n \in 1..c.sending, closeOk \in BOOLEAN :
          /\ c' = client_socks_send_handler_done(c, n, closeOk)
          /\ toSocks' = toSocks \o Take(c.buf, n)
  BY DEF SocksSendDone
<1>1. LiveInv(c) /\ c.live /\ c.pcb # "none" /\ ~c.socks_closed
  <2>1. c.sending \in Nat
    BY DEF IInv, ClientInv, LiveInv, DeadInv, Sound, Shape, ClientType
  <2>2. LiveInv(c)
    BY <2>1, LiveCases
  <2> QED
    BY <2>1, <2>2 DEF LiveInv, Sound, IdleOK, History, EndHist
<1>2. /\ c'.buf = Rest(c.buf, n) /\ c'.pcb = c.pcb
      /\ c'.socks_closed => c'.buf = <<>> /\ c'.pcb # "open"
      /\ c'.pcb = "open" => Keeps(c', c, {"buf", "sending", "rcv_wnd"})
  BY <1>1, SendDone
<1>3. c.buf \in Seq(Nat) /\ n \in 0..Len(c.buf) /\ n \in Nat
  BY <1>1 DEF LiveInv, Sound, Shape, ClientType
<1>4. /\ upRecv' = upRecv /\ downRecv' = downRecv /\ acked' = acked /\ ended' = ended
      /\ Len(toSocks) \in Nat /\ upRecv \in Nat /\ Len(toSocks) <= upRecv
      /\ toSocks = Bytes(0, Len(toSocks)) /\ c.buf = Bytes(Len(toSocks), upRecv)
  BY <1>1, SizesAssumption DEF SocksSendDone, IInv, History, UpHist
<1>5. n \in 0..(upRecv - Len(toSocks)) /\ Len(toSocks) + n \in Nat /\ Len(toSocks) + n <= upRecv
  <2>1. Len(c.buf) = upRecv - Len(toSocks)
    BY <1>4, BytesLen
  <2> QED
    BY <1>3, <1>4, <2>1
<1>6. /\ Take(c.buf, n) = Bytes(Len(toSocks), Len(toSocks) + n)
      /\ c'.buf = Bytes(Len(toSocks) + n, upRecv)
  BY <1>2, <1>4, <1>5, BytesTake
<1>7. toSocks' = Bytes(0, Len(toSocks) + n)
  <2>1. toSocks' = Bytes(0, Len(toSocks)) \o Bytes(Len(toSocks), Len(toSocks) + n)
    BY <1>4, <1>6
  <2>2. 0 \in Nat /\ 0 <= Len(toSocks) /\ Len(toSocks) <= Len(toSocks) + n
    BY <1>3, <1>4
  <2> QED
    BY <1>4, <1>5, <2>1, <2>2, BytesJoin
<1>8. Len(toSocks') = Len(toSocks) + n
  <2>1. 0 \in Nat /\ 0 <= Len(toSocks) + n /\ (Len(toSocks) + n) - 0 = Len(toSocks) + n
    BY <1>5
  <2> QED
    BY <1>5, <1>7, <2>1, BytesLen
<1>9. ASSUME c'.buf = <<>> PROVE Len(toSocks') = upRecv
  <2>1. Len(c'.buf) = upRecv - (Len(toSocks) + n)
    BY <1>4, <1>5, <1>6, BytesLen
  <2> QED
    BY <1>4, <1>5, <1>8, <1>9, <2>1
<1>10. UpState = "open" /\ UpState' \in {"open", "done", "cut"}
       /\ (UpState' # "open" => c'.socks_closed)
  BY <1>1, <1>2 DEF UpState
<1>11. UpHist' /\ UpStep
  <2>1. UpHist'
    BY <1>2, <1>4, <1>5, <1>6, <1>7, <1>8, <1>9, <1>10, SMTT(60) DEF UpHist
  <2>2. UpStep
    BY <1>3, <1>4, <1>5, <1>8, <1>10, SMTT(60) DEF UpStep
  <2> QED
    BY <2>1, <2>2
<1>12. DownHist' /\ DownStep
  <2>1. c'.pcb = "open" =>
          /\ c'.unacked = c.unacked /\ c'.recv_buf = c.recv_buf /\ c'.socks_up = c.socks_up
    BY <1>2 DEF Keeps, Fields
  <2> QED
    BY <1>1, <1>2, <1>4, <2>1, DownKept
<1>13. c'.live => ~c'.socks_closed
  BY <1>2 DEF IInv, ClientInv, LiveInv, DeadInv, PcbOK, WaitsOK
<1> QED
  BY <1>1, <1>2, <1>11, <1>12, <1>13 DEF History, EndHist

(* The first k of the bytes from m on join those from l on in lwIP.        *)
LEMMA Delivered ==
    ASSUME NEW l \in Nat, NEW m \in Nat, NEW n \in Nat, l <= m, m <= n,
           NEW k \in 0..Len(Bytes(m, n))
    PROVE  /\ Bytes(l, m) \o Take(Bytes(m, n), k) = Bytes(l, m + k)
           /\ Rest(Bytes(m, n), k) = Bytes(m + k, n)
           /\ m + k \in Nat /\ m + k <= n /\ l <= m + k
           /\ Len(Bytes(l, m + k)) = (m + k) - l
<1>1. k \in 0..(n - m) /\ m + k \in Nat /\ m + k <= n /\ l <= m + k /\ m <= m + k
  <2>1. Len(Bytes(m, n)) = n - m
    BY BytesLen
  <2> QED
    BY <2>1
<1>2. Take(Bytes(m, n), k) = Bytes(m, m + k) /\ Rest(Bytes(m, n), k) = Bytes(m + k, n)
  BY <1>1, BytesTake
<1>3. Bytes(l, m) \o Bytes(m, m + k) = Bytes(l, m + k)
  BY <1>1, BytesJoin
<1> QED
  BY <1>1, <1>2, <1>3, BytesLen

(* A step in which lwIP got more of the stream and the rest waits.         *)
LEMMA MovedRelays ==
    ASSUME IInv, IInv', History, c.live, c.pcb = "open", c.socks_up,
           upRecv' = upRecv, toSocks' = toSocks, ended' = ended,
           downRecv' \in Nat, downRecv' >= downRecv,
           NEW a \in Nat, NEW m \in Nat, a <= m, m <= downRecv', Len(acked) <= a,
           acked' = Bytes(0, a),
           NEW un, NEW rb, un = Bytes(a, m), rb = Bytes(m, downRecv'),
           Moved(c', c, un, rb)
    PROVE  History' /\ UpStep /\ DownStep
<1>1. PICK k \in 0..Len(rb) : c'.unacked = un \o Take(rb, k) /\ c'.recv_buf = Rest(rb, k)
  BY DEF Moved
<1>2. /\ c'.pcb = "open" /\ c'.buf = c.buf /\ c'.live = c.live
      /\ c'.socks_closed = c.socks_closed /\ c'.socks_up = c.socks_up
  BY DEF Moved, Keeps, Fields
<1>3. /\ c'.unacked = Bytes(a, m + k) /\ c'.recv_buf = Bytes(m + k, downRecv')
      /\ m + k \in Nat /\ m + k <= downRecv' /\ a <= m + k
      /\ Len(c'.unacked) = (m + k) - a
  <2>1. k \in 0..Len(Bytes(m, downRecv'))
    OBVIOUS
  <2>2. /\ c'.unacked = Bytes(a, m) \o Take(Bytes(m, downRecv'), k)
        /\ c'.recv_buf = Rest(Bytes(m, downRecv'), k)
    BY <1>1
  <2> PICK d \in Nat : d = downRecv'
    OBVIOUS
  <2>3. /\ Bytes(a, m) \o Take(Bytes(m, d), k) = Bytes(a, m + k)
        /\ Rest(Bytes(m, d), k) = Bytes(m + k, d)
        /\ m + k \in Nat /\ m + k <= d /\ a <= m + k /\ Len(Bytes(a, m + k)) = (m + k) - a
    <3>1. d \in Nat /\ m <= d /\ k \in 0..Len(Bytes(m, d)) /\ a \in Nat /\ m \in Nat /\ a <= m
      BY <2>1
    <3> QED
      BY ONLY <3>1, Delivered
  <2> QED
    BY <2>2, <2>3
<1>4. Len(acked') = a /\ Len(acked) \in Nat /\ downRecv \in Nat
  <2>1. 0 \in Nat /\ 0 <= a /\ a - 0 = a
    OBVIOUS
  <2>2. Len(Bytes(0, a)) = a
    BY <2>1, BytesLen
  <2> QED
    BY <2>2, SizesAssumption DEF IInv
<1>5. Len(acked') + Len(c'.unacked) = m + k
  BY <1>3, <1>4
<1>6. DownState = "open" /\ DownState' = "open"
  BY <1>2 DEF DownState
<1>7. DownHist' /\ DownStep
  BY <1>2, <1>3, <1>4, <1>5, <1>6 DEF DownHist, DownStep
<1>8. UpHist' /\ UpStep
  BY <1>2, UpKept
<1> QED
  BY <1>2, <1>7, <1>8 DEF History, EndHist

LEMMA RecvDoneRelays ==
    ASSUME IInv, IInv', History, SocksRecvDone PROVE History' /\ UpStep /\ DownStep
<1> PICK k \in 1..Least(RECV_BUF_SIZE, MaxDown - downRecv), lwip \in {"ok", "mem", "fail"} :
          /\ c' = client_socks_recv_handler_done(c, Bytes(downRecv, downRecv + k), lwip)
          /\ downRecv' = IF c.client_closed THEN downRecv ELSE downRecv + k
  BY DEF SocksRecvDone
<1>1. /\ LiveInv(c) /\ c.receiving /\ c.live /\ c.socks_up /\ c.recv_buf = <<>>
      /\ c.client_closed <=> c.pcb # "open"
  BY LiveCases DEF SocksRecvDone, LiveInv, Sound, IdleOK, RecvOK, PcbOK
<1>2. k \in Nat /\ k \in 1..RECV_BUF_SIZE /\ downRecv \in Nat
  BY SizesAssumption DEF IInv, Least
<1> DEFINE data == Bytes(downRecv, downRecv + k)
<1>3. data \in Seq(Nat) /\ Len(data) = k
  BY <1>2, BytesType
<1>4. c' = client_socks_recv_handler_done(c, data, lwip)
  OBVIOUS
<1>d. data = Bytes(downRecv, downRecv + k)
  OBVIOUS
<1> HIDE DEF data
<1>5. /\ c.pcb # "open" => Keeps(c', c, {"receiving"})
      /\ c.pcb = "open" => Aborted(c', c) \/ Moved(c', c, c.unacked, data)
  BY <1>1, <1>2, <1>3, <1>4, RecvDone
<1>6. /\ upRecv' = upRecv /\ toSocks' = toSocks /\ acked' = acked /\ ended' = ended
      /\ Len(acked) \in Nat /\ Len(acked) <= downRecv
  BY DEF SocksRecvDone, IInv, History, DownHist
<1>7. CASE c.pcb # "open"
  <2>1. downRecv' = downRecv
    BY <1>1, <1>7
  <2>2. /\ c'.pcb = c.pcb /\ c'.buf = c.buf /\ c'.live = c.live
        /\ c'.socks_closed = c.socks_closed
    BY <1>5, <1>7 DEF Keeps, Fields
  <2>3. c.pcb # "none"
    BY <1>1 DEF History, EndHist
  <2>4. UpHist' /\ UpStep
    BY <1>1, <1>6, <2>2, <2>3, UpKept
  <2>5. DownHist' /\ DownStep
    BY <1>1, <1>6, <1>7, <2>1, <2>2, DownKept
  <2> QED
    BY <1>6, <2>2, <2>3, <2>4, <2>5 DEF History, EndHist
<1>8. CASE c.pcb = "open" /\ Aborted(c', c)
  <2>1. downRecv' = downRecv + k /\ GaveUp(c', c) /\ c'.pcb = "aborted"
    BY <1>1, <1>8 DEF Aborted
  <2>2. UpHist' /\ UpStep /\ EndHist'
    BY <1>1, <1>6, <2>1, UpGivenUp
  <2>3. DownState = "open" /\ DownState' = "cut"
    BY <1>8, <2>1 DEF DownState
  <2>4. DownHist' /\ DownStep
    BY <1>2, <1>6, <2>1, <2>3 DEF History, DownHist, DownStep
  <2> QED
    BY <2>2, <2>4 DEF History
<1>9. CASE c.pcb = "open" /\ Moved(c', c, c.unacked, data)
  <2>1. downRecv' = downRecv + k /\ downRecv' \in Nat /\ downRecv' >= downRecv
    BY <1>1, <1>2, <1>9
  <2> DEFINE m == Len(acked) + Len(c.unacked)
  <2>2. /\ m <= downRecv /\ c.unacked = Bytes(Len(acked), m)
        /\ c.recv_buf = Bytes(m, downRecv) /\ acked = Bytes(0, Len(acked))
    BY <1>1, <1>9 DEF History, DownHist
  <2>3. Len(c.unacked) \in Nat /\ m \in Nat /\ Len(acked) <= m
    <3>1. c.unacked \in Seq(Nat)
      BY <1>1 DEF LiveInv, Sound, Shape, ClientType
    <3> QED
      BY <1>6, <3>1
  <2>4. m = downRecv
    <3>1. Len(c.recv_buf) = downRecv - m
      BY <1>2, <2>2, <2>3, BytesLen
    <3> QED
      BY <1>1, <1>2, <2>2, <2>3, <3>1
  <2>5. data = Bytes(m, downRecv')
    BY <1>d, <2>1, <2>4
  <2>6. m <= downRecv'
    BY <2>1, <2>3, <2>4
  <2> HIDE DEF m
  <2>7. acked' = Bytes(0, Len(acked)) /\ Len(acked) <= Len(acked)
    BY <1>6, <2>2
  <2> QED
    BY <1>1, <1>6, <1>9, <2>1, <2>2, <2>3, <2>5, <2>6, <2>7, MovedRelays
<1> QED
  BY <1>5, <1>7, <1>8, <1>9

LEMMA AckRelays ==
    ASSUME IInv, IInv', History, AppAck PROVE History' /\ UpStep /\ DownStep
<1> PICK n \in 1..Len(c.unacked), lwip \in {"ok", "mem", "fail"}, closeOk \in BOOLEAN :
          /\ c' = client_sent_func([c EXCEPT !.unacked = Rest(@, n)], n, lwip, closeOk)
          /\ acked' = acked \o Take(c.unacked, n)
  BY DEF AppAck
<1>1. /\ LiveInv(c) /\ "sent" \in c.cb /\ c.live /\ c.pcb = "open" /\ c.socks_up
      /\ c.unacked \in Seq(Nat)
  BY LiveCases DEF AppAck, LiveInv, Sound, PcbOK, Shape, ClientType
<1>2. \/ Aborted(c', c) \/ Moved(c', c, Rest(c.unacked, n), c.recv_buf)
      \/ GaveUp(c', c) /\ c.recv_buf = <<>> /\ n = Len(c.unacked)
  BY <1>1, SentFunc
<1>3. /\ upRecv' = upRecv /\ toSocks' = toSocks /\ downRecv' = downRecv /\ ended' = ended
      /\ Len(acked) \in Nat /\ downRecv \in Nat
  BY SizesAssumption DEF AppAck, IInv
<1> DEFINE l == Len(acked)
           m == l + Len(c.unacked)
           a == l + n
<1>4. /\ m <= downRecv /\ c.unacked = Bytes(l, m) /\ c.recv_buf = Bytes(m, downRecv)
      /\ acked = Bytes(0, l)
  BY <1>1 DEF History, DownHist
<1>5. l \in Nat /\ m \in Nat /\ a \in Nat /\ l <= m /\ l <= a /\ a <= m
      /\ n \in Nat /\ n \in 0..(m - l) /\ (n = Len(c.unacked) => a = m)
  <2>1. Len(c.unacked) \in Nat /\ n \in Nat /\ n <= Len(c.unacked) /\ l \in Nat
    BY <1>1, <1>3
  <2>2. m = l + Len(c.unacked) /\ a = l + n
    OBVIOUS
  <2> HIDE DEF l, m, a
  <2> QED
    BY <2>1, <2>2, SMTT(60)
<1>l. l = Len(acked) /\ a = l + n
  OBVIOUS
<1> HIDE DEF l, m, a
<1>6. Take(c.unacked, n) = Bytes(l, a) /\ Rest(c.unacked, n) = Bytes(a, m)
  BY <1>4, <1>5, <1>l, BytesTake
<1>7. acked' = Bytes(0, a) /\ Len(acked') = a
  <2>1. acked' = Bytes(0, l) \o Bytes(l, a)
    BY <1>4, <1>6
  <2>2. 0 \in Nat /\ 0 <= l /\ 0 <= a /\ a - 0 = a
    BY <1>5
  <2>3. acked' = Bytes(0, a)
    BY <1>5, <2>1, <2>2, BytesJoin
  <2> QED
    BY <1>5, <2>2, <2>3, BytesLen
<1>8. CASE Moved(c', c, Rest(c.unacked, n), c.recv_buf)
  <2>1. /\ downRecv' \in Nat /\ downRecv' >= downRecv /\ m <= downRecv' /\ Len(acked) <= a
        /\ c.recv_buf = Bytes(m, downRecv')
    BY <1>3, <1>4, <1>5, <1>l
  <2> QED
    BY <1>1, <1>3, <1>5, <1>6, <1>7, <1>8, <2>1, MovedRelays
<1>9. CASE \/ Aborted(c', c)
           \/ GaveUp(c', c) /\ c.recv_buf = <<>> /\ n = Len(c.unacked)
  <2>1. GaveUp(c', c) /\ c'.pcb \notin {"none", "open"}
    BY <1>9 DEF Aborted, GaveUp
  <2>2. UpHist' /\ UpStep /\ EndHist'
    BY <1>1, <1>3, <2>1, UpGivenUp
  <2>3. DownState = "open" /\ DownState' \in {"done", "cut"}
    BY <1>1, <2>1 DEF DownState
  <2>4. ASSUME DownState' = "done" PROVE a = downRecv
    <3>1. c'.pcb # "aborted"
      BY <2>4 DEF DownState
    <3>2. c.recv_buf = <<>> /\ a = m
      BY <1>5, <1>9, <3>1 DEF Aborted
    <3>3. Len(c.recv_buf) = downRecv - m
      BY <1>3, <1>4, <1>5, BytesLen
    <3> QED
      BY <1>3, <1>5, <3>2, <3>3
  <2>5. a <= downRecv
    BY <1>3, <1>4, <1>5
  <2>6. DownHist'
    BY <1>3, <1>7, <2>1, <2>4, <2>5 DEF DownHist
  <2>7. DownStep
    BY <1>3, <1>5, <1>7, <1>l, <2>3 DEF DownStep
  <2> QED
    BY <2>2, <2>6, <2>7 DEF History
<1> QED
  BY <1>2, <1>8, <1>9

(* Accepting a connection is the abstract Connect.                         *)
LEMMA AcceptConnects ==
    ASSUME IInv, History, listener_accept_func PROVE History' /\ R!Connect
<1> DEFINE e == DEAD_ENTER(c, "accept")
<1>1. DeadInv(c) /\ c \in ClientType
  BY DEF IInv, ClientInv, LiveInv, DeadInv, Sound, Shape, listener_accept_func
<1>2. e \in ClientType
  BY <1>1, EnterFields
<1>3. c' = [e EXCEPT
                !.sync = TRUE, !.live = TRUE, !.num_clients = e.num_clients + 1,
                !.aborted = FALSE, !.client_closed = FALSE,
                !.socks_up = FALSE, !.socks_closed = FALSE,
                !.buf = <<>>, !.sending = 0, !.receiving = FALSE,
                !.pcb = "open", !.cb = {"err", "recv"},
                !.rcv_wnd = TCP_WND, !.unacked = <<>>]
  BY <1>2 DEF listener_accept_func, ClientType
<1> HIDE DEF e
<1>4. /\ c'.live /\ c'.pcb = "open" /\ ~c'.socks_closed /\ ~c'.socks_up
      /\ c'.buf = <<>> /\ c'.unacked = <<>>
  BY <1>2, <1>3 DEF ClientType
<1>5. /\ upRecv' = 0 /\ toSocks' = <<>> /\ downRecv' = 0 /\ acked' = <<>> /\ ended' = {}
      /\ Bytes(0, 0) = <<>> /\ Len(<<>>) = 0
  BY BytesNone DEF listener_accept_func
<1>6. UpState' = "open" /\ DownState' = "open"
  BY <1>4 DEF UpState, DownState
<1>7. UpState # "open" /\ DownState # "open"
  BY <1>1 DEF DeadInv, UpState, DownState
<1>8. History'
  BY <1>4, <1>5, <1>6 DEF History, UpHist, DownHist, EndHist
<1> QED
  BY <1>5, <1>6, <1>7, <1>8 DEF R!Connect

LEMMA InitHistory == Init => History /\ R!RelayInit
<1> SUFFICES ASSUME Init PROVE History /\ R!RelayInit
  OBVIOUS
<1>1. /\ upRecv = 0 /\ toSocks = <<>> /\ downRecv = 0 /\ acked = <<>>
      /\ Bytes(0, 0) = <<>> /\ Len(<<>>) = 0 /\ ~c.live /\ c.pcb = "none"
  BY BytesNone DEF Init, NoClient
<1>2. UpState = "idle" /\ DownState = "idle"
  BY <1>1 DEF UpState, DownState
<1> QED
  BY <1>1, <1>2 DEF History, UpHist, DownHist, EndHist, R!RelayInit

LEMMA StepRelays ==
    ASSUME IInv, IInv', History, [Next]_vars
    PROVE  History' /\ [R!Connect \/ R!Relaying]_(R!relayVars)
<1>1. CASE listener_accept_func
  BY <1>1, AcceptConnects
<1>2. CASE UNCHANGED vars
  BY <1>2 DEF vars, History, UpHist, DownHist, EndHist, UpState, DownState, R!relayVars
<1>3. CASE Next /\ ~listener_accept_func
  <2>1. History' /\ UpStep /\ DownStep
    BY <1>3, ReturnRelays, DataRelays, FinRelays, AckRelays, ErrRelays, UpRelays,
       SocksErrorRelays, SendDoneRelays, RecvDoneRelays, MurderRelays DEF Next
  <2> QED
    BY <2>1, Relayed
<1> QED
  BY <1>1, <1>2, <1>3

(* The connection relays as Relay promises: both directions in order,       *)
(* whole when they end in order, for every buffer size and amount of data.  *)
THEOREM RelayImplemented == Spec => ImplementsRelay
<1>1. IInv /\ IInv' /\ History /\ [Next]_vars =>
        History' /\ [R!Connect \/ R!Relaying]_(R!relayVars)
  BY StepRelays
<1> QED
  BY <1>1, InitHistory, Invariance, PTL DEF Spec, ImplementsRelay, R!RelaySpec
=============================================================================
