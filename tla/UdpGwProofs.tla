----------------------------- MODULE UdpGwProofs -----------------------------
(***************************************************************************)
(* The safety properties of UdpGw, for any number of addresses, conids,     *)
(* clients and ports, any limits and any buffers.                           *)
(***************************************************************************)
EXTENDS UdpGw, SequenceLemmas, FiniteSetTheorems

-----------------------------------------------------------------------------
(* The server's table s of the connections of the clients cl.               *)
Port == {-1} \cup 0..local_udp_num_ports - 1
Con == [client : Clients, conid : Conid, addr : Remotes, owner : Nat,
        local_port_index : Port,
        out : 0..CONNECTION_CLIENT_BUFFER_SIZE, busy : BOOLEAN, closing : BOOLEAN]

(* Two positions of open connections.                                      *)
OpenPair(s, i, j) ==
    i \in DOMAIN s /\ j \in DOMAIN s /\ i # j /\ ~s[i].closing /\ ~s[j].closing

Apart(s) == \A i, j : OpenPair(s, i, j) /\ s[i].local_port_index >= 0 /\ SameAddr(s[i].addr, s[j].addr)
                          => s[i].local_port_index # s[j].local_port_index
OneConid(s) == \A i, j : OpenPair(s, i, j) /\ s[i].client = s[j].client => s[i].conid # s[j].conid
Within(s) == \A n \in Clients : Cardinality(Open(s, n)) <= max_connections_for_client
Keyed(s) == Apart(s) /\ OneConid(s) /\ Within(s)

(* A client sends one packet at a time, and a closing connection sends it.  *)
OneBusy(s) == \A i, j \in DOMAIN s : s[i].busy /\ s[j].busy /\ s[i].client = s[j].client => i = j
Freed(s)   == \A i \in DOMAIN s : s[i].closing => s[i].busy
Sending(s) == OneBusy(s) /\ Freed(s) /\ \A i \in DOMAIN s : s[i].busy => s[i].out > 0

Table(s, cl) ==
    s \in Seq(Con) /\ (\A i \in DOMAIN s : s[i].client \in cl) /\ Keyed(s) /\ Sending(s)

(* t has the connections of s, in another order, without some of them and   *)
(* some of them closed; that of i is closed or gone.                        *)
Less(t, s, m, i) ==
    /\ m \in [1..Len(t) -> 1..Len(s)]
    /\ \A j, k \in 1..Len(t) : m[j] = m[k] => j = k
    /\ \A j \in 1..Len(t) :
           LET a == t[j]  b == s[m[j]]
           IN  /\ a.client = b.client /\ a.conid = b.conid /\ a.addr = b.addr
               /\ a.owner = b.owner /\ a.local_port_index = b.local_port_index
               /\ b.closing => a.closing
               /\ m[j] = i => a.closing
SameBusy(t, s, m) ==
    \A j \in 1..Len(t) : LET a == t[j]  b == s[m[j]]
                         IN  a.busy = b.busy /\ a.out >= b.out /\ (a.closing => b.closing \/ b.busy)

LEMMA ConFields ==
    ASSUME NEW c \in Con
    PROVE  /\ c.client \in Clients /\ c.conid \in Conid /\ c.addr \in Remotes /\ c.owner \in Nat
           /\ c.local_port_index \in Port
           /\ c.out \in 0..CONNECTION_CLIENT_BUFFER_SIZE /\ c.out \in Nat
           /\ c.busy \in BOOLEAN /\ c.closing \in BOOLEAN
<1>1. c.out \in 0..CONNECTION_CLIENT_BUFFER_SIZE
    BY DEF Con
<1>2. c.out \in Nat
    BY <1>1, ServerAssumption
<1> QED
    BY <1>1, <1>2 DEF Con

LEMMA OpenFinite ==
    ASSUME NEW s \in Seq(Con), NEW n
    PROVE  IsFiniteSet(Open(s, n)) /\ Cardinality(Open(s, n)) \in Nat /\ Open(s, n) \subseteq Nat
<1>1. Len(s) \in Nat /\ DOMAIN s = 1..Len(s)
    OBVIOUS
<1>2. IsFiniteSet(1..Len(s)) /\ Open(s, n) \in SUBSET (1..Len(s))
    BY <1>1, FS_Interval DEF Open
<1>3. IsFiniteSet(Open(s, n))
    BY <1>2, FS_Subset
<1> QED
    BY <1>2, <1>3, FS_CardinalityType

LEMMA LessOpen ==
    ASSUME NEW s \in Seq(Con), NEW t \in Seq(Con), NEW i, NEW n, NEW m, Less(t, s, m, i)
    PROVE  /\ \A j \in Open(t, n) : m[j] \in Open(s, n) /\ m[j] # i
           /\ \A j, k \in Open(t, n) : m[j] = m[k] => j = k
<1>1. DOMAIN t = 1..Len(t) /\ DOMAIN s = 1..Len(s)
    OBVIOUS
<1>2. ASSUME NEW j \in Open(t, n)
      PROVE  m[j] \in Open(s, n) /\ m[j] # i
    <2>1. j \in 1..Len(t) /\ t[j].client = n /\ ~t[j].closing
        BY <1>1 DEF Open
    <2>2. m[j] \in 1..Len(s)
        BY <2>1 DEF Less
    <2>3. t[j].client = s[m[j]].client /\ (s[m[j]].closing => t[j].closing) /\ (m[j] = i => t[j].closing)
        BY <2>1 DEF Less
    <2> QED
        BY <1>1, <2>1, <2>2, <2>3 DEF Open
<1>3. \A j, k \in Open(t, n) : m[j] = m[k] => j = k
    BY <1>1 DEF Open, Less
<1> QED
    BY <1>2, <1>3

LEMMA LessCount ==
    ASSUME NEW s \in Seq(Con), NEW t \in Seq(Con), NEW i, NEW n, NEW m, Less(t, s, m, i)
    PROVE  /\ Cardinality(Open(t, n)) <= Cardinality(Open(s, n))
           /\ i \in Open(s, n) => Cardinality(Open(t, n)) <= Cardinality(Open(s, n)) - 1
<1> DEFINE A == Open(t, n)
           B == Open(s, n)
           f == [j \in A |-> m[j]]
<1>1. /\ IsFiniteSet(A) /\ Cardinality(A) \in Nat
      /\ IsFiniteSet(B) /\ Cardinality(B) \in Nat
    BY OpenFinite
<1>2. /\ \A j \in A : m[j] \in B /\ m[j] # i
      /\ \A j, k \in A : m[j] = m[k] => j = k
    BY LessOpen
<1> HIDE DEF A, B
<1>3. f \in Injection(A, B \ {i})
    BY <1>2 DEF Injection, IsInjective
<1>4. IsFiniteSet(B \ {i}) /\ Cardinality(B \ {i}) = IF i \in B THEN Cardinality(B) - 1 ELSE Cardinality(B)
    BY <1>1, FS_RemoveElement
<1> HIDE DEF f
<1>5. Cardinality(A) <= Cardinality(B \ {i})
    BY <1>3, <1>4, FS_Injection
<1>6. CASE i \in B
    BY <1>1, <1>4, <1>5, <1>6 DEF A, B
<1>7. CASE i \notin B
    BY <1>1, <1>4, <1>5, <1>7 DEF A, B
<1> QED
    BY <1>6, <1>7

LEMMA LessKeyed ==
    ASSUME NEW s \in Seq(Con), NEW t \in Seq(Con), NEW i, NEW m, Less(t, s, m, i), Keyed(s)
    PROVE  Keyed(t)
<1>1. DOMAIN t = 1..Len(t) /\ DOMAIN s = 1..Len(s)
    OBVIOUS
<1>2. ASSUME NEW j, NEW k, OpenPair(t, j, k)
      PROVE  /\ OpenPair(s, m[j], m[k])
             /\ t[j].client = s[m[j]].client /\ t[k].client = s[m[k]].client
             /\ t[j].conid = s[m[j]].conid /\ t[k].conid = s[m[k]].conid
             /\ t[j].addr = s[m[j]].addr /\ t[k].addr = s[m[k]].addr
             /\ t[j].local_port_index = s[m[j]].local_port_index
             /\ t[k].local_port_index = s[m[k]].local_port_index
    <2>1. j \in 1..Len(t) /\ k \in 1..Len(t) /\ j # k /\ ~t[j].closing /\ ~t[k].closing
        BY <1>1, <1>2 DEF OpenPair
    <2>2. m[j] \in 1..Len(s) /\ m[k] \in 1..Len(s) /\ m[j] # m[k]
        BY <2>1 DEF Less
    <2>3. ~s[m[j]].closing /\ ~s[m[k]].closing
        BY <2>1 DEF Less
    <2> QED
        BY <1>1, <2>1, <2>2, <2>3 DEF OpenPair, Less
<1>3. Apart(t)
    <2>1. ASSUME NEW j, NEW k, OpenPair(t, j, k), t[j].local_port_index >= 0,
                 SameAddr(t[j].addr, t[k].addr)
          PROVE  t[j].local_port_index # t[k].local_port_index
        <3>1. OpenPair(s, m[j], m[k]) /\ s[m[j]].local_port_index >= 0
            BY <1>2, <2>1
        <3>2. SameAddr(s[m[j]].addr, s[m[k]].addr)
            BY <1>2, <2>1
        <3> QED
            BY <1>2, <2>1, <3>1, <3>2 DEF Apart, Keyed
    <2> QED
        BY <2>1 DEF Apart
<1>4. OneConid(t)
    BY <1>2 DEF OneConid, Keyed
<1>5. ASSUME NEW n \in Clients
      PROVE  Cardinality(Open(t, n)) <= max_connections_for_client
    <2>1. Cardinality(Open(t, n)) <= Cardinality(Open(s, n))
        BY LessCount
    <2>2. Cardinality(Open(s, n)) <= max_connections_for_client
        BY DEF Keyed, Within
    <2>3. Cardinality(Open(t, n)) \in Nat /\ Cardinality(Open(s, n)) \in Nat
        BY OpenFinite
    <2> QED
        BY <2>1, <2>2, <2>3, ServerAssumption
<1> QED
    BY <1>3, <1>4, <1>5 DEF Keyed, Within

LEMMA LessSending ==
    ASSUME NEW s \in Seq(Con), NEW t \in Seq(Con), NEW i, NEW m, Less(t, s, m, i),
           SameBusy(t, s, m), Sending(s)
    PROVE  Sending(t)
<1>1. DOMAIN t = 1..Len(t) /\ DOMAIN s = 1..Len(s)
    OBVIOUS
<1>2. ASSUME NEW j \in 1..Len(t)
      PROVE  /\ m[j] \in 1..Len(s) /\ t[j].client = s[m[j]].client
             /\ t[j].busy = s[m[j]].busy /\ (t[j].closing => s[m[j]].closing \/ s[m[j]].busy)
             /\ t[j].out >= s[m[j]].out /\ t[j].out \in Nat /\ s[m[j]].out \in Nat
    <2>1. m[j] \in 1..Len(s)
        BY DEF Less
    <2>2. t[j] \in Con /\ s[m[j]] \in Con
        BY <2>1
    <2>3. t[j].out \in Nat /\ s[m[j]].out \in Nat
        BY <2>2, ConFields
    <2> QED
        BY <2>1, <2>3 DEF Less, SameBusy
<1>3. \A j, k \in 1..Len(t) : m[j] = m[k] => j = k
    BY DEF Less
<1>4. OneBusy(t)
    <2> SUFFICES ASSUME NEW j \in 1..Len(t), NEW k \in 1..Len(t),
                        t[j].busy, t[k].busy, t[j].client = t[k].client
                 PROVE  j = k
        BY <1>1 DEF OneBusy
    <2>1. m[j] \in DOMAIN s /\ m[k] \in DOMAIN s
        BY <1>1, <1>2
    <2>2. s[m[j]].busy /\ s[m[k]].busy /\ s[m[j]].client = s[m[k]].client
        BY <1>2
    <2> QED
        BY <1>3, <2>1, <2>2 DEF Sending, OneBusy
<1>5. Freed(t)
    BY <1>1, <1>2 DEF Sending, Freed
<1>6. \A j \in DOMAIN t : t[j].busy => t[j].out > 0
    BY <1>1, <1>2 DEF Sending
<1> QED
    BY <1>4, <1>5, <1>6 DEF Sending

-----------------------------------------------------------------------------
(* What is taken out of the table, moved to its end or closed.              *)
SameCon(a, b) == a.conid = b.conid /\ a.addr = b.addr /\ a.owner = b.owner

(* Every connection of t is one of s; an open one was open.                 *)
FromCon(a, b) == a.client = b.client /\ SameCon(a, b) /\ (b.closing => a.closing)
Kept(t, s) == \A j \in DOMAIN t : \E k \in DOMAIN s : FromCon(t[j], s[k])
KeptFor(t, s, n) ==
    \A j \in DOMAIN t : t[j].client = n => \E k \in DOMAIN s : FromCon(t[j], s[k])

(* That of i is not open in t.                                             *)
OpenFrom(t, s, i) ==
    /\ Kept(t, s)
    /\ \A n \in Clients : \A j \in Open(t, n) : \E k \in Open(s, n) :
           k # i /\ SameCon(t[j], s[k]) /\ t[j].local_port_index = s[k].local_port_index

LEMMA LessTable ==
    ASSUME NEW s, NEW cl, Table(s, cl), NEW t \in Seq(Con), NEW i, NEW m,
           Less(t, s, m, i), SameBusy(t, s, m)
    PROVE  Table(t, cl) /\ OpenFrom(t, s, i)
<1>1. s \in Seq(Con) /\ DOMAIN t = 1..Len(t) /\ DOMAIN s = 1..Len(s)
    BY DEF Table
<1>2. \A j \in DOMAIN t : t[j].client \in cl
    BY <1>1 DEF Table, Less
<1>3. Keyed(t)
    BY <1>1, LessKeyed DEF Table
<1>4. Sending(t)
    BY <1>1, LessSending DEF Table
<1>5. ASSUME NEW n \in Clients, NEW j \in Open(t, n)
      PROVE  \E k \in Open(s, n) :
                 k # i /\ SameCon(t[j], s[k]) /\ t[j].local_port_index = s[k].local_port_index
    <2>1. m[j] \in Open(s, n) /\ m[j] # i
        BY <1>1, LessOpen
    <2>2. j \in 1..Len(t)
        BY <1>1 DEF Open
    <2> QED
        BY <2>1, <2>2 DEF Less, SameCon
<1>6. Kept(t, s)
    <2>1. ASSUME NEW j \in DOMAIN t PROVE m[j] \in DOMAIN s /\ FromCon(t[j], s[m[j]])
        BY <1>1, <2>1 DEF Less, FromCon, SameCon
    <2> QED
        BY <2>1 DEF Kept
<1> QED
    BY <1>2, <1>3, <1>4, <1>5, <1>6 DEF Table, OpenFrom

LEMMA RemoveIndex ==
    ASSUME NEW S, NEW s \in Seq(S), NEW i \in 1..Len(s)
    PROVE  /\ RemoveAt(s, i) \in Seq(S) /\ Len(RemoveAt(s, i)) = Len(s) - 1
           /\ Len(s) \in Nat
           /\ \A j \in 1..Len(s) - 1 : RemoveAt(s, i)[j] = IF j < i THEN s[j] ELSE s[j + 1]
<1> DEFINE u == SubSeq(s, 1, i - 1) \o SubSeq(s, i + 1, Len(s))
<1>1. /\ u \in Seq(S) /\ Len(u) = Len(s) - 1
      /\ \A j \in 1..Len(u) : u[j] = IF j < i THEN s[j] ELSE s[j + 1]
    BY SubSeqIndex
<1>2. RemoveAt(s, i) = u
    BY DEF RemoveAt
<1> HIDE DEF u
<1> QED
    BY <1>1, <1>2, SMTT(60)

LEMMA RemoveLess ==
    ASSUME NEW s \in Seq(Con), NEW i \in 1..Len(s)
    PROVE  \E m : Less(RemoveAt(s, i), s, m, i) /\ SameBusy(RemoveAt(s, i), s, m)
<1> DEFINE t == RemoveAt(s, i)
           m == [j \in 1..Len(t) |-> IF j < i THEN j ELSE j + 1]
<1>1. /\ t \in Seq(Con) /\ Len(t) = Len(s) - 1 /\ Len(s) \in Nat
      /\ \A j \in 1..Len(t) : t[j] = IF j < i THEN s[j] ELSE s[j + 1]
    BY RemoveIndex
<1> HIDE DEF t
<1>2. m \in [1..Len(t) -> 1..Len(s)]
    BY <1>1
<1>3. \A j \in 1..Len(t) : m[j] # i /\ t[j] = s[m[j]]
    BY <1>1
<1>4. \A j, k \in 1..Len(t) : m[j] = m[k] => j = k
    BY <1>1
<1> HIDE DEF m
<1>5. Less(t, s, m, i)
    BY <1>2, <1>3, <1>4 DEF Less
<1>6. SameBusy(t, s, m)
    <2>1. ASSUME NEW j \in 1..Len(t)
          PROVE  t[j].out >= s[m[j]].out
        <3>1. t[j] \in Con /\ t[j] = s[m[j]]
            BY <1>1, <1>3
        <3> QED
            BY <3>1, ConFields
    <2> QED
        BY <1>3, <2>1 DEF SameBusy
<1> QED
    BY <1>5, <1>6 DEF t

(* The same connection, which may have more to send.                        *)
LEMMA MoveLess ==
    ASSUME NEW s \in Seq(Con), NEW i \in 1..Len(s), NEW e \in Con,
           SameCon(e, s[i]), e.client = s[i].client, e.local_port_index = s[i].local_port_index,
           e.busy = s[i].busy, e.closing = s[i].closing, e.out >= s[i].out
    PROVE  /\ Append(RemoveAt(s, i), e) \in Seq(Con)
           /\ Len(Append(RemoveAt(s, i), e)) = Len(s)
           /\ \E m : /\ Less(Append(RemoveAt(s, i), e), s, m, 0)
                     /\ SameBusy(Append(RemoveAt(s, i), e), s, m)
<1> DEFINE r == RemoveAt(s, i)
           t == Append(r, e)
           m == [j \in 1..Len(t) |-> IF j < i THEN j ELSE IF j < Len(s) THEN j + 1 ELSE i]
<1>1. /\ r \in Seq(Con) /\ Len(r) = Len(s) - 1 /\ Len(s) \in Nat
      /\ \A j \in 1..Len(s) - 1 : r[j] = IF j < i THEN s[j] ELSE s[j + 1]
    BY RemoveIndex
<1> HIDE DEF r
<1>2. /\ t \in Seq(Con) /\ Len(t) = Len(s)
      /\ \A j \in 1..Len(t) : t[j] = IF j < Len(s) THEN r[j] ELSE e
    BY <1>1, AppendIndex
<1> HIDE DEF t
<1>3. m \in [1..Len(t) -> 1..Len(s)]
    BY <1>1, <1>2
<1>4. \A j \in 1..Len(t) : m[j] # 0 /\ (t[j] = s[m[j]] \/ (m[j] = i /\ t[j] = e))
    BY <1>1, <1>2, SMTT(60)
<1>9. \A j \in 1..Len(t) : m[j] = IF j < i THEN j ELSE IF j < Len(s) THEN j + 1 ELSE i
    OBVIOUS
<1> HIDE DEF m
<1>5. \A j, k \in 1..Len(t) : m[j] = m[k] => j = k
    BY <1>1, <1>2, <1>9
<1>6. Less(t, s, m, 0)
    <2>1. ASSUME NEW j \in 1..Len(t)
          PROVE  /\ t[j].client = s[m[j]].client /\ SameCon(t[j], s[m[j]])
                 /\ t[j].local_port_index = s[m[j]].local_port_index
                 /\ t[j].closing = s[m[j]].closing
        BY <1>4 DEF SameCon
    <2> QED
        BY <1>3, <1>4, <1>5, <2>1 DEF Less, SameCon
<1>7. ASSUME NEW j \in 1..Len(t)
      PROVE  /\ t[j].busy = s[m[j]].busy /\ t[j].out >= s[m[j]].out
             /\ t[j].closing = s[m[j]].closing
    <2>1. CASE t[j] = s[m[j]]
        <3>1. t[j].out \in Nat
            BY <1>2, ConFields
        <3> QED
            BY <2>1, <3>1
    <2>2. CASE m[j] = i /\ t[j] = e
        BY <2>2
    <2> QED
        BY <1>4, <2>1, <2>2
<1>8. SameBusy(t, s, m)
    BY <1>7 DEF SameBusy
<1> QED
    BY <1>2, <1>6, <1>8 DEF t, r

LEMMA CloseLess ==
    ASSUME NEW s \in Seq(Con), NEW i \in 1..Len(s)
    PROVE  /\ connection_close(s, i) \in Seq(Con)
           /\ \E m : /\ Less(connection_close(s, i), s, m, i)
                     /\ SameBusy(connection_close(s, i), s, m)
<1>1. s[i].busy \in BOOLEAN
    BY ConFields
<1>2. CASE ~s[i].busy
    BY <1>2, RemoveLess, RemoveIndex DEF connection_close
<1>3. CASE s[i].busy
    <2> DEFINE c == [s[i] EXCEPT !.closing = TRUE]
               t == [s EXCEPT ![i] = c]
               m == [j \in 1..Len(t) |-> j]
    <2>1. connection_close(s, i) = t
        BY <1>3 DEF connection_close
    <2>2. c \in Con
        <3>1. s[i] \in Con
            OBVIOUS
        <3> QED
            BY <3>1, Zenon DEF Con
    <2>3. /\ SameCon(c, s[i]) /\ c.client = s[i].client /\ c.busy = s[i].busy /\ c.out = s[i].out
          /\ c.local_port_index = s[i].local_port_index /\ c.closing
        BY DEF Con, SameCon
    <2> HIDE DEF c
    <2>4. /\ t \in Seq(Con) /\ Len(t) = Len(s) /\ Len(s) \in Nat
          /\ \A j \in 1..Len(t) : t[j] = IF j = i THEN c ELSE s[j]
        BY <2>2, ExceptSeq
    <2> HIDE DEF t
    <2>5. m \in [1..Len(t) -> 1..Len(s)] /\ \A j \in 1..Len(t) : m[j] = j
        BY <2>4
    <2> HIDE DEF m
    <2>6. ASSUME NEW j \in 1..Len(t)
          PROVE  /\ SameCon(t[j], s[j]) /\ t[j].client = s[j].client
                 /\ t[j].local_port_index = s[j].local_port_index
                 /\ t[j].busy = s[j].busy /\ t[j].out >= s[j].out
                 /\ (s[j].closing => t[j].closing) /\ (j = i => t[j].closing)
                 /\ (t[j].closing => s[j].closing \/ s[j].busy)
        <3>1. t[j] \in Con
            BY <2>4
        <3>2. t[j].out \in Nat
            BY <3>1, ConFields
        <3>3. CASE j = i
            <4>1. t[j] = c
                BY <2>4, <3>3
            <4>2. c.out >= s[i].out
                BY <2>3, <3>2, <4>1
            <4> QED
                BY <1>3, <2>3, <3>3, <4>1, <4>2
        <3>4. CASE j # i
            <4>1. t[j] = s[j]
                BY <2>4, <3>4
            <4>2. t[j].out >= s[j].out
                BY <3>2, <4>1
            <4> QED
                BY <3>4, <4>1, <4>2 DEF SameCon
        <3> QED
            BY <3>3, <3>4
    <2>7. Less(t, s, m, i)
        BY <2>5, <2>6 DEF Less, SameCon
    <2>8. SameBusy(t, s, m)
        BY <2>5, <2>6 DEF SameBusy
    <2> QED
        BY <2>1, <2>4, <2>7, <2>8
<1> QED
    BY <1>1, <1>2, <1>3

-----------------------------------------------------------------------------
(* A new connection.                                                       *)
NoUser(s, con) ==
    con.local_port_index >= 0 =>
        \A j \in DOMAIN s : ~s[j].closing /\ SameAddr(s[j].addr, con.addr)
            => s[j].local_port_index # con.local_port_index

(* There is room for con in the table s of the clients cl.                  *)
Room(s, cl, con) ==
    /\ con \in Con /\ con.client \in cl /\ ~con.busy /\ ~con.closing
    /\ \A j \in Open(s, con.client) : s[j].conid # con.conid
    /\ Cardinality(Open(s, con.client)) <= max_connections_for_client - 1

(* t is s and con.                                                         *)
Added(t, s, con) == \A j \in DOMAIN t : (j \in DOMAIN s /\ t[j] = s[j]) \/ t[j] = con

LEMMA SameAddrSymmetric ==
    ASSUME NEW a, NEW b, NEW c, SameAddr(a, c)
    PROVE  SameAddr(c, a) /\ (SameAddr(b, c) => SameAddr(a, b))
    BY DEF SameAddr

LEMMA AppendTable ==
    ASSUME NEW s, NEW cl \in SUBSET Clients, NEW con, Table(s, cl), Room(s, cl, con), NoUser(s, con)
    PROVE  /\ Table(Append(s, con), cl)
           /\ Added(Append(s, con), s, con)
<1> DEFINE t == Append(s, con)
           last == Len(s) + 1
<1>1. /\ s \in Seq(Con) /\ DOMAIN s = 1..Len(s) /\ con \in Con
      /\ con.client \in cl /\ ~con.busy /\ ~con.closing
    BY DEF Table, Room
<1>2. /\ t \in Seq(Con) /\ Len(t) = last /\ Len(s) \in Nat /\ DOMAIN t = 1..last
      /\ \A j \in 1..last : t[j] = IF j <= Len(s) THEN s[j] ELSE con
    BY <1>1, AppendIndex
<1> HIDE DEF t
<1>3. \A j \in DOMAIN t : (j \in DOMAIN s /\ t[j] = s[j]) \/ (j = last /\ t[j] = con)
    BY <1>1, <1>2
<1>4. last \notin DOMAIN s
    BY <1>1, <1>2
<1>5. last \in DOMAIN t /\ t[last] = con
    BY <1>2
<1>6. \A j \in DOMAIN s : j \in DOMAIN t /\ t[j] = s[j]
    BY <1>1, <1>2
<1> HIDE DEF last
<1>7. ASSUME NEW i, NEW j, OpenPair(t, i, j)
      PROVE  \/ OpenPair(s, i, j) /\ t[i] = s[i] /\ t[j] = s[j]
             \/ i = last /\ t[i] = con /\ j \in DOMAIN s /\ ~s[j].closing /\ t[j] = s[j]
             \/ j = last /\ t[j] = con /\ i \in DOMAIN s /\ ~s[i].closing /\ t[i] = s[i]
    BY <1>3, <1>7 DEF OpenPair
<1>8. Apart(t)
    <2>1. ASSUME NEW i, NEW j, OpenPair(t, i, j), t[i].local_port_index >= 0,
                 SameAddr(t[i].addr, t[j].addr)
          PROVE  t[i].local_port_index # t[j].local_port_index
        <3>1. CASE OpenPair(s, i, j) /\ t[i] = s[i] /\ t[j] = s[j]
            <4>1. Apart(s)
                BY DEF Table, Keyed
            <4> QED
                BY <2>1, <3>1, <4>1 DEF Apart
        <3>2. CASE t[i] = con /\ j \in DOMAIN s /\ ~s[j].closing /\ t[j] = s[j]
            <4>1. SameAddr(s[j].addr, con.addr)
                BY <2>1, <3>2, SameAddrSymmetric
            <4> QED
                BY <2>1, <3>2, <4>1 DEF NoUser
        <3>3. CASE t[j] = con /\ i \in DOMAIN s /\ ~s[i].closing /\ t[i] = s[i]
            <4>1. s[i].local_port_index # con.local_port_index \/ ~(con.local_port_index >= 0)
                BY <2>1, <3>3 DEF NoUser
            <4> QED
                BY <2>1, <3>3, <4>1
        <3> QED
            BY <1>7, <2>1, <3>1, <3>2, <3>3
    <2> QED
        BY <2>1 DEF Apart
<1>9. OneConid(t)
    <2>1. ASSUME NEW i, NEW j, OpenPair(t, i, j), t[i].client = t[j].client
          PROVE  t[i].conid # t[j].conid
        <3>1. CASE OpenPair(s, i, j) /\ t[i] = s[i] /\ t[j] = s[j]
            <4>1. OneConid(s)
                BY DEF Table, Keyed
            <4> QED
                BY <2>1, <3>1, <4>1 DEF OneConid
        <3>2. CASE t[i] = con /\ j \in DOMAIN s /\ ~s[j].closing /\ t[j] = s[j]
            <4>1. j \in Open(s, con.client)
                BY <2>1, <3>2 DEF Open
            <4> QED
                BY <3>2, <4>1 DEF Room
        <3>3. CASE t[j] = con /\ i \in DOMAIN s /\ ~s[i].closing /\ t[i] = s[i]
            <4>1. i \in Open(s, con.client)
                BY <2>1, <3>3 DEF Open
            <4> QED
                BY <3>3, <4>1 DEF Room
        <3> QED
            BY <1>7, <2>1, <3>1, <3>2, <3>3
    <2> QED
        BY <2>1 DEF OneConid
<1>10. ASSUME NEW n \in Clients PROVE Cardinality(Open(t, n)) <= max_connections_for_client
    <2>1. IsFiniteSet(Open(s, n)) /\ Cardinality(Open(s, n)) \in Nat
        BY <1>1, OpenFinite
    <2>2. CASE n # con.client
        <3>1. Open(t, n) = Open(s, n)
            BY <1>3, <1>6, <2>2 DEF Open
        <3>2. Cardinality(Open(s, n)) <= max_connections_for_client
            BY DEF Table, Keyed, Within
        <3> QED
            BY <3>1, <3>2
    <2>3. CASE n = con.client
        <3>1. Open(t, n) = Open(s, n) \cup {last}
            BY <1>1, <1>3, <1>5, <1>6, <2>3 DEF Open
        <3>2. Cardinality(Open(s, n)) <= max_connections_for_client - 1
            BY <2>3 DEF Room
        <3>3. Cardinality(Open(t, n)) \in {Cardinality(Open(s, n)), Cardinality(Open(s, n)) + 1}
            BY <2>1, <3>1, FS_AddElement
        <3>4. Cardinality(Open(t, n)) <= max_connections_for_client
            BY <2>1, <3>2, <3>3, ServerAssumption
        <3> QED
            BY <3>4
    <2> QED
        BY <2>2, <2>3
<1>11. Sending(t)
    <2>1. ASSUME NEW i \in DOMAIN t, NEW j \in DOMAIN t, t[i].busy, t[j].busy,
                 t[i].client = t[j].client
          PROVE  i = j
        <3>1. i \in DOMAIN s /\ t[i] = s[i] /\ j \in DOMAIN s /\ t[j] = s[j]
            BY <1>1, <1>3, <2>1
        <3> QED
            BY <2>1, <3>1 DEF Table, Sending, OneBusy
    <2>2. ASSUME NEW i \in DOMAIN t
          PROVE  (t[i].closing => t[i].busy) /\ (t[i].busy => t[i].out > 0)
        <3>1. CASE i \in DOMAIN s /\ t[i] = s[i]
            BY <3>1 DEF Table, Sending, Freed
        <3> QED
            BY <1>1, <1>3, <3>1
    <2> QED
        BY <2>1, <2>2 DEF Sending, OneBusy, Freed
<1>12. \A j \in DOMAIN t : t[j].client \in cl
    BY <1>1, <1>3 DEF Table
<1>13. Added(t, s, con)
    BY <1>3 DEF Added
<1> QED
    BY <1>2, <1>8, <1>9, <1>10, <1>11, <1>12, <1>13 DEF Table, Keyed, Within, t

-----------------------------------------------------------------------------
(* The jobs of a new flow or connection.                                   *)
JobName == {"ready", "first", "read"}
JobsOK(js) ==
    /\ js \in Seq(JobName) /\ Len(js) \in 0..3
    /\ Len(js) = 3 => js[1] = "ready" /\ js[2] = "first" /\ js[3] = "read"
    /\ Len(js) = 2 => js[1] = "first" /\ js[2] = "read"
    /\ Len(js) = 1 => js[1] = "read"

LEMMA SetNew ==
    ASSUME NEW S, NEW js \in Seq(S), NEW job \in S, ~IsSet(js, job)
    PROVE  /\ Set(js, job) \in Seq(S) /\ Len(Set(js, job)) = Len(js) + 1 /\ Len(js) \in Nat
           /\ Set(js, job)[1] = job /\ \A j \in 1..Len(js) : Set(js, job)[j + 1] = js[j]
<1>1. Set(js, job) = <<job>> \o js
    BY DEF Set, Unset
<1>2. /\ <<job>> \o js \in Seq(S) /\ Len(<<job>> \o js) = Len(js) + 1 /\ Len(js) \in Nat
      /\ (<<job>> \o js)[1] = job /\ \A j \in 1..Len(js) : (<<job>> \o js)[j + 1] = js[j]
    OBVIOUS
<1> QED
    BY <1>1, <1>2

LEMMA NewJobs ==
    JobsOK(<<>>) /\ JobsOK(NewFlowJobs) /\ NewFlowJobs # <<>>
<1>0. "read" \in JobName /\ "first" \in JobName /\ "ready" \in JobName
    BY DEF JobName
<1>1. JobsOK(<<>>)
    BY DEF JobsOK
<1> DEFINE a == Set(<<>>, "read")
           b == Set(a, "first")
           c == Set(b, "ready")
<1>5. a \in Seq(JobName) /\ Len(a) = 1 /\ a[1] = "read"
    <2>1. <<>> \in Seq(JobName) /\ ~IsSet(<<>>, "read") /\ Len(<<>>) = 0
        BY DEF IsSet
    <2>2. a \in Seq(JobName) /\ Len(a) = Len(<<>>) + 1
        BY <1>0, <2>1, SetNew
    <2>4. a[1] = "read"
        BY <1>0, <2>1, SetNew, ZenonT(60)
    <2> QED
        BY <2>1, <2>2, <2>4
<1> HIDE DEF a
<1>6. b \in Seq(JobName) /\ Len(b) = 2 /\ b[1] = "first" /\ b[2] = "read"
    <2>1. ~IsSet(a, "first")
        BY <1>5 DEF IsSet
    <2>2. b \in Seq(JobName) /\ Len(b) = Len(a) + 1
        BY <1>0, <1>5, <2>1, SetNew, ZenonT(60)
    <2>3. b[1] = "first"
        BY <1>0, <1>5, <2>1, SetNew
    <2>4. b[2] = a[1]
        BY <1>0, <1>5, <2>1, SetNew
    <2> QED
        BY <1>5, <2>2, <2>3, <2>4
<1> HIDE DEF b
<1>7. /\ c \in Seq(JobName) /\ Len(c) = 3
      /\ c[1] = "ready" /\ c[2] = "first" /\ c[3] = "read"
    <2>1. ~IsSet(b, "ready")
        BY <1>6 DEF IsSet
    <2>2. c \in Seq(JobName) /\ Len(c) = Len(b) + 1
        BY <1>0, <1>6, <2>1, SetNew, ZenonT(60)
    <2>3. c[1] = "ready"
        BY <1>0, <1>6, <2>1, SetNew
    <2>4. c[2] = b[1]
        BY <1>0, <1>6, <2>1, SetNew
    <2>5. c[3] = b[2]
        BY <1>0, <1>6, <2>1, SetNew
    <2> QED
        BY <1>6, <2>2, <2>3, <2>4, <2>5
<1>8. NewFlowJobs = c
    BY DEF NewFlowJobs, a, b
<1> HIDE DEF c
<1>9. JobsOK(c)
    BY <1>7 DEF JobsOK
<1>10. c # <<>>
    <2>1. Len(<<>>) = 0 /\ Len(c) # 0
        BY <1>7
    <2> QED
        BY ONLY <2>1
<1> QED
    BY <1>1, <1>8, <1>9, <1>10

LEMMA NextJob ==
    ASSUME NEW js, JobsOK(js), js # <<>>
    PROVE  /\ JobsOK(Tail(js)) /\ Len(js) \in 1..3
           /\ Head(js) = "first" => ~IsSet(js, "ready") /\ IsSet(js, "read")
<1>1. js \in Seq(JobName) /\ Len(js) \in 0..3
    BY DEF JobsOK
<1>2. Len(js) \in 1..3 /\ Head(js) = js[1]
    <2>1. Len(js) \in Nat /\ Len(js) # 0
        BY <1>1
    <2>2. Len(js) \in 1..3
        BY <1>1, <2>1
    <2>3. Head(js) = js[1]
        BY <1>1
    <2> QED
        BY <2>2, <2>3
<1> DEFINE t == Tail(js)
<1>3. /\ t \in Seq(JobName) /\ Len(t) = Len(js) - 1
      /\ \A i \in 1..Len(js) - 1 : t[i] = js[i + 1]
    BY <1>1
<1> HIDE DEF t
<1>4. CASE Len(js) = 3
    <2>1. js[1] = "ready" /\ js[2] = "first" /\ js[3] = "read"
        BY <1>4 DEF JobsOK
    <2>2. Len(t) = 2 /\ t[1] = "first" /\ t[2] = "read"
        BY <1>3, <1>4, <2>1
    <2>3. JobsOK(t)
        BY <1>3, <2>2, SMTT(60) DEF JobsOK
    <2> QED
        BY <1>2, <2>1, <2>3 DEF t
<1>5. CASE Len(js) = 2
    <2>1. js[1] = "first" /\ js[2] = "read"
        BY <1>5 DEF JobsOK
    <2>2. ~IsSet(js, "ready") /\ IsSet(js, "read")
        BY <1>5, <2>1 DEF IsSet
    <2>3. Len(t) = 1 /\ t[1] = "read"
        BY <1>3, <1>5, <2>1
    <2>4. JobsOK(t)
        BY <1>3, <2>3 DEF JobsOK
    <2> QED
        BY <1>2, <2>2, <2>4 DEF t
<1>6. CASE Len(js) = 1
    <2>1. js[1] = "read"
        BY <1>6 DEF JobsOK
    <2>2. JobsOK(t)
        BY <1>3, <1>6 DEF JobsOK
    <2> QED
        BY <1>2, <2>1, <2>2 DEF t
<1> QED
    BY <1>2, <1>4, <1>5, <1>6

-----------------------------------------------------------------------------
(* Which connections there are after con has been made, or not.             *)
IsNew(c, con) == c.client = con.client /\ SameCon(c, con) /\ ~c.closing
Placed(t, s, con) ==
    \A j \in DOMAIN t : (\E k \in DOMAIN s : FromCon(t[j], s[k])) \/ IsNew(t[j], con)

LEMMA PlacePort ==
    ASSUME NEW s, NEW cl \in SUBSET Clients, NEW con, Table(s, cl), Room(s, cl, con),
           NEW port \in Port,
           NoUser(s, [con EXCEPT !.local_port_index = port])
    PROVE  /\ Table(Append(s, [con EXCEPT !.local_port_index = port]), cl)
           /\ Placed(Append(s, [con EXCEPT !.local_port_index = port]), s, con)
           /\ Append(s, [con EXCEPT !.local_port_index = port]) # <<>>
<1> DEFINE c == [con EXCEPT !.local_port_index = port]
<1>1. con \in Con
    BY DEF Room
<1>2. c \in Con
    BY <1>1, Zenon DEF Con
<1>3. SameCon(c, con) /\ c.client = con.client /\ c.busy = con.busy /\ c.closing = con.closing
    BY <1>1 DEF Con, SameCon
<1> HIDE DEF c
<1>4. Room(s, cl, c)
    BY <1>2, <1>3 DEF Room, SameCon
<1>5. Table(Append(s, c), cl) /\ Added(Append(s, c), s, c)
    <2>1. NoUser(s, c)
        BY DEF c
    <2> QED
        BY <1>4, <2>1, AppendTable
<1>6. Placed(Append(s, c), s, con)
    <2>1. IsNew(c, con)
        BY <1>3 DEF IsNew, Room
    <2>2. \A a : FromCon(a, a)
        BY DEF FromCon, SameCon
    <2> QED
        BY <1>5, <2>1, <2>2 DEF Placed, Added
<1>7. Append(s, c) # <<>>
    BY <1>2, AppendProperties DEF Table
<1> QED
    BY <1>5, <1>6, <1>7 DEF c

LEMMA CloseTable ==
    ASSUME NEW s, NEW cl, Table(s, cl), NEW i \in 1..Len(s)
    PROVE  /\ Table(connection_close(s, i), cl) /\ OpenFrom(connection_close(s, i), s, i)
           /\ \A n : /\ Cardinality(Open(connection_close(s, i), n)) <= Cardinality(Open(s, n))
                     /\ i \in Open(s, n) => Cardinality(Open(connection_close(s, i), n))
                                                <= Cardinality(Open(s, n)) - 1
<1>1. s \in Seq(Con)
    BY DEF Table
<1>2. connection_close(s, i) \in Seq(Con)
    BY <1>1, CloseLess
<1>3. PICK m : Less(connection_close(s, i), s, m, i) /\ SameBusy(connection_close(s, i), s, m)
    BY <1>1, CloseLess
<1>4. Table(connection_close(s, i), cl) /\ OpenFrom(connection_close(s, i), s, i)
    BY <1>2, <1>3, LessTable
<1>5. ASSUME NEW n
      PROVE  /\ Cardinality(Open(connection_close(s, i), n)) <= Cardinality(Open(s, n))
             /\ i \in Open(s, n) => Cardinality(Open(connection_close(s, i), n))
                                        <= Cardinality(Open(s, n)) - 1
    BY <1>1, <1>2, <1>3, LessCount
<1> QED
    BY <1>4, <1>5

(* There is still room after a connection was closed.                       *)
LEMMA CloseRoom ==
    ASSUME NEW s, NEW cl \in SUBSET Clients, NEW con, Table(s, cl), Room(s, cl, con),
           NEW i \in 1..Len(s)
    PROVE  Room(connection_close(s, i), cl, con)
<1> DEFINE t == connection_close(s, i)
           n == con.client
<1>1. Table(t, cl) /\ OpenFrom(t, s, i) /\ Cardinality(Open(t, n)) <= Cardinality(Open(s, n))
    BY CloseTable
<1>2. n \in Clients
    BY DEF Room
<1>3. ASSUME NEW j \in Open(t, n) PROVE t[j].conid # con.conid
    <2>1. PICK k \in Open(s, n) : SameCon(t[j], s[k])
        BY <1>1, <1>2 DEF OpenFrom
    <2> QED
        BY <2>1 DEF Room, SameCon
<1>4. Cardinality(Open(t, n)) <= max_connections_for_client - 1
    <2>1. Cardinality(Open(t, n)) \in Nat /\ Cardinality(Open(s, n)) \in Nat
        BY <1>1, OpenFinite DEF Table
    <2>2. Cardinality(Open(s, n)) <= max_connections_for_client - 1
        BY DEF Room
    <2> QED
        BY <1>1, <2>1, <2>2, ServerAssumption
<1> QED
    BY <1>3, <1>4 DEF Room

LEMMA MinMember ==
    ASSUME NEW S \in SUBSET Nat, S # {}
    PROVE  Min(S) \in S
<1>1. \E x \in S : \A y \in S : x <= y
    BY FirstPosition
<1> QED
    BY <1>1, Zenon DEF Min

LEMMA KeptSame == ASSUME NEW s PROVE Kept(s, s)
    BY DEF Kept, FromCon, SameCon

LEMMA PlacedFrom ==
    ASSUME NEW t, NEW l, NEW s, NEW con, Kept(l, s), Placed(t, l, con)
    PROVE  Placed(t, s, con)
<1>1. ASSUME NEW j \in DOMAIN t
      PROVE  (\E k \in DOMAIN s : FromCon(t[j], s[k])) \/ IsNew(t[j], con)
    <2>1. CASE \E k \in DOMAIN l : FromCon(t[j], l[k])
        <3>1. PICK k \in DOMAIN l : FromCon(t[j], l[k])
            BY <2>1
        <3>2. PICK h \in DOMAIN s : FromCon(l[k], s[h])
            BY DEF Kept
        <3> QED
            BY <3>1, <3>2 DEF FromCon, SameCon
    <2> QED
        BY <2>1 DEF Placed
<1> QED
    BY <1>1 DEF Placed

LEMMA NewConnectionOK ==
    ASSUME NEW s, NEW con, clients \in SUBSET Clients, Table(s, clients), Room(s, clients, con),
           con.local_port_index = -1, NewConnection(s, con)
    PROVE  /\ Table(cons', clients) /\ Placed(cons', s, con)
           /\ UNCHANGED sjobs \/ (sjobs' = NewFlowJobs /\ cons' # <<>>)
<1> DEFINE users == PortUsers(s, con.addr, con.client)
           free == 0..local_udp_num_ports - 1 \ {s[i].local_port_index : i \in users}
           idle == {i \in users : ~s[i].busy}
           less == connection_close(s, Min(idle))
           port(p) == [con EXCEPT !.local_port_index = p]
           Made(list, ports) ==
               /\ \E p \in ports : cons' = Append(list, port(p))
               /\ sjobs' = NewFlowJobs
           Failed(list) == cons' = list /\ UNCHANGED sjobs
<1>1. /\ s \in Seq(Con) /\ DOMAIN s = 1..Len(s) /\ Len(s) \in Nat
      /\ con \in Con /\ con.client \in Clients
    BY DEF Table, Room
<1>2. users \subseteq 1..Len(s) /\ idle \subseteq users
    BY <1>1 DEF PortUsers
<1>3. \/ Made(s, free \cup {-1}) \/ Failed(s)
      \/ idle # {} /\ (Made(less, {s[Min(idle)].local_port_index, -1}) \/ Failed(less))
    BY DEF NewConnection, NewFlowJobs
<1>4. \A p : port(p).local_port_index = p /\ port(p).addr = con.addr
    BY <1>1 DEF Con
<1>6. \A list : NoUser(list, port(-1))
    BY <1>4 DEF NoUser
<1>7. ASSUME NEW p \in free PROVE NoUser(s, port(p))
    <2>1. ASSUME NEW j \in DOMAIN s, ~s[j].closing, SameAddr(s[j].addr, con.addr),
                 s[j].local_port_index = p
          PROVE  FALSE
        <3>1. p \in Nat /\ p \notin {s[i].local_port_index : i \in users}
            OBVIOUS
        <3>2. j \in users
            BY <2>1, <3>1 DEF PortUsers
        <3> QED
            BY <2>1, <3>1, <3>2
    <2> QED
        BY <1>4, <2>1 DEF NoUser
<1>8. ASSUME idle # {}
      PROVE  /\ Min(idle) \in 1..Len(s) /\ Table(less, clients) /\ OpenFrom(less, s, Min(idle))
             /\ Room(less, clients, con)
             /\ s[Min(idle)].local_port_index \in Port
             /\ NoUser(less, port(s[Min(idle)].local_port_index))
    <2> DEFINE i == Min(idle)
    <2>1. i \in idle /\ i \in 1..Len(s)
        <3>1. idle \in SUBSET Nat
            BY <1>1, <1>2
        <3>2. i \in idle
            BY <1>8, <3>1, MinMember
        <3> QED
            BY <1>2, <3>2
    <2>2. s[i] \in Con /\ ~s[i].closing /\ s[i].local_port_index >= 0 /\ SameAddr(s[i].addr, con.addr)
        <3>1. i \in users
            BY <2>1
        <3> HIDE DEF i
        <3>2. /\ i \in DOMAIN s /\ ~s[i].closing /\ s[i].local_port_index >= 0
              /\ SameAddr(s[i].addr, con.addr)
            BY <3>1 DEF PortUsers
        <3> QED
            BY <1>1, <3>2
    <2> HIDE DEF i, idle
    <2>3. Table(less, clients) /\ OpenFrom(less, s, i)
        BY <2>1, CloseTable DEF i
    <2>4. Room(less, clients, con)
        BY <2>1, CloseRoom DEF i
    <2>5. s[i].local_port_index \in Port
        BY <2>2, ConFields
    <2>6. ASSUME NEW j \in DOMAIN less, ~less[j].closing, SameAddr(less[j].addr, con.addr)
          PROVE  less[j].local_port_index # s[i].local_port_index
        <3>1. less \in Seq(Con) /\ j \in 1..Len(less)
            BY <2>3, <2>6 DEF Table
        <3>2. less[j].client \in Clients
            BY <3>1, ConFields
        <3>3. j \in Open(less, less[j].client)
            BY <2>6 DEF Open
        <3>4. PICK k \in Open(s, less[j].client) :
                  k # i /\ SameCon(less[j], s[k]) /\ less[j].local_port_index = s[k].local_port_index
            BY <2>3, <3>2, <3>3 DEF OpenFrom
        <3>5. OpenPair(s, i, k)
            BY <1>1, <2>1, <2>2, <3>4 DEF OpenPair, Open
        <3>6. SameAddr(s[i].addr, s[k].addr)
            BY <2>2, <2>6, <3>4, SameAddrSymmetric DEF SameCon
        <3>7. s[i].local_port_index # s[k].local_port_index
            BY <2>2, <3>5, <3>6 DEF Table, Keyed, Apart
        <3> QED
            BY <3>4, <3>7
    <2>7. NoUser(less, port(s[i].local_port_index))
        BY <1>4, <2>6 DEF NoUser
    <2> QED
        BY <2>1, <2>3, <2>4, <2>5, <2>7 DEF i
<1> HIDE DEF users, free, idle, less
<1>9. CASE Made(s, free \cup {-1})
    <2>1. PICK p \in free \cup {-1} : cons' = Append(s, port(p))
        BY <1>9
    <2>2. p \in Port /\ NoUser(s, port(p))
        BY <1>6, <1>7 DEF free, Port
    <2>3. Table(cons', clients) /\ Placed(cons', s, con) /\ cons' # <<>>
        BY <2>1, <2>2, PlacePort
    <2> QED
        BY <1>9, <2>3
<1>10. CASE Failed(s)
    BY <1>10, KeptSame DEF Placed, Kept
<1>11. CASE idle # {} /\ Made(less, {s[Min(idle)].local_port_index, -1})
    <2>1. PICK p \in {s[Min(idle)].local_port_index, -1} : cons' = Append(less, port(p))
        BY <1>11
    <2>2. p \in Port /\ NoUser(less, port(p))
        BY <1>6, <1>8, <1>11, <2>1 DEF Port
    <2>3. Table(cons', clients) /\ Placed(cons', less, con) /\ cons' # <<>>
        BY <1>8, <1>11, <2>1, <2>2, PlacePort
    <2>4. Placed(cons', s, con)
        BY <1>8, <1>11, <2>3, PlacedFrom DEF OpenFrom
    <2> QED
        BY <1>11, <2>3, <2>4
<1>12. CASE idle # {} /\ Failed(less)
    <2>1. Placed(cons', s, con)
        BY <1>8, <1>12 DEF Placed, OpenFrom, Kept
    <2> QED
        BY <1>8, <1>12, <2>1
<1> QED
    BY <1>3, <1>9, <1>10, <1>11, <1>12

-----------------------------------------------------------------------------
(* The operations of the server.                                           *)
None(s, n) == \A j \in DOMAIN s : s[j].client # n
SInv ==
    /\ clients \subseteq Clients /\ Cardinality(clients) <= max_clients
    /\ Table(cons, clients) /\ JobsOK(sjobs) /\ (sjobs # <<>> => cons # <<>>)

LEMMA KeptOpen ==
    ASSUME NEW t, NEW s, NEW n, KeptFor(t, s, n), NEW j \in Open(t, n)
    PROVE  \E k \in Open(s, n) : SameCon(t[j], s[k])
    BY DEF KeptFor, FromCon, Open

LEMMA ConsIndex ==
    ASSUME SInv
    PROVE  cons \in Seq(Con) /\ DOMAIN cons = 1..Len(cons) /\ Len(cons) \in Nat
    BY DEF SInv, Table

(* An entry changes, but neither its key nor its place.                    *)
LEMMA InPlace ==
    ASSUME NEW s, NEW cl, Table(s, cl), NEW i \in 1..Len(s), NEW e \in Con,
           SameCon(e, s[i]), e.client = s[i].client, e.local_port_index = s[i].local_port_index,
           e.closing = s[i].closing
    PROVE  LET t == [s EXCEPT ![i] = e]
           IN  /\ t \in Seq(Con) /\ Len(t) = Len(s) /\ DOMAIN t = 1..Len(s) /\ Keyed(t)
               /\ \A j \in 1..Len(s) : t[j] = IF j = i THEN e ELSE s[j]
               /\ \A j \in 1..Len(s) : t[j].client = s[j].client /\ t[j].closing = s[j].closing
               /\ OpenFrom(t, s, 0)
<1> DEFINE t == [s EXCEPT ![i] = e]
           m == [j \in 1..Len(t) |-> j]
<1>1. s \in Seq(Con) /\ Len(s) \in Nat
    BY DEF Table
<1>2. /\ t \in Seq(Con) /\ Len(t) = Len(s) /\ DOMAIN t = 1..Len(s)
      /\ \A j \in 1..Len(s) : t[j] = IF j = i THEN e ELSE s[j]
    BY <1>1, ExceptSeq
<1> HIDE DEF t
<1>3. \A j \in 1..Len(s) : /\ SameCon(t[j], s[j]) /\ t[j].client = s[j].client
                           /\ t[j].local_port_index = s[j].local_port_index
                           /\ t[j].closing = s[j].closing
    BY <1>2 DEF SameCon
<1>4. m \in [1..Len(t) -> 1..Len(s)] /\ \A j \in 1..Len(t) : m[j] = j /\ m[j] # 0
    BY <1>2
<1> HIDE DEF m
<1>5. Less(t, s, m, 0)
    BY <1>2, <1>3, <1>4 DEF Less, SameCon
<1>6. Keyed(t)
    BY <1>1, <1>2, <1>5, LessKeyed DEF Table
<1>7. ASSUME NEW n \in Clients, NEW j \in Open(t, n)
      PROVE  j \in Open(s, n) /\ j # 0 /\ j \in 1..Len(s)
    <2>1. j \in 1..Len(s) /\ j # 0
        BY <1>1, <1>2 DEF Open
    <2> QED
        BY <1>1, <1>3, <2>1 DEF Open
<1>8. OpenFrom(t, s, 0)
    <2>1. Kept(t, s)
        BY <1>1, <1>2, <1>3 DEF Kept, FromCon
    <2> QED
        BY <1>3, <1>7, <2>1 DEF OpenFrom
<1> QED
    BY <1>2, <1>3, <1>6, <1>8 DEF t

LEMMA TouchTable ==
    ASSUME NEW s, NEW cl, Table(s, cl), NEW i \in 1..Len(s)
    PROVE  /\ Table(Touch(s, i), cl) /\ OpenFrom(Touch(s, i), s, 0)
           /\ Touch(s, i) # <<>>
<1>1. s \in Seq(Con) /\ s[i] \in Con
    BY DEF Table
<1>2. s[i].out \in Nat
    BY <1>1, ConFields
<1>3. SameCon(s[i], s[i]) /\ s[i].out >= s[i].out
    BY <1>2 DEF SameCon
<1> DEFINE t == Append(RemoveAt(s, i), s[i])
<1>4. t \in Seq(Con) /\ Len(t) = Len(s) /\ \E m : Less(t, s, m, 0) /\ SameBusy(t, s, m)
    BY <1>1, <1>3, MoveLess
<1>5. PICK m : Less(t, s, m, 0) /\ SameBusy(t, s, m)
    BY <1>4
<1> HIDE DEF t
<1>6. Table(t, cl) /\ OpenFrom(t, s, 0)
    BY <1>4, <1>5, LessTable
<1>7. t # <<>>
    BY <1>4
<1> QED
    BY <1>6, <1>7 DEF Touch, t

LEMMA KeptFrom ==
    ASSUME NEW t, NEW s, NEW i, OpenFrom(t, s, i)
    PROVE  Kept(t, s)
    BY DEF OpenFrom

LEMMA ServerJobInv ==
    ASSUME SInv, ServerJob
    PROVE  SInv' /\ Kept(cons', cons)
<1>1. JobsOK(sjobs') /\ sjobs # <<>> /\ clients' = clients /\ cons # <<>>
    BY NextJob DEF ServerJob, SInv
<1>2. CASE Head(sjobs) = "first"
    <2>1. cons' = Touch(cons, Len(cons))
        BY <1>2 DEF ServerJob
    <2>2. Len(cons) \in 1..Len(cons)
        BY <1>1, ConsIndex
    <2>3. Table(cons', clients) /\ OpenFrom(cons', cons, 0) /\ cons' # <<>>
        BY <2>1, <2>2, TouchTable DEF SInv
    <2>4. Kept(cons', cons)
        BY <2>3, KeptFrom
    <2> QED
        BY <1>1, <2>3, <2>4 DEF SInv
<1>3. CASE Head(sjobs) # "first"
    <2>1. cons' = cons
        BY <1>3 DEF ServerJob
    <2> QED
        BY <1>1, <2>1, KeptSame DEF SInv
<1> QED
    BY <1>2, <1>3

LEMMA StartSendInv ==
    ASSUME SInv, NEW i \in DOMAIN cons, StartSend(i)
    PROVE  SInv' /\ Kept(cons', cons)
<1> DEFINE e == [cons[i] EXCEPT !.busy = TRUE]
           n == cons[i].client
<1>1. /\ cons \in Seq(Con) /\ DOMAIN cons = 1..Len(cons) /\ Len(cons) \in Nat
      /\ i \in 1..Len(cons) /\ cons[i] \in Con
    BY ConsIndex
<1>2. /\ cons' = [cons EXCEPT ![i] = e] /\ sjobs = <<>> /\ cons[i].out > 0 /\ Busy(n) = {}
      /\ clients' = clients /\ sjobs' = sjobs
    BY DEF StartSend
<1>3. e \in Con
    BY <1>1, Zenon DEF Con
<1>4. /\ SameCon(e, cons[i]) /\ e.client = n /\ e.local_port_index = cons[i].local_port_index
      /\ e.closing = cons[i].closing /\ e.out = cons[i].out /\ e.busy
    BY <1>1 DEF Con, SameCon
<1> HIDE DEF e
<1>5. /\ cons' \in Seq(Con) /\ Len(cons') = Len(cons) /\ DOMAIN cons' = 1..Len(cons) /\ Keyed(cons')
      /\ \A j \in 1..Len(cons) : cons'[j] = IF j = i THEN e ELSE cons[j]
      /\ \A j \in 1..Len(cons) : cons'[j].client = cons[j].client /\ cons'[j].closing = cons[j].closing
      /\ OpenFrom(cons', cons, 0)
    BY <1>1, <1>2, <1>3, <1>4, InPlace DEF SInv
<1>6. \A j \in 1..Len(cons) : cons[j].client = n => ~cons[j].busy /\ ~cons[j].closing
    <2>1. \A j \in 1..Len(cons) : cons[j].client = n => ~cons[j].busy
        BY <1>1, <1>2 DEF Busy
    <2> QED
        BY <1>1, <2>1 DEF SInv, Table, Sending, Freed
<1>7. Sending(cons')
    <2>1. ASSUME NEW j \in 1..Len(cons), NEW k \in 1..Len(cons), cons'[j].busy, cons'[k].busy,
                 cons'[j].client = cons'[k].client
          PROVE  j = k
        <3>1. CASE cons[j].client = n
            BY <1>5, <1>6, <2>1, <3>1
        <3>2. CASE cons[j].client # n
            <4>1. j # i /\ k # i
                BY <1>5, <2>1, <3>2
            <4>2. cons'[j] = cons[j] /\ cons'[k] = cons[k]
                BY <1>5, <4>1
            <4> QED
                BY <1>1, <2>1, <4>2 DEF SInv, Table, Sending, OneBusy
        <3> QED
            BY <3>1, <3>2
    <2>2. ASSUME NEW j \in 1..Len(cons)
          PROVE  (cons'[j].closing => cons'[j].busy) /\ (cons'[j].busy => cons'[j].out > 0)
        <3>1. CASE j = i
            BY <1>2, <1>4, <1>5, <3>1
        <3>2. CASE j # i
            BY <1>1, <1>5, <3>2 DEF SInv, Table, Sending, Freed
        <3> QED
            BY <3>1, <3>2
    <2> QED
        BY <1>5, <2>1, <2>2 DEF Sending, OneBusy, Freed
<1>8. \A j \in DOMAIN cons' : cons'[j].client \in clients
    BY <1>1, <1>5 DEF SInv, Table
<1>9. Table(cons', clients)
    BY <1>5, <1>7, <1>8 DEF Table
<1> QED
    BY <1>2, <1>5, <1>9, KeptFrom DEF SInv

LEMMA SendDoneInv ==
    ASSUME SInv, NEW i \in DOMAIN cons, SendDone(i)
    PROVE  SInv' /\ Kept(cons', cons)
<1>1. /\ cons \in Seq(Con) /\ DOMAIN cons = 1..Len(cons) /\ Len(cons) \in Nat
      /\ i \in 1..Len(cons) /\ cons[i] \in Con
    BY ConsIndex
<1>2. cons[i].busy /\ sjobs = <<>> /\ clients' = clients /\ sjobs' = sjobs
    BY DEF SendDone, Quiet
<1>3. CASE cons' = RemoveAt(cons, i)
    <2>1. PICK m : Less(cons', cons, m, i) /\ SameBusy(cons', cons, m)
        BY <1>1, <1>3, RemoveLess
    <2>2. cons' \in Seq(Con)
        BY <1>1, <1>3, RemoveIndex
    <2>3. Table(cons', clients) /\ OpenFrom(cons', cons, i)
        BY <2>1, <2>2, LessTable DEF SInv
    <2> QED
        BY <1>2, <2>3, KeptFrom DEF SInv
<1>4. CASE ~cons[i].closing /\ cons' = [cons EXCEPT ![i].busy = FALSE, ![i].out = @ - 1]
    <2> DEFINE e == [cons[i] EXCEPT !.busy = FALSE, !.out = @ - 1]
    <2>1. cons' = [cons EXCEPT ![i] = e]
        BY <1>4
    <2>2. cons[i].out - 1 \in 0..CONNECTION_CLIENT_BUFFER_SIZE
        <3>1. cons[i].out \in 0..CONNECTION_CLIENT_BUFFER_SIZE
            BY <1>1, ConFields
        <3>2. cons[i].out > 0
            BY <1>1, <1>2 DEF SInv, Table, Sending
        <3> QED
            BY <3>1, <3>2, ServerAssumption
    <2>3. e \in Con
        BY <1>1, <2>2, Zenon DEF Con
    <2>4. /\ SameCon(e, cons[i]) /\ e.client = cons[i].client
          /\ e.local_port_index = cons[i].local_port_index
          /\ e.closing = cons[i].closing /\ ~e.busy
        BY <1>1 DEF Con, SameCon
    <2> HIDE DEF e
    <2>5. /\ cons' \in Seq(Con) /\ Len(cons') = Len(cons) /\ DOMAIN cons' = 1..Len(cons) /\ Keyed(cons')
          /\ \A j \in 1..Len(cons) : cons'[j] = IF j = i THEN e ELSE cons[j]
          /\ \A j \in 1..Len(cons) : cons'[j].client = cons[j].client /\ cons'[j].closing = cons[j].closing
          /\ OpenFrom(cons', cons, 0)
        BY <1>1, <2>1, <2>3, <2>4, InPlace DEF SInv
    <2>6. ASSUME NEW j \in 1..Len(cons), NEW k \in 1..Len(cons), cons'[j].busy, cons'[k].busy,
                 cons'[j].client = cons'[k].client
          PROVE  j = k
        <3>1. cons'[j] = cons[j] /\ cons'[k] = cons[k]
            BY <2>4, <2>5, <2>6
        <3> QED
            BY <1>1, <2>6, <3>1 DEF SInv, Table, Sending, OneBusy
    <2>7. ASSUME NEW j \in 1..Len(cons)
          PROVE  (cons'[j].closing => cons'[j].busy) /\ (cons'[j].busy => cons'[j].out > 0)
        <3>1. CASE j = i
            BY <1>4, <2>4, <2>5, <3>1
        <3>2. CASE j # i
            BY <1>1, <2>5, <3>2 DEF SInv, Table, Sending, Freed
        <3> QED
            BY <3>1, <3>2
    <2>8. Sending(cons')
        BY <2>5, <2>6, <2>7 DEF Sending, OneBusy, Freed
    <2>9. \A j \in DOMAIN cons' : cons'[j].client \in clients
        BY <1>1, <2>5 DEF SInv, Table
    <2>10. Table(cons', clients)
        BY <2>5, <2>8, <2>9 DEF Table
    <2> QED
        BY <1>2, <2>5, <2>10, KeptFrom DEF SInv
<1> QED
    BY <1>3, <1>4 DEF SendDone, connection_send_qflow_busy_handler

LEMMA DgramInv ==
    ASSUME SInv, NEW i \in DOMAIN cons, connection_dgram_handler_event(i)
    PROVE  SInv' /\ Kept(cons', cons)
<1>1. /\ i \in 1..Len(cons) /\ cons' = connection_close(cons, i) /\ sjobs = <<>>
      /\ clients' = clients /\ sjobs' = sjobs
    BY ConsIndex DEF connection_dgram_handler_event, Quiet
<1>2. Table(cons', clients) /\ OpenFrom(cons', cons, i)
    BY <1>1, CloseTable DEF SInv
<1> QED
    BY <1>1, <1>2, KeptFrom DEF SInv

LEMMA UdpInv ==
    ASSUME SInv, NEW i \in DOMAIN cons, connection_udp_recv_if_handler_send(i)
    PROVE  SInv' /\ Kept(cons', cons)
<1> DEFINE full == ~(cons[i].out < CONNECTION_CLIENT_BUFFER_SIZE)
           more == [cons[i] EXCEPT !.out = @ + 1]
           e    == IF full THEN cons[i] ELSE more
<1>1. /\ cons \in Seq(Con) /\ i \in 1..Len(cons) /\ cons[i] \in Con
      /\ cons[i].out \in 0..CONNECTION_CLIENT_BUFFER_SIZE /\ cons[i].out \in Nat
    BY ConsIndex, ConFields
<1>2. /\ cons' = Append(RemoveAt(cons, i), e) /\ sjobs = <<>>
      /\ clients' = clients /\ sjobs' = sjobs
    BY DEF connection_udp_recv_if_handler_send, Quiet
<1>3. /\ e \in Con /\ SameCon(e, cons[i]) /\ e.client = cons[i].client
      /\ e.local_port_index = cons[i].local_port_index /\ e.busy = cons[i].busy
      /\ e.closing = cons[i].closing /\ e.out >= cons[i].out
    <2>1. CASE full
        BY <1>1, <2>1 DEF SameCon
    <2>2. CASE ~full
        <3>1. cons[i].out + 1 \in 0..CONNECTION_CLIENT_BUFFER_SIZE /\ cons[i].out + 1 >= cons[i].out
            BY <1>1, <2>2, ServerAssumption
        <3>2. more \in Con
            BY <1>1, <3>1, Zenon DEF Con
        <3>3. more.out = cons[i].out + 1
            BY <1>1 DEF Con
        <3>4. /\ SameCon(more, cons[i]) /\ more.client = cons[i].client
              /\ more.local_port_index = cons[i].local_port_index /\ more.busy = cons[i].busy
              /\ more.closing = cons[i].closing
            BY <1>1 DEF Con, SameCon
        <3> QED
            BY <2>2, <3>1, <3>2, <3>3, <3>4
    <2> QED
        BY <2>1, <2>2
<1> HIDE DEF e
<1>4. cons' \in Seq(Con) /\ \E m : Less(cons', cons, m, 0) /\ SameBusy(cons', cons, m)
    BY <1>1, <1>2, <1>3, MoveLess
<1>5. PICK m : Less(cons', cons, m, 0) /\ SameBusy(cons', cons, m)
    BY <1>4
<1>6. Table(cons', clients) /\ OpenFrom(cons', cons, 0)
    BY <1>4, <1>5, LessTable DEF SInv
<1> QED
    BY <1>2, <1>6, KeptFrom DEF SInv

LEMMA ListenerInv ==
    ASSUME SInv, NEW n \in Clients, listener_handler(n)
    PROVE  SInv' /\ Kept(cons', cons)
<1>1. /\ cons' = cons /\ sjobs' = sjobs /\ clients' = clients \cup {n} /\ n \notin clients
      /\ Cardinality(clients) < max_clients
    BY DEF listener_handler
<1>2. clients' \subseteq Clients
    BY <1>1 DEF SInv
<1>3. Cardinality(clients') <= max_clients
    <2>1. IsFiniteSet(clients)
        BY UdpGwAssumption, FS_Subset DEF SInv
    <2>2. Cardinality(clients') = Cardinality(clients) + 1 /\ Cardinality(clients) \in Nat
        BY <1>1, <2>1, FS_AddElement, FS_CardinalityType
    <2> QED
        BY <1>1, <2>2, ServerAssumption
<1>4. Table(cons', clients')
    BY <1>1 DEF SInv, Table
<1> QED
    BY <1>1, <1>2, <1>3, <1>4, KeptSame DEF SInv

LEMMA ClientFreeInv ==
    ASSUME SInv, NEW n \in Clients, client_free(n)
    PROVE  /\ SInv' /\ Kept(cons', cons) /\ None(cons', n)
<1> DEFINE kept == {i \in DOMAIN cons : cons[i].client # n}
<1>1. /\ cons \in Seq(Con) /\ DOMAIN cons = 1..Len(cons) /\ Len(cons) \in Nat
    BY ConsIndex
<1>2. /\ clients' = clients \ {n} /\ sjobs' = sjobs /\ sjobs = <<>> /\ n \in clients
    BY DEF client_free, Quiet
<1>3. PICK order \in [1..Cardinality(kept) -> kept] :
          /\ \A j, k \in DOMAIN order : j < k => order[j] < order[k]
          /\ cons' = [j \in DOMAIN order |-> cons[order[j]]]
    BY DEF client_free
<1>4. Cardinality(kept) \in Nat /\ kept \subseteq 1..Len(cons)
    <2>1. kept \in SUBSET (1..Len(cons)) /\ IsFiniteSet(1..Len(cons))
        BY <1>1, FS_Interval
    <2> QED
        BY <2>1, FS_Subset, FS_CardinalityType
<1>5. \A j \in 1..Cardinality(kept) : order[j] \in 1..Len(cons) /\ cons[order[j]].client # n
    BY <1>4
<1> HIDE DEF kept
<1>6. DOMAIN order = 1..Cardinality(kept)
    BY <1>3
<1>7. /\ cons' \in Seq(Con) /\ Len(cons') = Cardinality(kept)
      /\ \A j \in 1..Len(cons') : cons'[j] = cons[order[j]]
    BY <1>1, <1>3, <1>4, <1>5, <1>6
<1>8. \A j, k \in 1..Len(cons') : order[j] = order[k] => j = k
    <2>1. ASSUME NEW j \in 1..Len(cons'), NEW k \in 1..Len(cons'), j < k
          PROVE  order[j] # order[k]
        <3>1. order[j] < order[k]
            BY <1>3, <1>6, <1>7, <2>1
        <3>2. order[j] \in Nat /\ order[k] \in Nat
            BY <1>1, <1>5, <1>7
        <3> QED
            BY <3>1, <3>2
    <2> QED
        BY <1>4, <1>7, <2>1
<1>9. Less(cons', cons, order, 0)
    <2>1. order \in [1..Len(cons') -> 1..Len(cons)]
        BY <1>3, <1>5, <1>6, <1>7
    <2>2. \A j \in 1..Len(cons') : order[j] # 0
        BY <1>5, <1>7
    <2> QED
        BY <1>7, <1>8, <2>1, <2>2 DEF Less
<1>10. SameBusy(cons', cons, order)
    <2>1. \A j \in 1..Len(cons') : cons'[j].out \in Nat
        BY <1>7, ConFields
    <2>2. \A j \in 1..Len(cons') : cons'[j].out >= cons[order[j]].out
        BY <1>7, <2>1
    <2> QED
        BY <1>7, <2>2 DEF SameBusy
<1>11. Table(cons', clients) /\ OpenFrom(cons', cons, 0)
    BY <1>7, <1>9, <1>10, LessTable DEF SInv
<1>12. \A j \in DOMAIN cons' : cons'[j].client # n
    BY <1>5, <1>7
<1>13. Table(cons', clients')
    BY <1>2, <1>11, <1>12 DEF Table
<1>14. clients' \subseteq Clients /\ Cardinality(clients') <= max_clients
    <2>1. IsFiniteSet(clients) /\ clients \subseteq Clients /\ Cardinality(clients) <= max_clients
        BY UdpGwAssumption, FS_Subset DEF SInv
    <2>2. Cardinality(clients') = Cardinality(clients) - 1 /\ Cardinality(clients) \in Nat
        BY <1>2, <2>1, FS_RemoveElement, FS_CardinalityType
    <2> QED
        BY <1>2, <2>1, <2>2, ServerAssumption
<1>15. None(cons', n)
    BY <1>12 DEF None
<1> QED
    BY <1>2, <1>11, <1>13, <1>14, <1>15, KeptFrom DEF SInv

(* What the server makes of a packet p of the client n.                     *)
Opened(c, n, p) == c.client = n /\ c.conid = p.conid /\ c.owner = p.turn /\ ~c.closing
Received(n, p) ==
    \A j \in DOMAIN cons' :
        \/ /\ \E k \in DOMAIN cons : FromCon(cons'[j], cons[k])
           /\ cons'[j].client = n /\ ~cons'[j].closing /\ p.rebind => cons'[j].conid # p.conid
        \/ Opened(cons'[j], n, p)

LEMMA RecvInv ==
    ASSUME SInv, NEW n \in Clients, NEW p \in Packet, client_recv_if_handler_send(n, p)
    PROVE  SInv' /\ Received(n, p)
<1> DEFINE con == [client |-> n, conid |-> p.conid, addr |-> p.remote, owner |-> p.turn,
                   local_port_index |-> -1, out |-> 0, busy |-> FALSE, closing |-> FALSE]
           found == {i \in Open(cons, n) : cons[i].conid = p.conid}
           full(s) == Cardinality(Open(s, n)) = max_connections_for_client
           room(s) == IF full(s) THEN connection_close(s, Min(Open(s, n))) ELSE s
<1>1. /\ cons \in Seq(Con) /\ DOMAIN cons = 1..Len(cons) /\ Len(cons) \in Nat
      /\ sjobs = <<>> /\ n \in clients /\ clients' = clients /\ clients \in SUBSET Clients
    BY ConsIndex DEF client_recv_if_handler_send, Quiet, SInv
<1>2. /\ con \in Con /\ con.client = n /\ con.conid = p.conid /\ con.addr = p.remote
      /\ con.owner = p.turn /\ con.local_port_index = -1 /\ ~con.busy /\ ~con.closing
    <2>1. p.conid \in Conid /\ p.remote \in Remotes /\ p.turn \in Nat
        BY DEF Packet
    <2>2. -1 \in Port /\ 0 \in 0..CONNECTION_CLIENT_BUFFER_SIZE
        BY ServerAssumption DEF Port
    <2>3. con \in Con
        BY <2>1, <2>2, Zenon DEF Con
    <2> QED
        BY <2>3
<1> HIDE DEF con
<1>3. ASSUME NEW s, Table(s, clients), \A j \in Open(s, n) : s[j].conid # p.conid,
             NewConnection(room(s), con)
      PROVE  /\ Table(cons', clients) /\ Placed(cons', s, con)
             /\ UNCHANGED sjobs \/ (sjobs' = NewFlowJobs /\ cons' # <<>>)
    <2>1. s \in Seq(Con) /\ DOMAIN s = 1..Len(s)
        BY <1>3 DEF Table
    <2>2. /\ IsFiniteSet(Open(s, n)) /\ Cardinality(Open(s, n)) \in Nat /\ Open(s, n) \subseteq Nat
          /\ Cardinality(Open(s, n)) <= max_connections_for_client
        BY <1>1, <1>3, <2>1, OpenFinite DEF Table, Keyed, Within
    <2>3. CASE ~full(s)
        <3>1. Cardinality(Open(s, n)) <= max_connections_for_client - 1
            BY <2>2, <2>3, ServerAssumption
        <3>2. Room(s, clients, con)
            BY <1>1, <1>2, <1>3, <3>1 DEF Room
        <3> QED
            BY <1>1, <1>2, <1>3, <2>3, <3>2, NewConnectionOK
    <2>4. CASE full(s)
        <3> DEFINE i == Min(Open(s, n))
                   t == connection_close(s, i)
        <3>1. Open(s, n) # {}
            BY <2>2, <2>4, FS_EmptySet, ServerAssumption
        <3>2. i \in Open(s, n)
            BY <2>2, <3>1, MinMember
        <3>3. i \in 1..Len(s)
            BY <2>1, <3>2 DEF Open
        <3> HIDE DEF i
        <3>4. /\ Table(t, clients) /\ OpenFrom(t, s, i)
              /\ Cardinality(Open(t, n)) <= Cardinality(Open(s, n)) - 1
            BY <1>3, <3>2, <3>3, CloseTable
        <3> HIDE DEF t
        <3>5. Cardinality(Open(t, n)) \in Nat
            BY <3>4, OpenFinite DEF Table
        <3>6. Cardinality(Open(t, n)) <= max_connections_for_client - 1
            BY <2>2, <3>4, <3>5, ServerAssumption
        <3>7. \A j \in Open(t, n) : t[j].conid # p.conid
            BY <1>1, <1>3, <3>4 DEF OpenFrom, SameCon
        <3>8. Room(t, clients, con)
            BY <1>1, <1>2, <3>6, <3>7 DEF Room
        <3>9. NewConnection(t, con)
            BY <1>3, <2>4 DEF t, i
        <3>10. /\ Table(cons', clients) /\ Placed(cons', t, con)
               /\ UNCHANGED sjobs \/ (sjobs' = NewFlowJobs /\ cons' # <<>>)
            BY <1>1, <1>2, <3>4, <3>8, <3>9, NewConnectionOK
        <3> QED
            BY <3>4, <3>10, PlacedFrom DEF OpenFrom
    <2> QED
        BY <2>3, <2>4
<1>4. \/ found = {} /\ NewConnection(room(cons), con)
      \/ \E i \in found : NewConnection(room(connection_close(cons, i)), con)
      \/ \E i \in found : ~p.rebind /\ cons' = Touch(cons, i) /\ UNCHANGED sjobs
    BY DEF client_recv_if_handler_send, con
<1>5. ASSUME NEW s, Placed(cons', s, con), \A j \in Open(s, n) : s[j].conid # p.conid, Kept(s, cons)
      PROVE  Received(n, p)
    <2>1. ASSUME NEW j \in DOMAIN cons', NEW k \in DOMAIN s, FromCon(cons'[j], s[k])
          PROVE  /\ \E h \in DOMAIN cons : FromCon(cons'[j], cons[h])
                 /\ cons'[j].client = n /\ ~cons'[j].closing => cons'[j].conid # p.conid
        <3>1. PICK h \in DOMAIN cons : FromCon(s[k], cons[h])
            BY <1>5 DEF Kept
        <3>2. FromCon(cons'[j], cons[h])
            BY <2>1, <3>1 DEF FromCon, SameCon
        <3>3. ASSUME cons'[j].client = n, ~cons'[j].closing PROVE cons'[j].conid # p.conid
            <4>1. k \in Open(s, n) /\ cons'[j].conid = s[k].conid
                BY <2>1, <3>3 DEF FromCon, SameCon, Open
            <4> QED
                BY <1>5, <4>1
        <3> QED
            BY <3>2, <3>3
    <2>2. ASSUME NEW j \in DOMAIN cons', IsNew(cons'[j], con) PROVE Opened(cons'[j], n, p)
        BY <1>2, <2>2 DEF IsNew, SameCon, Opened
    <2> QED
        BY <1>5, <2>1, <2>2 DEF Placed, Received
<1>6. CASE found = {} /\ NewConnection(room(cons), con)
    <2>1. \A j \in Open(cons, n) : cons[j].conid # p.conid
        BY <1>6
    <2>2. /\ Table(cons', clients) /\ Placed(cons', cons, con)
          /\ UNCHANGED sjobs \/ (sjobs' = NewFlowJobs /\ cons' # <<>>)
        BY <1>3, <1>6, <2>1 DEF SInv
    <2>3. Received(n, p)
        BY <1>5, <2>1, <2>2, KeptSame
    <2> QED
        BY <1>1, <2>2, <2>3, NewJobs DEF SInv
<1>7. CASE \E i \in found : NewConnection(room(connection_close(cons, i)), con)
    <2>1. PICK i \in found : NewConnection(room(connection_close(cons, i)), con)
        BY <1>7
    <2> DEFINE s == connection_close(cons, i)
    <2>2. i \in 1..Len(cons) /\ i \in Open(cons, n) /\ cons[i].conid = p.conid
        BY <1>1 DEF Open
    <2>3. Table(s, clients) /\ OpenFrom(s, cons, i)
        BY <2>2, CloseTable DEF SInv
    <2>4. ASSUME NEW j \in Open(s, n) PROVE s[j].conid # p.conid
        <3>1. PICK k \in Open(cons, n) : k # i /\ SameCon(s[j], cons[k])
            BY <2>3 DEF OpenFrom
        <3>2. OpenPair(cons, i, k) /\ cons[i].client = cons[k].client
            BY <2>2, <3>1 DEF OpenPair, Open
        <3>3. cons[i].conid # cons[k].conid
            BY <3>2 DEF SInv, Table, Keyed, OneConid
        <3> QED
            BY <2>2, <3>1, <3>3 DEF SameCon
    <2> HIDE DEF s
    <2>5. /\ Table(cons', clients) /\ Placed(cons', s, con)
          /\ UNCHANGED sjobs \/ (sjobs' = NewFlowJobs /\ cons' # <<>>)
        BY <1>3, <2>1, <2>3, <2>4 DEF s
    <2>6. Received(n, p)
        BY <1>5, <2>3, <2>4, <2>5, KeptFrom
    <2> QED
        BY <1>1, <2>5, <2>6, NewJobs DEF SInv
<1>8. CASE \E i \in found : ~p.rebind /\ cons' = Touch(cons, i) /\ UNCHANGED sjobs
    <2>1. PICK i \in found : cons' = Touch(cons, i)
        BY <1>8
    <2>2. i \in 1..Len(cons)
        BY <1>1 DEF Open
    <2>3. Table(cons', clients) /\ OpenFrom(cons', cons, 0)
        BY <2>1, <2>2, TouchTable DEF SInv
    <2>4. Received(n, p)
        BY <1>8, <2>3 DEF OpenFrom, Kept, Received
    <2> QED
        BY <1>1, <1>8, <2>3, <2>4 DEF SInv
<1> QED
    BY <1>4, <1>6, <1>7, <1>8

-----------------------------------------------------------------------------
(* The list l of the client's flows.                                       *)
OwnConid(f) == \A k \in DOMAIN f.out : f.out[k].conid = f.conid
FlowsOK(l) ==
    /\ l \in Seq(Flow) /\ Len(l) <= max_connections
    /\ \A i, j \in DOMAIN l : i # j =>
           l[i].conid # l[j].conid /\ (l[i].local # l[j].local \/ l[i].remote # l[j].remote)
    /\ \A i \in DOMAIN l : OwnConid(l[i])
CInv ==
    /\ FlowsOK(connections_list) /\ next_conid \in Conid
    /\ JobsOK(jobs) /\ (jobs # <<>> => connections_list # <<>>)

Conids(l) == {l[i].conid : i \in DOMAIN l}

(* The flow con may be put in the place of that at i.                       *)
Replaces(con, l, i) ==
    /\ con \in Flow /\ OwnConid(con) /\ con.conid = l[i].conid
    /\ \A j \in DOMAIN l : j # i => con.local # l[j].local \/ con.remote # l[j].remote

(* t has the flows of l, and con for that at i.                             *)
Changed(t, l, con) ==
    /\ FlowsOK(t) /\ Conids(t) = Conids(l) /\ (l # <<>> => t # <<>>)
    /\ \A j \in DOMAIN t : t[j] = con \/ \E k \in DOMAIN l : t[j] = l[k]

LEMMA ToEndChanges ==
    ASSUME NEW l, FlowsOK(l), NEW i \in DOMAIN l, NEW con, Replaces(con, l, i)
    PROVE  Changed(ToEnd(l, i, con), l, con)
<1> DEFINE r == RemoveAt(l, i)
           t == Append(r, con)
           m == [j \in 1..Len(t) |-> IF j < i THEN j ELSE IF j < Len(l) THEN j + 1 ELSE i]
<1>1. l \in Seq(Flow) /\ DOMAIN l = 1..Len(l) /\ Len(l) \in Nat /\ con \in Flow /\ i \in 1..Len(l)
    BY DEF FlowsOK, Replaces
<1>2. /\ r \in Seq(Flow) /\ Len(r) = Len(l) - 1
      /\ \A j \in 1..Len(l) - 1 : r[j] = IF j < i THEN l[j] ELSE l[j + 1]
    BY <1>1, RemoveIndex
<1> HIDE DEF r
<1>3. /\ t \in Seq(Flow) /\ Len(t) = Len(l) /\ DOMAIN t = 1..Len(l)
      /\ \A j \in 1..Len(l) : t[j] = IF j < Len(l) THEN r[j] ELSE con
    <2>1. /\ t \in Seq(Flow) /\ Len(t) = Len(r) + 1
          /\ \A j \in 1..Len(r) + 1 : t[j] = IF j <= Len(r) THEN r[j] ELSE con
        BY <1>1, <1>2, AppendIndex, ZenonT(60)
    <2>2. Len(t) = Len(l) /\ Len(r) + 1 = Len(l) /\ Len(r) \in Nat
        BY <1>1, <1>2, <2>1
    <2>3. \A j \in 1..Len(l) : t[j] = IF j < Len(l) THEN r[j] ELSE con
        BY <1>1, <2>1, <2>2
    <2> QED
        BY <2>1, <2>2, <2>3
<1> HIDE DEF t
<1>4. /\ m \in [1..Len(l) -> 1..Len(l)]
      /\ \A j \in 1..Len(l) : (m[j] # i /\ t[j] = l[m[j]]) \/ (m[j] = i /\ t[j] = con)
    BY <1>1, <1>2, <1>3, SMTT(60)
<1>5. \A j \in 1..Len(t) : m[j] = IF j < i THEN j ELSE IF j < Len(l) THEN j + 1 ELSE i
    OBVIOUS
<1>6. \A j \in 1..Len(l) : \E k \in 1..Len(l) : m[k] = j
    <2>1. ASSUME NEW j \in 1..Len(l) PROVE \E k \in 1..Len(l) : m[k] = j
        <3>1. CASE j < i
            BY <1>1, <1>3, <1>5, <3>1
        <3>2. CASE j = i
            <4>1. Len(l) \in 1..Len(l) /\ m[Len(l)] = i
                BY <1>1, <1>3, <1>5
            <4> QED
                BY <3>2, <4>1
        <3>3. CASE j > i
            <4>1. j - 1 \in 1..Len(l) /\ m[j - 1] = j
                BY <1>1, <1>3, <1>5, <3>3
            <4> QED
                BY <4>1
        <3>4. j < i \/ j = i \/ j > i
            BY <1>1
        <3> QED
            BY <3>1, <3>2, <3>3, <3>4
    <2> QED
        BY <2>1
<1> HIDE DEF m
<1>7. \A j, k \in 1..Len(l) : m[j] = m[k] => j = k
    BY <1>1, <1>3, <1>5
<1>8. \A j \in 1..Len(l) : t[j].conid = l[m[j]].conid /\ OwnConid(t[j])
    BY <1>1, <1>4 DEF Replaces, FlowsOK
<1>9. ASSUME NEW j \in 1..Len(l), NEW k \in 1..Len(l), j # k
      PROVE  t[j].conid # t[k].conid /\ (t[j].local # t[k].local \/ t[j].remote # t[k].remote)
    <2>1. m[j] \in 1..Len(l) /\ m[k] \in 1..Len(l) /\ m[j] # m[k]
        BY <1>4, <1>7, <1>9
    <2>2. t[j].conid # t[k].conid
        BY <1>1, <1>8, <2>1 DEF FlowsOK
    <2>3. CASE m[j] # i /\ m[k] # i
        BY <1>1, <1>4, <2>1, <2>2, <2>3 DEF FlowsOK
    <2>4. CASE m[j] = i
        BY <1>1, <1>4, <2>1, <2>2, <2>4 DEF Replaces
    <2>5. CASE m[k] = i
        BY <1>1, <1>4, <2>1, <2>2, <2>5 DEF Replaces
    <2> QED
        BY <2>3, <2>4, <2>5
<1>10. FlowsOK(t)
    BY <1>1, <1>3, <1>8, <1>9 DEF FlowsOK
<1>11. Conids(t) = Conids(l)
    <2>1. ASSUME NEW c \in Conids(t) PROVE c \in Conids(l)
        BY <1>1, <1>3, <1>4, <1>8 DEF Conids
    <2>2. ASSUME NEW c \in Conids(l) PROVE c \in Conids(t)
        <3>1. PICK j \in 1..Len(l) : c = l[j].conid
            BY <1>1 DEF Conids
        <3>2. PICK k \in 1..Len(l) : m[k] = j
            BY <1>6
        <3> QED
            BY <1>3, <1>8, <3>1, <3>2 DEF Conids
    <2> QED
        BY <2>1, <2>2
<1>12. t # <<>>
    BY <1>1, <1>3
<1>13. \A j \in DOMAIN t : t[j] = con \/ \E k \in DOMAIN l : t[j] = l[k]
    BY <1>1, <1>3, <1>4
<1> QED
    BY <1>10, <1>11, <1>12, <1>13 DEF Changed, ToEnd, t, r

LEMMA EditChanges ==
    ASSUME NEW l, FlowsOK(l), NEW i \in DOMAIN l, NEW con, Replaces(con, l, i)
    PROVE  Changed([l EXCEPT ![i] = con], l, con)
<1> DEFINE t == [l EXCEPT ![i] = con]
<1>1. l \in Seq(Flow) /\ DOMAIN l = 1..Len(l) /\ Len(l) \in Nat /\ con \in Flow /\ i \in 1..Len(l)
    BY DEF FlowsOK, Replaces
<1>2. /\ t \in Seq(Flow) /\ Len(t) = Len(l) /\ DOMAIN t = 1..Len(l)
      /\ \A j \in 1..Len(l) : t[j] = IF j = i THEN con ELSE l[j]
    BY <1>1, ExceptSeq
<1> HIDE DEF t
<1>3. \A j \in 1..Len(l) : t[j].conid = l[j].conid /\ OwnConid(t[j])
    BY <1>1, <1>2 DEF Replaces, FlowsOK
<1>4. ASSUME NEW j \in 1..Len(l), NEW k \in 1..Len(l), j # k
      PROVE  t[j].conid # t[k].conid /\ (t[j].local # t[k].local \/ t[j].remote # t[k].remote)
    <2>1. t[j].conid # t[k].conid
        BY <1>1, <1>3, <1>4 DEF FlowsOK
    <2>2. t[j].local # t[k].local \/ t[j].remote # t[k].remote
        BY <1>1, <1>2, <1>4 DEF Replaces, FlowsOK
    <2> QED
        BY <2>1, <2>2
<1>5. FlowsOK(t)
    BY <1>1, <1>2, <1>3, <1>4 DEF FlowsOK
<1>6. Conids(t) = Conids(l)
    BY <1>1, <1>2, <1>3 DEF Conids
<1>7. t # <<>>
    BY <1>1, <1>2
<1>8. \A j \in DOMAIN t : t[j] = con \/ \E k \in DOMAIN l : t[j] = l[k]
    BY <1>1, <1>2
<1> QED
    BY <1>5, <1>6, <1>7, <1>8 DEF Changed, t

-----------------------------------------------------------------------------
(* Who owns what: f is a flow, q what is on its way to the server and s its *)
(* table of the connections of n.  A packet is of the flow that has its     *)
(* conid, or a packet that rebinds the conid is behind it.                  *)
Rebinds(q, c)   == \E k \in DOMAIN q : q[k].conid = c /\ q[k].rebind
After(q, k, c)  == \E h \in DOMAIN q : h > k /\ q[h].conid = c /\ q[h].rebind
Present(p, f)   == p.turn = f.turn

QueueOK(f) == \A k \in DOMAIN f.out : Present(f.out[k], f) \/ After(f.out, k, f.conid)
WayOK(f, q) == \A k \in DOMAIN q : q[k].conid = f.conid =>
                   Present(q[k], f) \/ After(q, k, f.conid) \/ Rebinds(f.out, f.conid)
OwnerOK(f, q, s, n) ==
    \A j \in Open(s, n) :
        s[j].conid = f.conid /\ ~Rebinds(f.out, f.conid) /\ ~Rebinds(q, f.conid)
            => s[j].owner = f.turn
FlowOK(f, q, s, n) == f.lost \/ (QueueOK(f) /\ WayOK(f, q) /\ OwnerOK(f, q, s, n))

(* What is in the buffer of a flow, on its way, held by the server and in   *)
(* the replies d has, for its conid c, turns in the order they were taken:  *)
(* none is later than that of the flow, t, and behind one of t are only     *)
(* such.  A connection that is closed sends before the one that is open.    *)
UpTo(q, c, t)   == \A k \in DOMAIN q : q[k].conid = c => q[k].turn \in 0..t
All(q, c, t)    == \A k \in DOMAIN q : q[k].conid = c => q[k].turn = t
Some(q, c, t)   == \E k \in DOMAIN q : q[k].conid = c /\ q[k].turn = t
Sorted(q, c, t) == \A k, h \in DOMAIN q :
    k < h /\ q[k].conid = c /\ q[h].conid = c /\ q[k].turn = t => q[h].turn = t
Holds(a, n, c)  == a.client = n /\ a.conid = c

WayTurn(out, q, d, c, t) ==
    /\ UpTo(out, c, t) /\ UpTo(q, c, t) /\ UpTo(d, c, t)
    /\ Sorted(out, c, t) /\ Sorted(q, c, t) /\ Sorted(d, c, t)
    /\ Some(q, c, t) => All(out, c, t)
HeldTurn(out, q, s, n, c, t) ==
    \A j \in DOMAIN s : Holds(s[j], n, c) =>
        /\ s[j].owner \in 0..t
        /\ s[j].owner = t =>
               /\ All(out, c, t) /\ All(q, c, t)
               /\ s[j].closing => \A h \in DOMAIN s :
                      Holds(s[h], n, c) /\ ~s[h].closing => s[h].owner = t
AllHeld(s, n, c, t) == \A j \in DOMAIN s : Holds(s[j], n, c) => s[j].owner = t
Behind(out, q, s, n, c, t) == All(out, c, t) /\ All(q, c, t) /\ AllHeld(s, n, c, t)
InTurn(f, q, s, n, d) ==
    /\ WayTurn(f.out, q, d, f.conid, f.turn) /\ HeldTurn(f.out, q, s, n, f.conid, f.turn)
    /\ Some(d, f.conid, f.turn) \/ f.answered => Behind(f.out, q, s, n, f.conid, f.turn)
    /\ f.answered => All(d, f.conid, f.turn)

(* Every conid on its way, or of a connection, is that of a flow.           *)
Known(l, q, s, n, d) ==
    /\ \A k \in DOMAIN q : q[k].conid \in Conids(l)
    /\ \A j \in DOMAIN s : s[j].client = n => s[j].conid \in Conids(l)
    /\ \A k \in DOMAIN d : d[k].conid \in Conids(l)

Owned(l, q, s, n, d) ==
    Known(l, q, s, n, d) /\ \A i \in DOMAIN l : FlowOK(l[i], q, s, n) /\ InTurn(l[i], q, s, n, d)

LEMMA ChangedOwned ==
    ASSUME NEW l, NEW t, NEW con, NEW q, NEW s, NEW n, NEW d, Changed(t, l, con),
           Owned(l, q, s, n, d), FlowOK(con, q, s, n), InTurn(con, q, s, n, d)
    PROVE  Owned(t, q, s, n, d)
<1>1. Known(t, q, s, n, d)
    BY DEF Changed, Owned, Known
<1>2. ASSUME NEW j \in DOMAIN t PROVE FlowOK(t[j], q, s, n) /\ InTurn(t[j], q, s, n, d)
    <2>1. CASE t[j] = con
        BY <2>1
    <2>2. CASE \E k \in DOMAIN l : t[j] = l[k]
        BY <2>2 DEF Owned
    <2> QED
        BY <2>1, <2>2 DEF Changed
<1> QED
    BY <1>1, <1>2 DEF Owned

LEMMA FlowFields ==
    ASSUME NEW f \in Flow
    PROVE  /\ f.conid \in Conid /\ f.local \in Locals /\ f.remote \in Remotes
           /\ f.out \in Seq(Packet) /\ f.lost \in BOOLEAN
           /\ f.turn \in Nat /\ f.answered \in BOOLEAN
           /\ DOMAIN f.out = 1..Len(f.out) /\ Len(f.out) \in Nat
<1>1. f.out \in Seq(Packet)
    BY DEF Flow
<1> QED
    BY <1>1 DEF Flow

-----------------------------------------------------------------------------
(* What the order of turns is made of.                                     *)
LEMMA AppendTurn ==
    ASSUME NEW S, NEW q \in Seq(S), NEW p \in S, NEW c, NEW t
    PROVE  LET r == Append(q, p)
               own == p.conid = c => p.turn = t
           IN  /\ All(q, c, t) /\ own => All(r, c, t)
               /\ UpTo(q, c, t) /\ (p.conid = c => p.turn \in 0..t) => UpTo(r, c, t)
               /\ Sorted(q, c, t) /\ (Some(q, c, t) => own) => Sorted(r, c, t)
               /\ Some(r, c, t) => Some(q, c, t) \/ (p.conid = c /\ p.turn = t)
<1> DEFINE r == Append(q, p)
<1>1. /\ DOMAIN q = 1..Len(q) /\ Len(q) \in Nat /\ DOMAIN r = 1..Len(q) + 1
      /\ \A k \in 1..Len(q) + 1 : r[k] = IF k <= Len(q) THEN q[k] ELSE p
    BY AppendIndex
<1> HIDE DEF r
<1>2. /\ \A k \in DOMAIN r : (k \in DOMAIN q /\ r[k] = q[k]) \/ (k = Len(q) + 1 /\ r[k] = p)
      /\ \A k, h \in DOMAIN r : k < h => k \in DOMAIN q /\ r[k] = q[k]
    BY <1>1
<1>3. All(q, c, t) /\ (p.conid = c => p.turn = t) => All(r, c, t)
    BY <1>2 DEF All
<1>4. UpTo(q, c, t) /\ (p.conid = c => p.turn \in 0..t) => UpTo(r, c, t)
    BY <1>2 DEF UpTo
<1>5. Sorted(q, c, t) /\ (Some(q, c, t) => (p.conid = c => p.turn = t)) => Sorted(r, c, t)
    <2> SUFFICES ASSUME Sorted(q, c, t), Some(q, c, t) => (p.conid = c => p.turn = t),
                        NEW k \in DOMAIN r, NEW h \in DOMAIN r, k < h,
                        r[k].conid = c, r[h].conid = c, r[k].turn = t
                 PROVE  r[h].turn = t
        BY DEF Sorted
    <2>1. k \in DOMAIN q /\ r[k] = q[k] /\ Some(q, c, t)
        BY <1>2 DEF Some
    <2> QED
        BY <1>2, <2>1 DEF Sorted
<1>6. Some(r, c, t) => Some(q, c, t) \/ (p.conid = c /\ p.turn = t)
    BY <1>2 DEF Some
<1> QED
    BY <1>3, <1>4, <1>5, <1>6 DEF r

LEMMA TailTurn ==
    ASSUME NEW S, NEW q \in Seq(S), q # <<>>, NEW c, NEW t
    PROVE  LET r == Tail(q)
               own == Head(q).conid = c /\ Head(q).turn = t
           IN  /\ All(q, c, t) => All(r, c, t) /\ (Head(q).conid = c => Head(q).turn = t)
               /\ UpTo(q, c, t) => UpTo(r, c, t) /\ (Head(q).conid = c => Head(q).turn \in 0..t)
               /\ Sorted(q, c, t) => Sorted(r, c, t) /\ (own => All(r, c, t))
               /\ Some(r, c, t) \/ own => Some(q, c, t)
<1> DEFINE r == Tail(q)
           p == Head(q)
<1>1. /\ DOMAIN q = 1..Len(q) /\ Len(q) \in Nat /\ DOMAIN r = 1..Len(q) - 1
      /\ \A k \in 1..Len(q) - 1 : r[k] = q[k + 1]
      /\ p = q[1] /\ 1 \in DOMAIN q
    OBVIOUS
<1> HIDE DEF r, p
<1>2. \A k \in DOMAIN r : k \in Nat /\ k + 1 \in DOMAIN q /\ r[k] = q[k + 1] /\ 1 < k + 1
    BY <1>1
<1>3. All(q, c, t) => All(r, c, t) /\ (p.conid = c => p.turn = t)
    BY <1>1, <1>2 DEF All
<1>4. UpTo(q, c, t) => UpTo(r, c, t) /\ (p.conid = c => p.turn \in 0..t)
    BY <1>1, <1>2 DEF UpTo
<1>5. Sorted(q, c, t) => Sorted(r, c, t)
    <2>1. \A k, h \in DOMAIN r : k < h => k + 1 < h + 1
        BY <1>2
    <2> QED
        BY <1>2, <2>1 DEF Sorted
<1>6. Sorted(q, c, t) /\ p.conid = c /\ p.turn = t => All(r, c, t)
    BY <1>1, <1>2 DEF Sorted, All
<1>7. Some(r, c, t) \/ (p.conid = c /\ p.turn = t) => Some(q, c, t)
    BY <1>1, <1>2 DEF Some
<1> QED
    BY <1>3, <1>4, <1>5, <1>6, <1>7 DEF r, p

LEMMA NextTurn ==
    ASSUME NEW q, NEW c, NEW t \in Nat, UpTo(q, c, t)
    PROVE  UpTo(q, c, t + 1) /\ ~Some(q, c, t + 1) /\ Sorted(q, c, t + 1)
<1>1. \A x \in 0..t : x \in 0..t + 1 /\ x # t + 1
    OBVIOUS
<1>2. \A k \in DOMAIN q : q[k].conid = c => q[k].turn \in 0..t + 1 /\ q[k].turn # t + 1
    BY <1>1 DEF UpTo
<1> QED
    BY <1>2 DEF UpTo, Some, Sorted

LEMMA NoTurn ==
    ASSUME NEW q, NEW c, NEW t, \A k \in DOMAIN q : q[k].conid # c
    PROVE  UpTo(q, c, t) /\ Sorted(q, c, t) /\ ~Some(q, c, t) /\ All(q, c, t)
    BY DEF UpTo, Sorted, Some, All

-----------------------------------------------------------------------------
(* A packet is put in the buffer, or dropped.                              *)
LEMMA SendFlow ==
    ASSUME NEW f \in Flow, OwnConid(f), NEW rebind \in BOOLEAN, NEW ready \in BOOLEAN
    PROVE  LET g == connection_send(f, rebind, ready)
               p == [conid |-> f.conid, rebind |-> rebind, remote |-> f.remote, turn |-> f.turn]
           IN  /\ g \in Flow /\ OwnConid(g)
               /\ g.conid = f.conid /\ g.local = f.local /\ g.remote = f.remote
               /\ g.turn = f.turn /\ g.answered = f.answered
               /\ \/ g.out = f.out /\ g.lost = (f.lost \/ rebind)
                  \/ /\ g.out = Append(f.out, p) /\ g.lost = (f.lost /\ ~rebind)
                     /\ Len(g.out) = Len(f.out) + 1 /\ p.conid = f.conid
                     /\ \A k \in 1..Len(g.out) : g.out[k] = IF k <= Len(f.out) THEN f.out[k] ELSE p
<1> DEFINE g == connection_send(f, rebind, ready)
           p == [conid |-> f.conid, rebind |-> rebind, remote |-> f.remote, turn |-> f.turn]
<1>1. /\ f.conid \in Conid /\ f.local \in Locals /\ f.remote \in Remotes
      /\ f.turn \in Nat /\ f.answered \in BOOLEAN
      /\ f.out \in Seq(Packet) /\ f.lost \in BOOLEAN
      /\ DOMAIN f.out = 1..Len(f.out) /\ Len(f.out) \in Nat
    BY FlowFields
<1>2. p \in Packet /\ p.conid = f.conid
    BY <1>1 DEF Packet
<1>3. CASE ready /\ Len(f.out) < send_buffer_size
    <2>1. g = [f EXCEPT !.out = Append(f.out, p), !.lost = f.lost /\ ~rebind]
        BY <1>3, Zenon DEF connection_send
    <2> HIDE DEF p
    <2>2. /\ Append(f.out, p) \in Seq(Packet) /\ Len(Append(f.out, p)) = Len(f.out) + 1
          /\ \A k \in 1..Len(f.out) + 1 :
                Append(f.out, p)[k] = IF k <= Len(f.out) THEN f.out[k] ELSE p
        BY <1>1, <1>2, AppendIndex
    <2>3. (f.lost /\ ~rebind) \in BOOLEAN
        OBVIOUS
    <2>4. g \in Flow
        BY <2>1, <2>2, <2>3, Zenon DEF Flow
    <2>5. /\ g.out = Append(f.out, p) /\ g.conid = f.conid /\ g.local = f.local
          /\ g.remote = f.remote /\ g.turn = f.turn /\ g.answered = f.answered
        BY <2>1 DEF Flow
    <2>6. g.lost = (f.lost /\ ~rebind)
        BY <2>1, Zenon DEF Flow
    <2> HIDE DEF g
    <2>7. Len(g.out) = Len(f.out) + 1
        BY <2>2, <2>5
    <2>8. \A k \in 1..Len(g.out) : g.out[k] = IF k <= Len(f.out) THEN f.out[k] ELSE p
        BY <2>2, <2>5, <2>7
    <2>9. DOMAIN g.out = 1..Len(g.out)
        BY <2>4, FlowFields
    <2>10. OwnConid(g)
        <3>1. ASSUME NEW k \in 1..Len(g.out) PROVE g.out[k].conid = g.conid
            <4>1. CASE k <= Len(f.out)
                <5>1. k \in 1..Len(f.out)
                    BY <1>1, <2>7, <4>1
                <5> QED
                    BY <1>1, <2>5, <2>8, <4>1, <5>1 DEF OwnConid
            <4>2. CASE ~(k <= Len(f.out))
                BY <1>2, <2>5, <2>8, <4>2
            <4> QED
                BY <4>1, <4>2
        <3> QED
            BY <2>9, <3>1 DEF OwnConid
    <2> QED
        BY <1>2, <2>4, <2>5, <2>6, <2>7, <2>8, <2>10, Zenon DEF g, p
<1>4. CASE ~(ready /\ Len(f.out) < send_buffer_size)
    <2>1. g = [f EXCEPT !.lost = f.lost \/ rebind]
        BY <1>4, Zenon DEF connection_send
    <2>2. (f.lost \/ rebind) \in BOOLEAN
        OBVIOUS
    <2>3. g \in Flow
        BY <2>1, <2>2, Zenon DEF Flow
    <2>4. /\ g.out = f.out /\ g.conid = f.conid /\ g.local = f.local
          /\ g.remote = f.remote /\ g.turn = f.turn /\ g.answered = f.answered
        BY <2>1 DEF Flow
    <2>5. g.lost = (f.lost \/ rebind)
        BY <2>1, Zenon DEF Flow
    <2>6. OwnConid(g)
        BY <2>4 DEF OwnConid
    <2> QED
        BY <2>3, <2>4, <2>5, <2>6, Zenon DEF g
<1> QED
    BY <1>3, <1>4

LEMMA SendKeeps ==
    ASSUME NEW f \in Flow, OwnConid(f), NEW q, NEW s, NEW n, FlowOK(f, q, s, n)
    PROVE  FlowOK(connection_send(f, FALSE, TRUE), q, s, n)
<1> DEFINE p == [conid |-> f.conid, rebind |-> FALSE, remote |-> f.remote, turn |-> f.turn]
<1>1. PICK g : g = connection_send(f, FALSE, TRUE)
    OBVIOUS
<1> SUFFICES FlowOK(g, q, s, n)
    BY <1>1
<1>2. /\ g \in Flow /\ g.conid = f.conid /\ g.turn = f.turn
      /\ \/ g.out = f.out /\ g.lost = (f.lost \/ FALSE)
         \/ /\ g.lost = (f.lost /\ ~FALSE) /\ Len(g.out) = Len(f.out) + 1
            /\ \A k \in 1..Len(g.out) : g.out[k] = IF k <= Len(f.out) THEN f.out[k] ELSE p
    BY <1>1, SendFlow
<1>3. Present(p, g) /\ ~p.rebind
    BY <1>2 DEF Present
<1> HIDE DEF p
<1>4. f.lost \in BOOLEAN /\ g.lost \in BOOLEAN /\ g.lost = f.lost
    BY <1>2, FlowFields
<1>5. /\ DOMAIN f.out = 1..Len(f.out) /\ Len(f.out) \in Nat
      /\ DOMAIN g.out = 1..Len(g.out) /\ Len(g.out) \in Nat
    BY <1>2, FlowFields
<1>6. CASE g.out = f.out
    <2>1. QueueOK(f) => QueueOK(g)
        BY <1>2, <1>6, Zenon DEF QueueOK, Present
    <2>2. WayOK(f, q) => WayOK(g, q)
        BY <1>2, <1>6, Zenon DEF WayOK, Present
    <2>3. OwnerOK(f, q, s, n) => OwnerOK(g, q, s, n)
        BY <1>2, <1>6, Zenon DEF OwnerOK
    <2> QED
        BY <1>4, <2>1, <2>2, <2>3, Zenon DEF FlowOK
<1>7. CASE /\ Len(g.out) = Len(f.out) + 1
           /\ \A k \in 1..Len(g.out) : g.out[k] = IF k <= Len(f.out) THEN f.out[k] ELSE p
    <2>1. \A k \in 1..Len(f.out) : k \in 1..Len(g.out) /\ g.out[k] = f.out[k]
        BY <1>5, <1>7
    <2>2. Rebinds(f.out, f.conid) <=> Rebinds(g.out, g.conid)
        BY <1>2, <1>3, <1>5, <1>7, <2>1, SMTT(60) DEF Rebinds
    <2>3. \A k \in 1..Len(f.out) : After(f.out, k, f.conid) => After(g.out, k, g.conid)
        BY <1>2, <1>5, <2>1 DEF After
    <2>4. ASSUME QueueOK(f) PROVE QueueOK(g)
        <3>1. ASSUME NEW k \in 1..Len(g.out)
              PROVE  Present(g.out[k], g) \/ After(g.out, k, g.conid)
            <4>1. CASE k \in 1..Len(f.out)
                BY <1>2, <1>5, <2>1, <2>3, <2>4, <4>1 DEF QueueOK, Present
            <4>2. CASE k \notin 1..Len(f.out)
                BY <1>3, <1>5, <1>7, <4>2
            <4> QED
                BY <4>1, <4>2
        <3> QED
            BY <1>5, <3>1 DEF QueueOK
    <2>5. WayOK(f, q) => WayOK(g, q)
        BY <1>2, <2>2, Zenon DEF WayOK, Present
    <2>6. OwnerOK(f, q, s, n) => OwnerOK(g, q, s, n)
        BY <1>2, <2>2, Zenon DEF OwnerOK
    <2> QED
        BY <1>4, <2>4, <2>5, <2>6, Zenon DEF FlowOK
<1> QED
    BY <1>1, <1>2, <1>6, <1>7

LEMMA SendRebinds ==
    ASSUME NEW f \in Flow, OwnConid(f), NEW ready \in BOOLEAN, NEW q, NEW s, NEW n
    PROVE  FlowOK(connection_send(f, TRUE, ready), q, s, n)
<1> DEFINE p == [conid |-> f.conid, rebind |-> TRUE, remote |-> f.remote, turn |-> f.turn]
<1>1. PICK g : g = connection_send(f, TRUE, ready)
    OBVIOUS
<1> SUFFICES FlowOK(g, q, s, n)
    BY <1>1
<1>2. /\ g \in Flow /\ g.conid = f.conid /\ g.turn = f.turn
      /\ \/ g.out = f.out /\ g.lost = (f.lost \/ TRUE)
         \/ /\ g.lost = (f.lost /\ ~TRUE) /\ Len(g.out) = Len(f.out) + 1
            /\ \A k \in 1..Len(g.out) : g.out[k] = IF k <= Len(f.out) THEN f.out[k] ELSE p
    BY <1>1, SendFlow, ZenonT(60)
<1>3. Present(p, g) /\ p.rebind /\ p.conid = g.conid
    BY <1>2 DEF Present
<1> HIDE DEF p
<1>4. /\ DOMAIN f.out = 1..Len(f.out) /\ Len(f.out) \in Nat
      /\ DOMAIN g.out = 1..Len(g.out) /\ Len(g.out) \in Nat
    BY <1>2, FlowFields
<1>5. CASE g.lost = (f.lost \/ TRUE)
    <2>1. g.lost
        BY <1>5, Zenon
    <2> QED
        BY <2>1, Zenon DEF FlowOK
<1>6. CASE /\ Len(g.out) = Len(f.out) + 1
           /\ \A k \in 1..Len(g.out) : g.out[k] = IF k <= Len(f.out) THEN f.out[k] ELSE p
    <2>1. Len(g.out) \in 1..Len(g.out) /\ g.out[Len(g.out)] = p
        BY <1>4, <1>6
    <2>2. Rebinds(g.out, g.conid)
        BY <1>3, <1>4, <2>1 DEF Rebinds
    <2>3. ASSUME NEW k \in 1..Len(g.out)
          PROVE  Present(g.out[k], g) \/ After(g.out, k, g.conid)
        <3>1. CASE k = Len(g.out)
            BY <1>3, <2>1, <3>1
        <3>2. CASE k # Len(g.out)
            <4>1. k < Len(g.out)
                BY <1>4, <3>2
            <4> QED
                BY <1>3, <1>4, <2>1, <4>1 DEF After
        <3> QED
            BY <3>1, <3>2
    <2>4. QueueOK(g)
        BY <1>4, <2>3 DEF QueueOK
    <2>5. WayOK(g, q) /\ OwnerOK(g, q, s, n)
        BY <2>2 DEF WayOK, OwnerOK
    <2> QED
        BY <2>4, <2>5, Zenon DEF FlowOK
<1> QED
    BY <1>1, <1>2, <1>5, <1>6

-----------------------------------------------------------------------------
(* A packet of the flow is put in its buffer, or not.                       *)
LEMMA SendTurn ==
    ASSUME NEW f \in Flow, OwnConid(f), NEW rebind \in BOOLEAN, NEW ready \in BOOLEAN,
           NEW q, NEW s, NEW n, NEW d, InTurn(f, q, s, n, d)
    PROVE  InTurn(connection_send(f, rebind, ready), q, s, n, d)
<1> DEFINE p == [conid |-> f.conid, rebind |-> rebind, remote |-> f.remote, turn |-> f.turn]
           c == f.conid
           t == f.turn
<1>1. PICK g : g = connection_send(f, rebind, ready)
    OBVIOUS
<1>2. /\ g.conid = c /\ g.turn = t /\ g.answered = f.answered
      /\ g.out = f.out \/ g.out = Append(f.out, p)
    BY <1>1, SendFlow
<1>3. f.out \in Seq(Packet) /\ t \in Nat /\ p \in Packet /\ p.conid = c /\ p.turn = t
    BY FlowFields DEF Packet
<1>4. t \in 0..t
    BY <1>3
<1> HIDE DEF p
<1>5. /\ All(f.out, c, t) => All(g.out, c, t)
      /\ UpTo(f.out, c, t) => UpTo(g.out, c, t)
      /\ Sorted(f.out, c, t) => Sorted(g.out, c, t)
    <2> HIDE DEF c, t
    <2> DEFINE r == Append(f.out, p)
    <2>1. /\ All(f.out, c, t) /\ (p.conid = c => p.turn = t) => All(r, c, t)
          /\ UpTo(f.out, c, t) /\ (p.conid = c => p.turn \in 0..t) => UpTo(r, c, t)
          /\ Sorted(f.out, c, t) /\ (Some(f.out, c, t) => (p.conid = c => p.turn = t)) => Sorted(r, c, t)
        BY <1>3, AppendTurn
    <2> HIDE DEF r
    <2>2. g.out = f.out \/ g.out = r
        BY <1>2 DEF r
    <2> QED
        BY <1>3, <1>4, <2>1, <2>2, Zenon
<1> HIDE DEF c, t
<1>6. /\ WayTurn(f.out, q, d, c, t) => WayTurn(g.out, q, d, c, t)
      /\ HeldTurn(f.out, q, s, n, c, t) => HeldTurn(g.out, q, s, n, c, t)
      /\ Behind(f.out, q, s, n, c, t) => Behind(g.out, q, s, n, c, t)
    BY <1>5 DEF WayTurn, HeldTurn, Behind
<1>7. InTurn(g, q, s, n, d)
    BY <1>2, <1>6, Zenon DEF InTurn, c, t
<1> QED
    BY <1>1, <1>7

(* The conid is taken over: nothing is of the new turn.                     *)
LEMMA TakeTurn ==
    ASSUME NEW f \in Flow, NEW g, g.conid = f.conid, g.turn = f.turn + 1, g.out = f.out, ~g.answered,
           NEW q, NEW s, NEW n, NEW d, InTurn(f, q, s, n, d)
    PROVE  InTurn(g, q, s, n, d)
<1> DEFINE c == f.conid
           t == f.turn
<1>1. t \in Nat
    BY FlowFields
<1>2. WayTurn(f.out, q, d, c, t) /\ HeldTurn(f.out, q, s, n, c, t)
    BY DEF InTurn
<1> HIDE DEF c, t
<1>3. WayTurn(f.out, q, d, c, t + 1) /\ ~Some(d, c, t + 1)
    BY <1>1, <1>2, NextTurn DEF WayTurn
<1>4. HeldTurn(f.out, q, s, n, c, t + 1)
    <2>1. \A x \in 0..t : x \in 0..t + 1 /\ x # t + 1
        BY <1>1
    <2> QED
        BY <1>2, <2>1 DEF HeldTurn
<1> QED
    BY <1>3, <1>4 DEF InTurn, c, t

LEMMA NewTurn ==
    ASSUME NEW f, NEW t, f.turn = t, f.out = <<>>, ~f.answered, NEW q, NEW s, NEW n, NEW d,
           \A k \in DOMAIN q : q[k].conid # f.conid, \A k \in DOMAIN d : d[k].conid # f.conid,
           \A j \in DOMAIN s : s[j].client = n => s[j].conid # f.conid
    PROVE  InTurn(f, q, s, n, d)
<1>1. DOMAIN f.out = {}
    OBVIOUS
<1>2. WayTurn(f.out, q, d, f.conid, t) /\ ~Some(d, f.conid, t)
    BY <1>1, NoTurn DEF WayTurn
<1>3. HeldTurn(f.out, q, s, n, f.conid, t)
    BY DEF HeldTurn, Holds
<1> QED
    BY <1>2, <1>3 DEF InTurn

(* The first of the replies is received: if it is one to the flow, so are   *)
(* all the others.                                                         *)
LEMMA ReplyTurn ==
    ASSUME NEW f \in Flow, NEW q, NEW s, NEW n, NEW S, NEW d \in Seq(S), d # <<>>,
           InTurn(f, q, s, n, d), NEW g, g.conid = f.conid, g.turn = f.turn, g.out = f.out,
           g.answered => f.answered \/ (Head(d).conid = f.conid /\ Head(d).turn = f.turn)
    PROVE  InTurn(g, q, s, n, Tail(d))
<1> DEFINE c == f.conid
           t == f.turn
           r == Tail(d)
           own == Head(d).conid = c /\ Head(d).turn = t
<1>1. /\ All(d, c, t) => All(r, c, t)
      /\ UpTo(d, c, t) => UpTo(r, c, t)
      /\ Sorted(d, c, t) => Sorted(r, c, t) /\ (own => All(r, c, t))
      /\ Some(r, c, t) \/ own => Some(d, c, t)
    BY TailTurn
<1> HIDE DEF own, r
<1>2. WayTurn(g.out, q, r, c, t) /\ HeldTurn(g.out, q, s, n, c, t)
    BY <1>1 DEF InTurn, WayTurn
<1>3. g.answered => f.answered \/ own
    BY DEF own
<1>4. Some(r, c, t) \/ g.answered => Behind(g.out, q, s, n, c, t)
    BY <1>1, <1>3 DEF InTurn
<1>5. g.answered => All(r, c, t)
    BY <1>1, <1>3 DEF InTurn, WayTurn
<1> QED
    BY <1>2, <1>4, <1>5 DEF InTurn, r

(* The first packet of the flow goes on its way.                            *)
LEMMA TransmitTurn ==
    ASSUME NEW f \in Flow, OwnConid(f), f.out # <<>>, NEW q \in Seq(Packet), NEW s, NEW n, NEW d,
           InTurn(f, q, s, n, d), NEW g, g.conid = f.conid, g.turn = f.turn, g.out = Tail(f.out),
           g.answered = f.answered
    PROVE  InTurn(g, Append(q, Head(f.out)), s, n, d)
<1> DEFINE c == f.conid
           t == f.turn
           p == Head(f.out)
           r == Append(q, p)
<1>1. f.out \in Seq(Packet) /\ p \in Packet /\ p = f.out[1] /\ 1 \in DOMAIN f.out
    <2>1. f.out \in Seq(Packet)
        BY FlowFields
    <2> QED
        BY <2>1
<1>2. p.conid = c
    BY <1>1 DEF OwnConid
<1>3. /\ All(f.out, c, t) => All(g.out, c, t) /\ p.turn = t
      /\ UpTo(f.out, c, t) => UpTo(g.out, c, t) /\ p.turn \in 0..t
      /\ Sorted(f.out, c, t) => Sorted(g.out, c, t) /\ (p.turn = t => All(g.out, c, t))
    BY <1>1, <1>2, TailTurn
<1> HIDE DEF p
<1>4. /\ All(q, c, t) /\ p.turn = t => All(r, c, t)
      /\ UpTo(q, c, t) /\ p.turn \in 0..t => UpTo(r, c, t)
      /\ Sorted(q, c, t) /\ (Some(q, c, t) => p.turn = t) => Sorted(r, c, t)
      /\ Some(r, c, t) => Some(q, c, t) \/ p.turn = t
    BY <1>1, <1>2, AppendTurn
<1> HIDE DEF c, t, r
<1>5. WayTurn(f.out, q, d, c, t) => WayTurn(g.out, r, d, c, t)
    BY <1>3, <1>4 DEF WayTurn
<1>6. HeldTurn(f.out, q, s, n, c, t) => HeldTurn(g.out, r, s, n, c, t)
    BY <1>3, <1>4 DEF HeldTurn
<1>7. Behind(f.out, q, s, n, c, t) => Behind(g.out, r, s, n, c, t)
    BY <1>3, <1>4 DEF Behind
<1>8. InTurn(g, r, s, n, d)
    BY <1>5, <1>6, <1>7, Zenon DEF InTurn, c, t
<1> QED
    BY <1>8 DEF r, p

(* A packet of another flow does.                                          *)
LEMMA OtherTurn ==
    ASSUME NEW f, NEW q \in Seq(Packet), NEW p \in Packet, p.conid # f.conid, NEW s, NEW n, NEW d,
           InTurn(f, q, s, n, d)
    PROVE  InTurn(f, Append(q, p), s, n, d)
<1> DEFINE c == f.conid
           t == f.turn
           r == Append(q, p)
<1>1. /\ All(q, c, t) => All(r, c, t)
      /\ UpTo(q, c, t) => UpTo(r, c, t)
      /\ Sorted(q, c, t) => Sorted(r, c, t)
      /\ Some(r, c, t) => Some(q, c, t)
    BY AppendTurn
<1> HIDE DEF r, c, t
<1>2. WayTurn(f.out, q, d, c, t) => WayTurn(f.out, r, d, c, t)
    BY <1>1 DEF WayTurn
<1>3. HeldTurn(f.out, q, s, n, c, t) => HeldTurn(f.out, r, s, n, c, t)
    BY <1>1 DEF HeldTurn
<1>4. Behind(f.out, q, s, n, c, t) => Behind(f.out, r, s, n, c, t)
    BY <1>1 DEF Behind
<1> QED
    BY <1>2, <1>3, <1>4, Zenon DEF InTurn, r, c, t

-----------------------------------------------------------------------------
(* The server: connections go or close, one is made, or a reply is sent.    *)
LEMMA KeptTurn ==
    ASSUME NEW f, NEW q, NEW s, NEW t, NEW n, NEW d, KeptFor(t, s, n), OneConid(s),
           InTurn(f, q, s, n, d)
    PROVE  InTurn(f, q, t, n, d)
<1> DEFINE c == f.conid
           own == f.turn
<1> HIDE DEF c, own
<1>1. \A j \in DOMAIN t : Holds(t[j], n, c) =>
          \E k \in DOMAIN s : /\ Holds(s[k], n, c) /\ t[j].owner = s[k].owner
                              /\ s[k].closing => t[j].closing
    BY DEF KeptFor, FromCon, SameCon, Holds
<1>2. HeldTurn(f.out, q, s, n, c, own)
    BY DEF InTurn, c, own
<1>3. HeldTurn(f.out, q, t, n, c, own)
    <2> SUFFICES ASSUME NEW j \in DOMAIN t, Holds(t[j], n, c)
                 PROVE  /\ t[j].owner \in 0..own
                        /\ t[j].owner = own =>
                               /\ All(f.out, c, own) /\ All(q, c, own)
                               /\ t[j].closing => \A h \in DOMAIN t :
                                      Holds(t[h], n, c) /\ ~t[h].closing => t[h].owner = own
        BY DEF HeldTurn
    <2>1. PICK k \in DOMAIN s : /\ Holds(s[k], n, c) /\ t[j].owner = s[k].owner
                                /\ s[k].closing => t[j].closing
        BY <1>1
    <2>2. /\ s[k].owner \in 0..own
          /\ s[k].owner = own =>
                 /\ All(f.out, c, own) /\ All(q, c, own)
                 /\ s[k].closing => \A h \in DOMAIN s :
                        Holds(s[h], n, c) /\ ~s[h].closing => s[h].owner = own
        BY <1>2, <2>1 DEF HeldTurn
    <2>3. ASSUME s[k].owner = own, NEW h \in DOMAIN t, Holds(t[h], n, c), ~t[h].closing
          PROVE  t[h].owner = own
        <3>1. PICK i \in DOMAIN s : Holds(s[i], n, c) /\ t[h].owner = s[i].owner /\ ~s[i].closing
            BY <1>1, <2>3
        <3>2. CASE s[k].closing
            BY <2>2, <2>3, <3>1, <3>2
        <3>3. CASE ~s[k].closing
            <4>1. i = k
                BY <2>1, <3>1, <3>3 DEF OneConid, OpenPair, Holds
            <4> QED
                BY <2>3, <3>1, <4>1
        <3> QED
            BY <3>2, <3>3
    <2> QED
        BY <2>1, <2>2, <2>3
<1>4. AllHeld(s, n, c, own) => AllHeld(t, n, c, own)
    BY <1>1 DEF AllHeld
<1>5. Behind(f.out, q, s, n, c, own) => Behind(f.out, q, t, n, c, own)
    BY <1>4 DEF Behind
<1> QED
    BY <1>3, <1>5, Zenon DEF InTurn, c, own

LEMMA ReceivedTurn ==
    ASSUME NEW f, NEW q \in Seq(Packet), q # <<>>, NEW n, NEW d, OneConid(cons),
           InTurn(f, q, cons, n, d), Received(n, Head(q))
    PROVE  InTurn(f, Tail(q), cons', n, d)
<1> DEFINE c == f.conid
           t == f.turn
           p == Head(q)
           r == Tail(q)
<1>1. /\ All(q, c, t) => All(r, c, t) /\ (p.conid = c => p.turn = t)
      /\ UpTo(q, c, t) => UpTo(r, c, t) /\ (p.conid = c => p.turn \in 0..t)
      /\ Sorted(q, c, t) => Sorted(r, c, t) /\ (p.conid = c /\ p.turn = t => All(r, c, t))
      /\ Some(r, c, t) => Some(q, c, t)
      /\ p.conid = c /\ p.turn = t => Some(q, c, t)
    BY TailTurn
<1>2. WayTurn(f.out, q, d, c, t) /\ HeldTurn(f.out, q, cons, n, c, t)
    BY DEF InTurn
<1> HIDE DEF p, r, c, t
<1>3. \A j \in DOMAIN cons' : Holds(cons'[j], n, c) =>
          \/ \E k \in DOMAIN cons : /\ Holds(cons[k], n, c) /\ cons'[j].owner = cons[k].owner
                                    /\ cons[k].closing => cons'[j].closing
          \/ p.conid = c /\ cons'[j].owner = p.turn /\ ~cons'[j].closing
    <2>1. \A j \in DOMAIN cons' :
              (\E k \in DOMAIN cons : FromCon(cons'[j], cons[k])) \/ Opened(cons'[j], n, p)
        BY DEF Received, p
    <2> QED
        BY <2>1 DEF FromCon, SameCon, Opened, Holds
<1>4. WayTurn(f.out, r, d, c, t)
    BY <1>1, <1>2 DEF WayTurn
(* A connection of this turn, or the one made, has only such behind it.     *)
<1>5. ASSUME NEW j \in DOMAIN cons', Holds(cons'[j], n, c)
      PROVE  /\ cons'[j].owner \in 0..t
             /\ cons'[j].owner = t => All(f.out, c, t) /\ All(r, c, t)
    <2>1. CASE \E k \in DOMAIN cons : Holds(cons[k], n, c) /\ cons'[j].owner = cons[k].owner
        BY <1>1, <1>2, <2>1 DEF HeldTurn
    <2>2. CASE p.conid = c /\ cons'[j].owner = p.turn
        BY <1>1, <1>2, <2>2 DEF WayTurn
    <2> QED
        BY <1>3, <1>5, <2>1, <2>2
<1>6. ASSUME NEW j \in DOMAIN cons', Holds(cons'[j], n, c), cons'[j].owner = t, cons'[j].closing,
             NEW h \in DOMAIN cons', Holds(cons'[h], n, c), ~cons'[h].closing
      PROVE  cons'[h].owner = t
    <2>1. PICK k \in DOMAIN cons : Holds(cons[k], n, c) /\ cons[k].owner = t
        BY <1>3, <1>6
    <2>2. /\ All(q, c, t)
          /\ cons[k].closing => \A i \in DOMAIN cons :
                 Holds(cons[i], n, c) /\ ~cons[i].closing => cons[i].owner = t
        BY <1>2, <2>1 DEF HeldTurn
    <2>3. CASE p.conid = c /\ cons'[h].owner = p.turn
        BY <1>1, <2>2, <2>3
    <2>4. CASE \E i \in DOMAIN cons : /\ Holds(cons[i], n, c) /\ cons'[h].owner = cons[i].owner
                                      /\ cons[i].closing => cons'[h].closing
        <3>1. PICK i \in DOMAIN cons : Holds(cons[i], n, c) /\ cons'[h].owner = cons[i].owner /\ ~cons[i].closing
            BY <1>6, <2>4
        <3>2. CASE cons[k].closing
            BY <2>2, <3>1, <3>2
        <3>3. CASE ~cons[k].closing
            <4>1. i = k
                BY <2>1, <3>1, <3>3 DEF OneConid, OpenPair, Holds
            <4> QED
                BY <2>1, <3>1, <4>1
        <3> QED
            BY <3>2, <3>3
    <2> QED
        BY <1>3, <1>6, <2>3, <2>4
<1>7. HeldTurn(f.out, r, cons', n, c, t)
    BY <1>5, <1>6 DEF HeldTurn
<1>8. Behind(f.out, q, cons, n, c, t) => Behind(f.out, r, cons', n, c, t)
    <2>1. All(q, c, t) /\ AllHeld(cons, n, c, t) => AllHeld(cons', n, c, t)
        BY <1>1, <1>3 DEF AllHeld
    <2> QED
        BY <1>1, <2>1 DEF Behind
<1>9. InTurn(f, r, cons', n, d)
    BY <1>4, <1>7, <1>8, Zenon DEF InTurn, c, t
<1> QED
    BY <1>9 DEF r

(* The reply p of the connection i, which is the only one that sends: those *)
(* that are closed are sent before.                                        *)
LEMMA RepliedTurn ==
    ASSUME NEW f, NEW q, NEW s, NEW t, NEW n, NEW S, NEW d \in Seq(S), NEW p \in S,
           OneConid(s), OneBusy(s), Freed(s), KeptFor(t, s, n), InTurn(f, q, s, n, d),
           NEW i \in DOMAIN s, s[i].busy, s[i].client = n, p.conid = s[i].conid, p.turn = s[i].owner
    PROVE  InTurn(f, q, t, n, Append(d, p))
<1> DEFINE c == f.conid
           own == f.turn
           r == Append(d, p)
<1>1. InTurn(f, q, t, n, d)
    BY KeptTurn
<1>2. /\ All(d, c, own) /\ (p.conid = c => p.turn = own) => All(r, c, own)
      /\ UpTo(d, c, own) /\ (p.conid = c => p.turn \in 0..own) => UpTo(r, c, own)
      /\ Sorted(d, c, own) /\ (Some(d, c, own) => (p.conid = c => p.turn = own)) => Sorted(r, c, own)
      /\ Some(r, c, own) => Some(d, c, own) \/ (p.conid = c /\ p.turn = own)
    BY AppendTurn
<1> HIDE DEF r
<1>3. p.conid = c => Holds(s[i], n, c)
    BY DEF Holds
<1>4. p.conid = c => p.turn \in 0..own
    BY <1>3 DEF InTurn, HeldTurn
<1>5. Some(d, c, own) \/ f.answered => (p.conid = c => p.turn = own)
    BY <1>3 DEF InTurn, Behind, AllHeld
<1>6. ASSUME p.conid = c, p.turn = own PROVE Behind(f.out, q, s, n, c, own)
    <2>1. /\ All(f.out, c, own) /\ All(q, c, own)
          /\ s[i].closing => \A h \in DOMAIN s :
                 Holds(s[h], n, c) /\ ~s[h].closing => s[h].owner = own
        BY <1>3, <1>6 DEF InTurn, HeldTurn
    <2>2. ASSUME NEW k \in DOMAIN s, Holds(s[k], n, c) PROVE s[k].owner = own
        <3>1. CASE s[k].closing
            <4>1. k = i
                BY <2>2, <3>1 DEF Freed, OneBusy, Holds
            <4> QED
                BY <1>6, <4>1
        <3>2. CASE ~s[k].closing /\ s[i].closing
            BY <2>1, <2>2, <3>2
        <3>3. CASE ~s[k].closing /\ ~s[i].closing
            <4>1. k = i
                BY <1>6, <2>2, <3>3 DEF OneConid, OpenPair, Holds
            <4> QED
                BY <1>6, <4>1
        <3> QED
            BY <3>1, <3>2, <3>3
    <2> QED
        BY <2>1, <2>2 DEF Behind, AllHeld
<1>7. Behind(f.out, q, s, n, c, own) => Behind(f.out, q, t, n, c, own)
    <2>1. AllHeld(s, n, c, own) => AllHeld(t, n, c, own)
        BY DEF AllHeld, KeptFor, FromCon, SameCon, Holds
    <2> QED
        BY <2>1 DEF Behind
<1>8. WayTurn(f.out, q, r, c, own) /\ HeldTurn(f.out, q, t, n, c, own)
    BY <1>1, <1>2, <1>4, <1>5 DEF InTurn, WayTurn
<1>9. Some(r, c, own) \/ f.answered => Behind(f.out, q, t, n, c, own)
    BY <1>1, <1>2, <1>6, <1>7 DEF InTurn
<1>10. f.answered => All(r, c, own)
    BY <1>2, <1>5 DEF InTurn
<1> QED
    BY <1>8, <1>9, <1>10 DEF InTurn, r

(* Nothing is on its way, and the replies are the same or none.             *)
LEMMA EmptyTurn ==
    ASSUME NEW f, NEW q, NEW s, NEW t, NEW m, NEW n, NEW d, NEW r, InTurn(f, q, s, m, d),
           None(t, n), r = d \/ r = <<>>
    PROVE  InTurn(f, <<>>, t, n, r)
<1> DEFINE c == f.conid
           own == f.turn
<1>1. DOMAIN <<>> = {}
    OBVIOUS
<1>2. /\ UpTo(<<>>, c, own) /\ Sorted(<<>>, c, own) /\ ~Some(<<>>, c, own) /\ All(<<>>, c, own)
    BY <1>1, NoTurn
<1>3. HeldTurn(f.out, <<>>, t, n, c, own) /\ AllHeld(t, n, c, own)
    BY DEF HeldTurn, AllHeld, None, Holds
<1>4. WayTurn(f.out, <<>>, r, c, own)
    BY <1>2 DEF InTurn, WayTurn
<1>5. /\ Some(r, c, own) => Some(d, c, own)
      /\ All(d, c, own) => All(r, c, own)
    BY <1>2
<1>6. Behind(f.out, q, s, m, c, own) => Behind(f.out, <<>>, t, n, c, own)
    BY <1>2, <1>3 DEF Behind
<1> HIDE DEF c, own
<1> QED
    BY <1>3, <1>4, <1>5, <1>6, Zenon DEF InTurn, c, own

-----------------------------------------------------------------------------
-----------------------------------------------------------------------------
(* The operations of the client.                                           *)
LEMMA FlowIndex ==
    ASSUME CInv, NEW i \in DOMAIN connections_list
    PROVE  /\ connections_list \in Seq(Flow) /\ DOMAIN connections_list = 1..Len(connections_list)
           /\ Len(connections_list) \in Nat /\ i \in 1..Len(connections_list)
           /\ connections_list[i] \in Flow /\ OwnConid(connections_list[i])
    BY DEF CInv, FlowsOK

LEMMA SameClient == ASSUME CInv, UNCHANGED cvars PROVE CInv' /\ connections_list' = connections_list
    BY DEF CInv, cvars

LEMMA AppendFlow ==
    ASSUME NEW l, FlowsOK(l), NEW con \in Flow, OwnConid(con), Len(l) < max_connections,
           \A j \in DOMAIN l : l[j].conid # con.conid /\ (l[j].local # con.local \/ l[j].remote # con.remote),
           NEW q, NEW s, NEW n, NEW d, Owned(l, q, s, n, d), FlowOK(con, q, s, n), InTurn(con, q, s, n, d)
    PROVE  /\ FlowsOK(Append(l, con)) /\ Owned(Append(l, con), q, s, n, d)
           /\ Append(l, con) # <<>>
<1> DEFINE t == Append(l, con)
<1>1. l \in Seq(Flow) /\ DOMAIN l = 1..Len(l) /\ Len(l) \in Nat
    BY DEF FlowsOK
<1>2. /\ t \in Seq(Flow) /\ Len(t) = Len(l) + 1 /\ DOMAIN t = 1..Len(l) + 1
      /\ \A j \in 1..Len(l) + 1 : t[j] = IF j <= Len(l) THEN l[j] ELSE con
    BY <1>1, AppendIndex
<1> HIDE DEF t
<1>3. \A j \in DOMAIN t : (j \in DOMAIN l /\ t[j] = l[j]) \/ (j = Len(l) + 1 /\ t[j] = con)
    BY <1>1, <1>2
<1>4. \A j \in DOMAIN l : j \in DOMAIN t /\ t[j] = l[j]
    BY <1>1, <1>2
<1>5. Len(t) <= max_connections
    BY <1>1, <1>2, ClientAssumption
<1>6. ASSUME NEW i \in DOMAIN t, NEW j \in DOMAIN t, i # j
      PROVE  t[i].conid # t[j].conid /\ (t[i].local # t[j].local \/ t[i].remote # t[j].remote)
    BY <1>3, <1>6 DEF FlowsOK
<1>7. \A j \in DOMAIN t : OwnConid(t[j]) /\ FlowOK(t[j], q, s, n) /\ InTurn(t[j], q, s, n, d)
    BY <1>3 DEF FlowsOK, Owned
<1>8. Conids(l) \subseteq Conids(t)
    BY <1>4 DEF Conids
<1>9. FlowsOK(t)
    BY <1>2, <1>5, <1>6, <1>7 DEF FlowsOK
<1>10. Owned(t, q, s, n, d)
    BY <1>7, <1>8 DEF Owned, Known
<1>11. t # <<>>
    BY <1>1, <1>2
<1> QED
    BY <1>9, <1>10, <1>11 DEF t

LEMMA SubmitInv ==
    ASSUME CInv, NEW local \in Locals, NEW remote \in Remotes, UdpGwClient_SubmitPacket(local, remote),
           NEW q, NEW s, NEW n, NEW d, Owned(connections_list, q, s, n, d)
    PROVE  CInv' /\ Owned(connections_list', q, s, n, d)
<1> DEFINE l == connections_list
<1>1. jobs = <<>> /\ FlowsOK(l) /\ next_conid \in Conid /\ JobsOK(jobs)
    BY DEF UdpGwClient_SubmitPacket, CInv
<1>2. l \in Seq(Flow) /\ DOMAIN l = 1..Len(l) /\ Len(l) \in Nat
    BY <1>1 DEF FlowsOK
<1>3. \A i \in DOMAIN l : /\ l[i] \in Flow /\ OwnConid(l[i])
                          /\ FlowOK(l[i], q, s, n) /\ InTurn(l[i], q, s, n, d)
    BY <1>1, <1>2 DEF FlowsOK, Owned
<1>4. CASE /\ \E i \in Of(local, remote) : l' = ToEnd(l, i, connection_send(l[i], FALSE, TRUE))
           /\ UNCHANGED <<next_conid, jobs>>
    <2>1. PICK i \in Of(local, remote) : l' = ToEnd(l, i, connection_send(l[i], FALSE, TRUE))
        BY <1>4
    <2>2. i \in DOMAIN l
        BY DEF Of
    <2> DEFINE g == connection_send(l[i], FALSE, TRUE)
    <2>3. /\ g \in Flow /\ OwnConid(g) /\ g.conid = l[i].conid
          /\ g.local = l[i].local /\ g.remote = l[i].remote
        BY <1>3, <2>2, SendFlow
    <2>4. FlowOK(g, q, s, n) /\ InTurn(g, q, s, n, d)
        BY <1>3, <2>2, SendKeeps, SendTurn
    <2> HIDE DEF g
    <2>5. Replaces(g, l, i)
        BY <1>1, <2>2, <2>3 DEF Replaces, FlowsOK
    <2>6. Changed(l', l, g)
        BY <1>1, <2>1, <2>2, <2>5, ToEndChanges DEF g
    <2>7. Owned(l', q, s, n, d)
        BY <2>4, <2>6, ChangedOwned
    <2> QED
        BY <1>1, <1>4, <2>6, <2>7 DEF CInv, Changed
<1>5. CASE /\ Of(local, remote) = {} /\ Len(l) = max_connections
           /\ reuse_connection(local, remote) /\ UNCHANGED <<next_conid, jobs>>
    <2> DEFINE f == TakenOver(l[1], local, remote)
               g == connection_send(f, TRUE, TRUE)
    <2>1. 1 \in DOMAIN l /\ l[1] \in Flow /\ InTurn(l[1], q, s, n, d)
        BY <1>2, <1>3, <1>5, ClientAssumption
    <2>2. f \in Flow
        <3>1. l[1].turn + 1 \in Nat
            BY <2>1, FlowFields
        <3> QED
            BY <2>1, <3>1, Zenon DEF Flow, TakenOver
    <2>3. /\ f.conid = l[1].conid /\ f.local = local /\ f.remote = remote /\ f.out = l[1].out
          /\ f.turn = l[1].turn + 1 /\ ~f.answered
        BY <2>1 DEF Flow, TakenOver
    <2>4. OwnConid(f)
        BY <1>3, <2>1, <2>3 DEF OwnConid
    <2>5. l' = ToEnd(l, 1, g)
        BY <1>5 DEF reuse_connection
    <2> HIDE DEF f
    <2>6. /\ g \in Flow /\ OwnConid(g) /\ g.conid = l[1].conid /\ g.local = local /\ g.remote = remote
        BY <2>2, <2>3, <2>4, SendFlow
    <2>7. FlowOK(g, q, s, n) /\ InTurn(g, q, s, n, d)
        <3>1. InTurn(f, q, s, n, d)
            BY <2>1, <2>3, TakeTurn
        <3> QED
            BY <2>2, <2>4, <3>1, SendRebinds, SendTurn
    <2> HIDE DEF g
    <2>8. \A j \in DOMAIN l : l[j].local # local \/ l[j].remote # remote
        BY <1>5 DEF Of
    <2>9. Replaces(g, l, 1)
        BY <2>6, <2>8 DEF Replaces
    <2>10. Changed(l', l, g)
        BY <1>1, <2>1, <2>5, <2>9, ToEndChanges
    <2>11. Owned(l', q, s, n, d)
        BY <2>7, <2>10, ChangedOwned
    <2> QED
        BY <1>1, <1>5, <2>10, <2>11 DEF CInv, Changed
<1>6. CASE /\ Of(local, remote) = {} /\ Len(l) < max_connections /\ connection_init(local, remote)
    <2>1. CASE UNCHANGED cvars
        BY <1>1, <2>1, SameClient DEF cvars
    <2>2. ASSUME NEW c \in Conid, find_unused_conid(c), next_conid' = c,
                 \/ /\ l' = Append(l, [conid |-> c, local |-> local, remote |-> remote, out |-> <<>>,
                                       turn |-> 0, lost |-> FALSE, answered |-> FALSE])
                    /\ jobs' = NewFlowJobs
                 \/ UNCHANGED <<l, jobs>>
          PROVE  CInv' /\ Owned(l', q, s, n, d)
        <3> DEFINE g == [conid |-> c, local |-> local, remote |-> remote, out |-> <<>>,
                         turn |-> 0, lost |-> FALSE, answered |-> FALSE]
        <3>1. \A j \in DOMAIN l : l[j].conid # c
            BY <2>2 DEF find_unused_conid, Unused
        <3>2. <<>> \in Seq(Packet)
            OBVIOUS
        <3>3. g \in Flow
            BY <3>2 DEF Flow
        <3>4. /\ g.conid = c /\ g.local = local /\ g.remote = remote /\ DOMAIN g.out = {}
              /\ g.turn = 0 /\ g.out = <<>> /\ ~g.answered
            OBVIOUS
        <3> HIDE DEF g
        <3>5. OwnConid(g) /\ QueueOK(g)
            BY <3>4 DEF OwnConid, QueueOK
        <3>6. c \notin Conids(l)
            BY <3>1 DEF Conids
        <3>7. /\ \A k \in DOMAIN q : q[k].conid # c
              /\ \A j \in DOMAIN s : s[j].client = n => s[j].conid # c
              /\ \A k \in DOMAIN d : d[k].conid # c
            BY <3>6 DEF Owned, Known
        <3>8. WayOK(g, q) /\ OwnerOK(g, q, s, n)
            BY <3>4, <3>7 DEF WayOK, OwnerOK, Open
        <3>9. FlowOK(g, q, s, n)
            BY <3>5, <3>8, Zenon DEF FlowOK
        <3>10. InTurn(g, q, s, n, d)
            BY <3>4, <3>7, NewTurn
        <3>11. \A j \in DOMAIN l : l[j].local # local \/ l[j].remote # remote
            BY <1>6 DEF Of
        <3>12. CASE l' = Append(l, g) /\ jobs' = NewFlowJobs
            <4>1. FlowsOK(l') /\ Owned(l', q, s, n, d) /\ l' # <<>>
                BY <1>1, <1>6, <3>1, <3>3, <3>4, <3>5, <3>9, <3>10, <3>11, <3>12, AppendFlow
            <4> QED
                BY <2>2, <3>12, <4>1, NewJobs DEF CInv
        <3>13. CASE UNCHANGED <<l, jobs>>
            BY <1>1, <2>2, <3>13 DEF CInv
        <3> QED
            BY <2>2, <3>12, <3>13 DEF g
    <2> QED
        BY <1>6, <2>1, <2>2 DEF connection_init
<1> QED
    BY <1>4, <1>5, <1>6 DEF UdpGwClient_SubmitPacket

LEMMA ClientJobInv ==
    ASSUME CInv, ClientJob, NEW q, NEW s, NEW n, NEW d, Owned(connections_list, q, s, n, d)
    PROVE  CInv' /\ Owned(connections_list', q, s, n, d)
<1> DEFINE l == connections_list
           i == Len(l)
           g == connection_send(l[i], TRUE, ~IsSet(jobs, "ready"))
<1>1. jobs # <<>> /\ l # <<>> /\ jobs' = Tail(jobs) /\ next_conid' = next_conid /\ FlowsOK(l)
    BY DEF ClientJob, CInv
<1>2. JobsOK(jobs')
    BY <1>1, NextJob DEF CInv
<1>3. CASE Head(jobs) = "first"
    <2>1. l' = [l EXCEPT ![i] = g]
        BY <1>3 DEF ClientJob
    <2>2. i \in DOMAIN l /\ l[i] \in Flow /\ OwnConid(l[i])
        BY <1>1 DEF FlowsOK
    <2>3. (~IsSet(jobs, "ready")) \in BOOLEAN
        BY DEF IsSet
    <2>4. /\ g \in Flow /\ OwnConid(g) /\ g.conid = l[i].conid
          /\ g.local = l[i].local /\ g.remote = l[i].remote
        BY <2>2, <2>3, SendFlow
    <2>5. FlowOK(g, q, s, n) /\ InTurn(g, q, s, n, d)
        <3>1. InTurn(l[i], q, s, n, d)
            BY <2>2 DEF Owned
        <3> QED
            BY <2>2, <2>3, <3>1, SendRebinds, SendTurn
    <2> HIDE DEF g, i
    <2>6. Replaces(g, l, i)
        BY <1>1, <2>2, <2>4 DEF Replaces, FlowsOK
    <2>7. Changed(l', l, g)
        BY <1>1, <2>1, <2>2, <2>6, EditChanges
    <2>8. Owned(l', q, s, n, d)
        BY <2>5, <2>7, ChangedOwned
    <2> QED
        BY <1>1, <1>2, <2>7, <2>8 DEF CInv, Changed
<1>4. CASE Head(jobs) # "first"
    <2>1. l' = l
        BY <1>4 DEF ClientJob
    <2> QED
        BY <1>1, <1>2, <2>1 DEF CInv
<1> QED
    BY <1>3, <1>4

LEMMA ReplyInv ==
    ASSUME CInv, NEW q, NEW s, NEW n, NEW S, NEW d \in Seq(S), d # <<>>,
           recv_interface_handler_send(Head(d)), Owned(connections_list, q, s, n, d)
    PROVE  CInv' /\ Owned(connections_list', q, s, n, Tail(d))
<1> DEFINE l == connections_list
           r == Tail(d)
           p == Head(d)
<1>1. jobs' = jobs /\ next_conid' = next_conid /\ FlowsOK(l)
    BY DEF recv_interface_handler_send, CInv
<1>2. \A k \in DOMAIN r : k + 1 \in DOMAIN d /\ r[k] = d[k + 1]
    OBVIOUS
<1>3. \A i \in DOMAIN l : l[i] \in Flow /\ FlowOK(l[i], q, s, n) /\ InTurn(l[i], q, s, n, d)
    BY <1>1 DEF FlowsOK, Owned
<1>4. Owned(l, q, s, n, r)
    <2>1. \A i \in DOMAIN l : InTurn(l[i], q, s, n, r)
        BY <1>3, ReplyTurn
    <2> HIDE DEF r
    <2> QED
        BY <1>2, <1>3, <2>1 DEF Owned, Known
<1>5. CASE l' = l
    BY <1>1, <1>4, <1>5 DEF CInv
<1>6. ASSUME NEW i \in DOMAIN l, l[i].conid = p.conid,
             l' = ToEnd(l, i, [l[i] EXCEPT !.answered = @ \/ p.turn = l[i].turn])
      PROVE  CInv' /\ Owned(l', q, s, n, r)
    <2> DEFINE f == l[i]
               a == f.answered \/ p.turn = f.turn
               g == [f EXCEPT !.answered = a]
    <2>1. f \in Flow /\ OwnConid(f) /\ FlowOK(f, q, s, n) /\ InTurn(f, q, s, n, d)
        BY <1>1, <1>3 DEF FlowsOK
    <2>2. a \in BOOLEAN
        <3>1. f.answered \in BOOLEAN
            BY <2>1, FlowFields
        <3> QED
            BY <3>1
    <2> HIDE DEF a
    <2>3. g \in Flow
        BY <2>1, <2>2, Zenon DEF Flow
    <2>4. /\ g.conid = f.conid /\ g.local = f.local /\ g.remote = f.remote /\ g.out = f.out
          /\ g.turn = f.turn
        BY <2>1 DEF Flow
    <2>5. g.answered = a /\ g.lost = f.lost
        BY <2>1, Zenon DEF Flow
    <2> HIDE DEF g
    <2>6. OwnConid(g)
        BY <2>1, <2>4 DEF OwnConid
    <2>7. FlowOK(g, q, s, n)
        <3>1. /\ QueueOK(f) => QueueOK(g)
              /\ WayOK(f, q) => WayOK(g, q)
              /\ OwnerOK(f, q, s, n) => OwnerOK(g, q, s, n)
            BY <2>4 DEF QueueOK, WayOK, OwnerOK, Present
        <3> QED
            BY <2>1, <2>5, <3>1, Zenon DEF FlowOK
    <2>8. InTurn(g, q, s, n, r)
        <3>1. g.answered => f.answered \/ (Head(d).conid = f.conid /\ Head(d).turn = f.turn)
            BY <1>6, <2>5 DEF a
        <3> QED
            BY <2>1, <2>4, <3>1, ReplyTurn
    <2>9. Replaces(g, l, i)
        BY <1>1, <2>3, <2>4, <2>6 DEF FlowsOK, Replaces
    <2>10. l' = ToEnd(l, i, g)
        BY <1>6 DEF g, a
    <2>11. Changed(l', l, g)
        BY <1>1, <2>9, <2>10, ToEndChanges
    <2>12. Owned(l', q, s, n, r)
        BY <1>4, <2>7, <2>8, <2>11, ChangedOwned
    <2> QED
        BY <1>1, <2>11, <2>12 DEF CInv, Changed
<1> QED
    BY <1>5, <1>6 DEF recv_interface_handler_send

(* The first packet in the buffer of a flow goes on its way.                *)
LEMMA TransmitInv ==
    ASSUME CInv, NEW i \in DOMAIN connections_list, Transmit(i),
           NEW q \in Seq(Packet), NEW s, NEW n, NEW d, Owned(connections_list, q, s, n, d)
    PROVE  /\ CInv' /\ Head(connections_list[i].out) \in Packet
           /\ Owned(connections_list', Append(q, Head(connections_list[i].out)), s, n, d)
<1> DEFINE l == connections_list
           f == l[i]
           g == [f EXCEPT !.out = Tail(@)]
           p == Head(f.out)
           r == Append(q, p)
<1>1. /\ f.out # <<>> /\ l' = [l EXCEPT ![i].out = Tail(@)] /\ FlowsOK(l) /\ jobs' = jobs
      /\ next_conid' = next_conid
    BY DEF Transmit, CInv
<1>2. f \in Flow /\ OwnConid(f) /\ i \in 1..Len(l) /\ DOMAIN l = 1..Len(l)
    BY FlowIndex
<1>3. f.out \in Seq(Packet) /\ DOMAIN f.out = 1..Len(f.out) /\ Len(f.out) \in Nat
    BY <1>2, FlowFields
<1>4. /\ p \in Packet /\ p = f.out[1] /\ 1 \in 1..Len(f.out) /\ Tail(f.out) \in Seq(Packet)
      /\ Len(Tail(f.out)) = Len(f.out) - 1
      /\ \A k \in 1..Len(f.out) - 1 : Tail(f.out)[k] = f.out[k + 1]
    BY <1>1, <1>3
<1>5. g \in Flow
    BY <1>2, <1>4, Zenon DEF Flow
<1>6. /\ g.out = Tail(f.out) /\ g.conid = f.conid /\ g.local = f.local /\ g.remote = f.remote
      /\ g.lost = f.lost /\ g.turn = f.turn /\ g.answered = f.answered
    BY <1>2 DEF Flow
<1>7. l' = [l EXCEPT ![i] = g]
    BY <1>1
<1>8. p.conid = f.conid
    BY <1>2, <1>3, <1>4 DEF OwnConid
<1>9. /\ r \in Seq(Packet) /\ Len(r) = Len(q) + 1 /\ DOMAIN r = 1..Len(r) /\ Len(q) \in Nat
      /\ DOMAIN q = 1..Len(q)
      /\ \A k \in 1..Len(r) : r[k] = IF k <= Len(q) THEN q[k] ELSE p
    <2>1. p \in Packet
        BY <1>4
    <2> HIDE DEF p
    <2> QED
        BY <2>1, AppendIndex
<1> HIDE DEF f, g, p, r
<1>10. DOMAIN g.out = 1..Len(f.out) - 1 /\ \A k \in 1..Len(f.out) - 1 : g.out[k] = f.out[k + 1]
    BY <1>3, <1>4, <1>6
<1>11. OwnConid(g)
    <2>1. ASSUME NEW k \in 1..Len(f.out) - 1 PROVE g.out[k].conid = f.conid
        <3>1. k + 1 \in 1..Len(f.out) /\ g.out[k] = f.out[k + 1]
            BY <1>3, <1>10, <2>1
        <3> QED
            BY <1>2, <1>3, <3>1 DEF OwnConid
    <2> QED
        BY <1>6, <1>10, <2>1 DEF OwnConid
<1>12. Replaces(g, l, i)
    BY <1>1, <1>2, <1>5, <1>6, <1>11 DEF Replaces, FlowsOK, f
<1>13. Changed(l', l, g)
    <2>1. FlowsOK(l) /\ i \in DOMAIN l
        BY <1>1
    <2>2. Changed([l EXCEPT ![i] = g], l, g)
        BY <1>12, <2>1, EditChanges
    <2> QED
        BY <1>7, <2>2
<1>14. \A k \in 1..Len(q) : k \in 1..Len(r) /\ r[k] = q[k]
    BY <1>9
<1>15. Len(r) \in 1..Len(r) /\ r[Len(r)] = p /\ \A k \in 1..Len(r) : k \in 1..Len(q) \/ k = Len(r)
    BY <1>9
<1>16. Known(l', r, s, n, d)
    <2>1. f.conid \in Conids(l)
        BY <1>2 DEF Conids, f
    <2>2. \A k \in 1..Len(r) : r[k].conid \in Conids(l)
        BY <1>8, <1>9, <1>14, <1>15, <2>1 DEF Owned, Known
    <2> QED
        BY <1>9, <1>13, <2>2 DEF Owned, Known, Changed
<1>17. \A k \in 1..Len(q) : \A c : After(q, k, c) => After(r, k, c)
    BY <1>9, <1>14 DEF After
<1>18. \A c : Rebinds(q, c) => Rebinds(r, c)
    BY <1>9, <1>14 DEF Rebinds
(* What is known of the flow the packet is of.                              *)
<1>19. FlowOK(f, q, s, n)
    BY <1>2 DEF Owned, f
<1>20. Rebinds(f.out, f.conid) => p.rebind \/ Rebinds(g.out, g.conid)
    <2>1. ASSUME NEW k \in 1..Len(f.out), f.out[k].conid = f.conid, f.out[k].rebind, k # 1
          PROVE  Rebinds(g.out, g.conid)
        <3>1. k - 1 \in 1..Len(f.out) - 1 /\ g.out[k - 1] = f.out[(k - 1) + 1] /\ (k - 1) + 1 = k
            BY <1>3, <1>10, <2>1
        <3> QED
            BY <1>6, <1>10, <2>1, <3>1 DEF Rebinds
    <2> QED
        BY <1>3, <1>4, <2>1 DEF Rebinds
<1>21. Rebinds(g.out, g.conid) => Rebinds(f.out, f.conid)
    <2>1. ASSUME NEW k \in 1..Len(f.out) - 1, g.out[k].conid = g.conid, g.out[k].rebind
          PROVE  Rebinds(f.out, f.conid)
        <3>1. k + 1 \in 1..Len(f.out) /\ g.out[k] = f.out[k + 1]
            BY <1>3, <1>10, <2>1
        <3> QED
            BY <1>3, <1>6, <2>1, <3>1 DEF Rebinds
    <2> QED
        BY <1>10, <2>1 DEF Rebinds
<1>22. \A k \in 1..Len(f.out) - 1 : After(f.out, k + 1, f.conid) => After(g.out, k, g.conid)
    <2>1. ASSUME NEW k \in 1..Len(f.out) - 1, NEW h \in 1..Len(f.out),
                 h > k + 1, f.out[h].conid = f.conid, f.out[h].rebind
          PROVE  After(g.out, k, g.conid)
        <3>1. /\ h - 1 \in 1..Len(f.out) - 1 /\ g.out[h - 1] = f.out[(h - 1) + 1] /\ (h - 1) + 1 = h
              /\ h - 1 > k
            BY <1>3, <1>10, <2>1
        <3> QED
            BY <1>6, <1>10, <2>1, <3>1, ZenonT(60) DEF After
    <2> QED
        BY <1>3, <2>1 DEF After
<1>23. QueueOK(f) => QueueOK(g)
    <2>1. ASSUME QueueOK(f), NEW k \in 1..Len(f.out) - 1
          PROVE  Present(g.out[k], g) \/ After(g.out, k, g.conid)
        <3>1. k + 1 \in DOMAIN f.out /\ g.out[k] = f.out[k + 1]
            BY <1>3, <1>10
        <3>2. Present(f.out[k + 1], f) \/ After(f.out, k + 1, f.conid)
            BY <2>1, <3>1 DEF QueueOK
        <3> QED
            BY <1>6, <1>22, <3>1, <3>2 DEF Present
    <2> QED
        BY <1>10, <2>1 DEF QueueOK
<1>24. QueueOK(f) => Present(p, g) \/ Rebinds(g.out, g.conid)
    <2>1. ASSUME QueueOK(f), ~Present(p, g) PROVE Rebinds(g.out, g.conid)
        <3>1. After(f.out, 1, f.conid)
            BY <1>3, <1>4, <1>6, <2>1 DEF QueueOK, Present
        <3>2. PICK h \in 1..Len(f.out) : h > 1 /\ f.out[h].conid = f.conid /\ f.out[h].rebind
            BY <1>3, <3>1 DEF After
        <3>3. h - 1 \in 1..Len(f.out) - 1 /\ g.out[h - 1] = f.out[(h - 1) + 1] /\ (h - 1) + 1 = h
            BY <1>3, <1>10, <3>2
        <3> QED
            BY <1>6, <1>10, <3>2, <3>3 DEF Rebinds
    <2> QED
        BY <2>1
<1>25. p.rebind => Rebinds(r, g.conid) /\ \A k \in 1..Len(q) : After(r, k, g.conid)
    <2>1. \A k \in 1..Len(q) : Len(r) > k
        BY <1>9
    <2> QED
        BY <1>6, <1>8, <1>9, <1>15, <2>1 DEF Rebinds, After
<1>26. QueueOK(f) /\ WayOK(f, q) => WayOK(g, r)
    <2>1. ASSUME QueueOK(f), WayOK(f, q), NEW k \in 1..Len(q), q[k].conid = f.conid
          PROVE  Present(r[k], g) \/ After(r, k, g.conid) \/ Rebinds(g.out, g.conid)
        <3>1. Present(q[k], f) \/ After(q, k, f.conid) \/ Rebinds(f.out, f.conid)
            BY <1>9, <2>1 DEF WayOK
        <3>2. Present(q[k], f) => Present(r[k], g)
            BY <1>6, <1>14 DEF Present
        <3>3. After(q, k, f.conid) => After(r, k, g.conid)
            BY <1>6, <1>17
        <3>4. p.rebind => After(r, k, g.conid)
            BY <1>25
        <3> QED
            BY <1>20, <3>1, <3>2, <3>3, <3>4
    <2> QED
        BY <1>6, <1>9, <1>14, <1>15, <1>24, <2>1 DEF WayOK
<1>27. OwnerOK(f, q, s, n) => OwnerOK(g, r, s, n)
    <2>1. ~Rebinds(g.out, g.conid) /\ ~Rebinds(r, g.conid) => ~Rebinds(f.out, f.conid) /\ ~Rebinds(q, f.conid)
        BY <1>6, <1>18, <1>20, <1>25
    <2> QED
        BY <1>6, <2>1 DEF OwnerOK
<1>28. FlowOK(g, r, s, n) /\ InTurn(g, r, s, n, d)
    <2>1. FlowOK(g, r, s, n)
        BY <1>6, <1>19, <1>23, <1>26, <1>27, Zenon DEF FlowOK
    <2>2. InTurn(f, q, s, n, d)
        BY <1>2 DEF Owned, f
    <2>3. InTurn(g, Append(q, Head(f.out)), s, n, d)
        BY <1>1, <1>2, <1>6, <2>2, TransmitTurn DEF f
    <2> QED
        BY <2>1, <2>3 DEF r, p
(* The packet is of none of the others.                                    *)
<1>29. ASSUME NEW j \in DOMAIN l, j # i PROVE FlowOK(l[j], r, s, n) /\ InTurn(l[j], r, s, n, d)
    <2>1. l[j].conid # p.conid
        BY <1>1, <1>2, <1>8, <1>29 DEF FlowsOK, f
    <2>2. FlowOK(l[j], q, s, n)
        BY DEF Owned
    <2>3. WayOK(l[j], q) => WayOK(l[j], r)
        BY <1>9, <1>14, <1>15, <1>17, <2>1 DEF WayOK
    <2>4. OwnerOK(l[j], q, s, n) => OwnerOK(l[j], r, s, n)
        BY <1>18 DEF OwnerOK
    <2>5. FlowOK(l[j], r, s, n)
        BY <2>2, <2>3, <2>4, Zenon DEF FlowOK
    <2>6. InTurn(l[j], q, s, n, d) /\ p \in Packet
        BY <1>4 DEF Owned
    <2>7. InTurn(l[j], r, s, n, d)
        BY <2>1, <2>6, OtherTurn DEF r
    <2> QED
        BY <2>5, <2>7
<1>30. ASSUME NEW j \in DOMAIN l' PROVE FlowOK(l'[j], r, s, n) /\ InTurn(l'[j], r, s, n, d)
    <2>1. j \in DOMAIN l /\ l'[j] = IF j = i THEN g ELSE l[j]
        BY <1>7
    <2> QED
        BY <1>28, <1>29, <2>1
<1>31. Owned(l', r, s, n, d)
    BY <1>16, <1>30 DEF Owned
<1>32. CInv'
    BY <1>1, <1>13 DEF CInv, Changed
<1> QED
    BY <1>4, <1>31, <1>32 DEF r, p, f

-----------------------------------------------------------------------------
(* What the server's operations leave of it.                               *)
LEMMA KeptOwned ==
    ASSUME NEW l, NEW q, NEW s, NEW t, NEW n, NEW d, Owned(l, q, s, n, d),
           KeptFor(t, s, n), OneConid(s)
    PROVE  Owned(l, q, t, n, d)
<1>1. Known(l, q, t, n, d)
    BY DEF Owned, Known, KeptFor, FromCon, SameCon
<1>2. ASSUME NEW i \in DOMAIN l PROVE FlowOK(l[i], q, t, n) /\ InTurn(l[i], q, t, n, d)
    <2>1. FlowOK(l[i], q, s, n) /\ InTurn(l[i], q, s, n, d)
        BY DEF Owned
    <2>2. OwnerOK(l[i], q, s, n) => OwnerOK(l[i], q, t, n)
        <3>1. ASSUME OwnerOK(l[i], q, s, n), NEW j \in Open(t, n), t[j].conid = l[i].conid,
                     ~Rebinds(l[i].out, l[i].conid), ~Rebinds(q, l[i].conid)
              PROVE  t[j].owner = l[i].turn
            <4>1. PICK k \in Open(s, n) : SameCon(t[j], s[k])
                BY KeptOpen
            <4> QED
                BY <3>1, <4>1 DEF OwnerOK, SameCon
        <3> QED
            BY <3>1 DEF OwnerOK
    <2>3. FlowOK(l[i], q, t, n)
        BY <2>1, <2>2, Zenon DEF FlowOK
    <2> QED
        BY <2>1, <2>3, KeptTurn
<1> QED
    BY <1>1, <1>2 DEF Owned

(* A connection on which nothing is on its way, and of no client.           *)
LEMMA EmptyOwned ==
    ASSUME NEW l, NEW q, NEW s, NEW t, NEW m, NEW n, NEW d, NEW r, Owned(l, q, s, m, d), None(t, n),
           r = d \/ r = <<>>
    PROVE  Owned(l, <<>>, t, n, r)
<1>1. DOMAIN <<>> = {} /\ Open(t, n) = {}
    BY DEF Open, None
<1>2. ASSUME NEW i \in DOMAIN l PROVE FlowOK(l[i], <<>>, t, n) /\ InTurn(l[i], <<>>, t, n, r)
    <2>1. FlowOK(l[i], q, s, m) /\ InTurn(l[i], q, s, m, d)
        BY DEF Owned
    <2>2. WayOK(l[i], <<>>) /\ OwnerOK(l[i], <<>>, t, n)
        BY <1>1 DEF WayOK, OwnerOK
    <2>3. FlowOK(l[i], <<>>, t, n)
        BY <2>1, <2>2, Zenon DEF FlowOK
    <2> QED
        BY <2>1, <2>3, EmptyTurn
<1>3. Known(l, <<>>, t, n, r)
    <2>1. \A k \in DOMAIN d : d[k].conid \in Conids(l)
        BY DEF Owned, Known
    <2>2. \A k \in DOMAIN r : r[k].conid \in Conids(l)
        BY <1>1, <2>1
    <2> QED
        BY <1>1, <2>2 DEF Known, None
<1> QED
    BY <1>2, <1>3 DEF Owned

(* A connection sends its reply.                                           *)
LEMMA RepliedOwned ==
    ASSUME NEW l, NEW q, NEW s, NEW t, NEW n, NEW S, NEW d \in Seq(S), NEW p \in S,
           Owned(l, q, s, n, d), OneConid(s), OneBusy(s), Freed(s), KeptFor(t, s, n),
           NEW i \in DOMAIN s, s[i].busy, s[i].client = n, p.conid = s[i].conid, p.turn = s[i].owner
    PROVE  Owned(l, q, t, n, Append(d, p))
<1> DEFINE r == Append(d, p)
<1>1. Owned(l, q, t, n, d)
    BY KeptOwned
<1>2. \A j \in DOMAIN l : InTurn(l[j], q, t, n, r)
    <2>1. \A j \in DOMAIN l : InTurn(l[j], q, s, n, d)
        BY DEF Owned
    <2> QED
        BY <2>1, RepliedTurn
<1>3. \A k \in DOMAIN r : (k \in DOMAIN d /\ r[k] = d[k]) \/ r[k] = p
    <2>1. /\ DOMAIN d = 1..Len(d) /\ Len(d) \in Nat /\ DOMAIN r = 1..Len(d) + 1
          /\ \A k \in 1..Len(d) + 1 : r[k] = IF k <= Len(d) THEN d[k] ELSE p
        BY AppendIndex
    <2> HIDE DEF r
    <2> QED
        BY <2>1
<1> HIDE DEF r
<1>4. p.conid \in Conids(l)
    BY DEF Owned, Known
<1>5. Known(l, q, t, n, r)
    BY <1>1, <1>3, <1>4 DEF Owned, Known
<1> QED
    BY <1>1, <1>2, <1>5 DEF Owned, r

LEMMA ReceivedOwned ==
    ASSUME NEW l, NEW q \in Seq(Packet), q # <<>>, NEW n, NEW d,
           Owned(l, q, cons, n, d), OneConid(cons), Received(n, Head(q))
    PROVE  Owned(l, Tail(q), cons', n, d)
<1> DEFINE p == Head(q)
           r == Tail(q)
<1>1. /\ p \in Packet /\ p = q[1] /\ Len(q) \in Nat /\ 1 \in 1..Len(q)
      /\ DOMAIN q = 1..Len(q) /\ DOMAIN r = 1..Len(q) - 1
      /\ \A k \in 1..Len(q) - 1 : r[k] = q[k + 1]
    OBVIOUS
<1>2. ASSUME NEW j \in Open(cons', n)
      PROVE  \/ /\ \E k \in Open(cons, n) : SameCon(cons'[j], cons[k])
                /\ p.rebind => cons'[j].conid # p.conid
             \/ cons'[j].conid = p.conid /\ cons'[j].owner = p.turn
    BY DEF Received, Opened, FromCon, Open
<1> HIDE DEF p, r
<1>3. \A k \in 1..Len(q) - 1 : k + 1 \in 1..Len(q) /\ r[k] = q[k + 1]
    BY <1>1
<1>4. Known(l, r, cons', n, d)
    <2>1. \A k \in 1..Len(q) - 1 : r[k].conid \in Conids(l)
        BY <1>1, <1>3 DEF Owned, Known
    <2>2. p.conid \in Conids(l)
        BY <1>1 DEF Owned, Known
    <2>3. \A j \in DOMAIN cons' : cons'[j].client = n => cons'[j].conid \in Conids(l)
        BY <2>2 DEF Received, Opened, FromCon, SameCon, Owned, Known, p
    <2> QED
        BY <1>1, <2>1, <2>3 DEF Owned, Known
<1>5. ASSUME NEW c, NEW k \in 1..Len(q), q[k].conid = c, q[k].rebind, k # 1
      PROVE  Rebinds(r, c)
    <2>1. k - 1 \in 1..Len(q) - 1 /\ r[k - 1] = q[(k - 1) + 1] /\ (k - 1) + 1 = k
        BY <1>1, <1>3, <1>5
    <2> QED
        BY <1>1, <1>5, <2>1 DEF Rebinds
<1>6. \A c : Rebinds(q, c) => Rebinds(r, c) \/ (p.conid = c /\ p.rebind)
    BY <1>1, <1>5 DEF Rebinds
<1>7. ASSUME NEW c, NEW k \in 1..Len(q) - 1, After(q, k + 1, c)
      PROVE  After(r, k, c)
    <2>1. PICK h \in 1..Len(q) : h > k + 1 /\ q[h].conid = c /\ q[h].rebind
        BY <1>1, <1>7 DEF After
    <2>2. h - 1 \in 1..Len(q) - 1 /\ r[h - 1] = q[(h - 1) + 1] /\ (h - 1) + 1 = h /\ h - 1 > k
        BY <1>1, <1>3, <2>1
    <2> QED
        BY <1>1, <2>1, <2>2 DEF After
<1>8. \A c : After(q, 1, c) => Rebinds(r, c)
    <2>1. ASSUME NEW c, After(q, 1, c) PROVE Rebinds(r, c)
        <3>1. PICK h \in 1..Len(q) : h > 1 /\ q[h].conid = c /\ q[h].rebind
            BY <1>1, <2>1 DEF After
        <3> QED
            BY <1>5, <3>1
    <2> QED
        BY <2>1
<1>9. ASSUME NEW i \in DOMAIN l PROVE FlowOK(l[i], r, cons', n) /\ InTurn(l[i], r, cons', n, d)
    <2> DEFINE f == l[i]
    <2>1. FlowOK(f, q, cons, n) /\ InTurn(f, q, cons, n, d)
        BY DEF Owned
    <2> HIDE DEF f
    <2>2. ASSUME WayOK(f, q) PROVE WayOK(f, r)
        <3>1. ASSUME NEW k \in 1..Len(q) - 1, r[k].conid = f.conid
              PROVE  Present(r[k], f) \/ After(r, k, f.conid) \/ Rebinds(f.out, f.conid)
            <4>1. k + 1 \in DOMAIN q /\ r[k] = q[k + 1]
                BY <1>1, <1>3
            <4>2. Present(q[k + 1], f) \/ After(q, k + 1, f.conid) \/ Rebinds(f.out, f.conid)
                BY <2>2, <3>1, <4>1 DEF WayOK
            <4> QED
                BY <1>7, <4>1, <4>2
        <3> QED
            BY <1>1, <3>1 DEF WayOK
    <2>3. ASSUME WayOK(f, q), OwnerOK(f, q, cons, n), NEW j \in Open(cons', n),
                 cons'[j].conid = f.conid,
                 ~Rebinds(f.out, f.conid), ~Rebinds(r, f.conid)
          PROVE  cons'[j].owner = f.turn
        <3>1. CASE /\ \E k \in Open(cons, n) : SameCon(cons'[j], cons[k])
                   /\ p.rebind => cons'[j].conid # p.conid
            <4>1. PICK k \in Open(cons, n) : SameCon(cons'[j], cons[k])
                BY <3>1
            <4>2. ~Rebinds(q, f.conid)
                BY <1>6, <2>3, <3>1
            <4> QED
                BY <2>3, <4>1, <4>2 DEF OwnerOK, SameCon
        <3>2. CASE cons'[j].conid = p.conid /\ cons'[j].owner = p.turn
            <4>1. Present(p, f)
                BY <1>1, <1>8, <2>3, <3>2 DEF WayOK
            <4> QED
                BY <3>2, <4>1 DEF Present
        <3> QED
            BY <1>2, <3>1, <3>2
    <2>4. WayOK(f, q) /\ OwnerOK(f, q, cons, n) => OwnerOK(f, r, cons', n)
        BY <2>3 DEF OwnerOK
    <2>5. FlowOK(f, r, cons', n)
        BY <2>1, <2>2, <2>4, Zenon DEF FlowOK
    <2>6. InTurn(f, r, cons', n, d)
        BY <2>1, ReceivedTurn DEF r
    <2> QED
        BY <2>5, <2>6 DEF f
<1> QED
    BY <1>4, <1>9 DEF Owned, r

-----------------------------------------------------------------------------
(* The whole: what is on its way from and to the client, and the invariant. *)
Way == IF link = 0 THEN <<>> ELSE up[link]
Down == IF link = 0 THEN <<>> ELSE down[link]
Reply == [conid : Conid, remote : Remotes, turn : Nat]
NInv ==
    /\ links \in 0..MaxLinks /\ link \in 0..links /\ accepted \in 0..links
    /\ clients \subseteq 1..accepted
    /\ up \in [Clients -> Seq(Packet)] /\ down \in [Clients -> Seq(Reply)]
    /\ \A n \in Clients : n > links => up[n] = <<>> /\ down[n] = <<>>
IInv == CInv /\ SInv /\ NInv /\ Owned(connections_list, Way, cons, link, Down)

LEMMA Limits == MaxLinks \in Nat /\ Clients = 1..MaxLinks
    BY UdpGwAssumption, FS_CardinalityType DEF MaxLinks

(* Nothing is on its way, and no connection is open, before the link is.    *)
LEMMA NoLink ==
    ASSUME SInv, NInv, NEW n, n = 0 \/ n > links
    PROVE  None(cons, n)
<1>1. \A i \in DOMAIN cons : cons[i].client \in clients /\ clients \subseteq 1..accepted
    BY DEF SInv, Table, NInv
<1>2. n \notin 1..accepted
    BY Limits DEF NInv
<1> QED
    BY <1>1, <1>2 DEF None

LEMMA WayType ==
    ASSUME NInv
    PROVE  /\ Way \in Seq(Packet) /\ Down \in Seq(Reply)
           /\ link # 0 => link \in Clients /\ Way = up[link] /\ Down = down[link]
           /\ link = 0 => Way = <<>> /\ Down = <<>>
<1>1. CASE link = 0
    BY <1>1 DEF Way, Down
<1>2. CASE link # 0
    <2>1. link \in Clients
        BY <1>2, Limits DEF NInv
    <2> QED
        BY <1>2, <2>1 DEF Way, Down, NInv
<1> QED
    BY <1>1, <1>2

(* The tables of the server are within their keys.                         *)
LEMMA TableKeys ==
    ASSUME SInv
    PROVE  OneConid(cons) /\ OneBusy(cons) /\ Freed(cons)
    BY DEF SInv, Table, Keyed, Sending

(* Replies are on their way only on a connection there has been.           *)
DownOK(d) == d \in [Clients -> Seq(Reply)] /\ \A n \in Clients : n > links => d[n] = <<>>

LEMMA SameWay ==
    ASSUME NInv, UNCHANGED <<link, links, accepted, up>>, clients' \subseteq clients, DownOK(down')
    PROVE  NInv' /\ Way' = Way /\ link' = link
<1>1. link' = link /\ links' = links /\ accepted' = accepted /\ up' = up
    OBVIOUS
<1> QED
    BY <1>1 DEF NInv, Way, DownOK

LEMMA SameDown ==
    ASSUME NInv, UNCHANGED <<link, down>>
    PROVE  DownOK(down') /\ Down' = Down
    BY DEF NInv, DownOK, Down

LEMMA SameServer == ASSUME SInv, UNCHANGED svars PROVE SInv' /\ cons' = cons /\ clients' = clients
    BY DEF SInv, svars

(* A step of the server that keeps what it has of each connection.          *)
LEMMA ServerStep ==
    ASSUME IInv, SInv', Kept(cons', cons), UNCHANGED cvars,
           UNCHANGED <<link, links, accepted, up, down>>, clients' \subseteq clients
    PROVE  IInv'
<1>1. DownOK(down') /\ Down' = Down
    BY SameDown DEF IInv
<1>2. NInv' /\ Way' = Way /\ link' = link /\ CInv' /\ connections_list' = connections_list
    BY <1>1, SameWay, SameClient DEF IInv
<1>3. KeptFor(cons', cons, link) /\ OneConid(cons)
    BY TableKeys DEF Kept, KeptFor, IInv
<1>4. Owned(connections_list, Way, cons', link, Down)
    BY <1>3, KeptOwned DEF IInv
<1> QED
    BY <1>1, <1>2, <1>4 DEF IInv

(* A step of the client that sends nothing.                                *)
LEMMA ClientStep ==
    ASSUME IInv, CInv', Owned(connections_list', Way, cons, link, Down'),
           UNCHANGED svars, UNCHANGED <<link, links, accepted, up>>, DownOK(down')
    PROVE  IInv'
<1>1. SInv' /\ cons' = cons /\ clients' = clients
    BY SameServer DEF IInv
<1>2. NInv' /\ Way' = Way /\ link' = link
    BY <1>1, SameWay DEF IInv
<1> QED
    BY <1>1, <1>2 DEF IInv

LEMMA InitInv == Init => IInv
<1> SUFFICES ASSUME Init PROVE IInv
    OBVIOUS
<1>1. /\ connections_list = <<>> /\ next_conid = 0 /\ jobs = <<>>
      /\ clients = {} /\ cons = <<>> /\ sjobs = <<>>
      /\ link = 0 /\ links = 0 /\ accepted = 0
      /\ up = [n \in Clients |-> <<>>] /\ down = [n \in Clients |-> <<>>]
    BY DEF Init, ClientInit, ServerInit
<1>2. CInv
    <2>1. FlowsOK(<<>>)
        BY ClientAssumption DEF FlowsOK
    <2>2. 0 \in Conid
        BY ClientAssumption DEF Conid
    <2> QED
        BY <1>1, <2>1, <2>2, NewJobs DEF CInv
<1>3. SInv
    <2>1. \A n : Open(<<>>, n) = {}
        BY DEF Open
    <2>2. Cardinality({}) = 0
        BY FS_EmptySet
    <2>3. Within(<<>>)
        <3>1. \A n : Cardinality(Open(<<>>, n)) = 0
            BY <2>1, <2>2, Zenon
        <3> QED
            BY <3>1, ServerAssumption DEF Within
    <2>4. Table(<<>>, {})
        BY <2>3 DEF Table, Keyed, Apart, OneConid, OpenPair, Sending, OneBusy, Freed
    <2> QED
        BY <1>1, <2>2, <2>4, NewJobs, ServerAssumption DEF SInv
<1>4. NInv
    BY <1>1, Limits DEF NInv
<1>5. Owned(connections_list, Way, cons, link, Down)
    BY <1>1 DEF Owned, Known, Way, Down
<1> QED
    BY <1>2, <1>3, <1>4, <1>5 DEF IInv

LEMMA ServerInv ==
    ASSUME IInv, Server
    PROVE  IInv'
<1>1. UNCHANGED cvars /\ UNCHANGED <<link, links, accepted, up, down>> /\ SInv
    BY DEF Server, net, IInv
<1>2. CASE ServerJob
    BY <1>1, <1>2, ServerJobInv, ServerStep DEF ServerJob
<1>3. ASSUME NEW i \in DOMAIN cons, StartSend(i) PROVE IInv'
    BY <1>1, <1>3, StartSendInv, ServerStep DEF StartSend
<1>4. ASSUME NEW i \in DOMAIN cons, connection_dgram_handler_event(i) PROVE IInv'
    BY <1>1, <1>4, DgramInv, ServerStep DEF connection_dgram_handler_event
<1> QED
    BY <1>2, <1>3, <1>4 DEF Server

LEMMA UdpStepInv ==
    ASSUME IInv, NEW i \in DOMAIN cons, Udp(i)
    PROVE  IInv'
<1>1. /\ UNCHANGED cvars /\ UNCHANGED <<link, links, accepted, up, down>> /\ SInv
      /\ connection_udp_recv_if_handler_send(i)
    BY DEF Udp, net, IInv
<1>2. clients' = clients
    BY <1>1 DEF connection_udp_recv_if_handler_send
<1> QED
    BY <1>1, <1>2, UdpInv, ServerStep

LEMMA SendReplyInv ==
    ASSUME IInv, NEW i \in DOMAIN cons, SendReply(i)
    PROVE  IInv'
<1> DEFINE n == cons[i].client
           reply == [conid |-> cons[i].conid, remote |-> cons[i].addr, turn |-> cons[i].owner]
<1>1. /\ UNCHANGED cvars /\ UNCHANGED <<link, links, accepted, up>> /\ CInv /\ SInv /\ NInv
      /\ SendDone(i) /\ Owned(connections_list, Way, cons, link, Down)
      /\ down' = IF n = link THEN [down EXCEPT ![n] = Append(@, reply)] ELSE down
    BY DEF SendReply, IInv
<1>2. clients' = clients /\ cons[i].busy
    BY <1>1 DEF SendDone
<1>3. n \in Clients /\ n # 0 /\ reply \in Reply
    <2>1. cons[i] \in Con
        BY <1>1, ConsIndex
    <2> QED
        BY <2>1, ConFields, Limits DEF Reply
<1>4. SInv' /\ Kept(cons', cons)
    BY <1>1, SendDoneInv
<1>5. CASE n # link
    BY <1>1, <1>2, <1>4, <1>5, ServerStep
<1>6. CASE n = link
    <2>1. /\ Down = down[link] /\ Down \in Seq(Reply) /\ link \in Clients
          /\ down \in [Clients -> Seq(Reply)]
        BY <1>1, <1>3, <1>6, WayType DEF NInv
    <2>2. reply.conid = cons[i].conid /\ reply.turn = cons[i].owner
        OBVIOUS
    <2> HIDE DEF reply
    <2>3. Append(Down, reply) \in Seq(Reply) /\ down' = [down EXCEPT ![link] = Append(Down, reply)]
        BY <1>1, <1>3, <1>6, <2>1
    <2>4. Down' = Append(Down, reply)
        BY <1>1, <1>3, <1>6, <2>1, <2>3 DEF Down
    <2>5. DownOK(down')
        <3>1. \A m \in Clients : m > links => m # link
            BY <1>1, Limits DEF NInv
        <3> QED
            BY <1>1, <2>1, <2>3, <3>1 DEF NInv, DownOK
    <2>6. NInv' /\ Way' = Way /\ link' = link /\ CInv' /\ connections_list' = connections_list
        BY <1>1, <1>2, <2>5, SameWay, SameClient
    <2>7. KeptFor(cons', cons, link)
        BY <1>4 DEF Kept, KeptFor
    <2>8. Owned(connections_list, Way, cons', link, Append(Down, reply))
        BY <1>1, <1>2, <1>3, <1>6, <2>1, <2>2, <2>7, TableKeys, RepliedOwned
    <2> QED
        BY <1>4, <2>4, <2>6, <2>8 DEF IInv
<1> QED
    BY <1>5, <1>6

LEMMA ReceiveInv ==
    ASSUME IInv, NEW n \in Clients, Receive(n)
    PROVE  IInv'
<1> DEFINE p == Head(up[n])
<1>1. /\ up[n] # <<>> /\ up' = [up EXCEPT ![n] = Tail(@)] /\ client_recv_if_handler_send(n, p)
      /\ UNCHANGED cvars /\ UNCHANGED <<link, links, accepted, down>> /\ CInv /\ SInv /\ NInv
      /\ Owned(connections_list, Way, cons, link, Down)
    BY DEF Receive, IInv
<1>2. up[n] \in Seq(Packet) /\ p \in Packet /\ Tail(up[n]) \in Seq(Packet)
    BY <1>1 DEF NInv
<1>3. SInv' /\ Received(n, p)
    BY <1>1, <1>2, RecvInv
<1>4. clients' = clients
    BY <1>1 DEF client_recv_if_handler_send
<1>5. up' \in [Clients -> Seq(Packet)] /\ \A m \in Clients : m > links => up'[m] = <<>> /\ down[m] = <<>>
    BY <1>1, <1>2 DEF NInv
<1>6. NInv'
    BY <1>1, <1>4, <1>5 DEF NInv
<1>7. CInv' /\ connections_list' = connections_list
    BY <1>1, SameClient
<1>8. Owned(connections_list, Way', cons', link, Down)
    <2>1. CASE link = n
        <3>1. Way = up[n] /\ Way' = Tail(up[n])
            BY <1>1, <2>1, Limits DEF Way, NInv
        <3> QED
            BY <1>1, <1>2, <1>3, <2>1, <3>1, TableKeys, ReceivedOwned
    <2>2. CASE link # n
        <3>1. Way' = Way
            BY <1>1, <2>2, Limits DEF Way, NInv
        <3>2. KeptFor(cons', cons, link)
            BY <1>3, <2>2 DEF Received, Opened, KeptFor
        <3> QED
            BY <1>1, <3>1, <3>2, TableKeys, KeptOwned
    <2> QED
        BY <2>1, <2>2
<1>9. Down' = Down
    BY <1>1 DEF Down
<1> QED
    BY <1>1, <1>3, <1>6, <1>7, <1>8, <1>9 DEF IInv

LEMMA FreeClientInv ==
    ASSUME IInv, NEW n \in Clients, FreeClient(n)
    PROVE  IInv'
<1>1. /\ client_free(n) /\ up' = [up EXCEPT ![n] = <<>>]
      /\ UNCHANGED cvars /\ UNCHANGED <<link, links, accepted, down>> /\ CInv /\ SInv /\ NInv
      /\ Owned(connections_list, Way, cons, link, Down)
    BY DEF FreeClient, IInv
<1>2. SInv' /\ Kept(cons', cons) /\ None(cons', n) /\ clients' \subseteq clients
    BY <1>1, ClientFreeInv DEF client_free
<1>3. up' \in [Clients -> Seq(Packet)] /\ \A m \in Clients : m > links => up'[m] = <<>> /\ down[m] = <<>>
    BY <1>1 DEF NInv
<1>4. NInv'
    BY <1>1, <1>2, <1>3 DEF NInv
<1>5. CInv' /\ connections_list' = connections_list
    BY <1>1, SameClient
<1>6. Owned(connections_list, Way', cons', link, Down)
    <2>1. CASE link = n
        <3>1. Way' = <<>>
            BY <1>1, <2>1, Limits DEF Way, NInv
        <3> QED
            BY <1>1, <1>2, <2>1, <3>1, EmptyOwned
    <2>2. CASE link # n
        <3>1. Way' = Way
            BY <1>1, <2>2, Limits DEF Way, NInv
        <3>2. KeptFor(cons', cons, link)
            BY <1>2 DEF Kept, KeptFor
        <3> QED
            BY <1>1, <3>1, <3>2, TableKeys, KeptOwned
    <2> QED
        BY <2>1, <2>2
<1>7. Down' = Down
    BY <1>1 DEF Down
<1> QED
    BY <1>1, <1>2, <1>4, <1>5, <1>6, <1>7 DEF IInv

LEMMA ConnectInv ==
    ASSUME IInv, UdpGwClient_ConnectServer
    PROVE  IInv'
<1>1. /\ link = 0 /\ links < MaxLinks /\ link' = links + 1 /\ links' = links + 1
      /\ UNCHANGED cvars /\ UNCHANGED svars /\ UNCHANGED <<accepted, up, down>>
      /\ CInv /\ SInv /\ NInv /\ Owned(connections_list, Way, cons, link, Down)
    BY DEF UdpGwClient_ConnectServer, IInv
<1>2. CInv' /\ connections_list' = connections_list /\ SInv' /\ cons' = cons /\ clients' = clients
    BY <1>1, SameClient, SameServer
<1>3. /\ links + 1 \in Clients /\ links + 1 > links /\ links + 1 # 0 /\ links + 1 \in 0..MaxLinks
      /\ links + 1 \in 0..links + 1 /\ accepted \in 0..links + 1
      /\ \A n \in Clients : n > links + 1 => n > links
    BY <1>1, Limits DEF NInv
<1>4. NInv'
    BY <1>1, <1>2, <1>3 DEF NInv
<1>5. Way' = <<>> /\ Down' = <<>>
    BY <1>1, <1>3 DEF Way, Down, NInv
<1>6. None(cons, links + 1)
    BY <1>1, <1>3, NoLink
<1>7. Owned(connections_list, <<>>, cons, links + 1, <<>>)
    BY <1>1, <1>6, EmptyOwned
<1> QED
    BY <1>1, <1>2, <1>4, <1>5, <1>7 DEF IInv

LEMMA HangupSame ==
    ASSUME IInv, Hangup
    PROVE  /\ NInv' /\ SInv' /\ cons' = cons /\ Way' = <<>> /\ Down' = <<>> /\ link' = 0 /\ None(cons, 0)
<1>1. /\ link' = 0 /\ UNCHANGED svars /\ links' = links /\ accepted' = accepted /\ up' = up
      /\ down' = IF link = 0 THEN down ELSE [down EXCEPT ![link] = <<>>]
      /\ SInv /\ NInv
    BY DEF Hangup, IInv
<1>2. SInv' /\ cons' = cons /\ clients' = clients
    BY <1>1, SameServer
<1>3. DownOK(down')
    <2>1. down \in [Clients -> Seq(Reply)] /\ <<>> \in Seq(Reply)
        BY <1>1 DEF NInv
    <2>2. down' \in [Clients -> Seq(Reply)]
        BY <1>1, <2>1, Zenon
    <2> QED
        BY <1>1, <2>1, <2>2 DEF NInv, DownOK
<1>4. NInv'
    BY <1>1, <1>2, <1>3, Limits DEF NInv, DownOK
<1>5. None(cons, 0)
    BY <1>1, NoLink
<1> QED
    BY <1>1, <1>2, <1>4, <1>5 DEF Way, Down

LEMMA DisconnectInv ==
    ASSUME IInv, UdpGwClient_DisconnectServer
    PROVE  IInv'
<1>1. Hangup /\ UNCHANGED cvars
    BY DEF UdpGwClient_DisconnectServer
<1>2. /\ NInv' /\ SInv' /\ cons' = cons /\ Way' = <<>> /\ Down' = <<>> /\ link' = 0 /\ None(cons, 0)
    BY <1>1, HangupSame
<1>3. CInv' /\ connections_list' = connections_list
    BY <1>1, SameClient DEF IInv
<1>4. Owned(connections_list, <<>>, cons, 0, <<>>)
    BY <1>2, EmptyOwned DEF IInv
<1> QED
    BY <1>2, <1>3, <1>4 DEF IInv

LEMMA FreeInv ==
    ASSUME IInv, Free
    PROVE  IInv'
<1>1. Hangup /\ connections_list' = <<>> /\ next_conid' = 0 /\ jobs' = <<>>
    BY DEF Free, UdpGwClient_Free
<1>2. /\ NInv' /\ SInv' /\ cons' = cons /\ Way' = <<>> /\ Down' = <<>> /\ link' = 0 /\ None(cons, 0)
    BY <1>1, HangupSame
<1>3. CInv'
    <2>1. FlowsOK(<<>>)
        BY ClientAssumption DEF FlowsOK
    <2>2. 0 \in Conid
        BY ClientAssumption DEF Conid
    <2> QED
        BY <1>1, <2>1, <2>2, NewJobs DEF CInv
<1>4. Owned(<<>>, <<>>, cons, 0, <<>>)
    BY <1>2 DEF Owned, Known, None
<1> QED
    BY <1>1, <1>2, <1>3, <1>4 DEF IInv

LEMMA SendInv ==
    ASSUME IInv, NEW i \in DOMAIN connections_list, Send(i)
    PROVE  IInv'
<1> DEFINE p == Head(connections_list[i].out)
<1>1. /\ link # 0 /\ Transmit(i) /\ up' = [up EXCEPT ![link] = Append(@, p)]
      /\ UNCHANGED svars /\ UNCHANGED <<link, links, accepted, down>>
      /\ CInv /\ SInv /\ NInv /\ Owned(connections_list, Way, cons, link, Down)
    BY DEF Send, IInv
<1>2. link \in Clients /\ Way = up[link] /\ Way \in Seq(Packet)
    BY <1>1, WayType
<1>3. CInv' /\ p \in Packet /\ Owned(connections_list', Append(Way, p), cons, link, Down)
    BY <1>1, <1>2, TransmitInv
<1>4. SInv' /\ cons' = cons /\ clients' = clients
    BY <1>1, SameServer
<1>5. up' \in [Clients -> Seq(Packet)]
    BY <1>1, <1>2, <1>3 DEF NInv
<1>6. \A n \in Clients : n > links => n # link
    BY <1>1, Limits DEF NInv
<1>7. NInv'
    BY <1>1, <1>4, <1>5, <1>6 DEF NInv
<1>8. Way' = Append(Way, p) /\ Down' = Down
    BY <1>1, <1>2 DEF Way, Down, NInv
<1> QED
    BY <1>1, <1>3, <1>4, <1>7, <1>8 DEF IInv

LEMMA AcceptInv ==
    ASSUME IInv, Accept
    PROVE  IInv'
<1>1. /\ accepted < links /\ accepted' = accepted + 1 /\ UNCHANGED cvars
      /\ UNCHANGED <<link, links, up, down>>
      /\ CInv /\ SInv /\ NInv /\ Owned(connections_list, Way, cons, link, Down)
    BY DEF Accept, IInv
<1>2. /\ accepted + 1 \in Clients /\ accepted + 1 \in 0..links
      /\ 1..accepted \subseteq 1..accepted + 1 /\ accepted + 1 \in 1..accepted + 1
    BY <1>1, Limits DEF NInv
<1>3. SInv' /\ cons' = cons /\ clients' \subseteq clients \cup {accepted + 1}
    <2>1. CASE listener_handler(accepted + 1)
        BY <1>1, <1>2, <2>1, ListenerInv DEF listener_handler
    <2>2. CASE UNCHANGED svars
        BY <1>1, <2>2, SameServer
    <2> QED
        BY <2>1, <2>2 DEF Accept
<1>4. clients' \subseteq 1..accepted + 1
    BY <1>1, <1>2, <1>3 DEF NInv
<1>5. NInv'
    BY <1>1, <1>2, <1>4 DEF NInv
<1>6. CInv' /\ connections_list' = connections_list /\ Way' = Way /\ Down' = Down
    BY <1>1, SameClient DEF Way, Down
<1> QED
    BY <1>1, <1>3, <1>5, <1>6 DEF IInv

LEMMA NextInv == IInv /\ [Next]_vars => IInv'
<1> SUFFICES ASSUME IInv, [Next]_vars PROVE IInv'
    OBVIOUS
<1>1. NInv /\ CInv /\ SInv /\ Owned(connections_list, Way, cons, link, Down)
    BY DEF IInv
<1>2. CASE RunClientJob
    <2>1. ClientJob /\ UNCHANGED svars /\ UNCHANGED <<link, links, accepted, up>> /\ down' = down
        BY <1>2 DEF RunClientJob, net
    <2> QED
        BY <1>1, <2>1, SameDown, ClientJobInv, ClientStep
<1>3. ASSUME NEW local \in Locals, NEW remote \in Remotes, Submit(local, remote) PROVE IInv'
    <2>1. /\ UdpGwClient_SubmitPacket(local, remote) /\ UNCHANGED svars
          /\ UNCHANGED <<link, links, accepted, up>> /\ down' = down
        BY <1>3 DEF Submit, net
    <2> QED
        BY <1>1, <2>1, SameDown, SubmitInv, ClientStep
<1>4. CASE ReceiveReply
    <2>1. /\ link # 0 /\ down[link] # <<>> /\ down' = [down EXCEPT ![link] = Tail(@)]
          /\ recv_interface_handler_send(Head(down[link])) /\ UNCHANGED svars
          /\ UNCHANGED <<link, links, accepted, up>>
        BY <1>4 DEF ReceiveReply
    <2>2. /\ link \in Clients /\ Down = down[link] /\ Down \in Seq(Reply)
          /\ down \in [Clients -> Seq(Reply)] /\ Tail(Down) \in Seq(Reply)
        BY <1>1, <2>1, WayType DEF NInv
    <2>3. Down' = Tail(Down)
        BY <2>1, <2>2 DEF Down
    <2>4. DownOK(down')
        BY <1>1, <2>1, <2>2, Limits DEF NInv, DownOK
    <2>5. CInv' /\ Owned(connections_list', Way, cons, link, Tail(Down))
        BY <1>1, <2>1, <2>2, ReplyInv
    <2> QED
        BY <2>1, <2>3, <2>4, <2>5, ClientStep
<1>5. CASE UNCHANGED vars
    <2>1. /\ UNCHANGED cvars /\ UNCHANGED svars /\ UNCHANGED <<link, links, accepted, up>>
          /\ down' = down
        BY <1>5 DEF vars
    <2>2. CInv' /\ connections_list' = connections_list
        BY <1>1, <2>1, SameClient
    <2> QED
        BY <1>1, <2>1, <2>2, SameDown, ClientStep
<1> QED
    BY <1>2, <1>3, <1>4, <1>5, ServerInv, ConnectInv, DisconnectInv, FreeInv, AcceptInv, SendInv,
       ReceiveInv, FreeClientInv, UdpStepInv, SendReplyInv DEF Next

LEMMA Invariance == Spec => []IInv
    BY InitInv, NextInv, PTL DEF Spec

-----------------------------------------------------------------------------
(* The tables of UdpGwClient and of the udpgw server have their types and   *)
(* are within their limits, no conid is of two flows and no flow has two,   *)
(* however the connection between them comes and goes.                     *)
THEOREM UdpGwTypeCorrect == Spec => []UdpGwTypeOK
<1>1. IInv => UdpGwTypeOK
    <2> SUFFICES ASSUME IInv PROVE UdpGwTypeOK
        OBVIOUS
    <2>1. CInv /\ SInv /\ NInv
        BY DEF IInv
    <2>2. ClientTypeOK
        BY <2>1 DEF CInv, FlowsOK, JobsOK, JobName, ClientTypeOK
    <2>3. cons \in Seq(Con) /\ Table(cons, clients)
        BY <2>1, ConsIndex DEF SInv
    <2>4. ASSUME NEW i \in DOMAIN cons
          PROVE  /\ cons[i].client \in clients
                 /\ cons[i].local_port_index \in {-1} \cup 0..local_udp_num_ports - 1
                 /\ cons[i].out \in 0..CONNECTION_CLIENT_BUFFER_SIZE
                 /\ cons[i].busy \in BOOLEAN /\ cons[i].closing \in BOOLEAN
        <3>1. cons[i] \in Con
            BY <2>3
        <3> QED
            BY <2>3, <3>1, ConFields DEF Table, Port
    <2>5. ASSUME NEW n \in clients
          PROVE  /\ Cardinality(Open(cons, n)) <= max_connections_for_client
                 /\ \A i, j \in Open(cons, n) : i # j => cons[i].conid # cons[j].conid
        <3>1. n \in Clients
            BY <2>1 DEF SInv
        <3> QED
            BY <2>3, <3>1 DEF Table, Keyed, Within, OneConid, OpenPair, Open
    <2>6. ServerTypeOK
        BY <2>1, <2>4, <2>5 DEF ServerTypeOK, SInv, JobsOK, JobName
    <2> QED
        BY <2>1, <2>2, <2>6 DEF UdpGwTypeOK, NInv, Reply
<1> QED
    BY <1>1, Invariance, PTL

(* The packet that opens a flow is neither lost nor overwritten in the read *)
(* buffer, in UdpGwClient and in the server: BPending runs the jobs of the  *)
(* new queue, of the packet and of the buffer in this order.               *)
THEOREM FirstPacketFits == Spec => []FirstFits
<1>1. IInv => FirstFits
    BY NextJob DEF IInv, CInv, SInv, FirstFits
<1> QED
    BY <1>1, Invariance, PTL

(* Two sockets of the server, of whichever clients, are not bound to one    *)
(* port of --local-udp-addrs when the remote could not tell them apart.    *)
THEOREM PortsAlwaysApart == Spec => []PortsApart
<1>1. IInv => PortsApart
    BY DEF IInv, SInv, Table, Keyed, Apart, OpenPair, PortsApart
<1> QED
    BY <1>1, Invariance, PTL

(* The server keeps a closed connection only while its packet is being      *)
(* sent, and then no other of that client: all of them are freed.          *)
THEOREM ClosingAlwaysSent == Spec => []ClosingIsSent
<1>1. IInv => ClosingIsSent
    <2> SUFFICES ASSUME IInv, NEW i \in DOMAIN cons, cons[i].closing
                 PROVE  Busy(cons[i].client) = {i}
        BY DEF ClosingIsSent
    <2>1. cons[i].busy
        BY DEF IInv, SInv, Table, Sending, Freed
    <2>2. ASSUME NEW j \in Busy(cons[i].client) PROVE j = i
        BY <2>1 DEF Busy, IInv, SInv, Table, Sending, OneBusy
    <2> QED
        BY <2>1, <2>2 DEF Busy
<1> QED
    BY <1>1, Invariance, PTL

(* Once the packet that rebinds the conid of a flow is through, unless it   *)
(* was dropped for want of room, the server's socket of the conid is one    *)
(* that a packet of this flow opened; and once the flow has been given a    *)
(* reply to a packet of its own, every reply of its conid still on its way  *)
(* is one to a packet of its own.  Replies to the flow that had the conid   *)
(* before it can come only before that.                                    *)
THEOREM OwnerAlwaysRight == Spec => []RightOwner
<1>1. IInv => RightOwner
    <2> SUFFICES ASSUME IInv, link # 0, NEW i \in DOMAIN connections_list
                 PROVE  LET con == connections_list[i]
                        IN  (~Rebinding(con) => OwnSocket(con)) /\ (con.answered => OwnReplies(con))
        BY DEF RightOwner
    <2> DEFINE f == connections_list[i]
    <2>1. /\ FlowOK(f, Way, cons, link) /\ InTurn(f, Way, cons, link, Down)
          /\ Way = up[link] /\ Down = down[link]
        BY WayType DEF IInv, Owned
    <2> HIDE DEF f
    <2>2. ASSUME ~Rebinding(f) PROVE OwnSocket(f)
        <3>1. ~f.lost /\ ~Rebinds(f.out, f.conid) /\ ~Rebinds(up[link], f.conid)
            BY <2>2 DEF Rebinding, Rebinds
        <3> QED
            BY <2>1, <3>1 DEF FlowOK, OwnerOK, OwnSocket
    <2>3. ASSUME f.answered PROVE OwnReplies(f)
        BY <2>1, <2>3 DEF InTurn, All, OwnReplies
    <2> QED
        BY <2>2, <2>3, Zenon DEF f
<1> QED
    BY <1>1, Invariance, PTL
=============================================================================
