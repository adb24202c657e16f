------------------------ MODULE LightsocksProxyProofs ------------------------
(***************************************************************************)
(* The proxy relays whole, in order and encrypted, and so implements Relay, *)
(* for every substitution table that is a permutation and every stream of   *)
(* bytes.                                                                  *)
(***************************************************************************)
EXTENDS LightsocksProxy, TLAPS, SequenceTheorems

(* encrypt and decrypt stay in Byte, and decrypt inverts encrypt.          *)
LEMMA DecryptInverts ==
    ASSUME NEW b \in Byte
    PROVE  /\ encrypt(b) \in Byte /\ decrypt(b) \in Byte
           /\ decrypt(encrypt(b)) = b
<1>1. encrypt(b) \in Byte
    BY TableAssumption DEF encrypt
<1>2. decrypt(b) \in Byte
    BY TableAssumption DEF decrypt
<1>3. decrypt(encrypt(b)) = b
    BY TableAssumption DEF decrypt, encrypt
<1> QED
    BY <1>1, <1>2, <1>3

(* The filters keep the length, and stay among the bytes.                  *)
LEMMA FilterTypes ==
    ASSUME NEW s \in Seq(Byte)
    PROVE  /\ dest_filter_out(s) \in Seq(Byte) /\ Wire(s) \in Seq(Byte)
           /\ dest_filter_in(s) \in Seq(Byte) /\ Understood(s) \in Seq(Byte)
           /\ Len(dest_filter_out(s)) = Len(s) /\ Len(Wire(s)) = Len(s)
           /\ Len(Understood(s)) = Len(s)
<1>1. \A i \in 1..Len(s) : encrypt(s[i]) \in Byte /\ decrypt(s[i]) \in Byte
    BY DecryptInverts
<1>2. Len(s) \in Nat
    OBVIOUS
<1> QED
    BY <1>1, <1>2 DEF dest_filter_out, dest_filter_in, Wire, Understood

(* Each filter is undone by what the server does, byte for byte.           *)
LEMMA FiltersInvert ==
    ASSUME NEW s \in Seq(Byte)
    PROVE  /\ Understood(dest_filter_out(s)) = s
           /\ dest_filter_in(Wire(s)) = s
<1>1. \A i \in 1..Len(s) : decrypt(encrypt(s[i])) = s[i]
    BY DecryptInverts
<1> DEFINE e == [i \in 1..Len(s) |-> encrypt(s[i])]
<1>2. e \in Seq(Byte) /\ Len(e) = Len(s)
    BY FilterTypes DEF Wire
<1>3. [i \in 1..Len(e) |-> decrypt(e[i])] = [i \in 1..Len(s) |-> s[i]]
    BY <1>1, <1>2
<1>4. [i \in 1..Len(s) |-> s[i]] = s
    OBVIOUS
<1> QED
    BY <1>3, <1>4 DEF Understood, dest_filter_out, dest_filter_in, Wire

(* Concatenation, of streams of bytes.                                     *)
LEMMA ConcatBytes ==
    ASSUME NEW x \in Seq(Byte), NEW y \in Seq(Byte)
    PROVE  x \o y \in Seq(Byte) /\ Len(x \o y) = Len(x) + Len(y)
OBVIOUS

LEMMA ConcatBytesAssociative ==
    ASSUME NEW x \in Seq(Byte), NEW y \in Seq(Byte), NEW z \in Seq(Byte)
    PROVE  (x \o y) \o z = x \o (y \o z)
BY ConcatAssociative

(* Decrypting a stream is decrypting its parts.                            *)
LEMMA UnderstoodConcat ==
    ASSUME NEW s \in Seq(Byte), NEW t \in Seq(Byte)
    PROVE  Understood(s \o t) = Understood(s) \o Understood(t)
<1>1. s \o t \in Seq(Byte) /\ Len(s \o t) = Len(s) + Len(t)
    BY ConcatProperties
<1>2. /\ Understood(s \o t) \in Seq(Byte)
      /\ Len(Understood(s \o t)) = Len(s) + Len(t)
    BY <1>1, FilterTypes
<1>3. /\ Understood(s) \in Seq(Byte) /\ Understood(t) \in Seq(Byte)
      /\ Len(Understood(s)) = Len(s) /\ Len(Understood(t)) = Len(t)
    BY FilterTypes
<1>4. /\ Understood(s) \o Understood(t) \in Seq(Byte)
      /\ Len(Understood(s) \o Understood(t)) = Len(s) + Len(t)
    <2>1. /\ Understood(s) \o Understood(t) \in Seq(Byte)
          /\ Len(Understood(s) \o Understood(t))
                = Len(Understood(s)) + Len(Understood(t))
        BY <1>3, ConcatBytes, Zenon
    <2> QED
        BY <1>3, <2>1
<1>5. ASSUME NEW i \in 1..(Len(s) + Len(t)) 
      PROVE  Understood(s \o t)[i] = (Understood(s) \o Understood(t))[i]
    <2>1. Understood(s \o t)[i] = decrypt((s \o t)[i])
        BY <1>1 DEF Understood
    <2>2. CASE i <= Len(s)
        <3>1. /\ (s \o t)[i] = s[i]
              /\ (Understood(s) \o Understood(t))[i] = Understood(s)[i]
            BY <1>3, <2>2
        <3> QED
            BY <2>1, <2>2, <3>1 DEF Understood
    <2>3. CASE i > Len(s)
        <3>1. /\ (s \o t)[i] = t[i - Len(s)]
              /\ (Understood(s) \o Understood(t))[i] = Understood(t)[i - Len(s)]
              /\ i - Len(s) \in 1..Len(t)
            BY <1>3, <2>3
        <3> QED
            BY <2>1, <3>1 DEF Understood
    <2>4. i <= Len(s) \/ i > Len(s)
        OBVIOUS
    <2> QED
        BY <2>2, <2>3, <2>4, Zenon
<1> QED
    BY <1>2, <1>4, <1>5, SeqEqual

(* Moving the first n bytes of a buffer to its peer loses nothing.         *)
LEMMA WriteMoves ==
    ASSUME NEW done \in Seq(Byte), NEW buffer \in Seq(Byte),
           NEW n \in 1..Len(buffer)
    PROVE  LET first == SubSeq(buffer, 1, n)
               rest  == SubSeq(buffer, n + 1, Len(buffer))
           IN  /\ first \in Seq(Byte) /\ rest \in Seq(Byte)
               /\ done \o first \in Seq(Byte)
               /\ (done \o first) \o rest = done \o buffer
<1> DEFINE first == SubSeq(buffer, 1, n)
           rest  == SubSeq(buffer, n + 1, Len(buffer))
<1>1. first \in Seq(Byte) /\ rest \in Seq(Byte)
    BY SubSeqProperties
<1>2. Len(first) = n /\ Len(rest) = Len(buffer) - n
    BY SubSeqProperties
<1>3. first \o rest = buffer
    <2>1. first \o rest \in Seq(Byte) /\ Len(first \o rest) = Len(buffer)
        BY <1>1, <1>2, ConcatProperties
    <2>2. ASSUME NEW i \in 1..Len(buffer)
          PROVE  (first \o rest)[i] = buffer[i]
        <3>1. CASE i <= n
            BY <1>1, <1>2, <3>1
        <3>2. CASE i > n
            <4>1. (first \o rest)[i] = rest[i - n] /\ i - n \in 1..Len(rest)
                BY <1>1, <1>2, <3>2
            <4> QED
                BY <1>2, <4>1
        <3> QED
            BY <3>1, <3>2
    <2> QED
        BY <2>1, <2>2, SeqEqual
<1>4. (done \o first) \o rest = done \o (first \o rest)
    BY <1>1, ConcatBytesAssociative, Zenon
<1>5. done \o first \in Seq(Byte)
    BY <1>1, ConcatProperties
<1> QED
    BY <1>1, <1>3, <1>4, <1>5, Zenon

(* What a read callback takes is a sequence of bytes.                      *)
LEMMA ChunksAreBytes ==
    ASSUME NEW bound, NEW s \in Chunks(bound)
    PROVE  s \in Seq(Byte)
BY DEF Chunks

-----------------------------------------------------------------------------
(* RelayedSoFar is inductive only together with the other two: a callback   *)
(* of one end relies on the other being there.                             *)
IInv == ProxyTypeOK /\ EndsTogether /\ RelayedSoFar

(* A callback that appends to one buffer: the step of either direction.    *)
LEMMA ReadKeepsRelaying ==
    ASSUME IInv, src = "open", NEW s \in Seq(Byte)
    PROVE  /\ Understood(toServer \o (dst_output \o dest_filter_out(s)))
                = fromClient \o s
           /\ toClient \o (src_output \o dest_filter_in(Wire(s)))
                = fromServer \o s
<1>1. /\ toServer \in Seq(Byte) /\ dst_output \in Seq(Byte)
      /\ toClient \in Seq(Byte) /\ src_output \in Seq(Byte)
    BY DEF IInv, ProxyTypeOK
<1>2. /\ Understood(toServer \o dst_output) = fromClient
      /\ toClient \o src_output = fromServer
    BY DEF IInv, RelayedSoFar
<1>3. ASSUME NEW f \in Seq(Byte), Understood(f) = s
      PROVE  Understood(toServer \o (dst_output \o f)) = fromClient \o s
    <2>1. (toServer \o dst_output) \o f = toServer \o (dst_output \o f)
        BY <1>1, ConcatBytesAssociative, SMTT(90)
    <2>2. toServer \o dst_output \in Seq(Byte)
        BY <1>1, ConcatBytes
    <2>3. Understood((toServer \o dst_output) \o f)
            = Understood(toServer \o dst_output) \o Understood(f)
        BY <1>3, <2>2, UnderstoodConcat
    <2> QED
        BY ONLY <1>2, <1>3, <2>1, <2>3, Zenon
<1>4. dest_filter_out(s) \in Seq(Byte) /\ Understood(dest_filter_out(s)) = s
    BY FilterTypes, FiltersInvert
<1>5. (toClient \o src_output) \o s = toClient \o (src_output \o s)
    BY <1>1, ConcatBytesAssociative, ZenonT(60)
<1>6. dest_filter_in(Wire(s)) = s
    BY FiltersInvert
<1> QED
    BY ONLY <1>2, <1>3, <1>4, <1>5, <1>6, Zenon

LEMMA InitInv == Init => IInv
BY DEF Init, IInv, ProxyTypeOK, EndsTogether, RelayedSoFar

(* Every action keeps the invariant.                                       *)
LEMMA NextInv == IInv /\ [Next]_proxyVars => IInv'
<1> SUFFICES ASSUME IInv, [Next]_proxyVars PROVE IInv'
    OBVIOUS
<1> USE DEF IInv, EndsTogether
<1>1. CASE proxy_listener_cb
    <2>1. Understood(<<>> \o <<>>) = <<>>
        BY DEF Understood
    <2> QED
        BY <1>1, <2>1 DEF proxy_listener_cb, ProxyTypeOK, RelayedSoFar
<1>2. CASE Connected
    BY <1>2 DEF Connected, ProxyTypeOK, RelayedSoFar
<1>3. CASE src_read_cb
    <2>1. PICK s \in Chunks(Least(ReadMax, MaxUp - Len(fromClient))) :
             /\ fromClient' = fromClient \o s
             /\ dst_output' = dst_output \o dest_filter_out(s)
        BY <1>3 DEF src_read_cb
    <2>2. s \in Seq(Byte) /\ dest_filter_out(s) \in Seq(Byte)
        BY ChunksAreBytes, FilterTypes
    <2>3. fromClient' \in Seq(Byte) /\ dst_output' \in Seq(Byte)
        BY <2>1, <2>2, ConcatBytes, Zenon DEF ProxyTypeOK
    <2>4. ProxyTypeOK' /\ EndsTogether'
        BY <1>3, <2>3 DEF src_read_cb, ProxyTypeOK
    <2>5. src = "open"
        BY <1>3 DEF src_read_cb
    <2>6. /\ Understood(toServer \o (dst_output \o dest_filter_out(s)))
                = fromClient \o s
          /\ toClient \o src_output = fromServer
        BY <2>2, <2>5, ReadKeepsRelaying DEF RelayedSoFar
    <2>7. RelayedSoFar'
        BY <1>3, <2>1, <2>6, Zenon DEF src_read_cb, RelayedSoFar
    <2> QED
        BY <2>4, <2>7
<1>4. CASE dst_read_cb
    <2>1. PICK s \in Chunks(Least(ReadMax, MaxDown - Len(fromServer))) :
             /\ fromServer' = fromServer \o s
             /\ src_output' = src_output \o dest_filter_in(Wire(s))
        BY <1>4 DEF dst_read_cb
    <2>2. s \in Seq(Byte) /\ dest_filter_in(Wire(s)) \in Seq(Byte)
        BY ChunksAreBytes, FilterTypes
    <2>3. fromServer' \in Seq(Byte) /\ src_output' \in Seq(Byte)
        BY <2>1, <2>2, ConcatBytes, Zenon DEF ProxyTypeOK
    <2>4. ProxyTypeOK' /\ EndsTogether'
        BY <1>4, <2>3 DEF dst_read_cb, ProxyTypeOK
    <2>5. src = "open"
        BY <1>4 DEF dst_read_cb, ProxyTypeOK
    <2>6. RelayedSoFar'
        BY <1>4, <2>1, <2>2, <2>5, ReadKeepsRelaying, Zenon
           DEF dst_read_cb, RelayedSoFar
    <2> QED
        BY <2>4, <2>6
<1>5. CASE WriteServer
    <2>1. PICK n \in 1..Len(dst_output) :
             /\ toServer' = toServer \o SubSeq(dst_output, 1, n)
             /\ dst_output' = SubSeq(dst_output, n + 1, Len(dst_output))
        BY <1>5 DEF WriteServer
    <2>2. /\ toServer' \in Seq(Byte) /\ dst_output' \in Seq(Byte)
          /\ toServer' \o dst_output' = toServer \o dst_output
        BY <2>1, WriteMoves DEF ProxyTypeOK
    <2>3. ProxyTypeOK' /\ EndsTogether'
        BY <1>5, <2>2 DEF WriteServer, ProxyTypeOK
    <2>4. RelayedSoFar'
        BY <1>5, <2>2, Zenon DEF WriteServer, RelayedSoFar
    <2> QED
        BY <2>3, <2>4
<1>6. CASE WriteClient
    <2>1. PICK n \in 1..Len(src_output) :
             /\ toClient' = toClient \o SubSeq(src_output, 1, n)
             /\ src_output' = SubSeq(src_output, n + 1, Len(src_output))
        BY <1>6 DEF WriteClient
    <2>2. /\ toClient' \in Seq(Byte) /\ src_output' \in Seq(Byte)
          /\ toClient' \o src_output' = toClient \o src_output
        BY <2>1, WriteMoves DEF ProxyTypeOK
    <2>3. ProxyTypeOK' /\ EndsTogether'
        BY <1>6, <2>2 DEF WriteClient, ProxyTypeOK
    <2>4. RelayedSoFar'
        BY <1>6, <2>2, Zenon DEF WriteClient, RelayedSoFar
    <2> QED
        BY <2>3, <2>4
<1>7. CASE ClientEvent
    BY <1>7 DEF ClientEvent, proxy_event_cb, ProxyTypeOK, RelayedSoFar
<1>8. CASE ServerEvent
    <2>1. CASE dst = "connecting" /\ proxy_event_cb("server", "ERROR")
        BY <2>1 DEF proxy_event_cb, ProxyTypeOK, RelayedSoFar
    <2>2. CASE \E event \in {"EOF", "ERROR"} : proxy_event_cb("server", event)
        BY <2>2 DEF proxy_event_cb, ProxyTypeOK, RelayedSoFar
    <2> QED
        BY <1>8, <2>1, <2>2 DEF ServerEvent
<1>9. CASE UNCHANGED proxyVars
    BY <1>9 DEF proxyVars, ProxyTypeOK, RelayedSoFar
<1> QED
    BY <1>1, <1>2, <1>3, <1>4, <1>5, <1>6, <1>7, <1>8, <1>9 DEF Next

LEMMA Invariance == Spec => []IInv
BY InitInv, NextInv, PTL DEF Spec

-----------------------------------------------------------------------------
(* The refinement.  RelayedSoFar says nothing of a connection that has      *)
(* ended; what the peers have been given by then is a prefix of what was    *)
(* sent, and stays so until the next one begins.                           *)
Prefix(out, in) == Len(out) <= Len(in) /\ \A i \in 1..Len(out) : out[i] = in[i]
Delivered ==
    Prefix(Understood(toServer), fromClient) /\ Prefix(toClient, fromServer)

LEMMA FirstPart ==
    ASSUME NEW x \in Seq(Byte), NEW y \in Seq(Byte), NEW z, z = x \o y
    PROVE  Prefix(x, z)
BY DEF Prefix

LEMMA DeliveredWhileOpen == IInv /\ src = "open" => Delivered
<1> SUFFICES ASSUME IInv, src = "open" PROVE Delivered
    OBVIOUS
<1>1. /\ toServer \in Seq(Byte) /\ dst_output \in Seq(Byte)
      /\ toClient \in Seq(Byte) /\ src_output \in Seq(Byte)
    BY DEF IInv, ProxyTypeOK
<1>2. fromClient = Understood(toServer) \o Understood(dst_output)
    BY <1>1, UnderstoodConcat DEF IInv, RelayedSoFar
<1>3. fromServer = toClient \o src_output
    BY DEF IInv, RelayedSoFar
<1>4. Understood(toServer) \in Seq(Byte) /\ Understood(dst_output) \in Seq(Byte)
    BY <1>1, FilterTypes
<1> QED
    BY <1>1, <1>2, <1>3, <1>4, FirstPart DEF Delivered

LEMMA NextDelivered == IInv /\ IInv' /\ Delivered /\ [Next]_proxyVars => Delivered'
<1>0. (IInv /\ src = "open" => Delivered)'
    BY DeliveredWhileOpen, PTL
<1> SUFFICES ASSUME IInv, IInv', Delivered, [Next]_proxyVars PROVE Delivered'
    OBVIOUS
<1>1. CASE src' = "open"
    BY <1>0, <1>1
<1>2. CASE src' # "open"
    <2>1. UNCHANGED <<fromClient, fromServer, toServer, toClient>>
        BY <1>2 DEF Next, proxyVars, proxy_listener_cb, Connected, src_read_cb, dst_read_cb,
             WriteServer, WriteClient, ClientEvent, ServerEvent, proxy_event_cb,
             IInv, EndsTogether, ProxyTypeOK
    <2> QED
        BY <2>1 DEF Delivered, Understood
<1> QED
    BY <1>1, <1>2

LEMMA InitDelivered == Init => Delivered
BY DEF Init, Delivered, Prefix, Understood

(* The bytes of a prefix are at their own positions.                       *)
LEMMA InPosition ==
    ASSUME NEW in \in Seq(Byte), NEW out \in Seq(Byte), Prefix(out, in)
    PROVE  /\ Positions(out, in) = R!FirstBytes(Len(out))
           /\ Len(Positions(out, in)) = Len(out)
<1>1. Len(out) \in Nat /\ Len(in) \in Nat /\ Len(out) <= Len(in)
    BY DEF Prefix
<1>2. \A i \in 1..Len(out) : i <= Len(in) /\ out[i] = in[i]
    BY <1>1 DEF Prefix
<1>3. Positions(out, in) = [i \in 1..Len(out) |-> i]
    BY <1>2, Zenon DEF Positions
<1> QED
    BY <1>1, <1>3 DEF R!FirstBytes

(* What a step of the proxy has to show of a direction.                     *)
LEMMA Relays ==
    ASSUME NEW in \in Seq(Byte), NEW out \in Seq(Byte), Prefix(out, in),
           NEW in2 \in Seq(Byte), NEW out2 \in Seq(Byte), Prefix(out2, in2),
           Len(in) <= Len(in2), Len(out) <= Len(out2), NEW state, NEW state2,
           state2 = state \/ (state = "open" /\ state2 = "cut"), state2 # "done",
           state # "open" => in2 = in /\ out2 = out
    PROVE  R!Direction(Len(in), Positions(out, in), Len(in2), Positions(out2, in2),
                       state, state2)
<1>1. /\ Len(Positions(out, in)) = Len(out)
      /\ Positions(out2, in2) = R!FirstBytes(Len(out2))
      /\ Len(Positions(out2, in2)) = Len(out2)
    BY InPosition
<1>2. Len(out2) \in Len(out)..Len(in2)
    BY DEF Prefix
<1>3. Len(in2) >= Len(in)
    OBVIOUS
<1>4. state # "open" =>
         Len(in2) = Len(in) /\ Positions(out2, in2) = Positions(out, in)
    OBVIOUS
<1> QED
    BY <1>1, <1>2, <1>3, <1>4 DEF R!Direction

(* The streams only grow, and only while the connection lives.             *)
Streams == <<fromClient, fromServer, toServer, toClient>>
LEMMA Grows ==
    ASSUME IInv, Next, ~proxy_listener_cb
    PROVE  /\ Len(fromClient) <= Len(fromClient') /\ Len(toServer) <= Len(toServer')
           /\ Len(fromServer) <= Len(fromServer') /\ Len(toClient) <= Len(toClient')
           /\ src # "open" => UNCHANGED Streams
<1>1. /\ fromClient \in Seq(Byte) /\ fromServer \in Seq(Byte)
      /\ toServer \in Seq(Byte) /\ toClient \in Seq(Byte)
      /\ dst_output \in Seq(Byte) /\ src_output \in Seq(Byte)
      /\ src # "open" => dst # "open" /\ dst # "connecting"
    BY DEF IInv, ProxyTypeOK, EndsTogether
<1>2. ASSUME NEW x \in Seq(Byte), NEW y \in Seq(Byte) PROVE Len(x) <= Len(x \o y)
    BY <1>2, ConcatBytes
<1>3. CASE src_read_cb
    <2>1. PICK s \in Chunks(Least(ReadMax, MaxUp - Len(fromClient))) :
             fromClient' = fromClient \o s
        BY <1>3 DEF src_read_cb
    <2>2. s \in Seq(Byte)
        BY ChunksAreBytes
    <2> QED
        BY <1>1, <1>2, <1>3, <2>1, <2>2 DEF src_read_cb
<1>4. CASE dst_read_cb
    <2>1. PICK s \in Chunks(Least(ReadMax, MaxDown - Len(fromServer))) :
             fromServer' = fromServer \o s
        BY <1>4 DEF dst_read_cb
    <2>2. s \in Seq(Byte)
        BY ChunksAreBytes
    <2> QED
        BY <1>1, <1>2, <1>4, <2>1, <2>2 DEF dst_read_cb
<1>5. CASE WriteServer
    <2>1. PICK n \in 1..Len(dst_output) :
             toServer' = toServer \o SubSeq(dst_output, 1, n)
        BY <1>5 DEF WriteServer
    <2>2. SubSeq(dst_output, 1, n) \in Seq(Byte)
        BY <1>1, WriteMoves
    <2> QED
        BY <1>1, <1>2, <1>5, <2>1, <2>2 DEF WriteServer
<1>6. CASE WriteClient
    <2>1. PICK n \in 1..Len(src_output) :
             toClient' = toClient \o SubSeq(src_output, 1, n)
        BY <1>6 DEF WriteClient
    <2>2. SubSeq(src_output, 1, n) \in Seq(Byte)
        BY <1>1, WriteMoves
    <2> QED
        BY <1>1, <1>2, <1>6, <2>1, <2>2 DEF WriteClient
<1>7. CASE Connected \/ ClientEvent \/ ServerEvent
    <2>1. UNCHANGED Streams
        BY <1>7 DEF Connected, ClientEvent, ServerEvent, proxy_event_cb, Streams
    <2> QED
        BY <1>1, <2>1 DEF Streams
<1> QED
    BY <1>3, <1>4, <1>5, <1>6, <1>7 DEF Next

LEMMA StateMoves ==
    ASSUME IInv, Next, ~proxy_listener_cb
    PROVE  ProxyState' = ProxyState \/ (ProxyState = "open" /\ ProxyState' = "cut")
<1>1. CASE ClientEvent \/ ServerEvent
    <2>1. src = "open"
        BY <1>1 DEF ClientEvent, ServerEvent, IInv, EndsTogether, ProxyTypeOK
    <2>2. src' = "none" /\ cause' # <<>>
        BY <1>1 DEF ClientEvent, ServerEvent, proxy_event_cb
    <2> QED
        BY <2>1, <2>2 DEF ProxyState
<1>2. CASE ~(ClientEvent \/ ServerEvent)
    <2>1. src' = src /\ cause' = cause
        BY <1>2 DEF Next, Connected, src_read_cb, dst_read_cb, WriteServer, WriteClient
    <2> QED
        BY <2>1 DEF ProxyState
<1> QED
    BY <1>1, <1>2

LEMMA StepRelays ==
    ASSUME IInv, IInv', Delivered, Delivered', Next
    PROVE  R!Connect \/ R!Relaying
<1>1. CASE proxy_listener_cb
    <2>1. /\ src # "open" /\ src' = "open"
          /\ fromClient' = <<>> /\ fromServer' = <<>>
          /\ toServer' = <<>> /\ toClient' = <<>>
        BY <1>1 DEF proxy_listener_cb
    <2>2. ProxyState # "open" /\ ProxyState' = "open"
        BY <2>1 DEF ProxyState
    <2>3. Understood(<<>>) = <<>> /\ Positions(<<>>, <<>>) = <<>> /\ Len(<<>>) = 0
        BY DEF Understood, Positions
    <2>4. /\ Positions(Understood(toServer), fromClient)' = <<>>
          /\ Positions(toClient, fromServer)' = <<>>
        BY <2>1, <2>3 DEF Understood, Positions
    <2> QED
        BY <2>1, <2>2, <2>3, <2>4 DEF R!Connect
<1>2. CASE ~proxy_listener_cb
    <2> DEFINE given == Understood(toServer)
    <2>1. /\ fromClient \in Seq(Byte) /\ given \in Seq(Byte) /\ Len(given) = Len(toServer)
          /\ fromServer \in Seq(Byte) /\ toClient \in Seq(Byte)
        BY FilterTypes DEF IInv, ProxyTypeOK
    <2>2. /\ fromClient' \in Seq(Byte) /\ toServer' \in Seq(Byte)
          /\ fromServer' \in Seq(Byte) /\ toClient' \in Seq(Byte)
        BY DEF IInv, ProxyTypeOK
    <2>3. Understood(toServer') \in Seq(Byte) /\ Len(Understood(toServer')) = Len(toServer')
        BY <2>2, FilterTypes
    <2>4. given' = Understood(toServer')
        BY DEF Understood
    <2>5. Prefix(given, fromClient) /\ Prefix(toClient, fromServer)
        BY DEF Delivered
    <2>6. Prefix(given', fromClient') /\ Prefix(toClient', fromServer')
        BY DEF Delivered, Prefix
    <2>7. /\ Len(fromClient) <= Len(fromClient') /\ Len(given) <= Len(given')
          /\ Len(fromServer) <= Len(fromServer') /\ Len(toClient) <= Len(toClient')
        BY <1>2, <2>1, <2>3, <2>4, Grows
    <2>8. ProxyState # "open" =>
             /\ fromClient' = fromClient /\ given' = given
             /\ fromServer' = fromServer /\ toClient' = toClient
        <3>1. src # "open" => UNCHANGED Streams
            BY <1>2, Grows
        <3> QED
            BY <2>4, <3>1 DEF Streams, ProxyState
    <2>9. /\ ProxyState' = ProxyState \/ (ProxyState = "open" /\ ProxyState' = "cut")
          /\ ProxyState' # "done"
        BY <1>2, StateMoves DEF ProxyState
    <2>10. Positions(given, fromClient)' = Positions(given', fromClient')
        BY DEF Positions
    <2>11. Positions(toClient, fromServer)' = Positions(toClient', fromServer')
        BY DEF Positions
    <2> HIDE DEF given
    <2>12. R!Direction(Len(fromClient), Positions(given, fromClient), Len(fromClient'),
                       Positions(given', fromClient'), ProxyState, ProxyState')
        BY <2>1, <2>2, <2>3, <2>4, <2>5, <2>6, <2>7, <2>8, <2>9, Relays
    <2>13. R!Direction(Len(fromServer), Positions(toClient, fromServer), Len(fromServer'),
                       Positions(toClient', fromServer'), ProxyState, ProxyState')
        BY <2>1, <2>2, <2>5, <2>6, <2>7, <2>8, <2>9, Relays
    <2> QED
        BY <2>10, <2>11, <2>12, <2>13 DEF R!Relaying, given
<1> QED
    BY <1>1, <1>2

LEMMA InitRelays == Init => R!RelayInit
<1> SUFFICES ASSUME Init PROVE R!RelayInit
    OBVIOUS
<1>1. Understood(<<>>) = <<>> /\ Positions(<<>>, <<>>) = <<>> /\ Len(<<>>) = 0
    BY DEF Understood, Positions
<1> QED
    BY <1>1 DEF Init, R!RelayInit, ProxyState

(* The proxy implements the relay, for every table that is a permutation of  *)
(* the bytes: what a peer has been given is always a prefix of what the     *)
(* other has sent, also once the connection has ended.                     *)
THEOREM ProxyRelays == Spec => ProxyImplementsRelay
<1>1. IInv /\ IInv' /\ Delivered /\ Delivered' /\ [Next]_proxyVars =>
         [R!Connect \/ R!Relaying]_(R!relayVars)
    <2> SUFFICES ASSUME IInv, IInv', Delivered, Delivered', [Next]_proxyVars
                 PROVE  [R!Connect \/ R!Relaying]_(R!relayVars)
        OBVIOUS
    <2>1. CASE Next
        BY <2>1, StepRelays
    <2>2. CASE UNCHANGED proxyVars
        BY <2>2 DEF proxyVars, R!relayVars, ProxyState, Positions, Understood
    <2> QED
        BY <2>1, <2>2
<1> QED
    BY <1>1, InitRelays, InitDelivered, NextDelivered, Invariance, PTL
       DEF Spec, ProxyImplementsRelay, R!RelaySpec

(* The types hold in every behaviour, for every table and stream.          *)
THEOREM ProxyTypeCorrect == Spec => []ProxyTypeOK
BY Invariance, PTL DEF IInv

(* Neither bufferevent outlives the other.                                 *)
THEOREM EndsFreedTogether == Spec => []EndsTogether
BY Invariance, PTL DEF IInv

(* Both directions are relayed whole, in order and encrypted as long as     *)
(* the connection lives.                                                   *)
THEOREM RelaysInOrder == Spec => []RelayedSoFar
BY Invariance, PTL DEF IInv
=============================================================================
