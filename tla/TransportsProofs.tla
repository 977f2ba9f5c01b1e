-------------------------- MODULE TransportsProofs --------------------------
(***************************************************************************)
(* The packet transports implement PacketChannel, TCP in Rust and in       *)
(* TypeScript and WebSocket alike, for every number of packets, whatever   *)
(* their bytes, queues of every capacity and LEB128 groups and words of    *)
(* every size.                                                             *)
(*                                                                         *)
(* Calls over HTTP keep CallContract, and tell the end of a stream truly,  *)
(* for every number of items and of bytes under way: whatever the pieces   *)
(* the body comes in, the frames that are read are those that were         *)
(* written.                                                                *)
(*                                                                         *)
(* The theorems are WsInductive, WebSocketsAreChannels, LebRoundTrip,      *)
(* HttpInductive, EndsHonest, CallsOverHttp, TcpInductive, TcpAreChannels  *)
(* and TransportsAreChannels.                                              *)
(***************************************************************************)
EXTENDS Transports, SequenceTheorems, WellFoundedInduction, TLAPS

-----------------------------------------------------------------------------
(* Packets on their way. *)

Frames == [type : {"binary", "ping", "close"}, data : Packets \cup {<<>>}]

\* The packets s were sent and in came of them: the first ones.  num counts
\* those before each frame of the link l, which carries the next.
Carries(s, in, l, num) ==
    /\ num[1] = Len(in) /\ \A i \in 1..Len(in) : in[i] = s[i]
    /\ \A i \in 1..(Len(l) + 1) : num[i] <= Len(s)
    /\ \A i \in 1..Len(l) :
           IF l[i].type = "binary" THEN num[i + 1] = num[i] + 1 /\ l[i].data = s[num[i + 1]]
                                   ELSE num[i + 1] = num[i]

\* The packets w wait to be written, and are all that is not on the link.
Completes(s, l, w, num) ==
    /\ num[Len(l) + 1] + Len(w) = Len(s)
    /\ \A j \in 1..Len(w) : w[j] = s[num[Len(l) + 1] + j]

Flow(s, in, l, w, intact) ==
    \E num \in [1..(Len(l) + 1) -> Nat] :
        Carries(s, in, l, num) /\ (intact => Completes(s, l, w, num))

\* Packets that came and wait for recv, and whether more may come.
Inbox == IF transport = "ts websocket" THEN queue ELSE read_q
Stopped == IF transport = "ts websocket" THEN closed ELSE read_loop = "ended"

WsTyped ==
    /\ sent \in Seq(Packets) /\ received \in Seq(Packets) /\ link \in Seq(Frames)
    /\ write_q \in Seq(Packets) /\ read_q \in Seq(Packets) /\ queue \in Seq(Packets)
    /\ failed \in BOOLEAN /\ sender \in BOOLEAN /\ broken \in BOOLEAN
    /\ waiting \in BOOLEAN /\ closed \in BOOLEAN
    /\ transport # "ts websocket" => ~waiting
    /\ write_loop \in {"running", "ended"} /\ read_loop \in {"running", "ended"}

\* The closing handshake is the last frame, behind every packet.
Closing ==
    /\ \A i \in 1..Len(link) : link[i].type = "close" =>
           i = Len(link) /\ write_loop = "ended"
    /\ write_loop = "ended" /\ ~broken => ~sender /\ write_q = <<>>
    /\ Stopped /\ ~broken => link = <<>> /\ write_loop = "ended"
    /\ waiting => ~failed /\ ~closed /\ queue = <<>>

WsIInv ==
    /\ transport \in WebSocket
    /\ WsTyped /\ Closing
    /\ Flow(sent, received \o Inbox, link, write_q, ~broken)

-----------------------------------------------------------------------------
(* Steps of a flow of packets. *)

\* What came is a part of what was sent.
LEMMA FlowPrefix ==
    ASSUME NEW s, NEW in, NEW l, NEW w, NEW b \in BOOLEAN,
           Flow(s, in, l, w, b), in \in Seq(Packets), Len(l) \in Nat
    PROVE  /\ Len(in) <= Len(s)
           /\ \A i \in 1..Len(in) : in[i] = s[i]
  BY DEF Flow, Carries

\* When nothing is on its way everything came.
LEMMA FlowOver ==
    ASSUME NEW s \in Seq(Packets), NEW in \in Seq(Packets),
           Flow(s, in, <<>>, <<>>, TRUE)
    PROVE  in = s
  <1>1. Len(in) = Len(s) /\ \A i \in 1..Len(in) : in[i] = s[i]
    BY DEF Flow, Carries, Completes
  <1> QED BY <1>1, SeqEqual

\* A sequence of packets and one more.
LEMMA PacketAppended ==
    ASSUME NEW q \in Seq(Packets), NEW e \in Packets
    PROVE  \E t \in Seq(Packets) :
             /\ t = Append(q, e) /\ Len(t) = Len(q) + 1
             /\ \A i \in 1..Len(q) : t[i] = q[i]
             /\ t[Len(q) + 1] = e
  <1>1. Append(q, e) \in Seq(Packets)
    BY AppendProperties
  <1>2. /\ Len(Append(q, e)) = Len(q) + 1
        /\ \A i \in 1..Len(q) : Append(q, e)[i] = q[i]
        /\ Append(q, e)[Len(q) + 1] = e
    BY AppendProperties
  <1> QED BY <1>1, <1>2, Zenon

\* A sequence of frames and one more.
LEMMA FrameAppended ==
    ASSUME NEW q \in Seq(Frames), NEW e \in Frames
    PROVE  \E t \in Seq(Frames) :
             /\ t = Append(q, e) /\ Len(t) = Len(q) + 1
             /\ \A i \in 1..Len(q) : t[i] = q[i]
             /\ t[Len(q) + 1] = e
  <1>1. Append(q, e) \in Seq(Frames)
    BY AppendProperties
  <1>2. /\ Len(Append(q, e)) = Len(q) + 1
        /\ \A i \in 1..Len(q) : Append(q, e)[i] = q[i]
        /\ Append(q, e)[Len(q) + 1] = e
    BY AppendProperties
  <1> QED BY <1>1, <1>2, Zenon

\* A packet is sent, and waits to be written, unless nothing is written any
\* more.
LEMMA FlowSend ==
    ASSUME NEW s \in Seq(Packets), NEW in \in Seq(Packets), NEW l \in Seq(Frames),
           NEW w \in Seq(Packets), NEW b \in BOOLEAN, NEW p \in Packets,
           Flow(s, in, l, w, b)
    PROVE  Flow(Append(s, p), in, l, Append(w, p), b)
  <1>1. PICK num \in [1..(Len(l) + 1) -> Nat] :
            Carries(s, in, l, num) /\ (b => Completes(s, l, w, num))
    BY DEF Flow
  <1>2. Len(s) \in Nat /\ Len(l) \in Nat /\ Len(w) \in Nat /\ Len(in) \in Nat
    BY LenProperties
  <1>3. PICK t \in Seq(Packets) :
            /\ t = Append(s, p) /\ Len(t) = Len(s) + 1
            /\ \A i \in 1..Len(s) : t[i] = s[i]
            /\ t[Len(s) + 1] = p
    BY PacketAppended
  <1>4. PICK v \in Seq(Packets) :
            /\ v = Append(w, p) /\ Len(v) = Len(w) + 1
            /\ \A i \in 1..Len(w) : v[i] = w[i]
            /\ v[Len(w) + 1] = p
    BY PacketAppended
  <1>5. Carries(t, in, l, num)
    <2>1. ASSUME NEW i \in 1..Len(l), l[i].type = "binary"
          PROVE  l[i].data = t[num[i + 1]]
      <3>1. i \in 1..(Len(l) + 1) /\ i + 1 \in 1..(Len(l) + 1)
        BY <1>2
      <3>2. /\ num[i + 1] = num[i] + 1 /\ num[i + 1] <= Len(s) /\ num[i] \in Nat
            /\ l[i].data = s[num[i + 1]]
        BY <1>1, <2>1, <3>1 DEF Carries
      <3>3. num[i + 1] \in 1..Len(s)
        BY <1>2, <3>2
      <3> QED BY <1>3, <3>2, <3>3
    <2>2. 1 \in 1..(Len(l) + 1)
      BY <1>2
    <2>3. \A i \in 1..Len(in) : i \in 1..Len(s)
      BY <1>1, <1>2, <2>2 DEF Carries
    <2>4. \A i \in 1..(Len(l) + 1) : num[i] <= Len(t)
      <3>1. \A i \in 1..(Len(l) + 1) : num[i] \in Nat /\ num[i] <= Len(s)
        BY <1>1 DEF Carries
      <3>2. Len(t) = Len(s) + 1
        BY <1>3
      <3> QED BY <1>2, <3>1, <3>2
    <2> QED BY <1>1, <1>3, <2>1, <2>3, <2>4 DEF Carries
  <1>6. ASSUME b
        PROVE  Completes(t, l, v, num)
    <2> Len(l) + 1 \in 1..(Len(l) + 1)
      BY <1>2
    <2>1. PICK n \in Nat : n = num[Len(l) + 1]
      OBVIOUS
    <2>2. n + Len(w) = Len(s) /\ \A j \in 1..Len(w) : w[j] = s[n + j]
      BY <1>1, <1>6, <2>1 DEF Completes
    <2>3. ASSUME NEW j \in 1..Len(v)
          PROVE  v[j] = t[n + j]
      <3>1. CASE j = Len(w) + 1
        <4>1. n + j = Len(s) + 1
          BY <1>2, <2>2, <3>1
        <4> QED BY <1>3, <1>4, <3>1, <4>1
      <3>2. CASE j \in 1..Len(w)
        <4>1. n + j \in 1..Len(s)
          BY <1>2, <2>2, <3>2
        <4> QED BY <1>3, <1>4, <2>2, <3>2, <4>1
      <3>3. Len(v) = Len(w) + 1
        BY <1>4
      <3>4. j = Len(w) + 1 \/ j \in 1..Len(w)
        BY <1>2, <3>3
      <3> QED BY <3>1, <3>2, <3>4
    <2>4. n + Len(v) = Len(t)
      <3>1. Len(v) = Len(w) + 1 /\ Len(t) = Len(s) + 1
        BY <1>3, <1>4
      <3>2. PICK a \in Nat, d \in Nat : a = Len(w) /\ d = Len(s)
        BY <1>2
      <3>3. n + a = d
        BY <2>2, <3>2
      <3>4. n + (a + 1) = d + 1
        BY <3>3
      <3> QED BY <3>1, <3>2, <3>4
    <2> QED BY <2>1, <2>3, <2>4 DEF Completes
  <1> QED BY <1>1, <1>3, <1>4, <1>5, <1>6 DEF Flow

\* The first packet that waits is written, or a frame that is none.
LEMMA FlowWrite ==
    ASSUME NEW s \in Seq(Packets), NEW in \in Seq(Packets), NEW l \in Seq(Frames),
           NEW w \in Seq(Packets), NEW v \in Seq(Packets), NEW f \in Frames,
           Flow(s, in, l, w, TRUE),
           \/ w # <<>> /\ f = Frame("binary", Head(w)) /\ v = Tail(w)
           \/ f.type # "binary" /\ v = w
    PROVE  Flow(s, in, Append(l, f), v, TRUE)
  <1>1. PICK num \in [1..(Len(l) + 1) -> Nat] :
            Carries(s, in, l, num) /\ Completes(s, l, w, num)
    BY DEF Flow
  <1>2. Len(s) \in Nat /\ Len(l) \in Nat /\ Len(w) \in Nat /\ Len(in) \in Nat
        /\ Len(v) \in Nat
    BY LenProperties
  <1>3. PICK k \in Seq(Frames) :
            /\ k = Append(l, f) /\ Len(k) = Len(l) + 1
            /\ \A i \in 1..Len(l) : k[i] = l[i]
            /\ k[Len(l) + 1] = f
    BY FrameAppended
  <1> Len(l) + 1 \in 1..(Len(l) + 1)
    BY <1>2
  <1>4. PICK n \in Nat : n = num[Len(l) + 1]
    OBVIOUS
  <1>5. PICK m \in Nat : m = IF f.type = "binary" THEN n + 1 ELSE n
    OBVIOUS
  <1>6. n + Len(w) = Len(s) /\ \A j \in 1..Len(w) : w[j] = s[n + j]
    BY <1>1, <1>4 DEF Completes
  <1>7. /\ m + Len(v) = Len(s) /\ \A j \in 1..Len(v) : v[j] = s[m + j]
        /\ f.type = "binary" => f.data = s[m]
    <2>1. CASE f.type # "binary" /\ v = w
      BY <1>5, <1>6, <2>1
    <2>2. CASE w # <<>> /\ f = Frame("binary", Head(w)) /\ v = Tail(w)
      <3>1. /\ Len(v) = Len(w) - 1 /\ Len(w) >= 1
            /\ \A i \in 1..Len(v) : v[i] = w[i + 1]
            /\ Head(w) = w[1]
        BY <1>2, <2>2, HeadTailProperties
      <3>2. f.type = "binary" /\ f.data = w[1]
        BY <2>2, <3>1 DEF Frame
      <3>3. m = n + 1
        BY <1>5, <3>2
      <3>4. ASSUME NEW j \in 1..Len(v)
            PROVE  v[j] = s[m + j]
        <4>1. j + 1 \in 1..Len(w) /\ n + (j + 1) = m + j
          BY <1>2, <3>1, <3>3
        <4> QED BY <1>6, <3>1, <4>1
      <3>5. 1 \in 1..Len(w)
        BY <1>2, <3>1
      <3>6. m + Len(v) = Len(s)
        <4>1. PICK a \in Nat, c \in Nat, d \in Nat : a = Len(w) /\ c = Len(v) /\ d = Len(s)
          BY <1>2
        <4>2. c = a - 1 /\ n + a = d
          BY <1>6, <3>1, <4>1
        <4>3. m + c = d
          BY <3>3, <4>2
        <4> QED BY <4>1, <4>3
      <3> QED BY <1>6, <3>2, <3>3, <3>4, <3>5, <3>6
    <2> QED BY <2>1, <2>2
  <1> DEFINE new == [i \in 1..(Len(k) + 1) |-> IF i <= Len(l) + 1 THEN num[i] ELSE m]
  <1>8. \A i \in 1..(Len(k) + 1) : i <= Len(l) + 1 => i \in 1..(Len(l) + 1)
    BY <1>2, <1>3
  <1>9. new \in [1..(Len(k) + 1) -> Nat]
    BY <1>8
  <1>10. PICK mun \in [1..(Len(k) + 1) -> Nat] : mun = new
    BY <1>9
  <1>11. /\ \A i \in 1..(Len(l) + 1) : mun[i] = num[i]
         /\ mun[Len(k) + 1] = m
    BY <1>2, <1>3, <1>10
  <1> HIDE DEF new
  <1>12. Carries(s, in, k, mun)
    <2>1. mun[1] = Len(in) /\ \A i \in 1..Len(in) : in[i] = s[i]
      BY <1>1, <1>2, <1>11 DEF Carries
    <2>2. ASSUME NEW i \in 1..(Len(k) + 1)
          PROVE  mun[i] <= Len(s)
      <3>1. i \in 1..(Len(l) + 1) \/ i = Len(k) + 1
        BY <1>2, <1>3
      <3>2. m <= Len(s)
        BY <1>2, <1>7
      <3> QED BY <1>1, <1>11, <3>1, <3>2 DEF Carries
    <2>3. ASSUME NEW i \in 1..Len(k)
          PROVE  IF k[i].type = "binary"
                   THEN mun[i + 1] = mun[i] + 1 /\ k[i].data = s[mun[i + 1]]
                   ELSE mun[i + 1] = mun[i]
      <3>1. CASE i \in 1..Len(l)
        <4>1. i \in 1..(Len(l) + 1) /\ i + 1 \in 1..(Len(l) + 1)
          BY <1>2, <3>1
        <4> QED BY <1>1, <1>3, <1>11, <3>1, <4>1 DEF Carries
      <3>2. CASE i = Len(l) + 1
        <4>1. i \in 1..(Len(l) + 1) /\ i + 1 = Len(k) + 1
          BY <1>2, <1>3, <3>2
        <4>2. mun[i] = n /\ mun[i + 1] = m
          BY <1>4, <1>11, <3>2, <4>1
        <4> QED BY <1>3, <1>5, <1>7, <3>2, <4>2
      <3> QED BY <1>2, <1>3, <3>1, <3>2
    <2> QED BY <2>1, <2>2, <2>3 DEF Carries
  <1>13. Completes(s, k, v, mun)
    BY <1>7, <1>11 DEF Completes
  <1> QED BY <1>3, <1>12, <1>13 DEF Flow

\* The first frame comes: its packet, or nothing.
LEMMA FlowRead ==
    ASSUME NEW s \in Seq(Packets), NEW in \in Seq(Packets), NEW l \in Seq(Frames),
           NEW w, NEW b \in BOOLEAN, NEW out \in Seq(Packets),
           Flow(s, in, l, w, b), l # <<>>,
           IF l[1].type = "binary" THEN l[1].data \in Packets /\ out = Append(in, l[1].data)
                                   ELSE out = in
    PROVE  Flow(s, out, Tail(l), w, b)
  <1>1. PICK num \in [1..(Len(l) + 1) -> Nat] :
            Carries(s, in, l, num) /\ (b => Completes(s, l, w, num))
    BY DEF Flow
  <1>2. Len(s) \in Nat /\ Len(l) \in Nat /\ Len(in) \in Nat /\ Len(out) \in Nat
    BY LenProperties
  <1>3. PICK k \in Seq(Frames) :
            /\ k = Tail(l) /\ Len(k) = Len(l) - 1 /\ Len(l) >= 1 /\ Len(k) \in Nat
            /\ \A i \in 1..Len(k) : k[i] = l[i + 1]
    <2>1. Len(l) >= 1
      BY <1>2, SeqEqual, EmptySeq
    <2>2. /\ Tail(l) \in Seq(Frames) /\ Len(Tail(l)) = Len(l) - 1
          /\ \A i \in 1..Len(Tail(l)) : Tail(l)[i] = l[i + 1]
      BY HeadTailProperties
    <2>3. Len(l) - 1 \in Nat
      BY <1>2, <2>1
    <2> QED BY <2>1, <2>2, <2>3
  <1> DEFINE new == [i \in 1..(Len(k) + 1) |-> num[i + 1]]
  <1>4. \A i \in 1..(Len(k) + 1) : i + 1 \in 1..(Len(l) + 1)
    BY <1>2, <1>3
  <1>5. new \in [1..(Len(k) + 1) -> Nat]
    BY <1>4
  <1>6. PICK mun \in [1..(Len(k) + 1) -> Nat] : mun = new
    BY <1>5
  <1>7. \A i \in 1..(Len(k) + 1) : mun[i] = num[i + 1]
    BY <1>6
  <1> HIDE DEF new
  <1>8. mun[1] = Len(out) /\ \A i \in 1..Len(out) : out[i] = s[i]
    <2>1. 1 \in 1..(Len(k) + 1) /\ 1 \in 1..Len(l) /\ mun[1] = num[2]
      BY <1>2, <1>3, <1>7
    <2>2. CASE l[1].type # "binary"
      BY <1>1, <2>1, <2>2 DEF Carries
    <2>3. CASE l[1].type = "binary"
      <3>1. /\ Len(out) = Len(in) + 1 /\ out[Len(in) + 1] = l[1].data
            /\ \A i \in 1..Len(in) : out[i] = in[i]
        <4>1. \E t \in Seq(Packets) :
                  /\ t = Append(in, l[1].data) /\ Len(t) = Len(in) + 1
                  /\ \A i \in 1..Len(in) : t[i] = in[i]
                  /\ t[Len(in) + 1] = l[1].data
          <5>1. l[1].data \in Packets
            BY <2>3
          <5> QED BY <5>1, PacketAppended, Zenon
        <4> QED BY <2>3, <4>1, Zenon
      <3>2. num[2] = Len(in) + 1 /\ l[1].data = s[num[2]]
        BY <1>1, <2>1, <2>3 DEF Carries
      <3>3. \A i \in 1..Len(out) : i \in 1..Len(in) \/ i = Len(in) + 1
        BY <1>2, <3>1
      <3> QED BY <1>1, <2>1, <3>1, <3>2, <3>3 DEF Carries
    <2> QED BY <2>2, <2>3
  <1>9. Carries(s, out, k, mun)
    <2>1. ASSUME NEW i \in 1..(Len(k) + 1)
          PROVE  mun[i] <= Len(s)
      BY <1>1, <1>4, <1>7 DEF Carries
    <2>2. ASSUME NEW i \in 1..Len(k)
          PROVE  IF k[i].type = "binary"
                   THEN mun[i + 1] = mun[i] + 1 /\ k[i].data = s[mun[i + 1]]
                   ELSE mun[i + 1] = mun[i]
      <3>1. /\ i \in 1..(Len(k) + 1) /\ i + 1 \in 1..(Len(k) + 1) /\ i + 1 \in 1..Len(l)
        BY <1>2, <1>3
      <3>2. mun[i] = num[i + 1] /\ mun[i + 1] = num[(i + 1) + 1] /\ k[i] = l[i + 1]
        BY <1>3, <1>7, <3>1
      <3> QED BY <1>1, <3>1, <3>2 DEF Carries
    <2> QED BY <1>8, <2>1, <2>2 DEF Carries
  <1>10. b => Completes(s, k, w, mun)
    <2>1. mun[Len(k) + 1] = num[Len(l) + 1]
      BY <1>2, <1>3, <1>7
    <2> QED BY <1>1, <2>1 DEF Completes
  <1> QED BY <1>3, <1>9, <1>10 DEF Flow

\* The first frames of a link.
LEMMA FirstFrames ==
    ASSUME NEW l \in Seq(Frames), NEW n \in 0..Len(l)
    PROVE  /\ n \in Nat /\ n <= Len(l) /\ SubSeq(l, 1, n) \in Seq(Frames)
           /\ Len(SubSeq(l, 1, n)) = n
           /\ \A i \in 1..n : SubSeq(l, 1, n)[i] = l[i]
  <1>1. Len(l) \in Nat
    BY LenProperties
  <1>2. /\ n \in Nat /\ n <= Len(l) /\ n - 1 + 1 = n
        /\ \A i \in 1..n : i \in 1..Len(l) /\ 1 + i - 1 = i
    BY <1>1
  <1>3. \A i \in 1..n : l[i] \in Frames
    BY <1>2, ElementOfSeq
  <1>4. /\ SubSeq(l, 1, n) \in Seq(Frames)
        /\ Len(SubSeq(l, 1, n)) = IF 1 <= n THEN n - 1 + 1 ELSE 0
        /\ \A i \in 1..(n - 1 + 1) : SubSeq(l, 1, n)[i] = l[1 + i - 1]
    BY <1>2, <1>3, SubSeqProperties
  <1>5. Len(SubSeq(l, 1, n)) = n
    BY <1>2, <1>4
  <1> QED BY <1>2, <1>4, <1>5

\* The connection breaks: the last frames are lost.
LEMMA FlowCut ==
    ASSUME NEW s \in Seq(Packets), NEW in \in Seq(Packets), NEW l \in Seq(Frames),
           NEW w, NEW v, NEW b \in BOOLEAN, NEW n \in 0..Len(l),
           Flow(s, in, l, w, b)
    PROVE  Flow(s, in, SubSeq(l, 1, n), v, FALSE)
  <1>1. PICK num \in [1..(Len(l) + 1) -> Nat] : Carries(s, in, l, num)
    BY DEF Flow
  <1>2. Len(l) \in Nat /\ n \in Nat /\ n <= Len(l)
    BY LenProperties
  <1>3. PICK k \in Seq(Frames) : /\ k = SubSeq(l, 1, n) /\ Len(k) = n
                                 /\ \A i \in 1..n : k[i] = l[i]
    BY FirstFrames
  <1> DEFINE new == [i \in 1..(n + 1) |-> num[i]]
  <1>4. \A i \in 1..(n + 1) : i \in 1..(Len(l) + 1)
    BY <1>2
  <1>5. new \in [1..(n + 1) -> Nat]
    BY <1>4
  <1>6. PICK mun \in [1..(n + 1) -> Nat] : mun = new
    BY <1>5
  <1>7. \A i \in 1..(n + 1) : mun[i] = num[i]
    BY <1>6
  <1> HIDE DEF new
  <1>8. Carries(s, in, k, mun)
    <2>1. 1 \in 1..(n + 1)
      BY <1>2
    <2>2. mun[1] = Len(in) /\ \A i \in 1..Len(in) : in[i] = s[i]
      BY <1>1, <1>7, <2>1 DEF Carries
    <2>3. ASSUME NEW i \in 1..(n + 1)
          PROVE  mun[i] <= Len(s)
      BY <1>1, <1>4, <1>7 DEF Carries
    <2>4. ASSUME NEW i \in 1..n
          PROVE  IF k[i].type = "binary"
                   THEN mun[i + 1] = mun[i] + 1 /\ k[i].data = s[mun[i + 1]]
                   ELSE mun[i + 1] = mun[i]
      <3>1. i \in 1..Len(l) /\ i \in 1..(n + 1) /\ i + 1 \in 1..(n + 1)
        BY <1>2
      <3>2. mun[i] = num[i] /\ mun[i + 1] = num[i + 1] /\ k[i] = l[i]
        BY <1>3, <1>7, <3>1
      <3> QED BY <1>1, <3>1, <3>2 DEF Carries
    <2> QED BY <1>3, <2>2, <2>3, <2>4 DEF Carries
  <1> QED BY <1>3, <1>8 DEF Flow

\* A connection that broke carries what it carried, whatever waits.
LEMMA FlowBroken ==
    ASSUME NEW s, NEW in, NEW l, NEW w, NEW v, Flow(s, in, l, w, FALSE)
    PROVE  Flow(s, in, l, v, FALSE)
  BY DEF Flow

-----------------------------------------------------------------------------
(* The invariant. *)

\* The steps of the WebSocket transports.
WsAll ==
    \/ WsWriter /\ UNCHANGED tsVars
    \/ Cut /\ UNCHANGED <<wsVars, tsVars>>
    \/ WsWriteLoop /\ UNCHANGED tsVars
    \/ transport # "ts websocket" /\ WsReadLoop /\ UNCHANGED tsVars
    \/ transport # "ts websocket" /\ WsTake /\ UNCHANGED tsVars
    \/ transport # "ts websocket" /\ WsFail /\ UNCHANGED tsVars
       /\ (transport = "websocket" => read_q = <<>>)
    \/ transport = "ts websocket" /\ TsWsMessage /\ UNCHANGED wsVars
    \/ transport = "ts websocket" /\ TsWsClosed /\ UNCHANGED wsVars
    \/ transport = "ts websocket" /\ TsWsRecv /\ UNCHANGED wsVars
    \/ UNCHANGED <<linkVars, wsVars, tsVars>>

\* There are no others.
LEMMA WsSteps ==
    ASSUME transport \in WebSocket, [Next]_vars
    PROVE  WsAll /\ transport' = transport
  <1>1. transport \notin Tcp
    BY DEF WebSocket, Tcp
  <1>2. CASE PacketNext
    BY <1>1, <1>2
       DEF WebSocket, Tcp, PacketNext, PacketEnvironment, Writes, Reads, Recvs, WsAll,
           WsRecv, GoWsRecv
  <1>3. CASE UNCHANGED packetVars
    BY <1>3 DEF packetVars, WsAll
  <1> QED BY <1>2, <1>3 DEF Next, vars

\* A frame that carries a packet carries one of Packets.
LEMMA FrameTyped ==
    /\ \A p \in Packets : Frame("binary", p) \in Frames
    /\ Frame("ping", <<>>) \in Frames /\ Frame("close", <<>>) \in Frames
    /\ \A t, d : Frame(t, d).type = t /\ Frame(t, d).data = d
  BY DEF Frame, Frames

\* Binary frames carry packets.
LEMMA BinaryCarries ==
    ASSUME WsIInv, link # <<>>
    PROVE  /\ Head(link) = link[1] /\ link[1] \in Frames
           /\ link[1].type = "binary" => link[1].data \in Packets
  <1>1. Len(link) \in Nat \ {0} /\ link \in Seq(Frames) /\ sent \in Seq(Packets)
    BY EmptySeq DEF WsIInv, WsTyped
  <1>2. PICK num \in [1..(Len(link) + 1) -> Nat] :
            Carries(sent, received \o Inbox, link, num)
    BY DEF WsIInv, Flow
  <1>3. 1 \in 1..Len(link) /\ 1 \in 1..(Len(link) + 1) /\ 2 \in 1..(Len(link) + 1)
    BY <1>1
  <1>4. ASSUME link[1].type = "binary"
        PROVE  link[1].data \in Packets
    <2>1. num[2] = num[1] + 1 /\ num[2] <= Len(sent) /\ link[1].data = sent[num[2]]
      BY <1>2, <1>3, <1>4 DEF Carries
    <2>2. num[1] \in Nat /\ Len(sent) \in Nat
      BY <1>1, <1>3, LenProperties
    <2>3. num[2] \in 1..Len(sent)
      BY <2>1, <2>2
    <2> QED BY <1>1, <2>1, <2>3, ElementOfSeq
  <1> QED BY <1>1, <1>3, <1>4

\* A connection begins with nothing on it.
LEMMA WsBegins ==
    ASSUME Init, transport \in WebSocket
    PROVE  WsIInv
  <1>1. /\ sent = <<>> /\ received = <<>> /\ link = <<>> /\ write_q = <<>>
        /\ read_q = <<>> /\ queue = <<>> /\ failed = FALSE /\ sender = TRUE
        /\ broken = FALSE /\ waiting = FALSE /\ closed = FALSE
        /\ write_loop = "running" /\ read_loop = "running"
    BY DEF Init, PacketInit, LinkInit, WsInit, TsInit
  <1>2. <<>> \in Seq(Packets) /\ <<>> \in Seq(Frames) /\ Len(<<>>) = 0
    BY EmptySeq
  <1>3. WsTyped
    BY <1>1, <1>2 DEF WsTyped
  <1>4. received \o Inbox = <<>>
    BY <1>1 DEF Inbox
  <1>5. Flow(<<>>, <<>>, <<>>, <<>>, TRUE)
    <2>1. PICK num \in [1..1 -> Nat] : num = [i \in 1..1 |-> 0]
      OBVIOUS
    <2>2. num[1] = 0
      BY <2>1
    <2> QED BY <1>2, <2>2 DEF Flow, Carries, Completes
  <1>6. Closing
    <2>1. ~Stopped
      BY <1>1 DEF Stopped
    <2>2. \A i \in 1..Len(link) : FALSE
      BY <1>1, <1>2
    <2> QED BY <1>1, <2>1, <2>2 DEF Closing
  <1> QED BY <1>1, <1>3, <1>4, <1>5, <1>6 DEF WsIInv

\* Types are kept.
LEMMA WsTypedStep ==
    ASSUME WsIInv, WsAll, transport' = transport
    PROVE  WsTyped'
  <1> USE DEF WsIInv, WsTyped
  <1>0. /\ \A q \in Seq(Packets) : q # <<>> => Head(q) \in Packets /\ Tail(q) \in Seq(Packets)
        /\ \A q \in Seq(Packets), p \in Packets : Append(q, p) \in Seq(Packets)
        /\ \A q \in Seq(Frames), f \in Frames : Append(q, f) \in Seq(Frames)
        /\ <<>> \in Seq(Packets)
    BY HeadTailProperties, AppendProperties, EmptySeq
  <1>1. CASE WsWriter /\ UNCHANGED tsVars
    <2>1. CASE WsDrop
      BY <1>1, <2>1 DEF WsDrop, wsVars, tsVars
    <2>2. CASE WsPing
      BY <1>0, <1>1, <2>2, FrameTyped DEF WsPing, wsVars, tsVars
    <2>3. ASSUME NEW p \in Packets, WsSend(p)
          PROVE  WsTyped'
      BY <1>0, <1>1, <2>3 DEF WsSend, tsVars
    <2> QED BY <1>1, <2>1, <2>2, <2>3 DEF WsWriter
  <1>2. CASE Cut /\ UNCHANGED <<wsVars, tsVars>>
    <2>1. PICK n \in 0..Len(link) : link' = SubSeq(link, 1, n)
      BY <1>2 DEF Cut
    <2>2. link' \in Seq(Frames)
      BY <2>1, FirstFrames
    <2> QED BY <1>2, <2>2 DEF Cut, wsVars, tsVars
  <1>3. CASE WsWriteLoop /\ UNCHANGED tsVars
    <2>1. link' \in Seq(Frames)
      BY <1>0, <1>3, FrameTyped DEF WsWriteLoop
    <2>2. write_q' \in Seq(Packets) /\ write_loop' \in {"running", "ended"}
      BY <1>0, <1>3 DEF WsWriteLoop
    <2> QED BY <1>3, <2>1, <2>2 DEF WsWriteLoop, tsVars
  <1>4. CASE transport # "ts websocket" /\ WsReadLoop /\ UNCHANGED tsVars
    <2>1. link # <<>> => Head(link) \in Frames /\ Tail(link) \in Seq(Frames)
      BY HeadTailProperties
    <2>2. link # <<>> /\ Head(link).type = "binary" => Head(link).data \in Packets
      BY <1>4, BinaryCarries
    <2>3. read_q' \in Seq(Packets) /\ read_loop' \in {"running", "ended"}
      BY <1>0, <1>4, <2>2 DEF WsReadLoop
    <2>4. link' \in Seq(Frames)
      BY <1>4, <2>1 DEF WsReadLoop
    <2> QED BY <1>4, <2>3, <2>4 DEF WsReadLoop, tsVars
  <1>5. CASE WsTake /\ UNCHANGED tsVars
    BY <1>0, <1>5 DEF WsTake, tsVars
  <1>6. CASE WsFail /\ UNCHANGED tsVars
    BY <1>6 DEF WsFail, wsVars, tsVars
  <1>7. CASE transport = "ts websocket" /\ TsWsMessage /\ UNCHANGED wsVars
    <2>1. link # <<>> => Head(link) \in Frames /\ Tail(link) \in Seq(Frames)
      BY HeadTailProperties
    <2>2. link # <<>> /\ Head(link).type = "binary" => Head(link).data \in Packets
      BY BinaryCarries
    <2>3. received' \in Seq(Packets) /\ queue' \in Seq(Packets)
      BY <1>0, <1>7, <2>2 DEF TsWsMessage
    <2>4. failed' \in BOOLEAN /\ waiting' \in BOOLEAN /\ closed' \in BOOLEAN
      BY <1>7, Zenon DEF TsWsMessage
    <2>5. link' \in Seq(Frames)
      BY <1>7, <2>1 DEF TsWsMessage
    <2> QED BY <1>7, <2>3, <2>4, <2>5 DEF TsWsMessage, wsVars
  <1>8. CASE transport = "ts websocket" /\ TsWsClosed /\ UNCHANGED wsVars
    BY <1>8 DEF TsWsClosed, TsReject, wsVars
  <1>9. CASE transport = "ts websocket" /\ TsWsRecv /\ UNCHANGED wsVars
    <2>1. received' \in Seq(Packets) /\ queue' \in Seq(Packets)
      BY <1>0, <1>9 DEF TsWsRecv
    <2>2. failed' \in BOOLEAN /\ waiting' \in BOOLEAN
      BY <1>9, Zenon DEF TsWsRecv
    <2> QED BY <1>9, <2>1, <2>2 DEF TsWsRecv, wsVars
  <1>10. CASE UNCHANGED <<linkVars, wsVars, tsVars>>
    BY <1>10 DEF linkVars, wsVars, tsVars
  <1> QED BY <1>1, <1>2, <1>3, <1>4, <1>5, <1>6, <1>7, <1>8, <1>9, <1>10 DEF WsAll

\* A packet that waits behind others is behind what was received as well.
LEMMA InboxGrows ==
    ASSUME NEW r \in Seq(Packets), NEW q \in Seq(Packets), NEW p \in Packets
    PROVE  r \o Append(q, p) = Append(r \o q, p)
  <1>1. r \o q \in Seq(Packets) /\ <<p>> \in Seq(Packets)
    BY ConcatProperties
  <1> QED BY <1>1, AppendIsConcat, ConcatAssociative

\* The first of those that wait is received.
LEMMA InboxMoves ==
    ASSUME NEW r \in Seq(Packets), NEW q \in Seq(Packets), q # <<>>
    PROVE  Append(r, Head(q)) \o Tail(q) = r \o q
  <1>1. PICK h \in Packets, t \in Seq(Packets) : h = Head(q) /\ t = Tail(q)
    BY HeadTailProperties
  <1>2. <<h>> \in Seq(Packets) /\ q = <<h>> \o t
    BY <1>1
  <1>3. Append(r, h) = r \o <<h>>
    BY AppendIsConcat
  <1>4. (r \o <<h>>) \o t = r \o (<<h>> \o t)
    BY <1>2, ConcatAssociative
  <1> QED BY <1>1, <1>2, <1>3, <1>4

\* What the inbox becomes: nothing comes, the packet of the first frame
\* comes, or recv takes the first.
LEMMA FlowStep ==
    ASSUME WsIInv, WsAll, transport' = transport
    PROVE  Flow(sent, received \o Inbox, link, write_q, ~broken)'
  <1> DEFINE in == received \o Inbox
             kept == UNCHANGED <<received, read_q, queue>>
  <1>0. /\ sent \in Seq(Packets) /\ link \in Seq(Frames) /\ write_q \in Seq(Packets)
        /\ received \in Seq(Packets) /\ read_q \in Seq(Packets) /\ queue \in Seq(Packets)
        /\ Inbox \in Seq(Packets) /\ in \in Seq(Packets) /\ broken \in BOOLEAN
        /\ (~broken) \in BOOLEAN
        /\ Flow(sent, in, link, write_q, ~broken)
    BY ConcatProperties DEF WsIInv, WsTyped, Inbox
  <1>1. kept => in' = in
    BY DEF Inbox
  <1> HIDE DEF in
  <1> SUFFICES Flow(sent', in', link', write_q', ~broken')
    BY DEF in
  <1>2. CASE kept /\ UNCHANGED <<sent, link, write_q, broken>>
    BY <1>0, <1>1, <1>2
  <1>3. ASSUME NEW p \in Packets, WsSend(p), UNCHANGED tsVars
        PROVE  Flow(sent', in', link', write_q', ~broken')
    <2>1. /\ sent' = Append(sent, p) /\ write_q' = Append(write_q, p)
          /\ link' = link /\ broken' = broken /\ in' = in
      BY <1>1, <1>3 DEF WsSend, tsVars
    <2> QED BY <1>0, <2>1, FlowSend
  <1>4. CASE WsPing /\ UNCHANGED tsVars
    <2>1. /\ sent' = sent /\ write_q' = write_q /\ ~broken /\ broken' = broken /\ in' = in
          /\ link' = Append(link, Frame("ping", <<>>))
      BY <1>1, <1>4 DEF WsPing, wsVars, tsVars
    <2>2. Flow(sent, in, link, write_q, TRUE)
      BY <1>0, <2>1
    <2>3. Frame("ping", <<>>) \in Frames /\ Frame("ping", <<>>).type # "binary"
      BY FrameTyped
    <2>4. Flow(sent, in, Append(link, Frame("ping", <<>>)), write_q, TRUE)
      BY <1>0, <2>2, <2>3, FlowWrite
    <2> QED BY <2>1, <2>4
  <1>5. CASE Cut /\ UNCHANGED <<wsVars, tsVars>>
    <2>1. PICK n \in 0..Len(link) : link' = SubSeq(link, 1, n)
      BY <1>5 DEF Cut
    <2>2. sent' = sent /\ broken' = TRUE /\ in' = in
      BY <1>1, <1>5 DEF Cut, wsVars, tsVars
    <2>3. Flow(sent, in, link', write_q', FALSE)
      BY <1>0, <2>1, FlowCut
    <2> QED BY <2>2, <2>3
  <1>6. CASE WsWriteLoop /\ UNCHANGED tsVars
    <2>1. sent' = sent /\ broken' = broken /\ in' = in
      BY <1>1, <1>6 DEF WsWriteLoop, tsVars
    <2>2. CASE /\ write_q # <<>> /\ ~broken /\ write_q' = Tail(write_q)
               /\ link' = Append(link, Frame("binary", Head(write_q)))
      <3>1. Head(write_q) \in Packets /\ Tail(write_q) \in Seq(Packets)
        BY <1>0, <2>2, HeadTailProperties
      <3>2. Flow(sent, in, link, write_q, TRUE)
        BY <1>0, <2>2
      <3>3. Flow(sent, in, link', write_q', TRUE)
        BY <1>0, <2>2, <3>1, <3>2, FrameTyped, FlowWrite
      <3> QED BY <2>1, <2>2, <3>3
    <2>3. CASE broken /\ link' = link
      <3>1. Flow(sent, in, link, write_q, FALSE)
        BY <1>0, <2>3
      <3>2. Flow(sent, in, link, write_q', FALSE)
        BY <3>1, FlowBroken
      <3> QED BY <2>1, <2>3, <3>2
    <2>4. CASE ~broken /\ link' = Append(link, Frame("close", <<>>)) /\ write_q' = write_q
      <3>1. Flow(sent, in, link, write_q, TRUE)
        BY <1>0, <2>4
      <3>2. Frame("close", <<>>) \in Frames /\ Frame("close", <<>>).type # "binary"
        BY FrameTyped
      <3>3. Flow(sent, in, Append(link, Frame("close", <<>>)), write_q, TRUE)
        BY <1>0, <3>1, <3>2, FlowWrite
      <3> QED BY <2>1, <2>4, <3>3
    <2> QED BY <1>6, <2>2, <2>3, <2>4 DEF WsWriteLoop
  <1>7. CASE /\ link # <<>> /\ link' = Tail(link)
             /\ UNCHANGED <<sent, write_q, broken>>
             /\ IF link[1].type = "binary" THEN in' = Append(in, link[1].data) ELSE in' = in
    <2>1. link[1] \in Frames /\ (link[1].type = "binary" => link[1].data \in Packets)
      BY <1>7, BinaryCarries
    <2>2. in' \in Seq(Packets)
      <3>1. \A p \in Packets : Append(in, p) \in Seq(Packets)
        BY <1>0, AppendProperties
      <3> QED BY <1>0, <1>7, <2>1, <3>1
    <2>3. Flow(sent, in', Tail(link), write_q, ~broken)
      BY <1>0, <1>7, <2>1, <2>2, FlowRead
    <2> QED BY <1>7, <2>3
  <1>8. CASE transport # "ts websocket" /\ WsReadLoop /\ UNCHANGED tsVars
    <2>1. /\ sent' = sent /\ write_q' = write_q /\ broken' = broken /\ received' = received
          /\ queue' = queue
      BY <1>8 DEF WsReadLoop, tsVars
    <2>2. CASE link # <<>> /\ Head(link).type = "binary"
      <3>1. Head(link) = link[1] /\ link[1].data \in Packets
        BY <2>2, BinaryCarries
      <3>2. link' = Tail(link) /\ read_q' = Append(read_q, link[1].data)
        BY <1>8, <2>2, <3>1 DEF WsReadLoop
      <3>3. in = received \o read_q /\ in' = received' \o read_q'
        BY <1>8 DEF in, Inbox
      <3>4. received \o Append(read_q, link[1].data) = Append(received \o read_q, link[1].data)
        BY <1>0, <3>1, InboxGrows
      <3>5. in' = Append(in, link[1].data)
        BY <2>1, <3>2, <3>3, <3>4
      <3> QED BY <1>7, <2>1, <2>2, <3>1, <3>2, <3>5
    <2>3. CASE link # <<>> /\ Head(link).type # "binary"
      <3>1. Head(link) = link[1]
        BY <2>3, BinaryCarries
      <3>2. link' = Tail(link) /\ read_q' = read_q
        BY <1>8, <2>3 DEF WsReadLoop
      <3> QED BY <1>1, <1>7, <2>1, <2>3, <3>1, <3>2
    <2>4. CASE link = <<>>
      BY <1>2, <1>8, <2>1, <2>4 DEF WsReadLoop
    <2> QED BY <2>2, <2>3, <2>4
  <1>9. CASE transport # "ts websocket" /\ WsTake /\ UNCHANGED tsVars
    <2>1. in' = in
      <3>1. in = received \o read_q /\ in' = received' \o read_q'
        BY <1>9 DEF in, Inbox
      <3>2. /\ read_q # <<>> /\ read_q' = Tail(read_q)
            /\ received' = Append(received, Head(read_q))
        BY <1>9 DEF WsTake
      <3>3. Head(read_q) \in Packets
        BY <1>0, <3>2, HeadTailProperties
      <3>4. Append(received, Head(read_q)) \o Tail(read_q) = received \o read_q
        BY <1>0, <3>2, <3>3, InboxMoves
      <3> QED BY <3>1, <3>2, <3>4
    <2> QED BY <1>0, <1>9, <2>1 DEF WsTake
  <1>10. CASE transport = "ts websocket" /\ TsWsMessage /\ UNCHANGED wsVars
    <2>1. /\ sent' = sent /\ write_q' = write_q /\ broken' = broken /\ read_q' = read_q
          /\ link # <<>> /\ link' = Tail(link) /\ Head(link) = link[1]
      BY <1>10, BinaryCarries DEF TsWsMessage, wsVars
    <2>2. CASE link[1].type = "binary"
      <3>1. link[1].data \in Packets
        BY <2>1, <2>2, BinaryCarries
      <3>2. \/ received' = Append(received, link[1].data) /\ queue' = queue /\ waiting
            \/ received' = received /\ queue' = Append(queue, link[1].data)
        BY <1>10, <2>1, <2>2 DEF TsWsMessage
      <3>3. waiting => queue = <<>>
        BY DEF WsIInv, Closing
      <3>4. Append(received, link[1].data) \in Seq(Packets)
        BY <1>0, <3>1, AppendProperties
      <3>5. in' = Append(in, link[1].data)
        <4>1. in = received \o queue /\ in' = received' \o queue'
          BY <1>10 DEF in, Inbox
        <4>2. CASE received' = Append(received, link[1].data) /\ queue' = <<>> /\ queue = <<>>
          <5>1. received \o <<>> = received
            BY <1>0, ConcatEmptySeq
          <5>2. Append(received, link[1].data) \o <<>> = Append(received, link[1].data)
            BY <3>4, ConcatEmptySeq
          <5> QED BY <4>1, <4>2, <5>1, <5>2
        <4>3. CASE received' = received /\ queue' = Append(queue, link[1].data)
          <5>1. received \o Append(queue, link[1].data) = Append(received \o queue, link[1].data)
            BY <1>0, <3>1, InboxGrows
          <5> QED BY <4>1, <4>3, <5>1
        <4> QED BY <3>2, <3>3, <4>2, <4>3
      <3> QED BY <1>7, <2>1, <2>2, <3>5
    <2>3. CASE link[1].type # "binary"
      <3>1. received' = received /\ queue' = queue
        BY <1>10, <2>1, <2>3 DEF TsWsMessage
      <3> QED BY <1>1, <1>7, <2>1, <2>3, <3>1
    <2> QED BY <2>2, <2>3
  <1>11. CASE transport = "ts websocket" /\ TsWsRecv /\ UNCHANGED wsVars
    <2>1. in' = in
      <3>1. in = received \o queue /\ in' = received' \o queue'
        BY <1>11 DEF in, Inbox
      <3>2. CASE /\ queue # <<>> /\ queue' = Tail(queue)
                 /\ received' = Append(received, Head(queue))
        <4>1. Head(queue) \in Packets
          BY <1>0, <3>2, HeadTailProperties
        <4>2. Append(received, Head(queue)) \o Tail(queue) = received \o queue
          BY <1>0, <3>2, <4>1, InboxMoves
        <4> QED BY <3>1, <3>2, <4>2
      <3>3. CASE UNCHANGED <<received, queue>>
        BY <3>1, <3>3
      <3> QED BY <1>11, <3>2, <3>3 DEF TsWsRecv
    <2> QED BY <1>0, <1>11, <2>1 DEF TsWsRecv, wsVars
  <1>12. CASE WsDrop /\ UNCHANGED tsVars
    BY <1>2, <1>12 DEF WsDrop, wsVars, tsVars
  <1>13. CASE WsFail /\ UNCHANGED tsVars
    BY <1>2, <1>13 DEF WsFail, wsVars, tsVars
  <1>14. CASE TsWsClosed /\ UNCHANGED wsVars
    BY <1>2, <1>14 DEF TsWsClosed, TsReject, wsVars
  <1>15. CASE UNCHANGED <<linkVars, wsVars, tsVars>>
    BY <1>2, <1>15 DEF linkVars, wsVars, tsVars
  <1> QED
    BY <1>3, <1>4, <1>5, <1>6, <1>8, <1>9, <1>10, <1>11, <1>12, <1>13, <1>14, <1>15
       DEF WsAll, WsWriter

\* The closing handshake is kept the last frame.
LEMMA ClosingStep ==
    ASSUME WsIInv, WsAll, transport' = transport
    PROVE  Closing'
  <1>0. /\ link \in Seq(Frames) /\ Len(link) \in Nat
        /\ \A i \in 1..Len(link) : link[i].type = "close" =>
               i = Len(link) /\ write_loop = "ended"
        /\ write_loop = "ended" /\ ~broken => ~sender /\ write_q = <<>>
        /\ Stopped /\ ~broken => link = <<>> /\ write_loop = "ended"
        /\ waiting => ~failed /\ ~closed /\ queue = <<>>
    BY LenProperties DEF WsIInv, WsTyped, Closing
  <1>1. CASE UNCHANGED <<link, write_loop, broken, sender, write_q, closed, read_loop>>
             /\ (waiting' => ~failed' /\ ~closed' /\ queue' = <<>>)
    BY <1>0, <1>1 DEF Closing, Stopped
  <1>2. CASE WsWriter /\ UNCHANGED tsVars
    <2>1. CASE WsDrop
      BY <1>0, <1>2, <2>1 DEF WsDrop, wsVars, tsVars, Closing, Stopped
    <2>2. CASE WsPing
      <3>1. /\ link' = Append(link, Frame("ping", <<>>)) /\ sender /\ ~broken
            /\ UNCHANGED <<write_loop, broken, sender, write_q, closed, read_loop,
                           waiting, failed, queue>>
        BY <1>2, <2>2 DEF WsPing, wsVars, tsVars
      <3>2. write_loop # "ended" /\ ~Stopped
        BY <1>0, <3>1
      <3>3. /\ Len(link') = Len(link) + 1 /\ link'[Len(link) + 1].type = "ping"
            /\ \A i \in 1..Len(link) : link'[i] = link[i]
        BY <1>0, <3>1, FrameTyped, AppendProperties
      <3>4. \A i \in 1..Len(link') : link'[i].type # "close"
        <4>1. \A i \in 1..Len(link') : i \in 1..Len(link) \/ i = Len(link) + 1
          BY <1>0, <3>3
        <4> QED BY <1>0, <3>2, <3>3, <4>1
      <3>5. ~Stopped'
        BY <3>1, <3>2 DEF Stopped
      <3> QED BY <1>0, <3>1, <3>2, <3>4, <3>5 DEF Closing
    <2>3. ASSUME NEW p \in Packets, WsSend(p)
          PROVE  Closing'
      BY <1>0, <1>2, <2>3 DEF WsSend, tsVars, Closing, Stopped
    <2> QED BY <1>2, <2>1, <2>2, <2>3 DEF WsWriter
  <1>3. CASE Cut /\ UNCHANGED <<wsVars, tsVars>>
    <2>1. PICK n \in 0..Len(link) : link' = SubSeq(link, 1, n)
      BY <1>3 DEF Cut
    <2>2. /\ broken' = TRUE
          /\ UNCHANGED <<write_loop, waiting, failed, closed, queue>>
      BY <1>3 DEF Cut, wsVars, tsVars
    <2>3. /\ Len(link') = n /\ n \in Nat /\ n <= Len(link)
          /\ \A i \in 1..n : link'[i] = link[i]
      BY <1>0, <2>1, FirstFrames
    <2>4. \A i \in 1..Len(link') : link'[i].type = "close" =>
              i = Len(link') /\ write_loop' = "ended"
      <3>1. \A i \in 1..n : i \in 1..Len(link) /\ i <= n
        BY <1>0, <2>3
      <3>2. ASSUME NEW i \in 1..n, link[i].type = "close"
            PROVE  i = n
        BY <1>0, <2>3, <3>1, <3>2
      <3> QED BY <1>0, <2>2, <2>3, <3>1, <3>2
    <2> QED BY <1>0, <2>2, <2>4 DEF Closing
  <1>4. CASE WsWriteLoop /\ UNCHANGED tsVars
    <2>1. /\ write_loop = "running"
          /\ UNCHANGED <<broken, sender, closed, read_loop, waiting, failed, queue>>
      BY <1>4 DEF WsWriteLoop, tsVars
    <2>2. CASE broken /\ link' = link
      BY <1>0, <2>1, <2>2 DEF Closing, Stopped
    <2>3. ASSUME NEW f \in Frames, link' = Append(link, f), ~broken,
                 \/ f.type = "binary" /\ write_loop' = "running"
                 \/ /\ write_loop' = "ended" /\ ~sender /\ write_q' = <<>>
          PROVE  Closing'
      <3>1. ~Stopped' /\ \A i \in 1..Len(link) : link[i].type # "close"
        BY <1>0, <2>1, <2>3 DEF Stopped
      <3>2. /\ Len(link') = Len(link) + 1 /\ link'[Len(link) + 1] = f
            /\ \A i \in 1..Len(link) : link'[i] = link[i]
        BY <1>0, <2>3, AppendProperties
      <3>3. \A i \in 1..Len(link') : i \in 1..Len(link) \/ i = Len(link')
        BY <1>0, <3>2
      <3>4. \A i \in 1..Len(link') : link'[i].type = "close" =>
                i = Len(link') /\ write_loop' = "ended"
        BY <2>3, <3>1, <3>2, <3>3
      <3> QED BY <1>0, <2>1, <2>3, <3>1, <3>4 DEF Closing
    <2>4. CASE /\ write_q # <<>> /\ ~broken
               /\ link' = Append(link, Frame("binary", Head(write_q)))
               /\ write_loop' = write_loop
      <3>1. Head(write_q) \in Packets
        BY <2>4, HeadTailProperties DEF WsIInv, WsTyped
      <3> QED BY <2>1, <2>3, <2>4, <3>1, FrameTyped
    <2>5. CASE /\ write_q = <<>> /\ ~sender /\ ~broken
               /\ link' = Append(link, Frame("close", <<>>))
               /\ write_loop' = "ended" /\ write_q' = write_q
      BY <2>3, <2>5, FrameTyped
    <2> QED BY <1>4, <2>2, <2>4, <2>5 DEF WsWriteLoop
  <1>5. ASSUME link # <<>>, link' = Tail(link),
               UNCHANGED <<write_loop, broken, sender, write_q>>,
               Stopped' => Stopped \/ link[1].type = "close",
               waiting' => ~failed' /\ ~closed' /\ queue' = <<>>
        PROVE  Closing'
    <2>1. /\ Len(link') = Len(link) - 1 /\ Len(link) >= 1
          /\ \A i \in 1..Len(link') : link'[i] = link[i + 1]
      <3>1. Len(link) >= 1
        BY <1>0, <1>5, EmptySeq
      <3> QED BY <1>0, <1>5, <3>1, HeadTailProperties
    <2>2. \A i \in 1..Len(link') : /\ i + 1 \in 1..Len(link)
                                   /\ i + 1 = Len(link) => i = Len(link')
      BY <1>0, <2>1
    <2>3. \A i \in 1..Len(link') : link'[i].type = "close" =>
              i = Len(link') /\ write_loop' = "ended"
      BY <1>0, <1>5, <2>1, <2>2
    <2>4. ASSUME Stopped', ~broken
          PROVE  link' = <<>> /\ write_loop' = "ended"
      <3>1. 1 \in 1..Len(link)
        BY <1>0, <2>1
      <3>2. ~Stopped
        BY <1>0, <1>5, <2>4
      <3>3. Len(link) = 1 /\ write_loop = "ended"
        BY <1>0, <1>5, <2>4, <3>1, <3>2
      <3>4. link' \in Seq(Frames) /\ Len(link') = 0
        BY <1>0, <1>5, <2>1, <3>3, HeadTailProperties
      <3> QED BY <1>5, <3>3, <3>4, EmptySeq
    <2> QED BY <1>0, <1>5, <2>3, <2>4 DEF Closing
  <1>6. CASE transport # "ts websocket" /\ WsReadLoop /\ UNCHANGED tsVars
    <2>1. /\ UNCHANGED <<write_loop, broken, sender, write_q, waiting, failed, closed, queue>>
          /\ (Stopped <=> read_loop = "ended") /\ (Stopped' <=> read_loop' = "ended")
          /\ read_loop = "running"
      BY <1>6 DEF WsReadLoop, tsVars, Stopped
    <2>2. CASE link # <<>>
      <3>1. Head(link) = link[1]
        BY <2>2, BinaryCarries
      <3>2. link' = Tail(link)
        BY <1>6, <2>2 DEF WsReadLoop
      <3>3. read_loop' = "ended" => link[1].type = "close"
        BY <1>6, <2>2, <3>1 DEF WsReadLoop
      <3> QED BY <1>0, <1>5, <2>1, <2>2, <3>2, <3>3
    <2>3. CASE link = <<>>
      <3>1. broken /\ link' = link
        BY <1>6, <2>3 DEF WsReadLoop
      <3> QED BY <1>0, <2>1, <3>1 DEF Closing
    <2> QED BY <2>2, <2>3
  <1>7. CASE WsTake /\ UNCHANGED tsVars
    BY <1>0, <1>1, <1>7 DEF WsTake, tsVars
  <1>8. CASE transport # "ts websocket" /\ WsFail /\ UNCHANGED tsVars
    <2>1. UNCHANGED <<link, write_loop, broken, sender, write_q, closed, read_loop>>
          /\ waiting' = waiting
      BY <1>8 DEF WsFail, wsVars, tsVars
    <2>2. queue' = queue /\ ~waiting
      BY <1>8 DEF WsIInv, WsTyped, tsVars
    <2> QED BY <1>1, <2>1, <2>2
  <1>9. CASE transport = "ts websocket" /\ TsWsMessage /\ UNCHANGED wsVars
    <2>1. /\ UNCHANGED <<write_loop, broken, sender, write_q>>
          /\ (Stopped' <=> closed') /\ link # <<>> /\ link' = Tail(link) /\ Head(link) = link[1]
      BY <1>9, BinaryCarries DEF TsWsMessage, wsVars, Stopped
    <2>2. closed' => link[1].type = "close"
      BY <1>9, <2>1 DEF TsWsMessage
    <2>3. waiting' => ~failed' /\ ~closed' /\ queue' = <<>>
      BY <1>0, <1>9 DEF TsWsMessage
    <2> QED BY <1>5, <2>1, <2>2, <2>3
  <1>10. CASE transport = "ts websocket" /\ TsWsClosed /\ UNCHANGED wsVars
    <2>1. /\ broken /\ ~waiting' /\ link' = link
          /\ UNCHANGED <<write_loop, broken, sender, write_q>>
      BY <1>10 DEF TsWsClosed, TsReject, wsVars
    <2> QED BY <1>0, <2>1 DEF Closing
  <1>11. CASE transport = "ts websocket" /\ TsWsRecv /\ UNCHANGED wsVars
    <2>1. UNCHANGED <<link, write_loop, broken, sender, write_q, closed, read_loop>>
          /\ ~waiting /\ ~failed
      BY <1>11 DEF TsWsRecv, wsVars
    <2>2. \/ waiting' = waiting
          \/ queue' = <<>> /\ failed' = closed /\ waiting' = ~closed
      BY <1>11 DEF TsWsRecv
    <2> QED BY <1>0, <1>1, <2>1, <2>2
  <1>12. CASE UNCHANGED <<linkVars, wsVars, tsVars>>
    BY <1>0, <1>1, <1>12 DEF linkVars, wsVars, tsVars
  <1> QED BY <1>2, <1>3, <1>4, <1>6, <1>7, <1>8, <1>9, <1>10, <1>11, <1>12 DEF WsAll

\* Each step keeps the invariant.
LEMMA WsKept ==
    ASSUME WsIInv, [Next]_vars
    PROVE  WsIInv'
  <1>1. WsAll /\ transport' = transport /\ transport \in WebSocket
    BY WsSteps DEF WsIInv
  <1>2. WsTyped' /\ Closing' /\ Flow(sent, received \o Inbox, link, write_q, ~broken)'
    BY <1>1, WsTypedStep, ClosingStep, FlowStep
  <1> QED BY <1>1, <1>2 DEF WsIInv

\* What flows over a WebSocket connection, and where it ends, in every
\* reachable state.
THEOREM WsInductive == Spec /\ transport \in WebSocket => []WsIInv
  <1>1. Init /\ transport \in WebSocket => WsIInv
    BY WsBegins
  <1>2. WsIInv /\ [Next]_vars => WsIInv'
    BY WsKept
  <1> QED BY <1>1, <1>2, PTL DEF Spec

-----------------------------------------------------------------------------
(* The refinement. *)

\* What is received is the next packet.
LEMMA NextReceived ==
    ASSUME WsIInv, WsIInv', sent' = sent, NEW p, received' = Append(received, p)
    PROVE  Len(received) < Len(sent) /\ p = sent[Len(received) + 1]
  <1>1. /\ received \in Seq(Packets) /\ received' \in Seq(Packets) /\ Inbox' \in Seq(Packets)
        /\ Len(received) \in Nat /\ Len(Inbox') \in Nat /\ Len(sent) \in Nat
    BY LenProperties DEF WsIInv, WsTyped, Inbox
  <1>2. PICK in \in Seq(Packets) : in = received' \o Inbox'
    BY <1>1, ConcatProperties
  <1>3. Len(in) \in Nat /\ Len(in) <= Len(sent) /\ \A i \in 1..Len(in) : in[i] = sent[i]
    <2>1. Flow(sent, in, link', write_q', ~broken') /\ (~broken') \in BOOLEAN
      BY <1>2 DEF WsIInv, WsTyped
    <2>2. Len(link') \in Nat
      BY LenProperties DEF WsIInv, WsTyped
    <2> QED BY <2>1, <2>2, FlowPrefix, LenProperties
  <1>4. p = received'[Len(received) + 1] /\ Len(received') = Len(received) + 1
    BY <1>1
  <1>5. Len(received) + 1 \in 1..Len(received')
    BY <1>1, <1>4
  <1>6. Len(in) = Len(received') + Len(Inbox') /\ in[Len(received) + 1] = p
    BY <1>1, <1>2, <1>4, <1>5, ConcatProperties
  <1>7. Len(received) + 1 \in 1..Len(in)
    BY <1>1, <1>3, <1>4, <1>6
  <1> QED BY <1>1, <1>3, <1>6, <1>7

\* A step is one of the channel, or none.
LEMMA ChannelStep ==
    ASSUME WsIInv, WsIInv', WsAll, transport' = transport
    PROVE  [Channel!Next]_(Channel!vars)
  <1> DEFINE quiet == UNCHANGED <<sent, received, failed>>
  <1>0. /\ transport \in WebSocket /\ failed \in BOOLEAN /\ received \in Seq(Packets)
        /\ broken \in BOOLEAN /\ sender \in BOOLEAN /\ waiting \in BOOLEAN
        /\ closed \in BOOLEAN
    BY DEF WsIInv, WsTyped
  <1>1. ASSUME quiet, broken' = broken, sender' = sender
        PROVE  UNCHANGED Channel!vars
    <2>1. connection' = connection
      BY <1>1 DEF connection
    <2> QED BY <1>1, <2>1 DEF Channel!vars
  <1>2. ASSUME NEW p, sent' = sent, received' = Append(received, p), ~failed,
               failed' = failed, broken' = broken, sender' = sender
        PROVE  Channel!Receive
    <2>1. connection' = connection
      BY <1>2 DEF connection
    <2>2. Len(received) < Len(sent) /\ p = sent[Len(received) + 1]
      BY <1>2, NextReceived
    <2> QED BY <1>2, <2>1, <2>2 DEF Channel!Receive
  <1>3. ASSUME sent' = sent, received' = received, broken' = broken, sender' = sender,
               ~failed, failed' = TRUE, Stopped', transport # "go websocket" => Inbox' = <<>>
        PROVE  Channel!Fail
    <2>1. connection' = connection
      BY <1>3 DEF connection
    <2>2. broken' \/ ~sender'
      BY <1>3 DEF WsIInv, Closing
    <2>3. CASE broken \/ (~sender /\ transport \in LossyAtClose)
      <3>1. connection = "broken"
        BY <2>3 DEF connection
      <3> QED BY <1>3, <2>1, <3>1 DEF Channel!Fail
    <2>4. CASE ~broken /\ ~sender /\ transport \notin LossyAtClose
      <3>1. connection = "closed"
        BY <2>4 DEF connection
      <3>2. Inbox' = <<>>
        BY <1>3, <2>4 DEF LossyAtClose
      <3>3. link' = <<>> /\ write_q' = <<>>
        BY <1>3, <2>4 DEF WsIInv, Closing
      <3>4. sent' \in Seq(Packets) /\ received' \in Seq(Packets) /\ received' \o <<>> = received'
        BY ConcatEmptySeq DEF WsIInv, WsTyped
      <3>5. Flow(sent', received', <<>>, <<>>, TRUE)
        <4>1. (~broken') = TRUE
          BY <1>3, <2>4
        <4> QED BY <3>2, <3>3, <3>4, <4>1 DEF WsIInv
      <3>6. received' = sent'
        BY <3>4, <3>5, FlowOver
      <3>7. received = sent
        BY <1>3, <3>6
      <3> QED BY <1>3, <2>1, <3>1, <3>7 DEF Channel!Fail
    <2> QED BY <1>3, <2>2, <2>3, <2>4
  <1>4. CASE WsDrop /\ UNCHANGED tsVars
    <2>1. /\ quiet /\ sender /\ ~sender' /\ broken' = broken
      BY <1>4 DEF WsDrop
    <2>2. CASE broken
      <3>1. connection' = connection
        BY <2>1, <2>2 DEF connection
      <3> QED BY <2>1, <3>1 DEF Channel!vars
    <2>3. CASE ~broken /\ transport \in LossyAtClose
      <3>1. connection = "open" /\ connection' = "broken"
        BY <2>1, <2>3 DEF connection
      <3> QED BY <2>1, <3>1 DEF Channel!Next, Channel!Break
    <2>4. CASE ~broken /\ transport \notin LossyAtClose
      <3>1. connection = "open" /\ connection' = "closed"
        BY <2>1, <2>4 DEF connection
      <3> QED BY <2>1, <3>1 DEF Channel!Next, Channel!Close
    <2> QED BY <2>2, <2>3, <2>4
  <1>5. ASSUME NEW p \in Packets, WsSend(p)
        PROVE  Channel!Next
    <2>1. connection # "closed" /\ connection' = connection
      BY <1>5 DEF WsSend, connection
    <2> QED BY <1>5, <2>1 DEF WsSend, Channel!Next, Channel!Send
  <1>6. CASE Cut /\ UNCHANGED <<wsVars, tsVars>>
    <2>1. quiet /\ ~broken /\ broken' /\ sender' = sender
      BY <1>6 DEF Cut
    <2>2. connection' = "broken"
      BY <2>1 DEF connection
    <2>3. CASE connection = "broken"
      BY <2>1, <2>2, <2>3 DEF Channel!vars
    <2>4. CASE connection # "broken"
      BY <2>1, <2>2, <2>4 DEF Channel!Next, Channel!Break
    <2> QED BY <2>3, <2>4
  <1>7. CASE WsPing
    BY <1>1, <1>7 DEF WsPing
  <1>8. CASE WsWriteLoop
    BY <1>1, <1>8 DEF WsWriteLoop
  <1>9. CASE WsReadLoop
    BY <1>1, <1>9 DEF WsReadLoop
  <1>10. CASE WsTake
    <2>1. Channel!Receive
      BY <1>2, <1>10 DEF WsTake
    <2> QED BY <2>1 DEF Channel!Next
  <1>11. CASE /\ transport # "ts websocket" /\ WsFail
              /\ transport = "websocket" => read_q = <<>>
    <2>1. Stopped' /\ Inbox' = read_q
      BY <1>11 DEF WsFail, wsVars, Stopped, Inbox
    <2>2. transport # "go websocket" => Inbox' = <<>>
      BY <1>0, <1>11, <2>1 DEF WebSocket
    <2>3. Channel!Fail
      BY <1>3, <1>11, <2>1, <2>2 DEF WsFail
    <2> QED BY <2>3 DEF Channel!Next
  <1>12. waiting => ~failed /\ ~closed /\ queue = <<>>
    BY DEF WsIInv, Closing
  <1>13. CASE transport = "ts websocket" /\ TsWsMessage
    <2>1. UNCHANGED <<sent, broken, sender>>
      BY <1>13 DEF TsWsMessage
    <2>2. CASE Head(link).type = "binary" /\ waiting
      <3>1. received' = Append(received, Head(link).data) /\ failed' = failed /\ ~failed
        BY <1>12, <1>13, <2>2 DEF TsWsMessage
      <3>2. Channel!Receive
        BY <1>2, <2>1, <3>1
      <3> QED BY <3>2 DEF Channel!Next
    <2>3. CASE Head(link).type = "close" /\ waiting
      <3>1. /\ received' = received /\ queue' = <<>> /\ closed' = TRUE
            /\ failed' = (failed \/ waiting) /\ ~failed
        BY <1>12, <1>13, <2>3 DEF TsWsMessage
      <3>2. failed' = TRUE
        BY <2>3, <3>1
      <3>3. Stopped' /\ Inbox' = <<>>
        BY <1>13, <3>1 DEF Stopped, Inbox
      <3>4. Channel!Fail
        BY <1>3, <2>1, <3>1, <3>2, <3>3
      <3> QED BY <3>4 DEF Channel!Next
    <2>4. CASE ~waiting \/ Head(link).type \notin {"binary", "close"}
      <3>1. received' = received
        BY <1>13, <2>4 DEF TsWsMessage
      <3>2. \/ failed' = failed
            \/ failed' = (failed \/ waiting) /\ ~waiting
        BY <1>13, <2>4 DEF TsWsMessage
      <3>3. failed' = failed
        BY <1>0, <3>2
      <3> QED BY <1>1, <2>1, <3>1, <3>3
    <2> QED BY <2>2, <2>3, <2>4
  <1>14. CASE transport = "ts websocket" /\ TsWsClosed
    <2>1. /\ UNCHANGED <<sent, received, broken, sender, queue>> /\ closed' = TRUE
          /\ failed' = (failed \/ waiting)
      BY <1>14 DEF TsWsClosed, TsReject
    <2>2. CASE waiting
      <3>1. /\ ~failed /\ failed' = TRUE
        BY <1>12, <2>1, <2>2
      <3>2. Stopped' /\ Inbox' = <<>>
        BY <1>12, <1>14, <2>1, <2>2 DEF Stopped, Inbox
      <3>3. Channel!Fail
        BY <1>3, <2>1, <3>1, <3>2
      <3> QED BY <3>3 DEF Channel!Next
    <2>3. CASE ~waiting
      <3>1. failed' = failed
        BY <1>0, <2>1, <2>3
      <3> QED BY <1>1, <2>1, <3>1
    <2> QED BY <2>2, <2>3
  <1>15. CASE transport = "ts websocket" /\ TsWsRecv
    <2>1. UNCHANGED <<sent, broken, sender, closed>> /\ ~failed
      BY <1>15 DEF TsWsRecv
    <2>2. CASE queue # <<>>
      <3>1. Channel!Receive
        BY <1>2, <1>15, <2>1, <2>2 DEF TsWsRecv
      <3> QED BY <3>1 DEF Channel!Next
    <2>3. CASE queue = <<>>
      <3>1. failed' = closed /\ received' = received /\ queue' = queue
        BY <1>15, <2>3 DEF TsWsRecv
      <3>2. CASE closed
        <4>1. failed' = TRUE
          BY <1>0, <3>1, <3>2
        <4>2. Stopped' /\ Inbox' = <<>>
          BY <1>15, <2>1, <2>3, <3>1, <3>2 DEF Stopped, Inbox
        <4>3. Channel!Fail
          BY <1>3, <2>1, <3>1, <4>1, <4>2
        <4> QED BY <4>3 DEF Channel!Next
      <3>3. CASE ~closed
        <4>1. failed' = failed
          BY <1>0, <2>1, <3>1, <3>3
        <4> QED BY <1>1, <2>1, <3>1, <4>1
      <3> QED BY <3>2, <3>3
    <2> QED BY <2>2, <2>3
  <1>16. CASE UNCHANGED <<linkVars, wsVars, tsVars>>
    BY <1>1, <1>16 DEF linkVars
  <1> QED
    BY <1>4, <1>5, <1>6, <1>7, <1>8, <1>9, <1>10, <1>11, <1>13, <1>14, <1>15, <1>16
       DEF WsAll, WsWriter

\* doc/rpc_transport.md:36: packets arrive whole, each once, in order, and
\* recv fails only when the connection broke or everything was received,
\* over the WebSocket transports of the three languages (at a close, Go may
\* fail sooner: LossyAtClose).
THEOREM WebSocketsAreChannels == Spec /\ transport \in WebSocket => ImplementsChannel
  <1>1. Init /\ transport \in WebSocket => Channel!Init
    BY DEF Init, PacketInit, LinkInit, Channel!Init, connection
  <1>2. WsIInv /\ WsIInv' /\ [Next]_vars => [Channel!Next]_(Channel!vars)
    <2> SUFFICES ASSUME WsIInv, WsIInv', [Next]_vars PROVE [Channel!Next]_(Channel!vars)
      OBVIOUS
    <2>1. WsAll /\ transport' = transport
      BY WsSteps DEF WsIInv
    <2> QED BY <2>1, ChannelStep
  <1> QED BY <1>1, <1>2, WsInductive, PTL DEF Spec, ImplementsChannel, Channel!Spec

-----------------------------------------------------------------------------
(* Frames that come in pieces. *)

IsFrame(f) == f \in Seq(Nat) /\ Len(f) \in Nat \ {0}

\* The bytes p begin the frames F after the first r up to w, and are all of
\* them if they are whole: off[i] bytes end the i-th.
Pieces(p, F, r, w, whole) ==
    \E off \in [r..w -> Nat] :
        /\ off[r] = 0
        /\ \A i, j \in r..w : i <= j => off[i] <= off[j]
        /\ \A i \in (r + 1)..w :
               /\ off[i] = off[i - 1] + Len(F[i])
               /\ \A j \in 1..Len(F[i]) :
                      off[i - 1] + j <= Len(p) => p[off[i - 1] + j] = F[i][j]
        /\ Len(p) <= off[w] /\ (whole => Len(p) = off[w])

\* No bytes and no frames.
LEMMA PiecesNone ==
    ASSUME NEW F, NEW r \in Nat, NEW whole \in BOOLEAN
    PROVE  Pieces(<<>>, F, r, r, whole)
  <1> DEFINE off == [i \in r..r |-> 0]
  <1>1. off \in [r..r -> Nat] /\ off[r] = 0 /\ (r + 1)..r = {}
    OBVIOUS
  <1>2. \A i, j \in r..r : i <= j => off[i] <= off[j]
    OBVIOUS
  <1> HIDE DEF off
  <1> QED BY <1>1, <1>2 DEF Pieces

\* Frames that come after them, and fewer promises, do not disturb pieces.
LEMMA PiecesSame ==
    ASSUME NEW p, NEW F, NEW G, NEW r \in Nat, NEW w \in Nat, r <= w,
           NEW whole \in BOOLEAN, NEW less \in BOOLEAN, less => whole,
           \A i \in (r + 1)..w : G[i] = F[i],
           Pieces(p, F, r, w, whole)
    PROVE  Pieces(p, G, r, w, less)
  <1>1. PICK off \in [r..w -> Nat] :
            /\ off[r] = 0
            /\ \A i, j \in r..w : i <= j => off[i] <= off[j]
            /\ \A i \in (r + 1)..w :
                   /\ off[i] = off[i - 1] + Len(F[i])
                   /\ \A j \in 1..Len(F[i]) :
                          off[i - 1] + j <= Len(p) => p[off[i - 1] + j] = F[i][j]
            /\ Len(p) <= off[w] /\ (whole => Len(p) = off[w])
    BY DEF Pieces
  <1>2. \A i \in (r + 1)..w : G[i] = F[i]
    OBVIOUS
  <1>3. less => Len(p) = off[w]
    BY <1>1
  <1>4. \A i \in (r + 1)..w :
            /\ off[i] = off[i - 1] + Len(G[i])
            /\ \A j \in 1..Len(G[i]) :
                   off[i - 1] + j <= Len(p) => p[off[i - 1] + j] = G[i][j]
    <2> SUFFICES ASSUME NEW i \in (r + 1)..w
                 PROVE  /\ off[i] = off[i - 1] + Len(G[i])
                        /\ \A j \in 1..Len(G[i]) :
                               off[i - 1] + j <= Len(p) => p[off[i - 1] + j] = G[i][j]
      OBVIOUS
    <2>1. G[i] = F[i]
      BY <1>2
    <2>2. /\ off[i] = off[i - 1] + Len(F[i])
          /\ \A j \in 1..Len(F[i]) :
                 off[i - 1] + j <= Len(p) => p[off[i - 1] + j] = F[i][j]
      BY <1>1, Zenon
    <2> QED BY <2>1, <2>2, Zenon
  <1> QED BY <1>1, <1>3, <1>4, Zenon DEF Pieces

\* The first frame is where the bytes begin.
LEMMA PiecesFirst ==
    ASSUME NEW p \in Seq(Nat), NEW F, NEW r \in Nat, NEW w \in Nat, r < w,
           NEW whole \in BOOLEAN, Pieces(p, F, r, w, whole), IsFrame(F[r + 1])
    PROVE  /\ \A i \in 1..Len(p) :
                  i <= Len(F[r + 1]) => p[i] = F[r + 1][i]
           /\ whole => Len(p) >= Len(F[r + 1])
  <1>1. PICK off \in [r..w -> Nat] :
            /\ off[r] = 0
            /\ \A i, j \in r..w : i <= j => off[i] <= off[j]
            /\ \A i \in (r + 1)..w :
                   /\ off[i] = off[i - 1] + Len(F[i])
                   /\ \A j \in 1..Len(F[i]) :
                          off[i - 1] + j <= Len(p) => p[off[i - 1] + j] = F[i][j]
            /\ Len(p) <= off[w] /\ (whole => Len(p) = off[w])
    BY DEF Pieces
  <1> DEFINE f == F[r + 1]
             n == Len(f)
             l == Len(p)
  <1>2. n \in Nat /\ l \in Nat
    BY DEF IsFrame
  <1>3. r + 1 \in (r + 1)..w /\ r + 1 \in r..w /\ w \in r..w /\ (r + 1) - 1 = r
    OBVIOUS
  <1> HIDE DEF f
  <1>4. /\ off[r + 1] = off[r] + n
        /\ \A j \in 1..n : off[r] + j <= l => p[off[r] + j] = f[j]
    <2> DEFINE i == r + 1
    <2>1. i \in (r + 1)..w /\ i - 1 = r
      BY <1>3
    <2> HIDE DEF i
    <2>2. /\ off[i] = off[i - 1] + Len(F[i])
          /\ \A j \in 1..Len(F[i]) :
                 off[i - 1] + j <= Len(p) => p[off[i - 1] + j] = F[i][j]
      BY <1>1, <2>1, Zenon
    <2> QED BY <2>1, <2>2, Zenon DEF f, i
  <1>5. off[r + 1] <= off[w] /\ off[w] \in Nat
    BY <1>1, <1>3
  <1>6. whole => l = off[w]
    BY <1>1
  <1> HIDE DEF n, l
  <1>7. whole => l >= n
    BY <1>1, <1>2, <1>4, <1>5, <1>6
  <1>8. ASSUME NEW i \in 1..l, i <= n PROVE p[i] = f[i]
    <2>1. i \in 1..n /\ off[r] + i = i /\ i <= l
      BY <1>1, <1>2, <1>8
    <2> QED BY <1>4, <2>1
  <1> QED BY <1>7, <1>8 DEF f, n, l

\* Without frames there are no bytes.
LEMMA PiecesEmpty ==
    ASSUME NEW p \in Seq(Nat), NEW F, NEW r \in Nat, NEW whole \in BOOLEAN,
           Pieces(p, F, r, r, whole)
    PROVE  p = <<>>
  <1>1. Len(p) <= 0 /\ Len(p) \in Nat
    BY DEF Pieces
  <1> QED BY <1>1, EmptySeq

\* The bytes t are what the bytes p leave after the first n.
Leaves(t, p, n) == Len(t) = Len(p) - n /\ \A i \in 1..Len(t) : t[i] = p[n + i]

AllFrames(F, a, b) == \A i \in a..b : IsFrame(F[i])

Ahead(y, z, n, j, k) ==
    y = z - n /\ z \in Nat /\ n \in Nat /\ z >= n /\ y + j <= k /\ k \in Nat /\ j \in Nat \ {0}
Within(x, y, n, k) == x \in 1..k /\ n + x = y

\* A position in what is left when n bytes are gone.
LEMMA OffsetWithin ==
    ASSUME NEW y, NEW z, NEW n, NEW j, NEW k, Ahead(y, z, n, j, k)
    PROVE  Within(y + j, z + j, n, k)
  BY DEF Ahead, Within

\* The first frame is read, and leaves the others.
LEMMA PiecesNext ==
    ASSUME NEW p \in Seq(Nat), NEW t \in Seq(Nat), NEW F, NEW r \in Nat, NEW w \in Nat, r < w,
           NEW whole \in BOOLEAN, Pieces(p, F, r, w, whole), IsFrame(F[r + 1]),
           NEW n \in Nat, n = Len(F[r + 1]), n <= Len(p), Leaves(t, p, n),
           AllFrames(F, r + 1, w)
    PROVE  Pieces(t, F, r + 1, w, whole)
  <1>1. PICK off \in [r..w -> Nat] :
            /\ off[r] = 0
            /\ \A i, j \in r..w : i <= j => off[i] <= off[j]
            /\ \A i \in (r + 1)..w :
                   /\ off[i] = off[i - 1] + Len(F[i])
                   /\ \A j \in 1..Len(F[i]) :
                          off[i - 1] + j <= Len(p) => p[off[i - 1] + j] = F[i][j]
            /\ Len(p) <= off[w] /\ (whole => Len(p) = off[w])
    BY DEF Pieces
  <1>2. off[r + 1] = n
    <2>1. r + 1 \in (r + 1)..w /\ (r + 1) - 1 = r
      OBVIOUS
    <2>2. off[r + 1] = off[r] + Len(F[r + 1])
      BY <1>1, <2>1
    <2> QED BY <1>1, <2>2
  <1> DEFINE new == [i \in (r + 1)..w |-> off[i] - n]
             l == Len(p)
             k == Len(t)
  <1>0. l \in Nat /\ k \in Nat /\ l = k + n
    <2>1. l \in Nat /\ k \in Nat /\ k = l - n
      BY DEF Leaves
    <2> HIDE DEF k, l
    <2> QED BY <2>1
  <1>3. \A i \in (r + 1)..w : i \in r..w /\ i - 1 \in r..w /\ off[i] \in Nat /\ off[i] >= n
    <2>1. r + 1 \in r..w
      OBVIOUS
    <2> QED BY <1>1, <1>2, <2>1
  <1>4. new \in [(r + 1)..w -> Nat] /\ new[r + 1] = 0
    <2>1. \A i \in (r + 1)..w : off[i] - n \in Nat
      <3>1. \A x \in Nat : x >= n => x - n \in Nat
        OBVIOUS
      <3> QED BY <1>3, <3>1
    <2>2. r + 1 \in (r + 1)..w /\ n - n = 0
      OBVIOUS
    <2>3. new[r + 1] = off[r + 1] - n
      BY <2>2
    <2> QED BY <1>2, <2>1, <2>2, <2>3
  <1>5. \A i, j \in (r + 1)..w : i <= j => new[i] <= new[j]
    <2> SUFFICES ASSUME NEW i \in (r + 1)..w, NEW j \in (r + 1)..w, i <= j
                 PROVE  new[i] <= new[j]
      OBVIOUS
    <2>1. new[i] = off[i] - n /\ new[j] = off[j] - n
      OBVIOUS
    <2>2. off[i] <= off[j] /\ off[i] \in Nat /\ off[j] \in Nat
      BY <1>1, <1>3
    <2>3. \A x, y \in Nat : x <= y => x - n <= y - n
      OBVIOUS
    <2> HIDE DEF new
    <2> QED BY <2>1, <2>2, <2>3, Zenon
  <1>6. ASSUME NEW i \in ((r + 1) + 1)..w
        PROVE  /\ new[i] = new[i - 1] + Len(F[i])
               /\ \A j \in 1..Len(F[i]) :
                      new[i - 1] + j <= k => t[new[i - 1] + j] = F[i][j]
    <2>1. i \in (r + 1)..w /\ i - 1 \in (r + 1)..w /\ i # r + 1
      OBVIOUS
    <2>0. IsFrame(F[i])
      BY <2>1 DEF AllFrames
    <2>2. new[i] = off[i] - n /\ new[i - 1] = off[i - 1] - n
      BY <2>1
    <2>3. off[i] = off[i - 1] + Len(F[i])
      BY <1>1, <2>1
    <2>4. off[i] \in Nat /\ off[i - 1] \in Nat /\ off[i - 1] >= n
      BY <1>3, <2>1
    <2> HIDE DEF new
    <2>5. ASSUME NEW j \in 1..Len(F[i]), new[i - 1] + j <= k
          PROVE  t[new[i - 1] + j] = F[i][j]
      <3> DEFINE x == new[i - 1] + j
      <3>1. j \in Nat \ {0} /\ x \in 1..k /\ n + x = off[i - 1] + j
        <4> DEFINE y == new[i - 1]
                   z == off[i - 1]
        <4>1. y = z - n /\ z \in Nat /\ z >= n /\ y + j <= k
          BY <2>2, <2>4, <2>5
        <4>2. j \in Nat \ {0}
          BY <2>0 DEF IsFrame
        <4> HIDE DEF y, z, k, l
        <4>3. Ahead(y, z, n, j, k)
          BY <4>1, <4>2, <1>0, Zenon DEF Ahead
        <4>4. Within(y + j, z + j, n, k)
          BY <4>3, OffsetWithin, Zenon
        <4> QED BY <4>2, <4>4, Zenon DEF y, z, Within
      <3>2. off[i - 1] + j <= l
        <4>1. x <= k
          BY <2>5
        <4> HIDE DEF x, k, l
        <4> QED BY <3>1, <1>0, <4>1
      <3>3. p[off[i - 1] + j] = F[i][j]
        BY <1>1, <2>1, <3>2
      <3>4. t[x] = p[n + x]
        BY <3>1 DEF Leaves
      <3> QED BY <3>1, <3>3, <3>4
    <2>6. new[i] = new[i - 1] + Len(F[i])
      <3> DEFINE m == Len(F[i])
      <3>1. off[i] = off[i - 1] + m /\ m \in Nat
        BY <2>0, <2>3 DEF IsFrame
      <3> DEFINE a == off[i]
                 b == off[i - 1]
                 x == new[i]
                 y == new[i - 1]
      <3> HIDE DEF m
      <3>3. a = b + m /\ x = a - n /\ y = b - n /\ a \in Nat /\ b \in Nat /\ m \in Nat
        BY <3>1, <2>2, <2>4
      <3> HIDE DEF a, b, x, y
      <3>4. x = y + m
        BY <3>3
      <3>2. new[i] = new[i - 1] + m
        BY <3>4 DEF x, y
      <3> QED BY <3>2 DEF m
    <2> QED BY <2>5, <2>6
  <1>7. k <= new[w] /\ (whole => k = new[w])
    <2>1. new[w] = off[w] - n /\ off[w] \in Nat
      BY <1>3
    <2>2. l <= off[w] /\ (whole => l = off[w])
      BY <1>1
    <2> HIDE DEF new, k, l
    <2>3. k <= new[w]
      BY <2>1, <2>2, <1>0
    <2>4. whole => k = new[w]
      BY <2>1, <2>2, <1>0
    <2> QED BY <2>3, <2>4 DEF k
  <1> HIDE DEF new
  <1> QED BY <1>4, <1>5, <1>6, <1>7 DEF Pieces

\* A frame is written after the others.
LEMMA PiecesMore ==
    ASSUME NEW p \in Seq(Nat), NEW F, NEW r \in Nat, NEW w \in Nat, r <= w,
           Pieces(p, F, r, w, TRUE), \A i \in (r + 1)..(w + 1) : IsFrame(F[i]),
           NEW whole \in BOOLEAN
    PROVE  Pieces(p \o F[w + 1], F, r, w + 1, whole)
  <1> DEFINE f == F[w + 1]
             n == Len(f)
             l == Len(p)
             t == p \o f
  <1>1. PICK off \in [r..w -> Nat] :
            /\ off[r] = 0
            /\ \A i, j \in r..w : i <= j => off[i] <= off[j]
            /\ \A i \in (r + 1)..w :
                   /\ off[i] = off[i - 1] + Len(F[i])
                   /\ \A j \in 1..Len(F[i]) :
                          off[i - 1] + j <= Len(p) => p[off[i - 1] + j] = F[i][j]
            /\ Len(p) <= off[w] /\ (TRUE => Len(p) = off[w])
    BY DEF Pieces
  <1>2. f \in Seq(Nat) /\ n \in Nat /\ l \in Nat
    BY DEF IsFrame
  <1> HIDE DEF f
  <1>3. /\ t \in Seq(Nat) /\ Len(t) = l + n
        /\ \A i \in 1..(l + n) : t[i] = IF i <= l THEN p[i] ELSE f[i - l]
    BY <1>2, ConcatProperties
  <1> DEFINE new == [i \in r..(w + 1) |-> IF i <= w THEN off[i] ELSE off[w] + n]
  <1>4. \A i \in r..w : off[i] \in Nat /\ off[i] <= off[w] /\ w \in r..w
    BY <1>1
  <1> HIDE DEF n, l
  <1>5. new \in [r..(w + 1) -> Nat] /\ new[r] = 0
    BY <1>1, <1>2, <1>4
  <1>6. \A i, j \in r..(w + 1) : i <= j => new[i] <= new[j]
    <2> SUFFICES ASSUME NEW i \in r..(w + 1), NEW j \in r..(w + 1), i <= j
                 PROVE  new[i] <= new[j]
      OBVIOUS
    <2>1. CASE j <= w
      BY <1>1, <2>1
    <2>2. CASE j = w + 1 /\ i <= w
      BY <1>2, <1>4, <2>2
    <2>3. CASE j = w + 1 /\ i = w + 1
      BY <1>2, <1>4, <2>3
    <2> QED BY <2>1, <2>2, <2>3
  <1>7. new[w] = off[w] /\ off[w] = l /\ new[w + 1] = l + n
    BY <1>1 DEF l
  <1>8. ASSUME NEW i \in (r + 1)..(w + 1)
        PROVE  /\ new[i] = new[i - 1] + Len(F[i])
               /\ \A j \in 1..Len(F[i]) :
                      new[i - 1] + j <= Len(t) => t[new[i - 1] + j] = F[i][j]
    <2>1. CASE i <= w
      <3>1. i \in (r + 1)..w /\ i \in r..w /\ i - 1 \in r..w
        BY <2>1
      <3>2. new[i] = off[i] /\ new[i - 1] = off[i - 1]
        BY <3>1
      <3>3. off[i] = off[i - 1] + Len(F[i])
        BY <1>1, <3>1
      <3> HIDE DEF new, t
      <3>4. ASSUME NEW j \in 1..Len(F[i])
            PROVE  t[new[i - 1] + j] = F[i][j]
        <4> DEFINE x == off[i - 1] + j
                   m == Len(F[i])
        <4>1. off[i] = off[i - 1] + m /\ off[i] \in Nat /\ off[i - 1] \in Nat /\ m \in Nat
          BY <3>1, <3>3, <1>4 DEF IsFrame
        <4>2. off[i] <= l
          BY <1>4, <1>7, <3>1
        <4>3. j \in 1..m
          OBVIOUS
        <4>4. x \in 1..l
          <5> DEFINE a == off[i]
                     b == off[i - 1]
          <5> HIDE DEF m, a, b
          <5>1. a = b + m /\ b \in Nat /\ m \in Nat /\ a <= l
            BY <4>1, <4>2 DEF a, b
          <5>2. b + j \in 1..l
            BY <5>1, <4>3, <1>2
          <5> QED BY <5>2 DEF b
        <4>5. p[x] = F[i][j]
          BY <1>1, <3>1, <4>4 DEF l
        <4>6. t[x] = p[x]
          <5> HIDE DEF x
          <5>1. x \in 1..(l + n) /\ x <= l
            BY <4>4, <1>2
          <5> QED BY <5>1, <1>3
        <4> QED BY <4>5, <4>6, <3>2
      <3> QED BY <3>2, <3>3, <3>4
    <2>2. CASE i = w + 1
      <3>1. F[i] = f /\ Len(F[i]) = n /\ i - 1 = w
        BY <2>2 DEF f, n
      <3>2. ASSUME NEW j \in 1..n PROVE t[l + j] = f[j]
        <4>1. l + j \in 1..(l + n) /\ ~(l + j <= l) /\ (l + j) - l = j
          BY <1>2
        <4> QED BY <4>1, <1>3
      <3> HIDE DEF new, t
      <3> QED BY <3>1, <3>2, <1>7, <2>2
    <2> QED
      <3>1. i <= w \/ i = w + 1
        OBVIOUS
      <3> QED BY <2>1, <2>2, <3>1, Zenon
  <1>9. Len(t) <= new[w + 1] /\ Len(t) = new[w + 1]
    BY <1>2, <1>3, <1>7
  <1> HIDE DEF new, t
  <1>10. Pieces(t, F, r, w + 1, whole)
    BY <1>5, <1>6, <1>8, <1>9 DEF Pieces
  <1> QED BY <1>10 DEF t, f

\* Bytes are lost at the end.
LEMMA PiecesCut ==
    ASSUME NEW p \in Seq(Nat), NEW t \in Seq(Nat), NEW F, NEW r \in Nat, NEW w \in Nat, r <= w,
           NEW whole \in BOOLEAN, Pieces(p, F, r, w, whole),
           Len(t) <= Len(p), \A i \in 1..Len(t) : t[i] = p[i], \A i \in (r + 1)..w : IsFrame(F[i])
    PROVE  Pieces(t, F, r, w, FALSE)
  <1>1. PICK off \in [r..w -> Nat] :
            /\ off[r] = 0
            /\ \A i, j \in r..w : i <= j => off[i] <= off[j]
            /\ \A i \in (r + 1)..w :
                   /\ off[i] = off[i - 1] + Len(F[i])
                   /\ \A j \in 1..Len(F[i]) :
                          off[i - 1] + j <= Len(p) => p[off[i - 1] + j] = F[i][j]
            /\ Len(p) <= off[w] /\ (whole => Len(p) = off[w])
    BY DEF Pieces
  <1> DEFINE l == Len(p)
             k == Len(t)
  <1>2. l \in Nat /\ k \in Nat /\ k <= l
    OBVIOUS
  <1>3. ASSUME NEW i \in (r + 1)..w, NEW j \in 1..Len(F[i]), off[i - 1] + j <= k
        PROVE  t[off[i - 1] + j] = F[i][j]
    <2> DEFINE x == off[i - 1] + j
    <2>0. IsFrame(F[i])
      OBVIOUS
    <2>1. off[i - 1] \in Nat /\ j \in Nat \ {0}
      <3>1. i - 1 \in r..w
        OBVIOUS
      <3>2. off[i - 1] \in Nat
        BY <1>1, <3>1
      <3>3. Len(F[i]) \in Nat
        BY <2>0 DEF IsFrame
      <3> QED BY <3>2, <3>3
    <2>2. x \in 1..k /\ x <= l
      <3>1. x <= k
        BY <1>3
      <3> HIDE DEF k, l
      <3> QED BY <1>2, <2>1, <3>1
    <2>3. p[x] = F[i][j]
      BY <1>1, <2>2
    <2> QED BY <2>2, <2>3
  <1>4. k <= off[w]
    <2>1. l <= off[w] /\ off[w] \in Nat
      BY <1>1
    <2> HIDE DEF k, l
    <2> QED BY <2>1, <1>2
  <1>5. \A i \in (r + 1)..w :
            /\ off[i] = off[i - 1] + Len(F[i])
            /\ \A j \in 1..Len(F[i]) :
                   off[i - 1] + j <= Len(t) => t[off[i - 1] + j] = F[i][j]
    BY <1>1, <1>3
  <1>6. FALSE => Len(t) = off[w]
    OBVIOUS
  <1> QED BY <1>1, <1>4, <1>5, <1>6, Zenon DEF Pieces

-----------------------------------------------------------------------------
(* LEB128 numbers: what is written is what is read. *)

\* A set of natural numbers has a least one.
LEMMA LeastNumber ==
    ASSUME NEW T \in SUBSET Nat, T # {}
    PROVE  \E x \in T : \A y \in T : x <= y
  <1>1. IsWellFoundedOn(OpToRel(<, Nat), Nat)
    BY NatLessThanWellFounded
  <1>2. PICK x \in T : \A y \in T : ~(<<y, x>> \in OpToRel(<, Nat))
    BY <1>1, WFMin
  <1>3. ASSUME NEW y \in T, ~(x <= y) PROVE FALSE
    <2>1. <<y, x>> \in OpToRel(<, Nat)
      <3>1. y < x /\ <<y, x>> \in Nat \X Nat
        BY <1>3
      <3> QED BY <3>1 DEF OpToRel
    <2> QED BY <2>1, <1>2
  <1> QED BY <1>3

\* What the lengths of messages need to know of a byte.
LEMMA ByteSize ==
    /\ Continue \in Nat /\ Continue >= 2
    /\ 2^Bits64 \in Nat /\ 2^Bits64 > 5
    /\ Bits64 \in Nat /\ Group \in Nat \ {0}
  <1>1. Group \in 0..Bits64 /\ Bits64 \in Nat /\ Group \in Nat \ {0} /\ Bits64 > 2
    BY LebAssumption, HttpAssumption
  <1> QED BY <1>1, PowersAssumption DEF Continue

\* What is left of a number when its last group is written is less.
LEMMA Shifted ==
    ASSUME NEW v \in Nat, v >= Continue
    PROVE  v \div Continue \in Nat /\ v \div Continue < v
  <1>1. Continue \in Nat /\ Continue >= 2
    BY ByteSize
  <1>2. \A c \in Nat : c >= 2 /\ v >= c => v \div c \in Nat /\ v \div c < v
    OBVIOUS
  <1> QED BY <1>1, <1>2

\* encode_leb128_u64 of v by a function e that writes lesser numbers.
EncodedBy(e, v) ==
    IF v < Continue THEN <<v>> ELSE <<Continue + (v % Continue)>> \o e[v \div Continue]

Encodes(e, n) == \A v \in 0..n : e[v] = EncodedBy(e, v)

\* There is such a function for the numbers up to any one.
LEMMA SomeEncoder == \A n \in Nat : \E e : Encodes(e, n)
  <1> DEFINE T == {n \in Nat : ~ \E e : Encodes(e, n)}
  <1>1. SUFFICES ASSUME T # {} PROVE FALSE
    OBVIOUS
  <1>2. PICK n \in T : \A m \in T : n <= m
    <2>1. T \in SUBSET Nat
      OBVIOUS
    <2> HIDE DEF T
    <2> QED BY <2>1, <1>1, LeastNumber
  <1>3. n \in Nat /\ ~ \E e : Encodes(e, n)
    OBVIOUS
  <1>4. \E e : \A v \in 0..(n - 1) : e[v] = EncodedBy(e, v)
    <2>1. CASE n = 0
      BY <2>1
    <2>2. CASE n # 0
      <3>1. n - 1 \in Nat /\ ~(n <= n - 1)
        BY <2>2, <1>3
      <3>2. n - 1 \notin T
        BY <3>1, <1>2
      <3> QED BY <3>1, <3>2 DEF Encodes
    <2> QED BY <2>1, <2>2
  <1>5. PICK e : \A v \in 0..(n - 1) : e[v] = EncodedBy(e, v)
    BY <1>4
  <1> DEFINE f == [v \in 0..n |-> IF v < n THEN e[v] ELSE EncodedBy(e, v)]
  <1>6. ASSUME NEW v \in 0..n PROVE f[v] = EncodedBy(f, v)
    <2>1. f[v] = EncodedBy(e, v)
      BY <1>3, <1>5
    <2>2. v >= Continue => v \div Continue \in 0..(n - 1)
      BY <1>3, Shifted
    <2>3. v >= Continue => f[v \div Continue] = e[v \div Continue]
      BY <2>2, <1>3
    <2>4. v \in Nat /\ Continue \in Nat
      BY ByteSize
    <2> HIDE DEF f
    <2> QED BY <2>1, <2>3, <2>4 DEF EncodedBy
  <1>7. Encodes(f, n)
    BY <1>6 DEF Encodes
  <1> QED BY <1>7, <1>3

\* Two of them agree where both write.
LEMMA EncodersAgree ==
    ASSUME NEW e, NEW f, NEW n \in Nat, NEW m \in Nat, Encodes(e, n), Encodes(f, m),
           NEW v \in Nat, v <= n, v <= m
    PROVE  e[v] = f[v]
  <1> DEFINE T == {w \in Nat : w <= n /\ w <= m /\ e[w] # f[w]}
  <1>1. SUFFICES ASSUME T # {} PROVE FALSE
    OBVIOUS
  <1>2. PICK w \in T : \A u \in T : w <= u
    <2>1. T \in SUBSET Nat
      OBVIOUS
    <2> HIDE DEF T
    <2> QED BY <2>1, <1>1, LeastNumber
  <1>3. w \in Nat /\ w <= n /\ w <= m /\ e[w] # f[w]
    OBVIOUS
  <1>4. e[w] = EncodedBy(e, w) /\ f[w] = EncodedBy(f, w)
    BY <1>3 DEF Encodes
  <1>5. w >= Continue => e[w \div Continue] = f[w \div Continue]
    <2> SUFFICES ASSUME w >= Continue PROVE e[w \div Continue] = f[w \div Continue]
      OBVIOUS
    <2>1. w \div Continue \in Nat /\ w \div Continue < w
      BY <1>3, Shifted
    <2>2. w \div Continue \notin T
      BY <2>1, <1>2, <1>3
    <2> QED BY <2>1, <2>2, <1>3
  <1>6. Continue \in Nat
    BY ByteSize
  <1> QED BY <1>3, <1>4, <1>5, <1>6 DEF EncodedBy

\* encode_leb128_u64 does what its definition says.
LEMMA Encoded ==
    ASSUME NEW v \in Nat
    PROVE  encode_leb128_u64[v] = EncodedBy(encode_leb128_u64, v)
  <1> DEFINE up[n \in Nat] == CHOOSE e : Encodes(e, n)
             f == [w \in Nat |-> up[w][w]]
  <1>1. ASSUME NEW n \in Nat PROVE Encodes(up[n], n)
    BY SomeEncoder
  <1>2. ASSUME NEW w \in Nat PROVE f[w] = EncodedBy(f, w)
    <2>1. f[w] = up[w][w] /\ up[w][w] = EncodedBy(up[w], w)
      BY <1>1 DEF Encodes
    <2>2. w >= Continue => f[w \div Continue] = up[w][w \div Continue]
      <3> SUFFICES ASSUME w >= Continue PROVE f[w \div Continue] = up[w][w \div Continue]
        OBVIOUS
      <3> DEFINE u == w \div Continue
      <3>1. u \in Nat /\ u < w
        BY Shifted
      <3>2. Encodes(up[u], u) /\ Encodes(up[w], w)
        BY <3>1, <1>1
      <3> HIDE DEF u, up
      <3>3. up[u][u] = up[w][u]
        BY <3>1, <3>2, EncodersAgree
      <3> QED BY <3>1, <3>3 DEF u
    <2>3. Continue \in Nat
      BY ByteSize
    <2> HIDE DEF f, up
    <2> QED BY <2>1, <2>2, <2>3 DEF EncodedBy
  <1>3. f = [w \in Nat |-> IF w < Continue THEN <<w>>
                           ELSE <<Continue + (w % Continue)>> \o f[w \div Continue]]
    <2>1. f = [w \in Nat |-> f[w]]
      OBVIOUS
    <2> HIDE DEF f
    <2> QED BY <1>2, <2>1, Zenon DEF EncodedBy
  <1>4. encode_leb128_u64 =
            [w \in Nat |-> IF w < Continue THEN <<w>>
                ELSE <<Continue + (w % Continue)>> \o encode_leb128_u64[w \div Continue]]
    <2> HIDE DEF f
    <2> QED BY <1>3 DEF encode_leb128_u64
  <1> QED BY <1>4, Zenon DEF EncodedBy

\* A number before others.
LEMMA Preceded ==
    ASSUME NEW x \in Nat, NEW f \in Seq(Nat)
    PROVE  /\ <<x>> \o f \in Seq(Nat) /\ Len(<<x>> \o f) = 1 + Len(f)
           /\ (<<x>> \o f)[1] = x
           /\ \A i \in 1..Len(f) : (<<x>> \o f)[1 + i] = f[i]
  <1> DEFINE s == <<x>>
  <1>1. s \in Seq(Nat) /\ Len(s) = 1 /\ s[1] = x /\ Len(f) \in Nat
    OBVIOUS
  <1> HIDE DEF s
  <1>2. /\ s \o f \in Seq(Nat) /\ Len(s \o f) = Len(s) + Len(f)
        /\ \A i \in 1..(Len(s) + Len(f)) :
               (s \o f)[i] = IF i <= Len(s) THEN s[i] ELSE f[i - Len(s)]
    BY <1>1, ConcatProperties
  <1>3. (s \o f)[1] = x
    BY <1>1, <1>2
  <1>4. ASSUME NEW i \in 1..Len(f) PROVE (s \o f)[1 + i] = f[i]
    BY <1>1, <1>2
  <1> QED BY <1>1, <1>2, <1>3, <1>4 DEF s

\* A number of one group is its own byte.
LEMMA EncodedLow ==
    ASSUME NEW v \in Nat, v < Continue
    PROVE  encode_leb128_u64[v] = <<v>>
  BY Encoded, Zenon DEF EncodedBy

\* A number of more groups is its lowest one, then the others.
LEMMA EncodedHigh ==
    ASSUME NEW v \in Nat, v >= Continue
    PROVE  encode_leb128_u64[v] =
               <<Continue + (v % Continue)>> \o encode_leb128_u64[v \div Continue]
  <1>1. ~(v < Continue)
    BY ByteSize
  <1> QED BY <1>1, Encoded, Zenon DEF EncodedBy

\* Three sequences in a row.
LEMMA Joined ==
    ASSUME NEW s \in Seq(Nat), NEW t \in Seq(Nat), NEW u \in Seq(Nat)
    PROVE  (s \o t) \o u = s \o (t \o u)
  BY ConcatAssociative, SMTT(20)

\* The elements after the first n.
LEMMA Trailing ==
    ASSUME NEW q \in Seq(Nat), NEW n \in 0..Len(q)
    PROVE  /\ SubSeq(q, n + 1, Len(q)) \in Seq(Nat)
           /\ Len(SubSeq(q, n + 1, Len(q))) = Len(q) - n
           /\ \A i \in 1..(Len(q) - n) : SubSeq(q, n + 1, Len(q))[i] = q[n + i]
  <1>1. Len(q) \in Nat /\ n \in Nat
    OBVIOUS
  <1> DEFINE a == n + 1
             b == Len(q)
  <1>2. a \in 1..(Len(q) + 1) /\ b \in a - 1..Len(q)
    BY <1>1
  <1>3. /\ SubSeq(q, a, b) \in Seq(Nat)
        /\ Len(SubSeq(q, a, b)) = IF a <= b THEN b - a + 1 ELSE 0
        /\ \A i \in 1..(b - a + 1) : SubSeq(q, a, b)[i] = q[a + i - 1]
    <2> HIDE DEF a, b
    <2> QED BY <1>1, <1>2, SubSeqProperties
  <1>4. ASSUME NEW i \in 1..(Len(q) - n) PROVE SubSeq(q, a, b)[i] = q[n + i]
    <2>1. i \in 1..(b - a + 1) /\ a + i - 1 = n + i
      BY <1>1
    <2> HIDE DEF a, b
    <2> QED BY <1>3, <2>1
  <1> QED BY <1>1, <1>3, <1>4

\* A number is written with one byte at least.
LEMMA CodeBytes ==
    ASSUME NEW v \in Nat
    PROVE  IsFrame(encode_leb128_u64[v])
  <1> DEFINE T == {u \in Nat : ~IsFrame(encode_leb128_u64[u])}
  <1>1. SUFFICES ASSUME T # {} PROVE FALSE
    OBVIOUS
  <1>2. PICK u \in T : \A x \in T : u <= x
    <2>1. T \in SUBSET Nat
      OBVIOUS
    <2> HIDE DEF T
    <2> QED BY <2>1, <1>1, LeastNumber
  <1>3. u \in Nat /\ ~IsFrame(encode_leb128_u64[u]) /\ Continue \in Nat
    BY ByteSize
  <1>4. CASE u < Continue
    <2>1. encode_leb128_u64[u] = <<u>>
      BY <1>3, <1>4, EncodedLow
    <2> QED BY <1>3, <2>1 DEF IsFrame
  <1>5. CASE u >= Continue
    <2> DEFINE w == u \div Continue
               f == encode_leb128_u64[w]
               x == Continue + (u % Continue)
    <2>1. w \in Nat /\ w < u /\ x \in Nat
      BY <1>3, <1>5, Shifted, ByteSize
    <2>2. w \notin T
      BY <2>1, <1>2, <1>3
    <2>3. f \in Seq(Nat) /\ Len(f) \in Nat
      BY <2>1, <2>2 DEF IsFrame
    <2>4. encode_leb128_u64[u] = <<x>> \o f
      BY <1>3, <1>5, EncodedHigh
    <2> HIDE DEF f, x
    <2>5. <<x>> \o f \in Seq(Nat) /\ Len(<<x>> \o f) = 1 + Len(f)
      BY <2>1, <2>3, Preceded
    <2> QED BY <1>3, <2>3, <2>4, <2>5 DEF IsFrame
  <1> QED BY <1>3, <1>4, <1>5

\* The bytes b of the number v were read: they count for l, and the others
\* for as many 2^s.
Left(b, l, s, v) ==
    /\ b \in Seq(Nat) /\ l \in Nat /\ s \in 0..Bits64
    /\ \E u \in Nat \ {0} :
           encode_leb128_u64[v] = b \o encode_leb128_u64[u] /\ v = l + u * 2^s

\* Division with a remainder.
LEMMA Divided ==
    ASSUME NEW c \in Nat, c >= 2, NEW u \in Nat,
           NEW q \in Nat, q = u \div c, NEW r \in Nat, r = u % c
    PROVE  u = q * c + r
  OBVIOUS

\* Groups of a number.
LEMMA Groups ==
    ASSUME NEW c \in Nat, c >= 2, NEW u \in Nat,
           NEW q, q = u \div c, NEW r, r = u % c
    PROVE  /\ q \in Nat /\ r \in 0..(c - 1) /\ u = q * c + r
           /\ u >= c => q # 0
           /\ u < c => r = u
           /\ (c + r) % c = r
  <1>1. q \in Nat /\ r \in 0..(c - 1) /\ r \in Nat
    OBVIOUS
  <1>2. u >= c => q # 0
    OBVIOUS
  <1>3. u < c => r = u
    OBVIOUS
  <1>4. (c + r) % c = r
    <2>1. \A y \in 0..(c - 1) : (c + y) % c = y
      OBVIOUS
    <2> QED BY <1>1, <2>1
  <1>5. u = q * c + r
    BY <1>1, Divided
  <1> QED BY <1>1, <1>2, <1>3, <1>4, <1>5

\* Powers of two up to the width of a word.
LEMMA Powers ==
    ASSUME NEW s \in 0..Bits64
    PROVE  /\ 2^s \in Nat \ {0} /\ 2^(s + Group) \in Nat \ {0}
           /\ 2^(s + Group) = 2^s * Continue
           /\ s + Group > Bits64 => 2^(s + Group) >= 2^Bits64
  <1>1. Group \in 0..Bits64 /\ Bits64 \in 0..Bits64 /\ Group \in Nat /\ Bits64 \in Nat
    BY LebAssumption
  <1>2. /\ 2^s \in Nat \ {0} /\ Continue \in Nat \ {0} /\ 2^Bits64 \in Nat \ {0}
        /\ 2^(s + Group) = 2^s * Continue
    BY <1>1, PowersAssumption, Zenon DEF Continue
  <1>3. 2^(s + Group) \in Nat \ {0}
    <2>1. \A a, b \in Nat \ {0} : a * b \in Nat \ {0}
      OBVIOUS
    <2> QED BY <1>2, <2>1
  <1>4. ASSUME s + Group > Bits64 PROVE 2^(s + Group) >= 2^Bits64
    <2> DEFINE k == s + Group - Bits64
    <2>1. k \in 0..Bits64 /\ Bits64 + k = s + Group
      BY <1>1, <1>4
    <2> HIDE DEF k
    <2>2. 2^k \in Nat \ {0} /\ 2^(Bits64 + k) = 2^Bits64 * 2^k
      BY <1>1, <2>1, PowersAssumption, Zenon
    <2>3. \A a, b \in Nat \ {0} : a * b >= a
      OBVIOUS
    <2> QED BY <1>2, <2>1, <2>2, <2>3
  <1> QED BY <1>2, <1>3, <1>4

\* One more group of a number: its low bits count for 2^s.
LEMMA GroupTaken ==
    ASSUME NEW c \in Nat, c >= 2, NEW u \in Nat, NEW q \in Nat, NEW r \in Nat,
           u = q * c + r, NEW p \in Nat, NEW l \in Nat
    PROVE  l + u * p = (l + r * p) + q * (p * c)
  <1>1. (q * c + r) * p = (q * c) * p + r * p
    OBVIOUS
  <1>2. (q * c) * p = q * (p * c)
    OBVIOUS
  <1>3. q * c \in Nat /\ r * p \in Nat /\ q * (p * c) \in Nat
    <2>1. \A a, b \in Nat : a * b \in Nat
      OBVIOUS
    <2>2. p * c \in Nat
      BY <2>1
    <2> QED BY <2>1, <2>2
  <1> QED BY <1>1, <1>2, <1>3

\* The byte x is next of the number v, after b.
NextByte(v, b, l, s, x) ==
    LET m == l + (x % Continue) * 2^s IN
    /\ x \in Nat /\ Len(b) < Len(encode_leb128_u64[v])
    /\ \A i \in 1..Len(b) : b[i] = encode_leb128_u64[v][i]
    /\ x < Continue => m = v /\ encode_leb128_u64[v] = b \o <<x>>
    /\ x >= Continue => Left(b \o <<x>>, m, s + Group, v)

\* The next byte of a number says whether it is the last, and what to add.
LEMMA PrefixByte ==
    ASSUME NEW v \in Nat, v < 2^Bits64, NEW b, NEW l, NEW s, Left(b, l, s, v),
           NEW x, x = encode_leb128_u64[v][Len(b) + 1]
    PROVE  NextByte(v, b, l, s, x)
  <1> DEFINE e == encode_leb128_u64
             m == l + (x % Continue) * 2^s
  <1>1. /\ b \in Seq(Nat) /\ l \in Nat /\ s \in 0..Bits64 /\ Len(b) \in Nat
        /\ Continue \in Nat /\ Continue >= 2
    BY ByteSize DEF Left
  <1>2. PICK u \in Nat \ {0} : e[v] = b \o e[u] /\ v = l + u * 2^s
    BY DEF Left
  <1> DEFINE q == u \div Continue
             r == u % Continue
  <1>3. /\ q \in Nat /\ r \in 0..(Continue - 1) /\ u = q * Continue + r
        /\ u >= Continue => q # 0
        /\ u < Continue => r = u
        /\ (Continue + r) % Continue = r
    BY <1>1, Groups
  <1>4. /\ 2^s \in Nat \ {0} /\ 2^(s + Group) \in Nat \ {0}
        /\ 2^(s + Group) = 2^s * Continue
        /\ s + Group > Bits64 => 2^(s + Group) >= 2^Bits64
    BY <1>1, Powers
  <1>5. v = (l + r * 2^s) + q * 2^(s + Group) /\ l + r * 2^s \in Nat
    <2>1. r \in Nat /\ u \in Nat /\ 2^s \in Nat
      BY <1>3, <1>4
    <2> HIDE DEF q, r
    <2>2. l + u * 2^s = (l + r * 2^s) + q * (2^s * Continue)
      BY <1>1, <1>3, <2>1, GroupTaken
    <2>3. \A a, c, d \in Nat : a + c * d \in Nat
      OBVIOUS
    <2>4. l + r * 2^s \in Nat
      BY <1>1, <2>1, <2>3
    <2> QED BY <1>2, <1>4, <2>2, <2>4, Zenon
  <1>6. /\ e[u] \in Seq(Nat) /\ Len(e[u]) \in Nat \ {0}
        /\ e[q] \in Seq(Nat)
    BY <1>3, CodeBytes DEF IsFrame
  <1> HIDE DEF q, r, e
  <1>7. Len(e[v]) = Len(b) + Len(e[u]) /\ e[v][Len(b) + 1] = e[u][1]
        /\ \A i \in 1..Len(b) : e[v][i] = b[i]
    <2>1. /\ Len(e[v]) = Len(b) + Len(e[u])
          /\ \A i \in 1..(Len(b) + Len(e[u])) :
                 e[v][i] = IF i <= Len(b) THEN b[i] ELSE e[u][i - Len(b)]
      BY <1>1, <1>2, <1>6, ConcatProperties
    <2>2. Len(b) + 1 \in 1..(Len(b) + Len(e[u])) /\ ~(Len(b) + 1 <= Len(b))
          /\ (Len(b) + 1) - Len(b) = 1
      BY <1>1, <1>6
    <2>3. ASSUME NEW i \in 1..Len(b) PROVE i \in 1..(Len(b) + Len(e[u])) /\ i <= Len(b)
      BY <1>1, <1>6
    <2> QED BY <2>1, <2>2, <2>3
  <1>8. x = e[u][1]
    BY <1>7 DEF e
  <1>12. Len(b) < Len(e[v]) /\ \A i \in 1..Len(b) : b[i] = e[v][i]
    <2>1. Len(b) < Len(b) + Len(e[u])
      BY <1>1, <1>6
    <2> QED BY <1>7, <2>1, Zenon
  <1>9. CASE u < Continue
    <2>1. e[u] = <<u>> /\ r = u /\ q = 0
      <3>1. e[u] = <<u>> /\ r = u
        BY <1>3, <1>9, EncodedLow DEF e
      <3>2. \A c, d \in Nat : d * c = 0 /\ c >= 2 => d = 0
        OBVIOUS
      <3>3. q * Continue = 0
        <4>1. \A a, d \in Nat : a * d \in Nat
          OBVIOUS
        <4>2. q * Continue \in Nat
          BY <1>1, <1>3, <4>1
        <4> QED BY <1>3, <3>1, <4>2
      <3> QED BY <1>1, <1>3, <3>1, <3>2, <3>3
    <2>2. x = u /\ x % Continue = u
      <3>1. x = u
        BY <1>8, <2>1
      <3> QED BY <2>1, <3>1 DEF r
    <2>3. m = v
      <3>1. q * 2^(s + Group) = 0
        BY <1>4, <2>1
      <3>2. m = l + r * 2^s
        BY <2>1, <2>2
      <3> HIDE DEF m
      <3> QED BY <1>5, <3>1, <3>2
    <2>4. e[v] = b \o <<x>>
      BY <1>2, <2>1, <2>2, Zenon
    <2>5. x \in Nat /\ ~(x >= Continue)
      BY <1>1, <1>9, <2>2
    <2> HIDE DEF m
    <2> QED BY <1>12, <2>3, <2>4, <2>5, Zenon DEF e, m, NextByte
  <1>10. CASE u >= Continue
    <2>1. e[u] = <<Continue + r>> \o e[q] /\ q # 0
      BY <1>3, <1>10, EncodedHigh DEF e, q, r
    <2>2. Continue + r \in Nat /\ Continue + r >= Continue
      BY <1>1, <1>3
    <2>3. x = Continue + r
      BY <1>6, <1>8, <2>1, <2>2, Preceded
    <2>4. m = l + r * 2^s
      BY <1>3, <2>3
    <2>5. e[v] = (b \o <<x>>) \o e[q] /\ b \o <<x>> \in Seq(Nat)
      <3>1. <<x>> \in Seq(Nat)
        BY <2>2, <2>3
      <3>2. (b \o <<x>>) \o e[q] = b \o (<<x>> \o e[q])
        <4> DEFINE t == <<x>>
                   f == e[q]
        <4>1. b \in Seq(Nat) /\ t \in Seq(Nat) /\ f \in Seq(Nat)
          BY <1>1, <1>6, <3>1
        <4> HIDE DEF t, f
        <4>2. (b \o t) \o f = b \o (t \o f)
          BY <4>1, Joined, Zenon
        <4> QED BY <4>2 DEF t, f
      <3>3. b \o <<x>> \in Seq(Nat)
        BY <1>1, <3>1, ConcatProperties, Zenon
      <3>4. e[v] = b \o (<<x>> \o e[q])
        BY <1>2, <2>1, <2>3, Zenon
      <3> QED BY <3>2, <3>3, <3>4, Zenon
    <2>6. s + Group \in 0..Bits64
      <3>1. q * 2^(s + Group) >= 2^(s + Group) /\ q * 2^(s + Group) \in Nat
        <4>1. \A a, c \in Nat \ {0} : a * c >= c /\ a * c \in Nat
          OBVIOUS
        <4> QED BY <1>3, <1>4, <2>1, <4>1
      <3> DEFINE y == q * 2^(s + Group)
                 z == 2^(s + Group)
                 w == l + r * 2^s
                 t == 2^Bits64
      <3>2. v = w + y /\ w \in Nat /\ y \in Nat /\ y >= z /\ z \in Nat /\ v < t /\ t \in Nat
        BY <1>4, <1>5, <3>1, ByteSize
      <3>3. s + Group > Bits64 => z >= t
        BY <1>4
      <3> HIDE DEF y, z, w, t
      <3>4. ~(s + Group > Bits64)
        BY <3>2, <3>3
      <3>5. Group \in Nat /\ Bits64 \in Nat
        BY ByteSize
      <3> QED BY <1>1, <3>4, <3>5
    <2>7. Left(b \o <<x>>, m, s + Group, v)
      <3>1. q \in Nat \ {0} /\ e[v] = (b \o <<x>>) \o e[q] /\ v = m + q * 2^(s + Group) /\ m \in Nat
        BY <1>3, <1>5, <2>1, <2>4, <2>5, Zenon
      <3> HIDE DEF m
      <3> QED BY <2>5, <2>6, <3>1 DEF Left, e
    <2>8. x \in Nat /\ ~(x < Continue)
      BY <1>1, <2>2, <2>3
    <2> HIDE DEF m
    <2> QED BY <1>12, <2>7, <2>8, Zenon DEF e, m, NextByte
  <1>11. u < Continue \/ u >= Continue
    BY <1>1
  <1> HIDE DEF m
  <1> QED BY <1>9, <1>10, <1>11

\* f[i] is what the first i of the bytes q count for.
Weighs(q, i) == (q[i] % Continue) * 2^(Group * (i - 1))
Sums(f, q, n) == \A i \in 0..n : f[i] = IF i = 0 THEN 0 ELSE f[i - 1] + Weighs(q, i)

\* There is such a function.
LEMMA SomeSums == ASSUME NEW q PROVE \A n \in Nat : \E f : Sums(f, q, n)
  <1> DEFINE T == {n \in Nat : ~ \E f : Sums(f, q, n)}
  <1>1. SUFFICES ASSUME T # {} PROVE FALSE
    OBVIOUS
  <1>2. PICK n \in T : \A m \in T : n <= m
    <2>1. T \in SUBSET Nat
      OBVIOUS
    <2> HIDE DEF T
    <2> QED BY <2>1, <1>1, LeastNumber
  <1>3. n \in Nat /\ ~ \E f : Sums(f, q, n)
    OBVIOUS
  <1>4. \E e : \A i \in 0..(n - 1) : e[i] = IF i = 0 THEN 0 ELSE e[i - 1] + Weighs(q, i)
    <2>1. CASE n = 0
      BY <2>1
    <2>2. CASE n # 0
      <3>1. n - 1 \in Nat /\ ~(n <= n - 1)
        BY <2>2, <1>3
      <3>2. n - 1 \notin T
        BY <3>1, <1>2
      <3> QED BY <3>1, <3>2 DEF Sums
    <2> QED BY <2>1, <2>2
  <1>5. PICK e : \A i \in 0..(n - 1) : e[i] = IF i = 0 THEN 0 ELSE e[i - 1] + Weighs(q, i)
    BY <1>4
  <1> DEFINE f == [i \in 0..n |-> IF i < n THEN e[i]
                                 ELSE IF i = 0 THEN 0 ELSE e[i - 1] + Weighs(q, i)]
  <1>6. ASSUME NEW i \in 0..n
        PROVE  f[i] = IF i = 0 THEN 0 ELSE f[i - 1] + Weighs(q, i)
    <2>1. f[i] = IF i = 0 THEN 0 ELSE e[i - 1] + Weighs(q, i)
      BY <1>3, <1>5
    <2>2. i # 0 => f[i - 1] = e[i - 1]
      BY <1>3
    <2> HIDE DEF f
    <2> QED BY <2>1, <2>2
  <1>7. Sums(f, q, n)
    BY <1>6 DEF Sums
  <1> QED BY <1>7, <1>3

\* x is byte m + 1 of the k bytes of v, of which those before it were read.
Turn(v, b, l, s, x, m, k) ==
    /\ m < k /\ x \in Nat
    /\ m + 1 < k => /\ x >= Continue /\ Len(b \o <<x>>) = m + 1
                    /\ Left(b \o <<x>>, l + (x % Continue) * 2^s, s + Group, v)
    /\ m + 1 = k => x < Continue /\ l + (x % Continue) * 2^s = v

\* A byte of a number that is not the last says that there is more.
LEMMA CodeReads ==
    ASSUME NEW v \in Nat, v < 2^Bits64, NEW b, NEW l, NEW s, Left(b, l, s, v),
           NEW x, x = encode_leb128_u64[v][Len(b) + 1],
           NEW m \in Nat, Len(b) = m, NEW k, k = Len(encode_leb128_u64[v])
    PROVE  Turn(v, b, l, s, x, m, k)
  <1> DEFINE w == l + (x % Continue) * 2^s
  <1>1. /\ x \in Nat /\ m < k /\ k \in Nat /\ Continue \in Nat
        /\ x < Continue => w = v /\ encode_leb128_u64[v] = b \o <<x>>
        /\ x >= Continue => Left(b \o <<x>>, w, s + Group, v)
    <2>1. /\ x \in Nat /\ Len(b) < Len(encode_leb128_u64[v])
          /\ x < Continue => w = v /\ encode_leb128_u64[v] = b \o <<x>>
          /\ x >= Continue => Left(b \o <<x>>, w, s + Group, v)
      <3>1. NextByte(v, b, l, s, x)
        BY PrefixByte
      <3> QED BY <3>1, Zenon DEF NextByte
    <2>2. Len(encode_leb128_u64[v]) \in Nat /\ Continue \in Nat
      BY CodeBytes, ByteSize DEF IsFrame
    <2> HIDE DEF w
    <2> QED BY <2>1, <2>2
  <1> HIDE DEF w
  <1>2. b \in Seq(Nat) /\ Len(b \o <<x>>) = m + 1
    <2>1. b \in Seq(Nat)
      BY DEF Left
    <2>2. <<x>> \in Seq(Nat) /\ Len(<<x>>) = 1
      BY <1>1
    <2> QED BY <2>1, <2>2, ConcatProperties
  <1>3. x >= Continue => m + 1 < k
    <2> SUFFICES ASSUME x >= Continue PROVE m + 1 < k
      OBVIOUS
    <2>1. Left(b \o <<x>>, w, s + Group, v)
      BY <1>1
    <2> DEFINE c == b \o <<x>>
               y == encode_leb128_u64[v][Len(c) + 1]
               z == s + Group
    <2>2. Len(c) < Len(encode_leb128_u64[v])
      <3>1. Left(c, w, z, v)
        BY <2>1
      <3> HIDE DEF c, z
      <3>2. NextByte(v, c, w, z, y)
        BY <3>1, PrefixByte
      <3> QED BY <3>2, Zenon DEF NextByte
    <2> QED BY <1>2, <2>2
  <1>4. x < Continue => m + 1 = k
    BY <1>1, <1>2
  <1>5. x < Continue \/ x >= Continue
    BY <1>1
  <1>6. m + 1 < k => x >= Continue
    BY <1>1, <1>4, <1>5
  <1>7. m + 1 = k => x < Continue
    BY <1>1, <1>3, <1>5
  <1> QED BY <1>1, <1>2, <1>6, <1>7, Zenon DEF w, Turn

\* Before its first byte nothing of a number was read.
LEMMA NothingRead ==
    ASSUME NEW v \in Nat \ {0}
    PROVE  Left(<<>>, 0, 0, v)
  <1>1. encode_leb128_u64[v] \in Seq(Nat)
    BY CodeBytes DEF IsFrame
  <1>2. <<>> \in Seq(Nat) /\ encode_leb128_u64[v] = <<>> \o encode_leb128_u64[v]
    BY <1>1, ConcatEmptySeq
  <1>3. 0 \in 0..Bits64 /\ v = 0 + v * 2^0
    <2>1. 2^0 = 1 /\ Bits64 \in Nat
      BY ByteSize
    <2> QED BY <2>1
  <1> QED BY <1>2, <1>3 DEF Left

\* The bytes of a number, added up: what was read of it is its beginning,
\* and all of it makes the number.
LEMMA CodeSums ==
    ASSUME NEW v \in Nat \ {0}, v < 2^Bits64, NEW k, k = Len(encode_leb128_u64[v]),
           NEW n \in 0..k, NEW f, Sums(f, encode_leb128_u64[v], n)
    PROVE  /\ \A m \in 0..n : m < k =>
                  \E b : Left(b, f[m], Group * m, v) /\ Len(b) = m
           /\ n = k => f[n] = v
  <1> DEFINE e == encode_leb128_u64[v]
             Reached(m) == \E b : Left(b, f[m], Group * m, v) /\ Len(b) = m
             T == {m \in 0..n : m < k /\ ~Reached(m)}
  <1>1. k \in Nat \ {0} /\ n \in Nat /\ Group \in Nat
    BY CodeBytes, ByteSize DEF IsFrame
  <1>2. \A i \in 0..n : f[i] = IF i = 0 THEN 0 ELSE f[i - 1] + Weighs(e, i)
    BY DEF Sums
  <1> HIDE DEF e
  <1>3. ASSUME NEW m \in Nat, m + 1 <= n, Reached(m)
        PROVE  /\ m + 1 < k => Reached(m + 1)
               /\ m + 1 = k => f[m + 1] = v
    <2>1. PICK b : Left(b, f[m], Group * m, v) /\ Len(b) = m
      BY <1>3
    <2> DEFINE x == e[m + 1]
               w == f[m] + (x % Continue) * 2^(Group * m)
    <2>2. f[m + 1] = w
      <3>1. m + 1 \in 0..n /\ m + 1 # 0 /\ (m + 1) - 1 = m
        BY <1>1, <1>3
      <3>2. f[m + 1] = f[m] + Weighs(e, m + 1)
        BY <1>2, <3>1
      <3> QED BY <3>1, <3>2 DEF Weighs
    <2>3. /\ m + 1 < k => /\ Len(b \o <<x>>) = m + 1
                          /\ Left(b \o <<x>>, w, Group * m + Group, v)
          /\ m + 1 = k => w = v
      <3>1. x = encode_leb128_u64[v][Len(b) + 1]
        BY <2>1 DEF e
      <3> HIDE DEF x
      <3>2. Turn(v, b, f[m], Group * m, x, m, k)
        BY <2>1, <3>1, CodeReads
      <3> QED BY <3>2, Zenon DEF Turn
    <2>4. Group * m + Group = Group * (m + 1)
      BY <1>1
    <2> HIDE DEF x, w
    <2> QED BY <2>2, <2>3, <2>4, Zenon
  <1>4. Reached(0)
    <2>1. f[0] = 0 /\ Group * 0 = 0 /\ Len(<<>>) = 0
      BY <1>1, <1>2
    <2>2. Left(<<>>, 0, 0, v)
      BY NothingRead
    <2> QED BY <2>1, <2>2
  <1>5. T = {}
    <2>1. SUFFICES ASSUME T # {} PROVE FALSE
      OBVIOUS
    <2>2. PICK m \in T : \A i \in T : m <= i
      <3>1. T \in SUBSET Nat
        BY <1>1
      <3> HIDE DEF T
      <3> QED BY <2>1, <3>1, LeastNumber
    <2>3. m \in 0..n /\ m < k /\ ~Reached(m)
      BY <2>2, Zenon
    <2>4. m # 0
      BY <1>4, <2>3
    <2> DEFINE i == m - 1
    <2>5. i \in Nat /\ i \in 0..n /\ i < k /\ i + 1 = m /\ i + 1 <= n /\ ~(m <= i)
      BY <1>1, <2>3, <2>4
    <2> HIDE DEF i
    <2>6. i \notin T
      BY <2>2, <2>5
    <2>7. Reached(i)
      BY <2>5, <2>6
    <2> HIDE DEF Reached
    <2>8. Reached(m)
      BY <1>3, <2>3, <2>5, <2>7
    <2> QED BY <2>3, <2>8
  <1>6. ASSUME n = k PROVE f[n] = v
    <2> DEFINE i == n - 1
    <2>1. i \in Nat /\ i \in 0..n /\ i < k /\ i + 1 = n /\ i + 1 <= n
      BY <1>1, <1>6
    <2> HIDE DEF i
    <2>2. i \notin T
      BY <1>5
    <2>3. Reached(i)
      BY <2>1, <2>2
    <2> HIDE DEF Reached
    <2> QED BY <1>3, <1>6, <2>1, <2>3
  <1> QED BY <1>5, <1>6

\* Only the last byte of a number says that there is no more.
LEMMA CodeShape ==
    ASSUME NEW v \in Nat \ {0}, v < 2^Bits64
    PROVE  LET e == encode_leb128_u64[v] IN
           /\ IsFrame(e) /\ e[Len(e)] < Continue
           /\ \A i \in 1..(Len(e) - 1) : e[i] >= Continue
  <1> DEFINE e == encode_leb128_u64[v]
             k == Len(e)
  <1>1. IsFrame(e) /\ k \in Nat \ {0}
    BY CodeBytes DEF IsFrame
  <1>2. PICK f : Sums(f, e, k)
    BY <1>1, SomeSums
  <1>3. \A m \in 0..k : m < k => \E b : Left(b, f[m], Group * m, v) /\ Len(b) = m
    <2>1. k \in 0..k /\ k = Len(encode_leb128_u64[v]) /\ Sums(f, encode_leb128_u64[v], k)
      BY <1>1, <1>2
    <2> HIDE DEF k, e
    <2> QED BY <2>1, CodeSums
  <1> HIDE DEF e
  <1>4. ASSUME NEW i \in 1..k
        PROVE  /\ i < k => e[i] >= Continue
               /\ i = k => e[i] < Continue
    <2> DEFINE m == i - 1
    <2>1. m \in Nat /\ m \in 0..k /\ m < k /\ m + 1 = i
      BY <1>1
    <2> HIDE DEF m
    <2>2. PICK b : Left(b, f[m], Group * m, v) /\ Len(b) = m
      BY <1>3, <2>1
    <2> DEFINE x == e[i]
    <2>3. x = encode_leb128_u64[v][Len(b) + 1]
      BY <2>1, <2>2 DEF e
    <2> HIDE DEF x
    <2>4. k = Len(encode_leb128_u64[v])
      BY DEF e
    <2> HIDE DEF k
    <2>5. (m + 1 < k => x >= Continue) /\ (m + 1 = k => x < Continue)
      <3> DEFINE l == f[m]
                 s == Group * m
      <3>1. v \in Nat /\ m \in Nat /\ Left(b, l, s, v) /\ Len(b) = m
        BY <2>1, <2>2
      <3> HIDE DEF l, s
      <3>2. Turn(v, b, l, s, x, m, k)
        BY <2>3, <2>4, <3>1, CodeReads
      <3> QED BY <3>2, Zenon DEF Turn
    <2> QED BY <2>1, <2>5 DEF x
  <1>5. k \in 1..k /\ \A i \in 1..(k - 1) : i \in 1..k /\ i < k
    BY <1>1
  <1> HIDE DEF k
  <1>6. e[k] < Continue /\ \A i \in 1..(k - 1) : e[i] >= Continue
    BY <1>4, <1>5
  <1> QED BY <1>1, <1>6 DEF e, k

\* The least of a set of numbers.
LEMMA LeastIs ==
    ASSUME NEW T, NEW k \in Nat, k \in T, \A j \in T : k <= j /\ j \in Nat
    PROVE  Min(T) = k
  <1>1. \A j \in T : (\A i \in T : j <= i) => j = k
    OBVIOUS
  <1> QED BY <1>1 DEF Min

\* What the decoders add up.
LEMMA DecoderSums ==
    ASSUME NEW q, NEW n \in Nat
    PROVE  LET result[i \in 0..n] ==
                   IF i = 0 THEN 0
                   ELSE result[i - 1] + (q[i] % Continue) * 2^(Group * (i - 1))
           IN Sums(result, q, n)
  <1> DEFINE result[i \in 0..n] ==
                 IF i = 0 THEN 0
                 ELSE result[i - 1] + (q[i] % Continue) * 2^(Group * (i - 1))
  <1>1. SUFFICES Sums(result, q, n)
    OBVIOUS
  <1>2. PICK f : Sums(f, q, n)
    BY SomeSums
  <1> DEFINE h == [i \in 0..n |-> f[i]]
  <1>3. h = [i \in 0..n |-> IF i = 0 THEN 0
                ELSE h[i - 1] + (q[i] % Continue) * 2^(Group * (i - 1))]
    <2>1. ASSUME NEW i \in 0..n
          PROVE  h[i] = IF i = 0 THEN 0
                        ELSE h[i - 1] + (q[i] % Continue) * 2^(Group * (i - 1))
      <3>1. f[i] = IF i = 0 THEN 0 ELSE f[i - 1] + Weighs(q, i)
        BY <1>2 DEF Sums
      <3>2. h[i] = f[i] /\ (i # 0 => h[i - 1] = f[i - 1])
        OBVIOUS
      <3> HIDE DEF h
      <3> QED BY <3>1, <3>2, Zenon DEF Weighs
    <2>2. h = [i \in 0..n |-> h[i]]
      OBVIOUS
    <2> HIDE DEF h
    <2> QED BY <2>1, <2>2, Zenon
  <1>4. result = [i \in 0..n |-> IF i = 0 THEN 0
                     ELSE result[i - 1] + (q[i] % Continue) * 2^(Group * (i - 1))]
    <2> HIDE DEF h
    <2> QED BY <1>3
  <1> HIDE DEF result
  <1>5. ASSUME NEW i \in 0..n
        PROVE  result[i] = IF i = 0 THEN 0 ELSE result[i - 1] + Weighs(q, i)
    BY <1>4, Zenon DEF Weighs
  <1> QED BY <1>5 DEF Sums

\* Bytes that all say there is more are no number yet.
LEMMA DecodeShort ==
    ASSUME NEW q \in Seq(Nat), \A i \in 1..Len(q) : q[i] >= Continue
    PROVE  decode_leb128_u64(q).ok = FALSE
  <1>1. {i \in DOMAIN q : q[i] < Continue} = {}
    <2>1. Continue \in Nat
      BY ByteSize
    <2> QED BY <2>1
  <1>2. Len(q) + 1 > Len(q)
    OBVIOUS
  <1> QED BY <1>1, <1>2 DEF decode_leb128_u64, Err, UnexpectedEof

\* All the bytes of a number count for it.
LEMMA CodeCounts ==
    ASSUME NEW v \in Nat \ {0}, v < 2^Bits64, NEW e, e = encode_leb128_u64[v],
           NEW f, Sums(f, e, Len(e))
    PROVE  f[Len(e)] = v
  <1> DEFINE k == Len(encode_leb128_u64[v])
  <1>1. k \in 0..k /\ k = Len(encode_leb128_u64[v])
    BY CodeBytes DEF IsFrame
  <1>2. Sums(f, encode_leb128_u64[v], k)
    OBVIOUS
  <1>3. Len(e) = k
    OBVIOUS
  <1> HIDE DEF k
  <1>4. f[k] = v
    BY <1>1, <1>2, CodeSums
  <1> QED BY <1>3, <1>4

\* No number of a word is longer than what decode_leb128_u64 reads of it.
LEMMA CodeFits ==
    ASSUME NEW v \in Nat \ {0}, v < 2^Bits64
    PROVE  Len(encode_leb128_u64[v]) <= MaxLeb
  <1> DEFINE e == encode_leb128_u64[v]
             k == Len(e)
             m == k - 1
  <1>1. k \in Nat \ {0} /\ Group \in Nat \ {0} /\ Bits64 \in Nat
    BY CodeBytes, ByteSize DEF IsFrame
  <1>2. PICK f : Sums(f, e, k)
    BY <1>1, SomeSums
  <1>3. PICK b : Left(b, f[m], Group * m, v)
    <2>1. k \in 0..k /\ k = Len(encode_leb128_u64[v]) /\ Sums(f, encode_leb128_u64[v], k)
      BY <1>1, <1>2
    <2>2. m \in 0..k /\ m < k
      BY <1>1
    <2> HIDE DEF k, m, e
    <2> QED BY <2>1, <2>2, CodeSums
  <1> DEFINE s == Group * m
  <1>4. s \in 0..Bits64 /\ s # Bits64
    <2> HIDE DEF s
    <2>1. f[m] \in Nat /\ s \in 0..Bits64 /\ \E u \in Nat \ {0} : v = f[m] + u * 2^s
      BY <1>3 DEF Left, s
    <2>2. PICK u \in Nat \ {0} : v = f[m] + u * 2^s
      BY <2>1
    <2>3. \A l \in Nat, a, p \in Nat \ {0} : l + a * p >= p
      OBVIOUS
    <2>4. 2^s \in Nat \ {0} /\ 2^Bits64 \in Nat
      BY <2>1, Powers, ByteSize
    <2> DEFINE p == 2^s
               l == f[m]
    <2>5. v >= p
      <3>1. l \in Nat /\ p \in Nat \ {0} /\ v = l + u * p
        BY <2>1, <2>2, <2>4
      <3> HIDE DEF l, p
      <3> QED BY <2>3, <3>1
    <2>6. s # Bits64
      BY <2>4, <2>5
    <2> QED BY <2>1, <2>6
  <1>5. m \in Nat /\ k = m + 1 /\ Group * m <= Bits64 - 1 /\ Bits64 - 1 \in Nat
    BY <1>1, <1>4
  <1>6. \A g \in Nat \ {0}, c, d \in Nat : g * c <= d => c <= d \div g
    <2> SUFFICES ASSUME NEW g \in Nat \ {0}, NEW c \in Nat, NEW d \in Nat, g * c <= d
                 PROVE  c <= d \div g
      OBVIOUS
    <2> DEFINE q == d \div g
    <2>1. q \in Nat /\ d < g * (q + 1)
      OBVIOUS
    <2> HIDE DEF q
    <2>2. g * c < g * (q + 1)
      BY <2>1
    <2>3. c < q + 1
      BY <2>1, <2>2
    <2> QED BY <2>1, <2>3 DEF q
  <1> HIDE DEF m, k
  <1>7. m <= (Bits64 - 1) \div Group
    BY <1>1, <1>5, <1>6
  <1>8. (Bits64 - 1) \div Group \in Int
    BY <1>1, <1>5
  <1> QED BY <1>5, <1>7, <1>8 DEF MaxLeb, k, e

\* Bytes that begin with those of a number are read as that number.
LEMMA DecodeCode ==
    ASSUME NEW q \in Seq(Nat), NEW v \in Nat \ {0}, v < 2^Bits64,
           NEW e, e = encode_leb128_u64[v],
           Len(e) <= Len(q), \A i \in 1..Len(e) : q[i] = e[i]
    PROVE  decode_leb128_u64(q) = Ok(v, Rest(q, Len(e)))
  <1> DEFINE k == Len(e)
             ends == {i \in DOMAIN q : q[i] < Continue}
             result[i \in 0..k] ==
                 IF i = 0 THEN 0
                 ELSE result[i - 1] + (q[i] % Continue) * 2^(Group * (i - 1))
  <1>1. /\ k \in Nat \ {0} /\ k <= Len(q) /\ Len(q) \in Nat /\ Continue \in Nat
        /\ e[k] < Continue /\ \A i \in 1..(k - 1) : e[i] >= Continue
    <2>1. IsFrame(e) /\ e[k] < Continue /\ \A i \in 1..(k - 1) : e[i] >= Continue
      BY CodeShape
    <2> QED BY <2>1, ByteSize DEF IsFrame
  <1>2. \A i \in 1..k : q[i] = e[i] /\ i \in DOMAIN q /\ q[i] \in Nat
    BY <1>1
  <1>3. ends # {} /\ Min(ends) = k
    <2> HIDE DEF k
    <2>1. k \in ends /\ ends \subseteq Nat
      BY <1>1, <1>2
    <2>2. ASSUME NEW j \in ends PROVE k <= j
      <3>1. j \in 1..Len(q) /\ q[j] < Continue
        BY <2>2
      <3> HIDE DEF ends
      <3>2. SUFFICES ASSUME j < k PROVE FALSE
        BY <1>1, <3>1
      <3>3. j \in 1..k /\ j \in 1..(k - 1)
        BY <1>1, <3>1, <3>2
      <3>4. q[j] \in Nat /\ q[j] = e[j] /\ e[j] >= Continue
        BY <1>1, <1>2, <3>3
      <3>5. \A a, b, c \in Nat : a = b /\ b >= c => ~(a < c)
        OBVIOUS
      <3> QED BY <1>1, <3>1, <3>4, <3>5
    <2> HIDE DEF ends
    <2> QED BY <1>1, <2>1, <2>2, LeastIs
  <1>4. decode_leb128_u64(q) = Ok(AsUnsigned(result[k], Bits64), Rest(q, k))
    <2>1. ~(k > MaxLeb) /\ ~(k > Len(q))
      <3>1. k <= MaxLeb /\ MaxLeb \in Int
        BY CodeFits, ByteSize DEF MaxLeb
      <3> QED BY <1>1, <3>1
    <2> HIDE DEF k
    <2> QED BY <1>3, <2>1 DEF decode_leb128_u64
  <1>5. Sums(result, q, k)
    BY <1>1, DecoderSums
  <1> HIDE DEF result, ends
  <1>6. Sums(result, e, k)
    <2>1. ASSUME NEW i \in 0..k
          PROVE  result[i] = IF i = 0 THEN 0 ELSE result[i - 1] + Weighs(e, i)
      <3>1. i # 0 => i \in 1..k
        BY <1>1
      <3>2. i # 0 => Weighs(q, i) = Weighs(e, i)
        BY <1>2, <3>1, Zenon DEF Weighs
      <3>3. result[i] = IF i = 0 THEN 0 ELSE result[i - 1] + Weighs(q, i)
        BY <1>5 DEF Sums
      <3> QED BY <3>2, <3>3, Zenon
    <2> QED BY <2>1 DEF Sums
  <1>7. result[k] = v
    BY <1>6, CodeCounts
  <1>8. AsUnsigned(v, Bits64) = v
    BY ByteSize DEF AsUnsigned
  <1> QED BY <1>4, <1>7, <1>8

\* Every number of a word is read as it was written, whatever follows it,
\* and what follows it is left: the lengths of packets and of messages, and
\* the codes of errors, of calls over every transport.
THEOREM LebRoundTrip ==
    \A v \in 0..(2^Bits64 - 1), t \in Seq(Nat) :
        decode_leb128_u64(encode_leb128_u64[v] \o t) = Ok(v, t)
  <1> SUFFICES ASSUME NEW v \in 0..(2^Bits64 - 1), NEW t \in Seq(Nat)
               PROVE  decode_leb128_u64(encode_leb128_u64[v] \o t) = Ok(v, t)
    OBVIOUS
  <1> DEFINE e == encode_leb128_u64[v]
             q == e \o t
  <1>1. /\ v \in Nat /\ v < 2^Bits64
        /\ e \in Seq(Nat) /\ Len(e) \in Nat \ {0} /\ Len(t) \in Nat
    BY CodeBytes, ByteSize DEF IsFrame
  <1> HIDE DEF e
  <1>2. /\ q \in Seq(Nat) /\ Len(q) = Len(e) + Len(t)
        /\ \A i \in 1..(Len(e) + Len(t)) : q[i] = IF i <= Len(e) THEN e[i] ELSE t[i - Len(e)]
    BY <1>1, ConcatProperties
  <1> HIDE DEF q
  <1>3. Rest(q, Len(e)) = t
    <2> DEFINE n == Len(e)
               r == SubSeq(q, n + 1, Len(q))
    <2>1. n \in 0..Len(q) /\ n \in Nat
      BY <1>1, <1>2
    <2> HIDE DEF n
    <2>2. r \in Seq(Nat) /\ Len(r) = Len(q) - n /\ \A i \in 1..(Len(q) - n) : r[i] = q[n + i]
      BY <1>2, <2>1, Trailing
    <2>3. Len(r) = Len(t)
      BY <1>1, <1>2, <2>1, <2>2 DEF n
    <2>4. ASSUME NEW i \in 1..Len(t) PROVE r[i] = t[i]
      <3>1. r[i] = q[n + i]
        BY <2>2, <2>3
      <3>2. n + i \in 1..(n + Len(t)) /\ ~(n + i <= n) /\ (n + i) - n = i
        BY <1>1, <2>1
      <3> QED BY <1>2, <3>1, <3>2 DEF n
    <2> HIDE DEF r
    <2>5. r = t
      BY <2>2, <2>3, <2>4, SeqEqual
    <2> QED BY <2>5 DEF Rest, r, n
  <1>4. Len(e) <= Len(q) /\ \A i \in 1..Len(e) : q[i] = e[i]
    BY <1>1, <1>2
  <1>5. CASE v # 0
    <2>1. decode_leb128_u64(q) = Ok(v, Rest(q, Len(e)))
      BY <1>1, <1>2, <1>4, <1>5, DecodeCode DEF e
    <2> QED BY <1>3, <2>1 DEF q, e
  <1>6. CASE v = 0
    <2>1. e = <<0>> /\ Len(e) = 1 /\ q[1] = 0 /\ Continue \in Nat /\ Continue >= 2
      <3>1. Continue \in Nat /\ Continue >= 2
        BY ByteSize
      <3>2. encode_leb128_u64[0] = <<0>>
        BY <3>1, EncodedLow
      <3>3. e = <<0>> /\ Len(e) = 1 /\ e[1] = 0
        BY <1>6, <3>2 DEF e
      <3> QED BY <1>4, <3>1, <3>3
    <2> DEFINE ends == {i \in DOMAIN q : q[i] < Continue}
               result[i \in 0..1] ==
                   IF i = 0 THEN 0
                   ELSE result[i - 1] + (q[i] % Continue) * 2^(Group * (i - 1))
    <2>2. ends # {} /\ Min(ends) = 1
      <3>1. 1 \in ends /\ \A j \in ends : 1 <= j /\ j \in Nat
        BY <1>1, <1>2, <2>1
      <3> HIDE DEF ends
      <3> QED BY <3>1, LeastIs
    <2>3. 1 <= MaxLeb /\ MaxLeb \in Int
      <3>1. \A b, g \in Nat : g >= 1 /\ b > g => (b - 1) \div g \in Nat
        OBVIOUS
      <3> QED BY <3>1, ByteSize, LebAssumption DEF MaxLeb
    <2>4. decode_leb128_u64(q) = Ok(AsUnsigned(result[1], Bits64), Rest(q, 1))
      <3>1. ~(1 > MaxLeb) /\ ~(1 > Len(q))
        BY <1>1, <1>4, <2>1, <2>3
      <3> QED BY <2>2, <3>1 DEF decode_leb128_u64
    <2>5. Sums(result, q, 1)
      BY DecoderSums
    <2> HIDE DEF result
    <2>6. result[1] = 0
      <3>1. result[0] = 0 /\ result[1] = result[0] + Weighs(q, 1)
        <4>1. 0 \in 0..1 /\ 1 \in 0..1 /\ 1 # 0 /\ 1 - 1 = 0
          OBVIOUS
        <4> QED BY <2>5, <4>1, Zenon DEF Sums
      <3>2. Weighs(q, 1) = 0
        <4>1. 0 % Continue = 0 /\ Group * (1 - 1) = 0 /\ 2^0 = 1
          BY <2>1, ByteSize
        <4> QED BY <2>1, <4>1 DEF Weighs
      <3> QED BY <3>1, <3>2
    <2>7. AsUnsigned(0, Bits64) = 0
      BY ByteSize DEF AsUnsigned
    <2> QED BY <1>3, <1>6, <2>1, <2>4, <2>6, <2>7 DEF q, e
  <1> QED BY <1>5, <1>6

\* The codes of errors take two bytes at most.
LEMMA SmallCodes ==
    ASSUME NEW v \in 1..3
    PROVE  /\ encode_leb128_u64[v] \in Seq(Nat) /\ Len(encode_leb128_u64[v]) \in 1..2
           /\ v = 1 => Len(encode_leb128_u64[v]) = 1
  <1>1. Continue \in Nat /\ Continue >= 2
    BY ByteSize
  <1>2. CASE v < Continue
    <2>1. encode_leb128_u64[v] = <<v>>
      BY <1>2, EncodedLow
    <2> QED BY <2>1
  <1>3. CASE v >= Continue
    <2> DEFINE w == v \div Continue
               x == Continue + (v % Continue)
    <2>1. w = 1 /\ x \in Nat /\ v # 1 /\ w < Continue
      <3>1. Continue \in {2, 3}
        BY <1>1, <1>3
      <3> QED BY <1>3, <3>1
    <2>2. encode_leb128_u64[v] = <<x>> \o <<1>>
      <3>1. encode_leb128_u64[1] = <<1>>
        BY <2>1, EncodedLow
      <3>2. v \in Nat /\ v \div Continue = 1
        BY <2>1
      <3> QED BY <1>3, <3>1, <3>2, EncodedHigh, Zenon
    <2> HIDE DEF x, w
    <2>3. <<1>> \in Seq(Nat) /\ Len(<<1>>) = 1
      OBVIOUS
    <2>4. <<x>> \o <<1>> \in Seq(Nat) /\ Len(<<x>> \o <<1>>) = 2
      BY <2>1, <2>3, Preceded
    <2> QED BY <2>1, <2>2, <2>4
  <1> QED BY <1>1, <1>2, <1>3

-----------------------------------------------------------------------------
(* Messages and frames. *)

\* What a service method makes, and the message of a stream that tells it.
HttpOutcomes == {Value("response", 0), Value("end", 0)}
                \cup {Value("item", n) : n \in 1..MaxItems}
                \cup {Value("error", c) : c \in 1..3}

StreamOutcomes == HttpOutcomes \ {Value("response", 0)}

MessageOf(o) ==
    CASE o.type = "item" -> <<STREAM_ITEM, o.body>>
      [] o.type = "end" -> <<STREAM_END>>
      [] OTHER -> <<STREAM_ERROR>> \o ErrorBody(o.body)

Messages == {s \in Seq(Nat) : Len(s) \in 1..5}

\* The kinds of outcomes of a stream.
LEMMA StreamOutcome ==
    ASSUME NEW o \in StreamOutcomes
    PROVE  \/ o = Value("end", 0)
           \/ \E n \in 1..MaxItems : o = Value("item", n)
           \/ \E c \in 1..3 : o = Value("error", c)
  BY DEF StreamOutcomes, HttpOutcomes

\* The bytes of an error, and the code that is read from them.
LEMMA ErrorBytes ==
    ASSUME NEW c \in 1..3
    PROVE  /\ ErrorBody(c) \in Seq(Nat) /\ Len(ErrorBody(c)) \in 3..4
           /\ decode_leb128_u64(ErrorBody(c)).ok
           /\ decode_leb128_u64(ErrorBody(c)).v = c
  <1> DEFINE e == encode_leb128_u64[c]
             w == encode_leb128_u64[1]
             b == (e \o w) \o <<1>>
  <1>1. w \in Seq(Nat) /\ Len(w) = 1
    BY SmallCodes, 1 \in 1..3
  <1>2. e \in Seq(Nat) /\ Len(e) \in 1..2
    BY SmallCodes
  <1> HIDE DEF e, w
  <1>3. /\ e \o w \in Seq(Nat) /\ Len(e \o w) = Len(e) + Len(w)
        /\ \A i \in 1..(Len(e) + Len(w)) : (e \o w)[i] = IF i <= Len(e) THEN e[i] ELSE w[i - Len(e)]
    BY <1>1, <1>2, ConcatProperties
  <1> DEFINE u == e \o w
             t == <<1>>
  <1>4. t \in Seq(Nat) /\ Len(t) = 1
    OBVIOUS
  <1>5. /\ u \o t \in Seq(Nat) /\ Len(u \o t) = Len(e) + 2
        /\ \A i \in 1..Len(e) : (u \o t)[i] = e[i]
    <2> HIDE DEF t
    <2>1. u \in Seq(Nat) /\ Len(u) = Len(e) + 1 /\ \A i \in 1..Len(e) : u[i] = e[i]
      BY <1>1, <1>2, <1>3
    <2> HIDE DEF u
    <2>2. /\ u \o t \in Seq(Nat) /\ Len(u \o t) = Len(u) + Len(t)
          /\ \A i \in 1..(Len(u) + Len(t)) : (u \o t)[i] = IF i <= Len(u) THEN u[i] ELSE t[i - Len(u)]
      BY <2>1, <1>4, ConcatProperties
    <2> QED BY <2>1, <2>2, <1>2, <1>4
  <1>6. ErrorBody(c) = b
    BY DEF ErrorBody, e, w
  <1>7. decode_leb128_u64(b) = [ok |-> TRUE, v |-> c, rest |-> Rest(b, Len(e))]
    <2>1. /\ b \in Seq(Nat) /\ Len(e) <= Len(b)
          /\ \A i \in 1..Len(e) : b[i] = e[i]
      BY <1>2, <1>5
    <2>2. c \in Nat \ {0} /\ c < 2^Bits64 /\ e = encode_leb128_u64[c]
      BY ByteSize DEF e
    <2> HIDE DEF b
    <2> QED BY <2>1, <2>2, DecodeCode DEF Ok
  <1> HIDE DEF b
  <1>8. b \in Seq(Nat) /\ Len(b) \in 3..4
    <2>1. b \in Seq(Nat) /\ Len(b) = Len(e) + 2
      BY <1>5, Zenon DEF b
    <2>2. Len(e) + 2 \in 3..4
      <3> DEFINE n == Len(e)
      <3>1. n \in 1..2
        BY <1>2
      <3> HIDE DEF n
      <3>2. n + 2 \in 3..4
        BY <3>1
      <3> QED BY <3>2 DEF n
    <2> QED BY <2>1, <2>2
  <1> QED BY <1>6, <1>7, <1>8

\* A message has five bytes at most, and is read as what it tells.
LEMMA MessageBytes ==
    ASSUME NEW o \in StreamOutcomes
    PROVE  MessageOf(o) \in Messages /\ EventOf(MessageOf(o)) = Contract!Seen(o)
  <1>1. CASE o = Value("end", 0)
    <2>1. MessageOf(o) = <<2>>
      BY <1>1 DEF MessageOf, Value, STREAM_END
    <2>2. <<2>> \in Messages /\ EventOf(<<2>>) = Closed
      BY DEF Messages, EventOf, STREAM_ITEM, STREAM_END, STREAM_ERROR
    <2>3. Contract!Seen(o) = Closed
      BY <1>1 DEF Contract!Seen, Value
    <2> QED BY <2>1, <2>2, <2>3
  <1>2. ASSUME NEW n \in 1..MaxItems, o = Value("item", n)
        PROVE  MessageOf(o) \in Messages /\ EventOf(MessageOf(o)) = Contract!Seen(o)
    <2>0. n \in Nat
      BY HttpAssumption, ByteSize
    <2>1. MessageOf(o) = <<1, n>>
      BY <1>2 DEF MessageOf, Value, STREAM_ITEM
    <2>2. <<1, n>> \in Messages /\ EventOf(<<1, n>>) = Value("item", n)
      BY <2>0 DEF Messages, EventOf, STREAM_ITEM, STREAM_END, STREAM_ERROR
    <2>3. Contract!Seen(o) = Value("item", n)
      BY <1>2 DEF Contract!Seen, Value
    <2> QED BY <2>1, <2>2, <2>3
  <1>3. ASSUME NEW c \in 1..3, o = Value("error", c)
        PROVE  MessageOf(o) \in Messages /\ EventOf(MessageOf(o)) = Contract!Seen(o)
    <2> DEFINE b == ErrorBody(c)
               m == <<3>> \o b
    <2>1. MessageOf(o) = m
      BY <1>3 DEF MessageOf, Value, STREAM_ERROR
    <2>2. b \in Seq(Nat) /\ Len(b) \in 3..4 /\ decode_leb128_u64(b).v = c
      BY ErrorBytes
    <2> HIDE DEF b
    <2>3. m \in Seq(Nat) /\ Len(m) = 1 + Len(b) /\ m[1] = 3 /\ \A i \in 1..Len(b) : m[1 + i] = b[i]
      BY <2>2, Preceded
    <2> HIDE DEF m
    <2>4. Tail(m) = b
      <3>1. /\ Tail(m) \in Seq(Nat) /\ Len(Tail(m)) = Len(m) - 1
            /\ \A i \in 1..Len(Tail(m)) : Tail(m)[i] = m[i + 1]
        BY <2>2, <2>3, HeadTailProperties
      <3>2. Len(Tail(m)) = Len(b)
        BY <2>2, <2>3, <3>1
      <3>3. ASSUME NEW i \in 1..Len(b) PROVE Tail(m)[i] = b[i]
        <4>1. Tail(m)[i] = m[i + 1] /\ i + 1 = 1 + i
          BY <3>1, <3>2
        <4> QED BY <4>1, <2>3
      <3> QED BY <2>2, <3>1, <3>2, <3>3, SeqEqual
    <2>5. EventOf(m) = Value("error", c)
      <3>1. EventOf(m) = Value("error", decode_leb128_u64(Tail(m)).v)
        BY <2>3 DEF EventOf, STREAM_ITEM, STREAM_END, STREAM_ERROR
      <3> QED BY <2>2, <2>4, <3>1
    <2>6. Contract!Seen(o) = Value("error", c)
      BY <1>3 DEF Contract!Seen, Value
    <2>7. m \in Messages
      <3> DEFINE n == Len(b)
      <3>1. n \in 3..4
        BY <2>2
      <3>2. Len(m) = 1 + n /\ m \in Seq(Nat)
        BY <2>3
      <3> HIDE DEF n
      <3>3. Len(m) \in 1..5
        BY <3>1, <3>2
      <3> QED BY <3>2, <3>3 DEF Messages
    <2> QED BY <2>1, <2>5, <2>6, <2>7
  <1> QED BY <1>1, <1>2, <1>3, StreamOutcome

\* A frame is the length of its message, then the message.
LEMMA FrameBytes ==
    ASSUME NEW m \in Messages
    PROVE  LET e == encode_leb128_u64[Len(m)] IN
           /\ Len(m) \in 1..5 /\ Len(m) < 2^Bits64
           /\ Len(e) \in Nat \ {0} /\ e \in Seq(Nat)
           /\ \A i \in 1..(Len(e) - 1) : e[i] >= Continue
           /\ StreamFrame(m) \in Seq(Nat) /\ Len(StreamFrame(m)) = Len(e) + Len(m)
           /\ \A i \in 1..Len(e) : StreamFrame(m)[i] = e[i]
           /\ \A j \in 1..Len(m) : StreamFrame(m)[Len(e) + j] = m[j]
  <1> DEFINE e == encode_leb128_u64[Len(m)]
  <1>1. m \in Seq(Nat) /\ Len(m) \in 1..5
    BY DEF Messages
  <1>2. Len(m) \in Nat \ {0} /\ Len(m) < 2^Bits64
    <2>1. 2^Bits64 \in Nat /\ 2^Bits64 > 5
      BY ByteSize
    <2>2. \A w \in Nat, n \in 1..5 : w > 5 => n \in Nat \ {0} /\ n < w
      OBVIOUS
    <2> HIDE DEF e
    <2> QED BY <1>1, <2>1, <2>2, Zenon
  <1>3. e \in Seq(Nat) /\ Len(e) \in Nat \ {0} /\ \A i \in 1..(Len(e) - 1) : e[i] >= Continue
    BY <1>2, CodeShape DEF IsFrame
  <1> HIDE DEF e
  <1>4. /\ e \o m \in Seq(Nat) /\ Len(e \o m) = Len(e) + Len(m)
        /\ \A i \in 1..(Len(e) + Len(m)) : (e \o m)[i] = IF i <= Len(e) THEN e[i] ELSE m[i - Len(e)]
    BY <1>1, <1>3, ConcatProperties
  <1>5. StreamFrame(m) = e \o m
    BY DEF StreamFrame, e
  <1>6. ASSUME NEW i \in 1..Len(e) PROVE StreamFrame(m)[i] = e[i]
    BY <1>1, <1>3, <1>4, <1>5
  <1>7. ASSUME NEW j \in 1..Len(m) PROVE StreamFrame(m)[Len(e) + j] = m[j]
    BY <1>1, <1>3, <1>4, <1>5
  <1> QED BY <1>1, <1>2, <1>3, <1>4, <1>5, <1>6, <1>7 DEF e

\* Nothing, or a part of a frame, is no message yet; a frame is read as its
\* message, and what comes after it is left.
LEMMA FrameRead ==
    ASSUME buf \in Seq(Nat), NEW m \in Messages,
           \A i \in 1..Len(buf) : i <= Len(StreamFrame(m)) => buf[i] = StreamFrame(m)[i]
    PROVE  /\ Len(buf) < Len(StreamFrame(m)) => ~WholeMessage
           /\ Len(buf) >= Len(StreamFrame(m)) =>
                 /\ WholeMessage /\ Message = m
                 /\ Rest(Length.rest, Length.v) = Rest(buf, Len(StreamFrame(m)))
  <1> DEFINE e == encode_leb128_u64[Len(m)]
             f == StreamFrame(m)
             k == Len(e)
             l == Len(m)
  <1>1. /\ l < 2^Bits64 /\ k \in Nat \ {0} /\ e \in Seq(Nat)
        /\ \A i \in 1..(k - 1) : e[i] >= Continue
        /\ f \in Seq(Nat) /\ Len(f) = k + l
        /\ \A i \in 1..k : f[i] = e[i]
        /\ \A j \in 1..l : f[k + j] = m[j]
    BY FrameBytes
  <1>2. m \in Seq(Nat) /\ l \in 1..5 /\ Len(buf) \in Nat /\ Len(f) \in Nat
    BY <1>1 DEF Messages
  <1>3. \A i \in 1..Len(buf) : i <= Len(f) => buf[i] = f[i]
    OBVIOUS
  <1>6. k = Len(e) /\ l = Len(m) /\ f = StreamFrame(m)
    OBVIOUS
  <1> HIDE DEF e, f, l, k
  <1>4. CASE Len(buf) < k
    <2>1. ASSUME NEW i \in 1..Len(buf) PROVE buf[i] >= Continue
      <3>1. i \in 1..(k - 1) /\ i \in 1..k /\ i <= Len(f)
        <4>1. k \in Nat \ {0} /\ Len(f) = k + l /\ l \in 1..5
          BY <1>1, <1>2
        <4>2. Len(buf) < k /\ Len(buf) \in Nat
          BY <1>2, <1>4
        <4> QED BY <4>1, <4>2
      <3>2. e[i] >= Continue
        BY <1>1, <3>1
      <3> QED BY <1>1, <1>3, <3>1, <3>2
    <2>2. ~Length.ok
      BY <2>1, DecodeShort DEF Length
    <2> QED BY <1>1, <1>2, <1>4, <1>6, <2>2 DEF WholeMessage
  <1>5. CASE Len(buf) >= k
    <2>1. ASSUME NEW i \in 1..k PROVE buf[i] = e[i]
      <3>1. i \in 1..Len(buf) /\ i <= Len(f)
        <4>1. k \in Nat /\ l \in Nat /\ Len(buf) \in Nat /\ Len(f) = k + l
          BY <1>1, <1>2
        <4> QED BY <4>1, <1>5
      <3>2. buf[i] = f[i]
        BY <1>3, <3>1
      <3>3. f[i] = e[i]
        BY <1>1
      <3> QED BY <3>2, <3>3
    <2>2. Length = [ok |-> TRUE, v |-> l, rest |-> Rest(buf, k)]
      <3>1. Len(e) <= Len(buf) /\ l \in Nat \ {0} /\ e = encode_leb128_u64[l]
        <4>1. l \in Nat \ {0}
          BY <1>2
        <4> QED BY <4>1, <1>5, <1>6 DEF e
      <3>2. \A i \in 1..Len(e) : buf[i] = e[i]
        BY <1>6, <2>1
      <3>3. decode_leb128_u64(buf) = Ok(l, Rest(buf, Len(e)))
        BY <1>1, <3>1, <3>2, DecodeCode
      <3> QED BY <1>6, <3>3 DEF Length, Ok
    <2>3. Length.ok /\ Length.v = l /\ Length.rest = Rest(buf, k)
      BY <2>2
    <2> DEFINE r == Rest(buf, k)
    <2>4. /\ r \in Seq(Nat) /\ Len(r) = Len(buf) - k
          /\ \A i \in 1..Len(r) : r[i] = buf[k + i]
      <3>1. k \in 0..Len(buf)
        BY <1>1, <1>2, <1>5
      <3> QED BY <3>1, Trailing DEF Rest
    <2> HIDE DEF r
    <2>5. WholeMessage <=> Len(buf) >= Len(f)
      BY <2>3, <2>4, <1>1, <1>2 DEF WholeMessage, r
    <2>6. ASSUME Len(buf) >= Len(f)
          PROVE  Message = m /\ Rest(Length.rest, Length.v) = Rest(buf, Len(f))
      <3>1. Message = SubSeq(r, 1, l) /\ Rest(Length.rest, Length.v) = SubSeq(r, l + 1, Len(r))
        BY <2>3 DEF Message, Rest, r
      <3>2. Len(r) >= l /\ Len(r) \in Nat
        BY <2>4, <2>6, <1>1, <1>2
      <3>3. SubSeq(r, 1, l) = m
        <4>1. /\ SubSeq(r, 1, l) \in Seq(Nat) /\ Len(SubSeq(r, 1, l)) = l
              /\ \A i \in 1..l : SubSeq(r, 1, l)[i] = r[i]
          BY <1>2, <2>4, <3>2, SubSeqProperties
        <4>2. ASSUME NEW i \in 1..l PROVE r[i] = m[i]
          <5>1. r[i] = buf[k + i] /\ k + i \in 1..Len(buf) /\ k + i <= Len(f)
            <6> DEFINE n == Len(r)
            <6>1. n = Len(buf) - k /\ n >= l /\ n \in Nat /\ (\A j \in 1..n : r[j] = buf[k + j])
              BY <2>4, <3>2
            <6> HIDE DEF n
            <6>2. k \in Nat /\ l \in Nat /\ Len(buf) \in Nat
              BY <1>1, <1>2
            <6>3. i \in 1..n /\ k + i \in 1..Len(buf) /\ k + i <= k + l
              BY <6>1, <6>2
            <6> QED BY <6>1, <6>3, <1>1
          <5> QED BY <5>1, <1>1, <1>3
        <4> QED BY <4>1, <4>2, <1>2, <1>6, SeqEqual
      <3>4. SubSeq(r, l + 1, Len(r)) = SubSeq(buf, Len(f) + 1, Len(buf))
        <4>1. /\ SubSeq(r, l + 1, Len(r)) \in Seq(Nat)
              /\ Len(SubSeq(r, l + 1, Len(r))) = Len(r) - l
              /\ \A i \in 1..(Len(r) - l) : SubSeq(r, l + 1, Len(r))[i] = r[l + i]
          <5>1. l \in 0..Len(r)
            BY <1>2, <3>2
          <5> QED BY <5>1, <2>4, Trailing
        <4>2. /\ SubSeq(buf, Len(f) + 1, Len(buf)) \in Seq(Nat)
              /\ Len(SubSeq(buf, Len(f) + 1, Len(buf))) = Len(buf) - Len(f)
              /\ \A i \in 1..(Len(buf) - Len(f)) : SubSeq(buf, Len(f) + 1, Len(buf))[i] = buf[Len(f) + i]
          <5>1. Len(f) \in 0..Len(buf)
            BY <1>2, <2>6
          <5> QED BY <5>1, Trailing
        <4>3. Len(r) - l = Len(buf) - Len(f)
          BY <1>1, <1>2, <2>4
        <4>4. ASSUME NEW i \in 1..(Len(r) - l) PROVE r[l + i] = buf[Len(f) + i]
          <5> DEFINE n == Len(r)
          <5>1. n = Len(buf) - k /\ n >= l /\ n \in Nat /\ (\A j \in 1..n : r[j] = buf[k + j])
            BY <2>4, <3>2
          <5>2. i \in 1..(n - l)
            OBVIOUS
          <5> HIDE DEF n
          <5>3. l + i \in 1..n /\ k + (l + i) = Len(f) + i
            BY <5>1, <5>2, <1>1, <1>2
          <5> QED BY <5>1, <5>3
        <4> DEFINE x == SubSeq(r, l + 1, Len(r))
                   y == SubSeq(buf, Len(f) + 1, Len(buf))
        <4>5. x \in Seq(Nat) /\ y \in Seq(Nat) /\ Len(x) = Len(y)
          BY <4>1, <4>2, <4>3, Zenon
        <4>6. \A i \in 1..Len(x) : x[i] = y[i]
          BY <4>1, <4>2, <4>3, <4>4, Zenon
        <4> HIDE DEF x, y
        <4>7. x = y
          BY <4>5, <4>6, SeqEqual
        <4> QED BY <4>7, Zenon DEF x, y
      <3> QED BY <3>1, <3>3, <3>4 DEF Rest
    <2> QED BY <2>5, <2>6, <1>1, <1>2, <1>6
  <1> QED BY <1>1, <1>2, <1>4, <1>5

\* The bytes of an outcome on the wire.
FrameOf(o) == StreamFrame(MessageOf(o))

\* The bytes p begin the frames of the outcomes q after the first r up to w.
FramesOf(q) == [i \in Nat |-> FrameOf(q[i])]
Framed(p, q, r, w, whole) == Pieces(p, FramesOf(q), r, w, whole)

\* The frame of an outcome.
LEMMA OutcomeFrame ==
    ASSUME NEW o \in StreamOutcomes
    PROVE  FrameOf(o) \in Seq(Nat) /\ Len(FrameOf(o)) \in Nat \ {0}
  <1> DEFINE m == MessageOf(o)
             k == Len(encode_leb128_u64[Len(m)])
             l == Len(m)
             n == Len(StreamFrame(m))
  <1>1. m \in Messages
    BY MessageBytes
  <1> HIDE DEF m
  <1>2. k \in Nat \ {0} /\ StreamFrame(m) \in Seq(Nat) /\ n = k + l
    BY <1>1, FrameBytes
  <1>3. l \in 1..5
    BY <1>1 DEF Messages
  <1>4. n \in Nat \ {0}
    <2> HIDE DEF k, l, n
    <2> QED BY <1>2, <1>3
  <1> QED BY <1>2, <1>4 DEF FrameOf, m

\* Outcomes have frames.
LEMMA OutcomeFrames ==
    ASSUME NEW q, NEW i \in Nat
    PROVE  /\ FramesOf(q)[i] = FrameOf(q[i])
           /\ q[i] \in StreamOutcomes => IsFrame(FramesOf(q)[i])
  BY OutcomeFrame DEF FramesOf, IsFrame

\* No bytes and no frames.
LEMMA FramedNone ==
    ASSUME NEW q, NEW r \in Nat, NEW whole \in BOOLEAN
    PROVE  Framed(<<>>, q, r, r, whole)
  BY PiecesNone DEF Framed

\* Outcomes that come after them, and fewer promises, do not disturb frames.
LEMMA FramedSame ==
    ASSUME NEW p, NEW q, NEW u, NEW r \in Nat, NEW w \in Nat, r <= w,
           NEW whole \in BOOLEAN, NEW less \in BOOLEAN, less => whole,
           \A i \in (r + 1)..w : u[i] = q[i],
           Framed(p, q, r, w, whole)
    PROVE  Framed(p, u, r, w, less)
  <1>1. \A i \in (r + 1)..w : FramesOf(u)[i] = FramesOf(q)[i]
    <2> SUFFICES ASSUME NEW i \in (r + 1)..w PROVE FramesOf(u)[i] = FramesOf(q)[i]
      OBVIOUS
    <2>1. i \in Nat /\ u[i] = q[i]
      OBVIOUS
    <2> QED BY <2>1, OutcomeFrames
  <1> QED BY <1>1, PiecesSame DEF Framed

\* The first frame is where the bytes begin.
LEMMA FramedFirst ==
    ASSUME NEW p \in Seq(Nat), NEW q, NEW r \in Nat, NEW w \in Nat, r < w,
           NEW whole \in BOOLEAN, Framed(p, q, r, w, whole), q[r + 1] \in StreamOutcomes
    PROVE  /\ \A i \in 1..Len(p) :
                  i <= Len(FrameOf(q[r + 1])) => p[i] = FrameOf(q[r + 1])[i]
           /\ whole => Len(p) >= Len(FrameOf(q[r + 1]))
  <1>1. r + 1 \in Nat
    OBVIOUS
  <1>2. FramesOf(q)[r + 1] = FrameOf(q[r + 1]) /\ IsFrame(FramesOf(q)[r + 1])
    BY <1>1, OutcomeFrames
  <1>3. /\ \A i \in 1..Len(p) :
              i <= Len(FramesOf(q)[r + 1]) => p[i] = FramesOf(q)[r + 1][i]
        /\ whole => Len(p) >= Len(FramesOf(q)[r + 1])
    BY <1>2, PiecesFirst DEF Framed
  <1> QED BY <1>2, <1>3

\* Without frames there are no bytes.
LEMMA FramedEmpty ==
    ASSUME NEW p \in Seq(Nat), NEW q, NEW r \in Nat, NEW whole \in BOOLEAN,
           Framed(p, q, r, r, whole)
    PROVE  p = <<>>
  BY PiecesEmpty DEF Framed

\* The outcomes up to w have frames.
LEMMA FramesUpTo ==
    ASSUME NEW q, NEW r \in Nat, NEW w \in Nat, \A i \in (r + 1)..w : q[i] \in StreamOutcomes
    PROVE  \A i \in (r + 1)..w : IsFrame(FramesOf(q)[i])
  <1> SUFFICES ASSUME NEW i \in (r + 1)..w PROVE IsFrame(FramesOf(q)[i])
    OBVIOUS
  <1>1. i \in Nat
    OBVIOUS
  <1> QED BY <1>1, OutcomeFrames

\* The first frame is read, and leaves the others.
LEMMA FramedNext ==
    ASSUME NEW p \in Seq(Nat), NEW t \in Seq(Nat), NEW q, NEW r \in Nat, NEW w \in Nat, r < w,
           NEW whole \in BOOLEAN, Framed(p, q, r, w, whole), q[r + 1] \in StreamOutcomes,
           NEW n \in Nat, n = Len(FrameOf(q[r + 1])), n <= Len(p), Len(t) = Len(p) - n,
           \A i \in 1..Len(t) : t[i] = p[n + i],
           \A i \in (r + 1)..w : q[i] \in StreamOutcomes
    PROVE  Framed(t, q, r + 1, w, whole)
  <1>1. r + 1 \in Nat
    OBVIOUS
  <1>2. n = Len(FramesOf(q)[r + 1]) /\ IsFrame(FramesOf(q)[r + 1])
    BY <1>1, OutcomeFrames
  <1>3. \A i \in (r + 1)..w : IsFrame(FramesOf(q)[i])
    BY FramesUpTo
  <1>4. Leaves(t, p, n) /\ AllFrames(FramesOf(q), r + 1, w)
    BY <1>3 DEF Leaves, AllFrames
  <1> QED BY <1>2, <1>4, PiecesNext DEF Framed

\* A frame is written after the others.
LEMMA FramedMore ==
    ASSUME NEW p \in Seq(Nat), NEW q, NEW r \in Nat, NEW w \in Nat, r <= w,
           Framed(p, q, r, w, TRUE), \A i \in (r + 1)..(w + 1) : q[i] \in StreamOutcomes,
           NEW whole \in BOOLEAN
    PROVE  Framed(p \o FrameOf(q[w + 1]), q, r, w + 1, whole)
  <1>1. w + 1 \in Nat
    OBVIOUS
  <1>2. FramesOf(q)[w + 1] = FrameOf(q[w + 1])
    BY <1>1, OutcomeFrames
  <1>3. \A i \in (r + 1)..(w + 1) : IsFrame(FramesOf(q)[i])
    BY <1>1, FramesUpTo
  <1> QED BY <1>2, <1>3, PiecesMore DEF Framed

\* Bytes are lost at the end.
LEMMA FramedCut ==
    ASSUME NEW p \in Seq(Nat), NEW t \in Seq(Nat), NEW q, NEW r \in Nat, NEW w \in Nat, r <= w,
           NEW whole \in BOOLEAN, Framed(p, q, r, w, whole),
           Len(t) <= Len(p), \A i \in 1..Len(t) : t[i] = p[i], \A i \in (r + 1)..w : q[i] \in StreamOutcomes
    PROVE  Framed(t, q, r, w, FALSE)
  <1>1. \A i \in (r + 1)..w : IsFrame(FramesOf(q)[i])
    BY FramesUpTo
  <1> QED BY <1>1, PiecesCut DEF Framed

-----------------------------------------------------------------------------
(* Calls over HTTP. *)

\* What a caller may be told.
HttpTold == HttpOutcomes \cup {Closed, Down}

Heads == [status : {0, 200, 400, 404, 500}, type : {"", "rpc", "rpc-stream", "rpc-error"}]
Handlers == Running \cup {"none", "done", "dropped"}

\* The method has not ended, or the caller not been told.
ItemsOnly(q) == \A i \in 1..Len(q) : q[i].type = "item"

\* The types of the variables; those of a dropped caller do not matter.
HttpTyped ==
    /\ client \in {"rust", "go", "ts"} /\ server \in {"rust", "go"}
    /\ kind \in {"unary", "stream", "none"}
    /\ conn \in {"none", "up", "closed", "cut"}
    /\ head \in Heads
    /\ body \in Seq(Nat) /\ complete \in BOOLEAN
    /\ made \in Seq(HttpOutcomes) /\ got \in Seq(HttpTold)
    /\ phase \in {"idle", "calling", "collecting", "open", "over", "dropped"}
    /\ phase # "dropped" => buf \in Seq(Nat) /\ events \in Seq(HttpTold)
    /\ reader \in {"none", "reading", "done"}
    /\ handler \in Handlers
    /\ response_tx \in {"", "stream", "unary", "error"}
    /\ stream_q \in Seq(Messages) /\ stream_body \in {"none", "open", "ended"}
    /\ goroutine \in {"none", "working", "done"}

\* How far the caller is, and what it has so far.
CallerOK ==
    /\ phase \in {"idle", "calling", "collecting"} => got = <<>> /\ events = <<>> /\ reader = "none"
    /\ phase \in {"idle", "calling"} => buf = <<>>
    /\ (phase = "idle" <=> conn = "none")
    /\ phase # "idle" => kind # "none"
    /\ phase = "collecting" => head.status # 0 /\ (kind = "unary" \/ head.status # 200)
    /\ phase = "open" => kind = "stream" /\ head.status = 200 /\ reader # "none" /\ ItemsOnly(got)
    /\ phase = "over" => reader # "reading"
    /\ conn = "closed" => phase = "dropped" \/ reader = "done"

\* A method makes items and at most one last outcome; a stream no response.
HttpMade ==
    \A i \in 1..Len(made) :
        /\ i < Len(made) => made[i].type = "item"
        /\ kind = "stream" => made[i].type # "response"

\* How far the handler of the Rust server is, and what it made so far.
RustServing ==
    /\ server = "go" \/ conn = "none" => handler = "none"
    /\ handler = "none" => response_tx = "" /\ stream_q = <<>> /\ stream_body = "none"
    /\ server = "rust" =>
        /\ handler = "none" => made = <<>> /\ head.status = 0
        /\ handler = "working" => kind = "unary" /\ made = <<>> /\ response_tx = "" /\ head.status = 0
        /\ handler \in Holding => kind = "stream" /\ ItemsOnly(made)
        /\ handler = "detached" => kind = "stream"
        /\ handler \in {"done", "detached"} => Over(made)
        /\ response_tx \in {"unary", "error"} => head.status = 0 /\ handler = "done"
        /\ response_tx = "unary" => kind = "unary" /\ made = <<Value("response", 0)>>
        /\ response_tx = "error" => \E c \in 1..3 : made = <<Value("error", c)>>
        /\ response_tx = "stream" => kind = "stream" /\ head.status = 0
        /\ stream_body # "none" => kind = "stream" /\ head.status = 200
        /\ handler = "dropped" /\ conn = "up" => stream_body = "ended"

\* How far the goroutine of the Go server is.
GoServing ==
    /\ server = "rust" \/ conn = "none" => goroutine = "none"
    /\ server = "go" =>
        /\ goroutine = "none" => made = <<>> /\ head.status = 0
        /\ goroutine = "working" =>
            /\ ItemsOnly(made) /\ ~complete
            /\ (made = <<>> <=> head.status = 0)
            /\ head.status \in {0, 200}
            /\ kind = "unary" => made = <<>>

\* The body of a response that is no stream.
ReplyBytes == IF head.status = 200 THEN Payload2 ELSE ErrorBody(made[1].body)

\* A response that is no stream is the outcome of the method.
Replied ==
    /\ head.status = 0 => body = <<>> /\ ~complete
    /\ head.status # 0 /\ (kind = "unary" \/ head.status # 200) =>
        /\ \/ head.status = 200 /\ made = <<Value("response", 0)>>
           \/ /\ head.status # 200 /\ head.type = "rpc-error"
              /\ \E c \in 1..3 : made = <<Value("error", c)>>
        /\ phase \in {"calling", "collecting"} /\ complete => buf \o body = ReplyBytes

\* The messages in the channel tell the outcomes after the first w, but the
\* end of the stream may have found no room.
Queues(w) ==
    /\ \A i \in 1..Len(stream_q) : w + i <= Len(made) /\ stream_q[i] = MessageOf(made[w + i])
    /\ \/ w + Len(stream_q) = Len(made)
       \/ w + Len(stream_q) + 1 = Len(made) /\ made[Len(made)].type = "end"

\* Outcomes of which the caller has events.
Emitted == Len(got) + Len(events)

\* Outcomes up to w were written, and those after the emitted ones are under
\* way or wait to be parsed.
Wires(w) ==
    /\ Emitted <= w /\ w <= Len(made)
    /\ Framed(buf \o body, made, Emitted, w, complete \/ conn # "cut")
    /\ server = "go" /\ conn = "up" => w = Len(made)
    /\ server = "rust" /\ conn = "up" /\ response_tx # "error" => Queues(w)
    /\ complete => /\ Over(made)
                   /\ \/ w = Len(made)
                      \/ w + 1 = Len(made) /\ made[Len(made)].type = "end"

\* A stream that is read, or may yet be.
StreamLive ==
    /\ kind = "stream" /\ head.status \in {0, 200}
    /\ phase \in {"idle", "calling", "open"} /\ reader # "done"

\* As long as a stream is read, nothing of it is lost, doubled or torn.
Streamed ==
    StreamLive =>
        /\ \A i \in 1..Emitted : made[i].type = "item"
        /\ \E w \in Nat : Wires(w)

\* The i-th event waiting tells the caller of the next outcomes, or that the
\* connection broke.
Tells(i) ==
    \/ /\ Len(got) + i <= Len(made)
       /\ events[i] = Contract!Seen(made[Len(got) + i])
       /\ events[i].type # "item" => i = Len(events)
    \/ /\ i = Len(events) /\ conn = "cut"
       /\ events[i] \in {Down, Closed} /\ (client # "go" => events[i] = Down)

\* Every event that waits is true.
Queued ==
    phase = "open" =>
        /\ reader = "reading" => ItemsOnly(events)
        /\ \A i \in 1..Len(events) : Tells(i)

HttpIInv ==
    /\ HttpTyped /\ CallerOK /\ HttpMade /\ RustServing /\ GoServing
    /\ Replied /\ Streamed /\ Queued /\ EndsAreHonest

-----------------------------------------------------------------------------
(* Who takes a step, and what it leaves alone. *)

ClientActs == ClientTask \/ Recv \/ Drop
RustActs == RustServerTask \/ RustMethod \/ Disconnect
GoActs == ServeHTTP \/ GoMethod \/ GoDisconnect

ClientSide == ClientActs /\ UNCHANGED <<rustServerVars, goServerVars>>
RustSide == server = "rust" /\ RustActs /\ UNCHANGED <<clientVars, goServerVars>>
GoSide == server = "go" /\ GoActs /\ UNCHANGED <<clientVars, rustServerVars>>
CutSide == HttpCut /\ UNCHANGED <<clientVars, rustServerVars, goServerVars>>

\* A step of a call is a step of its caller, of its server or of the
\* connection.
LEMMA HttpSides ==
    ASSUME HttpRpcNext
    PROVE  ClientSide \/ RustSide \/ GoSide \/ CutSide
  BY DEF HttpRpcNext, ClientSteps, RustServerSteps, GoServerSteps, ServerTask, ServiceMethod,
         ServerDisconnect, ClientSide, RustSide, GoSide, CutSide, ClientActs, RustActs, GoActs

\* What the caller leaves alone.
LEMMA ClientLeaves ==
    ASSUME ClientActs
    PROVE  /\ client' = client /\ server' = server /\ kind' = kind
           /\ head' = head /\ complete' = complete /\ made' = made
  BY DEF ClientActs, ClientTask, Connect, ReadHead, ConnectFails, Collect, Collected, Chunk, Emit, ReaderEnd, ReaderFails, ReaderStop, Recv, Drop,
         httpVars, callVars, wireVars, Tell

\* What a server leaves alone.
LEMMA ServerLeaves ==
    ASSUME RustActs \/ GoActs
    PROVE  /\ client' = client /\ server' = server /\ kind' = kind
           /\ conn' = conn /\ got' = got
  <1>1. CASE RustActs
    BY <1>1 DEF RustActs, RustServerTask, RustMethod, HandleRequest, ReturnUnary, Respond, SendItem, FailStream, SendFailure, CloseStream, ReturnStream, PollFrame, BodyEnd, Disconnect,
           httpVars, callVars, wireVars
  <1>2. CASE GoActs
    BY <1>2 DEF GoActs, GoMethod, ServeHTTP, GoReturnUnary, SendStreamItem, SendStreamEnd, SendError, GoReturnGone, GoDisconnect,
           httpVars, callVars, wireVars
  <1> QED BY <1>1, <1>2

-----------------------------------------------------------------------------
(* What the caller reads. *)

\* The kinds of outcomes, and what the caller is told of them.
LEMMA OutcomeKinds ==
    ASSUME NEW o \in HttpOutcomes
    PROVE  /\ o.type \in {"response", "item", "end", "error"}
           /\ o.type # "response" => o \in StreamOutcomes
           /\ Contract!Seen(o) \in HttpTold
           /\ Contract!Seen(o).type = "item" <=> o.type = "item"
           /\ Contract!Seen(o) # Down
           /\ Contract!Seen(o) = Closed => o.type = "end"
  BY DEF HttpOutcomes, StreamOutcomes, HttpTold, Contract!Seen, Value, Closed, Down

\* The outcomes of a stream.
LEMMA StreamMade ==
    ASSUME HttpTyped, HttpMade, kind = "stream"
    PROVE  \A i \in 1..Len(made) : made[i] \in HttpOutcomes /\ made[i] \in StreamOutcomes
  <1> SUFFICES ASSUME NEW i \in 1..Len(made)
               PROVE  made[i] \in HttpOutcomes /\ made[i] \in StreamOutcomes
    OBVIOUS
  <1>1. made \in Seq(HttpOutcomes)
    BY DEF HttpTyped
  <1>2. made[i].type # "response"
    BY DEF HttpMade
  <1>3. made[i] \in HttpOutcomes
    BY <1>1
  <1> QED BY <1>2, <1>3, OutcomeKinds

\* Events are counted.
LEMMA EmittedNat ==
    ASSUME HttpTyped, phase # "dropped"
    PROVE  Len(got) \in Nat /\ Len(events) \in Nat /\ Emitted \in Nat
  <1>1. got \in Seq(HttpTold) /\ events \in Seq(HttpTold)
    BY DEF HttpTyped
  <1>2. Len(got) \in Nat /\ Len(events) \in Nat
    BY <1>1
  <1> QED BY <1>2 DEF Emitted

\* The bytes that are not parsed begin with the frame of the next outcome.
LEMMA NextFrame ==
    ASSUME HttpTyped, HttpMade, CallerOK, StreamLive, NEW w \in Nat, Wires(w), Emitted < w
    PROVE  LET o == made[Emitted + 1]
               n == Len(FrameOf(o)) IN
           /\ o \in StreamOutcomes /\ n \in Nat
           /\ Len(buf) < n => ~WholeMessage
           /\ Len(buf) >= n => /\ WholeMessage /\ EventOf(Message) = Contract!Seen(o)
                               /\ Rest(Length.rest, Length.v) = Rest(buf, n)
           /\ (complete \/ conn # "cut") /\ body = <<>> => WholeMessage
  <1> DEFINE o == made[Emitted + 1]
             f == FrameOf(o)
             n == Len(f)
             p == buf \o body
             whole == (complete \/ conn # "cut")
  <1>1. /\ buf \in Seq(Nat) /\ body \in Seq(Nat) /\ made \in Seq(HttpOutcomes) /\ whole \in BOOLEAN
        /\ Emitted \in Nat
    BY EmittedNat DEF HttpTyped, StreamLive
  <1>2. Emitted + 1 \in 1..Len(made)
    BY <1>1 DEF Wires
  <1>3. o \in StreamOutcomes
    BY <1>2, StreamMade DEF StreamLive
  <1>4. MessageOf(o) \in Messages /\ EventOf(MessageOf(o)) = Contract!Seen(o)
    BY <1>3, MessageBytes
  <1>5. f \in Seq(Nat) /\ n \in Nat
    BY <1>3, OutcomeFrame
  <1>6. /\ p \in Seq(Nat) /\ Len(p) = Len(buf) + Len(body)
        /\ \A i \in 1..(Len(buf) + Len(body)) : p[i] = IF i <= Len(buf) THEN buf[i] ELSE body[i - Len(buf)]
    BY <1>1, ConcatProperties
  <1>7. /\ \A i \in 1..Len(p) : i <= n => p[i] = f[i]
        /\ whole => Len(p) >= n
    <2>1. Framed(p, made, Emitted, w, whole)
      BY DEF Wires
    <2>2. p \in Seq(Nat) /\ Emitted < w /\ made[Emitted + 1] \in StreamOutcomes
      BY <1>3, <1>6
    <2> HIDE DEF p, whole, f, n, o
    <2>3. /\ \A i \in 1..Len(p) :
                  i <= Len(FrameOf(made[Emitted + 1])) => p[i] = FrameOf(made[Emitted + 1])[i]
          /\ whole => Len(p) >= Len(FrameOf(made[Emitted + 1]))
      BY <1>1, <2>1, <2>2, FramedFirst
    <2> QED BY <2>3 DEF f, n, o
  <1>8. f = StreamFrame(MessageOf(o))
    BY DEF FrameOf
  <1>9. \A i \in 1..Len(buf) : i <= n => buf[i] = f[i]
    <2> SUFFICES ASSUME NEW i \in 1..Len(buf), i <= n PROVE buf[i] = f[i]
      OBVIOUS
    <2>1. Len(buf) \in Nat /\ Len(body) \in Nat
      BY <1>1
    <2>2. i \in 1..(Len(buf) + Len(body)) /\ i <= Len(buf) /\ i \in 1..Len(p)
      BY <1>6, <2>1
    <2> HIDE DEF p, f, n
    <2>3. p[i] = buf[i]
      BY <1>6, <2>2
    <2> QED BY <2>2, <2>3, <1>7
  <1>10. /\ Len(buf) < n => ~WholeMessage
         /\ Len(buf) >= n => /\ WholeMessage /\ Message = MessageOf(o)
                             /\ Rest(Length.rest, Length.v) = Rest(buf, n)
    <2> DEFINE m == MessageOf(o)
    <2>1. m \in Messages /\ f = StreamFrame(m)
      BY <1>4, <1>8
    <2>2. \A i \in 1..Len(buf) : i <= Len(StreamFrame(m)) => buf[i] = StreamFrame(m)[i]
      BY <1>9, <2>1
    <2> HIDE DEF m, f
    <2>3. /\ Len(buf) < Len(StreamFrame(m)) => ~WholeMessage
          /\ Len(buf) >= Len(StreamFrame(m)) =>
                /\ WholeMessage /\ Message = m
                /\ Rest(Length.rest, Length.v) = Rest(buf, Len(StreamFrame(m)))
      BY <1>1, <2>1, <2>2, FrameRead
    <2> QED BY <2>1, <2>3 DEF m
  <1>11. whole /\ body = <<>> => WholeMessage
    <2> SUFFICES ASSUME whole, body = <<>> PROVE WholeMessage
      OBVIOUS
    <2>1. Len(p) = Len(buf) /\ Len(buf) \in Nat
      BY <1>1, <1>6
    <2> HIDE DEF p, f, n
    <2>2. Len(buf) >= n
      BY <1>7, <2>1
    <2> QED BY <1>10, <2>2
  <1> QED BY <1>3, <1>4, <1>5, <1>10, <1>11

\* Where no frame is left, no message is.
LEMMA NoFrame ==
    ASSUME HttpTyped, StreamLive, NEW w \in Nat, Wires(w), Emitted = w
    PROVE  ~WholeMessage /\ buf = <<>> /\ body = <<>>
  <1> DEFINE p == buf \o body
             whole == (complete \/ conn # "cut")
  <1>1. buf \in Seq(Nat) /\ body \in Seq(Nat) /\ whole \in BOOLEAN
    BY DEF HttpTyped, StreamLive
  <1>2. p \in Seq(Nat) /\ Len(p) = Len(buf) + Len(body)
    BY <1>1, ConcatProperties
  <1>3. p = <<>>
    <2>1. Framed(p, made, w, w, whole)
      BY DEF Wires
    <2> HIDE DEF p, whole
    <2> QED BY <1>1, <1>2, <2>1, FramedEmpty
  <1>4. Len(buf) = 0 /\ Len(body) = 0
    <2>1. Len(p) = 0 /\ Len(buf) \in Nat /\ Len(body) \in Nat
      BY <1>1, <1>3
    <2> HIDE DEF p
    <2> QED BY <1>2, <2>1
  <1>5. buf = <<>> /\ body = <<>>
    BY <1>1, <1>4, EmptySeq
  <1>6. Length.ok = FALSE
    <2>1. \A i \in 1..Len(buf) : buf[i] >= Continue
      BY <1>5
    <2> QED BY <1>1, <2>1, DecodeShort DEF Length
  <1> QED BY <1>5, <1>6 DEF WholeMessage

\* A message that is there tells the next outcome.
LEMMA NextMessage ==
    ASSUME HttpTyped, HttpMade, CallerOK, StreamLive, WholeMessage, NEW w \in Nat, Wires(w)
    PROVE  LET o == made[Emitted + 1]
               n == Len(FrameOf(o)) IN
           /\ Emitted < w /\ o \in StreamOutcomes /\ n \in 0..Len(buf)
           /\ EventOf(Message) = Contract!Seen(o)
           /\ Rest(Length.rest, Length.v) = Rest(buf, n)
  <1> DEFINE o == made[Emitted + 1]
             n == Len(FrameOf(o))
  <1>1. Emitted \in Nat /\ Emitted <= w /\ Len(buf) \in Nat
    <2>1. buf \in Seq(Nat) /\ Emitted <= w
      BY DEF HttpTyped, StreamLive, Wires
    <2> QED BY <2>1, EmittedNat DEF StreamLive
  <1>2. Emitted # w
    BY NoFrame
  <1>3. Emitted < w
    BY <1>1, <1>2
  <1>4. /\ o \in StreamOutcomes /\ n \in Nat
        /\ Len(buf) < n => ~WholeMessage
        /\ Len(buf) >= n => /\ WholeMessage /\ EventOf(Message) = Contract!Seen(o)
                            /\ Rest(Length.rest, Length.v) = Rest(buf, n)
    BY <1>3, NextFrame
  <1> HIDE DEF n
  <1>5. Len(buf) >= n
    BY <1>1, <1>4
  <1>6. n \in 0..Len(buf)
    BY <1>1, <1>4, <1>5
  <1> QED BY <1>3, <1>4, <1>5, <1>6 DEF n

\* A response that is there is the outcome of the method.
LEMMA CollectedIs ==
    ASSUME HttpTyped, CallerOK, Replied, phase = "collecting", body = <<>>, complete
    PROVE  /\ Len(made) = 1 /\ made[1] \in HttpOutcomes
           /\ made[1].type \in {"response", "error"}
           /\ (IF head.status = 200 THEN Response ELSE parse_http_error) = made[1]
  <1>1. /\ \/ head.status = 200 /\ made = <<Value("response", 0)>>
           \/ /\ head.status # 200 /\ head.type = "rpc-error"
              /\ \E c \in 1..3 : made = <<Value("error", c)>>
        /\ buf \o body = ReplyBytes
    BY DEF CallerOK, Replied
  <1>2. buf \in Seq(Nat)
    BY DEF HttpTyped
  <1>3. buf = ReplyBytes
    BY <1>1, <1>2, ConcatEmptySeq
  <1>4. CASE head.status = 200
    <2>1. made = <<Value("response", 0)>>
      BY <1>1, <1>4
    <2>2. Response = Value("response", 0)
      BY <1>3, <1>4 DEF Response, ReplyBytes
    <2> QED BY <1>4, <2>1, <2>2 DEF Value, HttpOutcomes
  <1>5. CASE head.status # 200
    <2>1. PICK c \in 1..3 : made = <<Value("error", c)>>
      BY <1>1, <1>5
    <2>2. Len(made) = 1 /\ made[1] = Value("error", c) /\ made[1].body = c
      BY <2>1 DEF Value
    <2>3. buf = ErrorBody(c)
      BY <1>3, <1>5, <2>2 DEF ReplyBytes
    <2>4. parse_http_error = Value("error", c)
      <3>1. /\ buf # <<>> /\ decode_leb128_u64(buf).ok /\ decode_leb128_u64(buf).v = c
        <4>1. /\ ErrorBody(c) \in Seq(Nat) /\ Len(ErrorBody(c)) \in 3..4
              /\ decode_leb128_u64(ErrorBody(c)).ok /\ decode_leb128_u64(ErrorBody(c)).v = c
          BY ErrorBytes
        <4> DEFINE n == Len(buf)
        <4>3. n \in 3..4
          BY <2>3, <4>1
        <4> HIDE DEF n
        <4>4. n # 0
          BY <4>3
        <4>2. Len(buf) # 0
          BY <4>4 DEF n
        <4> QED BY <2>3, <4>1, <4>2
      <3> QED BY <1>1, <1>5, <3>1 DEF parse_http_error
    <2> QED BY <1>5, <2>2, <2>4 DEF HttpOutcomes, Value
  <1> QED BY <1>4, <1>5

-----------------------------------------------------------------------------
(* Types. *)

\* A sequence of told outcomes and one more.
LEMMA ToldAppended ==
    ASSUME NEW q \in Seq(HttpTold), NEW e \in HttpTold
    PROVE  Append(q, e) \in Seq(HttpTold)
  BY AppendProperties

\* A piece of the body that is taken moves from one sequence to the other.
LEMMA PieceTaken ==
    ASSUME buf \in Seq(Nat), body \in Seq(Nat), NEW n \in 1..Len(body), TakePiece(n)
    PROVE  buf' \in Seq(Nat) /\ body' \in Seq(Nat) /\ buf' \o body' = buf \o body
  <1> DEFINE a == SubSeq(body, 1, n)
             b == Rest(body, n)
  <1>1. a \in Seq(Nat) /\ Len(a) = n /\ \A i \in 1..n : a[i] = body[i]
    <2>1. n \in 1..Len(body) /\ Len(body) \in Nat
      OBVIOUS
    <2>2. \A i \in 1..n : body[i] \in Nat
      OBVIOUS
    <2> QED BY <2>1, <2>2, SubSeqProperties
  <1>2. b \in Seq(Nat) /\ Len(b) = Len(body) - n /\ \A i \in 1..(Len(body) - n) : b[i] = body[n + i]
    BY Trailing DEF Rest
  <1> HIDE DEF a, b
  <1>3. a \o b = body
    <2>1. /\ a \o b \in Seq(Nat) /\ Len(a \o b) = Len(a) + Len(b)
          /\ \A i \in 1..(Len(a) + Len(b)) : (a \o b)[i] = IF i <= Len(a) THEN a[i] ELSE b[i - Len(a)]
      BY <1>1, <1>2, ConcatProperties
    <2> DEFINE l == Len(body)
               k == Len(b)
    <2>2. l \in Nat /\ k = l - n /\ n \in 1..l
      BY <1>2
    <2>3. Len(a \o b) = n + k
      BY <1>1, <2>1
    <2> HIDE DEF l, k
    <2>4. Len(a \o b) = l
      BY <2>2, <2>3
    <2>5. ASSUME NEW i \in 1..l PROVE (a \o b)[i] = body[i]
      <3>1. CASE i <= n
        <4>1. i \in 1..n /\ i \in 1..(n + k)
          BY <2>2, <3>1
        <4> QED BY <4>1, <3>1, <1>1, <2>1 DEF k
      <3>2. CASE ~(i <= n)
        <4>1. i - n \in 1..k /\ i \in 1..(n + k) /\ n + (i - n) = i
          BY <2>2, <3>2
        <4>2. (a \o b)[i] = b[i - n]
          BY <4>1, <3>2, <1>1, <2>1 DEF k
        <4>3. b[i - n] = body[n + (i - n)]
          BY <4>1, <1>2, <2>2 DEF k, l
        <4> QED BY <4>1, <4>2, <4>3
      <3> QED BY <3>1, <3>2
    <2> QED BY <2>1, <2>4, <2>5, SeqEqual DEF l
  <1>4. buf' = buf \o a /\ body' = b
    BY DEF TakePiece, a, b
  <1>5. (buf \o a) \o b = buf \o (a \o b)
    BY <1>1, <1>2, Joined
  <1>6. buf \o a \in Seq(Nat)
    BY <1>1, ConcatProperties
  <1> QED BY <1>2, <1>3, <1>4, <1>5, <1>6

\* What the caller has keeps its type.
LEMMA CallerTyped ==
    ASSUME HttpTyped, CallerOK, HttpMade, Replied, Streamed, ClientActs
    PROVE  /\ conn' \in {"none", "up", "closed", "cut"}
           /\ body' \in Seq(Nat) /\ got' \in Seq(HttpTold)
           /\ phase' \in {"idle", "calling", "collecting", "open", "over", "dropped"}
           /\ phase' # "dropped" => buf' \in Seq(Nat) /\ events' \in Seq(HttpTold)
           /\ reader' \in {"none", "reading", "done"}
  <1> DEFINE Goal == /\ conn' \in {"none", "up", "closed", "cut"}
                     /\ body' \in Seq(Nat) /\ got' \in Seq(HttpTold)
                     /\ phase' \in {"idle", "calling", "collecting", "open", "over", "dropped"}
                     /\ phase' # "dropped" => buf' \in Seq(Nat) /\ events' \in Seq(HttpTold)
                     /\ reader' \in {"none", "reading", "done"}
  <1>0. /\ conn \in {"none", "up", "closed", "cut"}
        /\ body \in Seq(Nat) /\ got \in Seq(HttpTold)
        /\ phase \in {"idle", "calling", "collecting", "open", "over", "dropped"}
        /\ phase # "dropped" => buf \in Seq(Nat) /\ events \in Seq(HttpTold)
        /\ reader \in {"none", "reading", "done"}
    BY DEF HttpTyped
  <1>d. Down \in HttpTold /\ Closed \in HttpTold
    BY DEF HttpTold
  <1>1. CASE Connect
    BY <1>0, <1>1 DEF Connect, httpVars, callVars, wireVars
  <1>2. CASE ReadHead
    BY <1>0, <1>2 DEF ReadHead, httpVars, callVars, wireVars
  <1>3. CASE ConnectFails
    <2>1. got' = Append(got, Down) /\ phase' = "over" /\ UNCHANGED <<conn, body, buf, events, reader>>
      BY <1>3 DEF ConnectFails, Tell, wireVars
    <2> QED BY <1>0, <1>d, <1>3, <2>1, ToldAppended DEF ConnectFails
  <1>4. CASE Collect
    <2>1. PICK n \in 1..Len(body) : TakePiece(n)
      BY <1>4 DEF Collect
    <2>2. phase = "collecting" /\ UNCHANGED <<conn, got, phase, events, reader>>
      BY <1>4 DEF Collect
    <2> QED BY <1>0, <2>1, <2>2, PieceTaken
  <1>5. CASE Collected
    <2>1. phase = "collecting" /\ phase' = "over" /\ UNCHANGED <<conn, body, buf, events, reader>>
      BY <1>5 DEF Collected, Tell, wireVars
    <2>2. got' \in Seq(HttpTold)
      <3>1. CASE complete
        <4>1. got' = Append(got, IF head.status = 200 THEN Response ELSE parse_http_error)
          BY <1>5, <3>1 DEF Collected, Tell
        <4>2. (IF head.status = 200 THEN Response ELSE parse_http_error) \in HttpTold
          BY <1>5, <3>1, CollectedIs DEF Collected, HttpTold
        <4> QED BY <1>0, <4>1, <4>2, ToldAppended
      <3>2. CASE ~complete
        <4>1. got' = Append(got, Down)
          BY <1>5, <3>2 DEF Collected, Tell
        <4> QED BY <1>0, <1>d, <4>1, ToldAppended
      <3> QED BY <3>1, <3>2
    <2> QED BY <1>0, <2>1, <2>2
  <1>6. CASE Chunk
    <2>1. PICK n \in 1..Len(body) : TakePiece(n)
      BY <1>6 DEF Chunk
    <2>2. phase # "dropped" /\ UNCHANGED <<conn, got, phase, events, reader>>
      BY <1>6 DEF Chunk, Reading
    <2> QED BY <1>0, <2>1, <2>2, PieceTaken
  <1>7. CASE Emit
    <2>1. /\ reader = "reading" /\ WholeMessage /\ reader' \in {"reading", "done"}
          /\ events' = Append(events, EventOf(Message)) /\ buf' = Rest(Length.rest, Length.v)
          /\ UNCHANGED <<body, got, phase>>
          /\ conn' \in {conn, "closed"}
      BY <1>7 DEF Emit
    <2>2. CASE phase = "dropped"
      BY <1>0, <2>1, <2>2
    <2>3. CASE phase # "dropped"
      <3>1. phase = "open" /\ StreamLive
        BY <1>0, <2>1, <2>3 DEF CallerOK, StreamLive
      <3>2. PICK w \in Nat : Wires(w)
        BY <3>1 DEF Streamed
      <3> DEFINE o == made[Emitted + 1]
                 n == Len(FrameOf(o))
      <3>3. /\ o \in StreamOutcomes /\ n \in 0..Len(buf)
            /\ EventOf(Message) = Contract!Seen(o)
            /\ Rest(Length.rest, Length.v) = Rest(buf, n)
        BY <2>1, <3>1, <3>2, NextMessage
      <3> HIDE DEF o, n
      <3>4. EventOf(Message) \in HttpTold
        BY <3>3, OutcomeKinds DEF StreamOutcomes
      <3>5. Rest(buf, n) \in Seq(Nat)
        BY <1>0, <2>3, <3>3, Trailing DEF Rest
      <3>6. events' \in Seq(HttpTold)
        BY <1>0, <2>1, <2>3, <3>4, ToldAppended
      <3> QED BY <1>0, <2>1, <3>3, <3>5, <3>6
    <2> QED BY <2>2, <2>3
  <1>8. CASE ReaderEnd
    <2>1. phase # "dropped" /\ events' = Append(events, Closed) /\ reader' = "done"
          /\ UNCHANGED <<conn, body, got, phase, buf>>
      BY <1>8 DEF ReaderEnd, Reading, httpVars, wireVars
    <2> QED BY <1>0, <1>d, <2>1, ToldAppended
  <1>9. CASE ReaderFails
    <2>1. phase # "dropped" /\ reader' = "done" /\ UNCHANGED <<conn, body, got, phase, buf>>
          /\ \E event \in {Down, Closed} : events' = Append(events, event)
      BY <1>9 DEF ReaderFails, Reading, httpVars, wireVars, CutEvents
    <2> QED BY <1>0, <1>d, <2>1, ToldAppended
  <1>10. CASE ReaderStop
    BY <1>0, <1>10 DEF ReaderStop
  <1>11. CASE Recv
    <2>1. phase = "open" /\ events # <<>> /\ got' = Append(got, Head(events)) /\ events' = Tail(events)
          /\ phase' \in {"open", "over"} /\ UNCHANGED <<conn, body, buf, reader>>
      BY <1>11 DEF Recv, wireVars
    <2>2. Head(events) \in HttpTold /\ Tail(events) \in Seq(HttpTold)
      BY <1>0, <2>1, HeadTailProperties
    <2> QED BY <1>0, <2>1, <2>2, ToldAppended
  <1>12. CASE Drop
    BY <1>0, <1>12 DEF Drop
  <1> QED BY <1>1, <1>2, <1>3, <1>4, <1>5, <1>6, <1>7, <1>8, <1>9, <1>10, <1>11, <1>12
          DEF ClientActs, ClientTask

\* A sequence of outcomes and one more.
LEMMA MadeAppended ==
    ASSUME NEW q \in Seq(HttpOutcomes), NEW e \in HttpOutcomes
    PROVE  Append(q, e) \in Seq(HttpOutcomes)
  BY AppendProperties

\* Each outcome that a method makes is one.
LEMMA OutcomesMade ==
    /\ Value("response", 0) \in HttpOutcomes /\ Value("end", 0) \in StreamOutcomes
    /\ \A n \in 1..MaxItems : Value("item", n) \in StreamOutcomes
    /\ \A c \in 1..3 : Value("error", c) \in StreamOutcomes
  BY DEF HttpOutcomes, StreamOutcomes, Value

\* The messages that are queued.
LEMMA MessagesMade ==
    /\ \A n \in 1..MaxItems : MessageOf(Value("item", n)) = <<STREAM_ITEM, n>>
    /\ MessageOf(Value("end", 0)) = <<STREAM_END>>
    /\ \A c \in 1..3 : MessageOf(Value("error", c)) = <<STREAM_ERROR>> \o ErrorBody(c)
    /\ \A o \in StreamOutcomes : MessageOf(o) \in Messages
  <1>1. \A o \in StreamOutcomes : MessageOf(o) \in Messages
    BY MessageBytes
  <1> QED BY <1>1 DEF MessageOf, Value

\* A sequence of messages and one more.
LEMMA MessageAppended ==
    ASSUME NEW q \in Seq(Messages), NEW e \in Messages
    PROVE  Append(q, e) \in Seq(Messages)
  BY AppendProperties

\* A written frame follows bytes.
LEMMA FrameWritten ==
    ASSUME NEW m \in Messages, body \in Seq(Nat)
    PROVE  body \o StreamFrame(m) \in Seq(Nat)
  BY FrameBytes, ConcatProperties

\* The heads that are written.
LEMMA HeadsWritten ==
    [status |-> 200, type |-> "rpc"] \in Heads /\ [status |-> 200, type |-> "rpc-stream"] \in Heads
  BY DEF Heads

\* How far a handler can be.
LEMMA HandlersKnown ==
    /\ "none" \in Handlers /\ "working" \in Handlers /\ "streaming" \in Handlers
    /\ "failing" \in Handlers /\ "detached" \in Handlers
    /\ "done" \in Handlers /\ "dropped" \in Handlers
  BY DEF Handlers, Running, Holding

\* How many items a method yields is bounded.
LEMMA MaxItemsNat == MaxItems \in Nat
  BY HttpAssumption, ByteSize

\* Responses that are written at once.
LEMMA RepliesTyped ==
    /\ Payload2 \in Seq(Nat)
    /\ \A c \in 1..3 : ErrorBody(c) \in Seq(Nat) /\ StatusOf(c) \in {404, 400, 500}
  <1>1. Payload2 \in Seq(Nat)
    BY DEF Payload2
  <1>2. \A c \in 1..3 : StatusOf(c) \in {404, 400, 500}
    BY DEF StatusOf, ERR_CODE_UNKNOWN_METHOD, ERR_CODE_DECODE_ERROR
  <1> QED BY <1>1, <1>2, ErrorBytes

\* A reply with an error.
LEMMA ErrorReplied ==
    ASSUME NEW c \in 1..3
    PROVE  ReplyError(c) =>
               /\ head' \in Heads /\ head'.status \in {400, 404, 500} /\ head'.type = "rpc-error"
               /\ body' = ErrorBody(c) /\ body' \in Seq(Nat) /\ complete' = TRUE
  <1> SUFFICES ASSUME ReplyError(c)
               PROVE  /\ head' \in Heads /\ head'.status \in {400, 404, 500} /\ head'.type = "rpc-error"
                      /\ body' = ErrorBody(c) /\ body' \in Seq(Nat) /\ complete' = TRUE
    OBVIOUS
  <1>1. /\ head' = [status |-> StatusOf(c), type |-> "rpc-error"]
        /\ body' = ErrorBody(c) /\ complete' = TRUE
    BY DEF ReplyError, Reply
  <1>2. StatusOf(c) \in {404, 400, 500} /\ ErrorBody(c) \in Seq(Nat)
    BY RepliesTyped
  <1>3. [status |-> StatusOf(c), type |-> "rpc-error"] \in Heads
    BY <1>2 DEF Heads
  <1>4. /\ [status |-> StatusOf(c), type |-> "rpc-error"].status = StatusOf(c)
        /\ [status |-> StatusOf(c), type |-> "rpc-error"].type = "rpc-error"
    OBVIOUS
  <1> QED BY <1>1, <1>2, <1>3, <1>4

\* The first n bytes.
LEMMA Leading ==
    ASSUME NEW q \in Seq(Nat), NEW n \in 0..Len(q)
    PROVE  /\ SubSeq(q, 1, n) \in Seq(Nat) /\ Len(SubSeq(q, 1, n)) = n
           /\ \A i \in 1..n : SubSeq(q, 1, n)[i] = q[i]
  <1>1. n \in Nat /\ \A i \in 1..n : q[i] \in Nat
    OBVIOUS
  <1>2. /\ SubSeq(q, 1, n) \in Seq(Nat)
        /\ Len(SubSeq(q, 1, n)) = IF 1 <= n THEN n - 1 + 1 ELSE 0
        /\ \A i \in 1..(n - 1 + 1) : SubSeq(q, 1, n)[i] = q[1 + i - 1]
    BY <1>1, SubSeqProperties
  <1>3. \A i \in 1..n : 1 + i - 1 = i /\ i \in 1..(n - 1 + 1)
    BY <1>1
  <1> QED BY <1>1, <1>2, <1>3

\* The response of a unary method is of its type.
LEMMA ResponseReplied ==
    ASSUME Reply(200, "rpc", Payload2)
    PROVE  /\ head' \in Heads /\ head'.status = 200
           /\ body' = Payload2 /\ body' \in Seq(Nat) /\ complete' = TRUE
  <1>1. /\ head' = [status |-> 200, type |-> "rpc"]
        /\ body' = Payload2 /\ complete' = TRUE
    BY DEF Reply
  <1>2. [status |-> 200, type |-> "rpc"].status = 200
    OBVIOUS
  <1>3. head' \in Heads /\ head'.status = 200
    BY <1>1, <1>2, HeadsWritten, Zenon
  <1> QED BY <1>1, <1>3, RepliesTyped

\* What a server has, and has written, keeps its type.
LEMMA RustTyped ==
    ASSUME HttpTyped, RustServing, RustActs, server = "rust"
    PROVE  /\ head' \in Heads
           /\ body' \in Seq(Nat) /\ complete' \in BOOLEAN /\ made' \in Seq(HttpOutcomes)
           /\ handler' \in Handlers
           /\ response_tx' \in {"", "stream", "unary", "error"}
           /\ stream_q' \in Seq(Messages) /\ stream_body' \in {"none", "open", "ended"}
  <1>0. /\ head \in Heads
        /\ body \in Seq(Nat) /\ complete \in BOOLEAN /\ made \in Seq(HttpOutcomes)
        /\ handler \in Handlers
        /\ response_tx \in {"", "stream", "unary", "error"}
        /\ stream_q \in Seq(Messages) /\ stream_body \in {"none", "open", "ended"}
    BY DEF HttpTyped
  <1>o. /\ \A c \in 1..3 : <<Value("error", c)>> \in Seq(HttpOutcomes)
        /\ <<Value("error", 3)>> \in Seq(HttpOutcomes)
        /\ <<Value("response", 0)>> \in Seq(HttpOutcomes)
    BY OutcomesMade DEF StreamOutcomes
  <1>1. CASE HandleRequest
    <2>1. response_tx' \in {response_tx, "error", "stream"}
      BY <1>1 DEF HandleRequest, Refuse
    <2>4. handler' \in Handlers
      <3>1. handler' = "done" \/ handler' = "working" \/ handler' = "streaming"
        BY <1>1 DEF HandleRequest, Refuse
      <3> QED BY <3>1, HandlersKnown, Zenon
    <2>5. UNCHANGED <<head, body, complete, stream_q, stream_body>>
      BY <1>1 DEF HandleRequest, wireVars
    <2>2. made' = made \/ \E c \in 1..3 : made' = <<Value("error", c)>>
      BY <1>1 DEF HandleRequest, Refuse, ERR_CODE_UNKNOWN_METHOD, ERR_CODE_DECODE_ERROR
    <2>3. made' \in Seq(HttpOutcomes)
      BY <1>0, <1>o, <2>2
    <2>6. response_tx' \in {"", "stream", "unary", "error"}
      BY <1>0, <2>1
    <2> QED BY <1>0, <2>3, <2>4, <2>5, <2>6
  <1>2. CASE ReturnUnary
    <2>1. /\ handler' = "done" /\ response_tx' \in {"unary", "error"}
          /\ UNCHANGED <<head, body, complete, stream_q, stream_body>>
      BY <1>2 DEF ReturnUnary, wireVars
    <2>2. made' = <<Value("response", 0)>> \/ made' = <<Value("error", 3)>>
      BY <1>2 DEF ReturnUnary, ERR_CODE_HANDLER_ERROR
    <2>3. made' \in Seq(HttpOutcomes)
      BY <1>o, <2>2
    <2>4. handler' \in Handlers
      BY <2>1, HandlersKnown, Zenon
    <2>5. response_tx' \in {"", "stream", "unary", "error"}
      BY <2>1
    <2> QED BY <1>0, <2>1, <2>3, <2>4, <2>5
  <1>3. CASE Respond
    <2>1. response_tx' = "" /\ UNCHANGED <<made, handler, stream_q>>
      BY <1>3 DEF Respond
    <2>2. CASE response_tx = "unary"
      BY <1>0, <1>3, <2>1, <2>2, ResponseReplied DEF Respond
    <2>3. CASE response_tx = "error"
      <3>1. PICK c \in 1..3 : made = <<Value("error", c)>>
        BY <2>3 DEF RustServing
      <3>2. ReplyError(c) /\ UNCHANGED stream_body
        BY <1>3, <2>3, <3>1 DEF Respond, Value
      <3>3. head' \in Heads /\ body' \in Seq(Nat) /\ complete' = TRUE
        <4>1. ReplyError(c) =>
                  /\ head' \in Heads /\ head'.status \in {400, 404, 500} /\ head'.type = "rpc-error"
                  /\ body' = ErrorBody(c) /\ body' \in Seq(Nat) /\ complete' = TRUE
          BY ErrorReplied
        <4> QED BY <3>2, <4>1
      <3>4. response_tx' \in {"", "stream", "unary", "error"} /\ UNCHANGED stream_body
        BY <2>1, <3>2
      <3> QED BY <1>0, <2>1, <3>3, <3>4
    <2>4. CASE response_tx = "stream"
      <3>1. /\ head' = [status |-> 200, type |-> "rpc-stream"] /\ stream_body' = "open"
            /\ UNCHANGED <<body, complete>>
        BY <1>3, <2>4 DEF Respond
      <3>2. head' \in Heads
        BY <3>1, HeadsWritten, Zenon
      <3>3. stream_body' \in {"none", "open", "ended"}
        BY <3>1
      <3> QED BY <1>0, <2>1, <3>1, <3>2, <3>3
    <2>5. response_tx \in {"stream", "unary", "error"}
      BY <1>0, <1>3 DEF Respond
    <2> QED BY <2>2, <2>3, <2>4, <2>5
  <1>4. CASE SendItem
    <2>1. /\ UNCHANGED <<head, body, complete, handler, response_tx, stream_body>>
          /\ Len(made) < MaxItems
          /\ stream_q' = Append(stream_q, <<STREAM_ITEM, Len(made) + 1>>)
          /\ made' = Append(made, Value("item", Len(made) + 1))
      BY <1>4 DEF SendItem, wireVars
    <2>2. Len(made) + 1 \in 1..MaxItems
      <3>1. made \in Seq(HttpOutcomes)
        BY <1>0
      <3>2. Len(made) \in Nat /\ MaxItems \in Nat
        BY <3>1, MaxItemsNat
      <3> QED BY <2>1, <3>2
    <2>3. Value("item", Len(made) + 1) \in HttpOutcomes /\ <<STREAM_ITEM, Len(made) + 1>> \in Messages
      <3> DEFINE n == Len(made) + 1
      <3>1. n \in 1..MaxItems
        BY <2>2
      <3> HIDE DEF n
      <3>2. Value("item", n) \in StreamOutcomes /\ MessageOf(Value("item", n)) = <<STREAM_ITEM, n>>
        BY <3>1, OutcomesMade, MessagesMade
      <3>3. <<STREAM_ITEM, n>> \in Messages /\ Value("item", n) \in HttpOutcomes
        BY <3>2, MessagesMade DEF StreamOutcomes
      <3> QED BY <3>3 DEF n
    <2>4. made' \in Seq(HttpOutcomes) /\ stream_q' \in Seq(Messages)
      BY <1>0, <2>1, <2>3, MadeAppended, MessageAppended
    <2>5. handler' \in Handlers
      <3>1. handler \in Handlers
        BY <1>0
      <3> QED BY <2>1, <3>1, HandlersKnown, Zenon
    <2> QED BY <1>0, <2>1, <2>4, <2>5
  <1>5. CASE FailStream
    <2>1. handler' = "failing" /\ UNCHANGED <<head, body, complete, made, response_tx, stream_q, stream_body>>
      BY <1>5 DEF FailStream, httpVars, wireVars
    <2>2. handler' \in Handlers
      BY <2>1, HandlersKnown, Zenon
    <2> QED BY <1>0, <2>1, <2>2
  <1>6. CASE SendFailure
    <2>1. /\ UNCHANGED <<head, body, complete, response_tx, stream_body>>
          /\ stream_q' = Append(stream_q, <<STREAM_ERROR>> \o ErrorBody(3))
          /\ made' = Append(made, Value("error", 3))
          /\ handler' \in {"done", "detached"}
      BY <1>6 DEF SendFailure, wireVars, ERR_CODE_HANDLER_ERROR
    <2>2. Value("error", 3) \in StreamOutcomes /\ MessageOf(Value("error", 3)) = <<STREAM_ERROR>> \o ErrorBody(3)
      BY OutcomesMade, MessagesMade
    <2>3. Value("error", 3) \in HttpOutcomes /\ <<STREAM_ERROR>> \o ErrorBody(3) \in Messages
      BY <2>2, MessagesMade DEF StreamOutcomes
    <2>4. made' \in Seq(HttpOutcomes) /\ stream_q' \in Seq(Messages)
      BY <1>0, <2>1, <2>3, MadeAppended, MessageAppended
    <2>5. handler' \in Handlers
      <3>1. handler' = "done" \/ handler' = "detached"
        BY <2>1
      <3> QED BY <3>1, HandlersKnown, Zenon
    <2> QED BY <1>0, <2>1, <2>4, <2>5
  <1>7. CASE CloseStream
    <2>1. /\ UNCHANGED <<head, body, complete, response_tx, stream_body>>
          /\ stream_q' \in {stream_q, Append(stream_q, <<STREAM_END>>)}
          /\ made' = Append(made, Value("end", 0))
          /\ handler' \in {"done", "detached"}
      BY <1>7 DEF CloseStream, wireVars
    <2>2. Value("end", 0) \in StreamOutcomes /\ MessageOf(Value("end", 0)) = <<STREAM_END>>
      BY OutcomesMade, MessagesMade
    <2>3. Value("end", 0) \in HttpOutcomes /\ <<STREAM_END>> \in Messages
      BY <2>2, MessagesMade DEF StreamOutcomes
    <2>4. made' \in Seq(HttpOutcomes) /\ stream_q' \in Seq(Messages)
      BY <1>0, <2>1, <2>3, MadeAppended, MessageAppended
    <2>5. handler' \in Handlers
      <3>1. handler' = "done" \/ handler' = "detached"
        BY <2>1
      <3> QED BY <3>1, HandlersKnown, Zenon
    <2> QED BY <1>0, <2>1, <2>4, <2>5
  <1>8. CASE ReturnStream
    <2>1. handler' = "done" /\ UNCHANGED <<head, body, complete, made, response_tx, stream_q, stream_body>>
      BY <1>8 DEF ReturnStream, httpVars, wireVars
    <2>2. handler' \in Handlers
      BY <2>1, HandlersKnown, Zenon
    <2> QED BY <1>0, <2>1, <2>2
  <1>9. CASE PollFrame
    <2>1. /\ UNCHANGED <<head, complete, made, handler, response_tx, stream_body>>
          /\ stream_q # <<>> /\ body' = body \o StreamFrame(Head(stream_q)) /\ stream_q' = Tail(stream_q)
      BY <1>9 DEF PollFrame
    <2>2. Head(stream_q) \in Messages /\ Tail(stream_q) \in Seq(Messages)
      BY <1>0, <2>1, HeadTailProperties
    <2>3. body' \in Seq(Nat)
      BY <1>0, <2>1, <2>2, FrameWritten
    <2> QED BY <1>0, <2>1, <2>2, <2>3
  <1>10. CASE BodyEnd
    <2>1. /\ UNCHANGED <<head, body, made, response_tx, stream_q>>
          /\ complete' = TRUE /\ stream_body' = "ended" /\ handler' \in {handler, "dropped"}
      BY <1>10 DEF BodyEnd
    <2>2. handler' \in Handlers
      <3>1. handler \in Handlers
        BY <1>0
      <3> QED BY <2>1, <3>1, HandlersKnown, Zenon
    <2>3. stream_body' \in {"none", "open", "ended"} /\ complete' \in BOOLEAN
      BY <2>1
    <2> QED BY <1>0, <2>1, <2>2, <2>3
  <1>11. CASE Disconnect
    <2>1. /\ UNCHANGED <<head, body, complete, made>>
          /\ response_tx' = "" /\ stream_q' = <<>>
          /\ handler' \in {handler, "dropped"} /\ stream_body' \in {stream_body, "ended"}
      BY <1>11 DEF Disconnect, httpVars, wireVars
    <2>2. handler' \in Handlers /\ stream_q' \in Seq(Messages)
      <3>1. handler \in Handlers
        BY <1>0
      <3>2. handler' \in Handlers
        BY <2>1, <3>1, HandlersKnown, Zenon
      <3>3. <<>> \in Seq(Messages)
        OBVIOUS
      <3> QED BY <2>1, <3>2, <3>3
    <2>3. response_tx' \in {"", "stream", "unary", "error"} /\ stream_body' \in {"none", "open", "ended"}
      BY <1>0, <2>1
    <2> QED BY <1>0, <2>1, <2>2, <2>3
  <1> QED BY <1>1, <1>2, <1>3, <1>4, <1>5, <1>6, <1>7, <1>8, <1>9, <1>10, <1>11
          DEF RustActs, RustServerTask, RustMethod

\* The same for Go.
LEMMA GoTyped ==
    ASSUME HttpTyped, GoActs
    PROVE  /\ head' \in Heads
           /\ body' \in Seq(Nat) /\ complete' \in BOOLEAN /\ made' \in Seq(HttpOutcomes)
           /\ goroutine' \in {"none", "working", "done"}
  <1>0. /\ head \in Heads
        /\ body \in Seq(Nat) /\ complete \in BOOLEAN /\ made \in Seq(HttpOutcomes)
        /\ goroutine \in {"none", "working", "done"}
    BY DEF HttpTyped
  <1>o. /\ \A c \in 1..3 : <<Value("error", c)>> \in Seq(HttpOutcomes)
        /\ <<Value("error", 3)>> \in Seq(HttpOutcomes)
        /\ <<Value("response", 0)>> \in Seq(HttpOutcomes)
    BY OutcomesMade DEF StreamOutcomes
  <1>1. CASE ServeHTTP
    <2>1. CASE goroutine' = "working" /\ UNCHANGED <<head, body, complete, made>>
      BY <1>0, <2>1
    <2>2. CASE /\ goroutine' = "done"
               /\ \E c \in 1..3 : made' = <<Value("error", c)>> /\ ReplyError(c)
      <3>1. PICK c \in 1..3 : made' = <<Value("error", c)>> /\ ReplyError(c)
        BY <2>2
      <3>2. made' \in Seq(HttpOutcomes)
        BY <1>o, <3>1
      <3>3. ReplyError(c)
        BY <3>1
      <3>4. head' \in Heads /\ body' \in Seq(Nat) /\ complete' = TRUE
        <4>1. ReplyError(c) =>
                  /\ head' \in Heads /\ head'.status \in {400, 404, 500} /\ head'.type = "rpc-error"
                  /\ body' = ErrorBody(c) /\ body' \in Seq(Nat) /\ complete' = TRUE
          BY ErrorReplied
        <4> QED BY <3>3, <4>1
      <3> QED BY <2>2, <3>2, <3>4
    <2> QED BY <1>1, <2>1, <2>2 DEF ServeHTTP, ERR_CODE_UNKNOWN_METHOD, ERR_CODE_DECODE_ERROR
  <1>2. CASE GoReturnUnary
    <2>1. goroutine' = "done"
      BY <1>2 DEF GoReturnUnary
    <2>2. CASE made' = <<Value("response", 0)>> /\ Reply(200, "rpc", Payload2)
      BY <1>o, <2>1, <2>2, ResponseReplied
    <2>3. CASE made' = <<Value("error", 3)>> /\ ReplyError(3)
      BY <1>o, <2>1, <2>3, ErrorReplied
    <2> QED BY <1>2, <2>2, <2>3 DEF GoReturnUnary, ERR_CODE_HANDLER_ERROR
  <1>3. CASE SendStreamItem
    <2>1. /\ UNCHANGED <<complete, goroutine>> /\ Len(made) < MaxItems
          /\ head' = [status |-> 200, type |-> "rpc-stream"]
          /\ body' = body \o StreamFrame(<<STREAM_ITEM, Len(made) + 1>>)
          /\ made' = Append(made, Value("item", Len(made) + 1))
      BY <1>3 DEF SendStreamItem, WriteStreamFrame, goServerVars
    <2>2. Len(made) + 1 \in 1..MaxItems
      <3>1. made \in Seq(HttpOutcomes)
        BY <1>0
      <3>2. Len(made) \in Nat /\ MaxItems \in Nat
        BY <3>1, MaxItemsNat
      <3> QED BY <2>1, <3>2
    <2>3. Value("item", Len(made) + 1) \in HttpOutcomes /\ <<STREAM_ITEM, Len(made) + 1>> \in Messages
      <3> DEFINE n == Len(made) + 1
      <3>1. n \in 1..MaxItems
        BY <2>2
      <3> HIDE DEF n
      <3>2. Value("item", n) \in StreamOutcomes /\ MessageOf(Value("item", n)) = <<STREAM_ITEM, n>>
        BY <3>1, OutcomesMade, MessagesMade
      <3>3. <<STREAM_ITEM, n>> \in Messages /\ Value("item", n) \in HttpOutcomes
        BY <3>2, MessagesMade DEF StreamOutcomes
      <3> QED BY <3>3 DEF n
    <2>4. made' \in Seq(HttpOutcomes) /\ body' \in Seq(Nat)
      BY <1>0, <2>1, <2>3, MadeAppended, FrameWritten
    <2>5. head' \in Heads
      BY <2>1, HeadsWritten, Zenon
    <2> QED BY <1>0, <2>1, <2>4, <2>5
  <1>4. CASE SendStreamEnd
    <2>1. /\ complete' = TRUE /\ goroutine' = "done"
          /\ head' = [status |-> 200, type |-> "rpc-stream"]
          /\ body' = body \o StreamFrame(<<STREAM_END>>)
          /\ made' = Append(made, Value("end", 0))
      BY <1>4 DEF SendStreamEnd, WriteStreamFrame
    <2>2. Value("end", 0) \in StreamOutcomes /\ MessageOf(Value("end", 0)) = <<STREAM_END>>
      BY OutcomesMade, MessagesMade
    <2>3. Value("end", 0) \in HttpOutcomes /\ <<STREAM_END>> \in Messages
      BY <2>2, MessagesMade DEF StreamOutcomes
    <2>4. made' \in Seq(HttpOutcomes) /\ body' \in Seq(Nat)
      BY <1>0, <2>1, <2>3, MadeAppended, FrameWritten
    <2>5. head' \in Heads
      BY <2>1, HeadsWritten, Zenon
    <2> QED BY <1>0, <2>1, <2>4, <2>5
  <1>5. CASE SendError
    <2>1. /\ goroutine' = "done" /\ made' = Append(made, Value("error", 3))
      BY <1>5 DEF SendError, ERR_CODE_HANDLER_ERROR
    <2>2. Value("error", 3) \in StreamOutcomes /\ MessageOf(Value("error", 3)) = <<STREAM_ERROR>> \o ErrorBody(3)
      BY OutcomesMade, MessagesMade
    <2>3. Value("error", 3) \in HttpOutcomes /\ <<STREAM_ERROR>> \o ErrorBody(3) \in Messages
      BY <2>2, MessagesMade DEF StreamOutcomes
    <2>4. made' \in Seq(HttpOutcomes)
      BY <1>0, <2>1, <2>3, MadeAppended
    <2>5. CASE ReplyError(3)
      BY <2>1, <2>4, <2>5, ErrorReplied
    <2>6. CASE WriteStreamFrame(<<STREAM_ERROR>> \o ErrorBody(3)) /\ complete' = TRUE
      <3>1. /\ head' = [status |-> 200, type |-> "rpc-stream"]
            /\ body' = body \o StreamFrame(<<STREAM_ERROR>> \o ErrorBody(3))
        BY <2>6 DEF WriteStreamFrame
      <3>2. body' \in Seq(Nat)
        BY <1>0, <2>3, <3>1, FrameWritten
      <3>3. head' \in Heads
        BY <3>1, HeadsWritten, Zenon
      <3> QED BY <2>1, <2>4, <2>6, <3>2, <3>3
    <2> QED BY <1>5, <2>5, <2>6 DEF SendError, ERR_CODE_HANDLER_ERROR
  <1>6. CASE GoReturnGone \/ GoDisconnect
    <2>1. goroutine' \in {goroutine, "done"} /\ UNCHANGED <<head, body, complete, made>>
      BY <1>6 DEF GoReturnGone, GoDisconnect, httpVars, wireVars
    <2>2. goroutine' \in {"none", "working", "done"}
      BY <1>0, <2>1
    <2> QED BY <1>0, <2>1, <2>2
  <1> QED BY <1>1, <1>2, <1>3, <1>4, <1>5, <1>6 DEF GoActs, GoMethod

\* The types of the whole.
LEMMA HttpTypedStep ==
    ASSUME HttpTyped, CallerOK, HttpMade, Replied, Streamed, RustServing, HttpRpcNext
    PROVE  HttpTyped'
  <1>c. /\ client \in {"rust", "go", "ts"} /\ server \in {"rust", "go"}
        /\ kind \in {"unary", "stream", "none"} /\ conn \in {"none", "up", "closed", "cut"}
    BY DEF HttpTyped
  <1>w. /\ head \in Heads /\ body \in Seq(Nat) /\ complete \in BOOLEAN
        /\ made \in Seq(HttpOutcomes) /\ got \in Seq(HttpTold)
    BY DEF HttpTyped
  <1>r. /\ phase \in {"idle", "calling", "collecting", "open", "over", "dropped"}
        /\ phase # "dropped" => buf \in Seq(Nat) /\ events \in Seq(HttpTold)
        /\ reader \in {"none", "reading", "done"}
    BY DEF HttpTyped
  <1>h. /\ handler \in Handlers /\ response_tx \in {"", "stream", "unary", "error"}
        /\ stream_q \in Seq(Messages) /\ stream_body \in {"none", "open", "ended"}
    BY DEF HttpTyped
  <1>g. goroutine \in {"none", "working", "done"}
    BY DEF HttpTyped
  <1>1. CASE ClientSide
    <2>1. UNCHANGED <<handler, response_tx, stream_q, stream_body, goroutine>>
      BY <1>1 DEF ClientSide, rustServerVars, goServerVars
    <2>2. UNCHANGED <<client, server, kind, head, complete, made>>
      BY <1>1, ClientLeaves DEF ClientSide
    <2>3. /\ conn' \in {"none", "up", "closed", "cut"}
          /\ body' \in Seq(Nat) /\ got' \in Seq(HttpTold)
          /\ phase' \in {"idle", "calling", "collecting", "open", "over", "dropped"}
          /\ phase' # "dropped" => buf' \in Seq(Nat) /\ events' \in Seq(HttpTold)
          /\ reader' \in {"none", "reading", "done"}
      BY <1>1, CallerTyped DEF ClientSide
    <2>4. /\ client' \in {"rust", "go", "ts"} /\ server' \in {"rust", "go"}
          /\ kind' \in {"unary", "stream", "none"}
          /\ head' \in Heads /\ complete' \in BOOLEAN /\ made' \in Seq(HttpOutcomes)
      BY <1>c, <1>w, <2>2
    <2>5. /\ handler' \in Handlers /\ response_tx' \in {"", "stream", "unary", "error"}
          /\ stream_q' \in Seq(Messages) /\ stream_body' \in {"none", "open", "ended"}
          /\ goroutine' \in {"none", "working", "done"}
      BY <1>h, <1>g, <2>1
    <2> QED BY <2>3, <2>4, <2>5, Zenon DEF HttpTyped
  <1>2. CASE RustSide
    <2>1. UNCHANGED <<phase, buf, events, reader, goroutine>>
      BY <1>2 DEF RustSide, clientVars, goServerVars
    <2>2. UNCHANGED <<client, server, kind, conn, got>>
      BY <1>2, ServerLeaves DEF RustSide
    <2>3. /\ head' \in Heads
          /\ body' \in Seq(Nat) /\ complete' \in BOOLEAN /\ made' \in Seq(HttpOutcomes)
          /\ handler' \in Handlers
          /\ response_tx' \in {"", "stream", "unary", "error"}
          /\ stream_q' \in Seq(Messages) /\ stream_body' \in {"none", "open", "ended"}
      BY <1>2, RustTyped DEF RustSide
    <2>4. /\ client' \in {"rust", "go", "ts"} /\ server' \in {"rust", "go"}
          /\ kind' \in {"unary", "stream", "none"} /\ conn' \in {"none", "up", "closed", "cut"}
          /\ got' \in Seq(HttpTold)
      BY <1>c, <1>w, <2>2
    <2>5. /\ phase' \in {"idle", "calling", "collecting", "open", "over", "dropped"}
          /\ phase' # "dropped" => buf' \in Seq(Nat) /\ events' \in Seq(HttpTold)
          /\ reader' \in {"none", "reading", "done"} /\ goroutine' \in {"none", "working", "done"}
      BY <1>r, <1>g, <2>1
    <2> QED BY <2>3, <2>4, <2>5, Zenon DEF HttpTyped
  <1>3. CASE GoSide
    <2>1. UNCHANGED <<phase, buf, events, reader, handler, response_tx, stream_q, stream_body>>
      BY <1>3 DEF GoSide, clientVars, rustServerVars
    <2>2. UNCHANGED <<client, server, kind, conn, got>>
      BY <1>3, ServerLeaves DEF GoSide
    <2>3. /\ head' \in Heads
          /\ body' \in Seq(Nat) /\ complete' \in BOOLEAN /\ made' \in Seq(HttpOutcomes)
          /\ goroutine' \in {"none", "working", "done"}
      BY <1>3, GoTyped DEF GoSide
    <2>4. /\ client' \in {"rust", "go", "ts"} /\ server' \in {"rust", "go"}
          /\ kind' \in {"unary", "stream", "none"} /\ conn' \in {"none", "up", "closed", "cut"}
          /\ got' \in Seq(HttpTold)
      BY <1>c, <1>w, <2>2
    <2>5. /\ phase' \in {"idle", "calling", "collecting", "open", "over", "dropped"}
          /\ phase' # "dropped" => buf' \in Seq(Nat) /\ events' \in Seq(HttpTold)
          /\ reader' \in {"none", "reading", "done"}
      BY <1>r, <2>1
    <2>6. /\ handler' \in Handlers /\ response_tx' \in {"", "stream", "unary", "error"}
          /\ stream_q' \in Seq(Messages) /\ stream_body' \in {"none", "open", "ended"}
      BY <1>h, <2>1
    <2> QED BY <2>3, <2>4, <2>5, <2>6, Zenon DEF HttpTyped
  <1>4. CASE CutSide
    <2>1. UNCHANGED <<client, server, kind, head, made, got>>
      BY <1>4 DEF CutSide, HttpCut, callVars
    <2>2. conn' = "cut" /\ complete' \in BOOLEAN
      BY <1>4, <1>w DEF CutSide, HttpCut
    <2>3. body' \in Seq(Nat)
      <3>1. \A n \in 0..Len(body) : SubSeq(body, 1, n) \in Seq(Nat)
        BY <1>w, Leading
      <3> QED BY <1>4, <1>w, <3>1 DEF CutSide, HttpCut
    <2>4. UNCHANGED <<phase, buf, events, reader, handler, response_tx, stream_q, stream_body, goroutine>>
      BY <1>4 DEF CutSide, clientVars, rustServerVars, goServerVars
    <2>5. /\ client' \in {"rust", "go", "ts"} /\ server' \in {"rust", "go"}
          /\ kind' \in {"unary", "stream", "none"} /\ conn' \in {"none", "up", "closed", "cut"}
          /\ head' \in Heads /\ made' \in Seq(HttpOutcomes) /\ got' \in Seq(HttpTold)
      BY <1>c, <1>w, <2>1, <2>2
    <2>6. /\ phase' \in {"idle", "calling", "collecting", "open", "over", "dropped"}
          /\ phase' # "dropped" => buf' \in Seq(Nat) /\ events' \in Seq(HttpTold)
          /\ reader' \in {"none", "reading", "done"}
      BY <1>r, <2>4
    <2>7. /\ handler' \in Handlers /\ response_tx' \in {"", "stream", "unary", "error"}
          /\ stream_q' \in Seq(Messages) /\ stream_body' \in {"none", "open", "ended"}
          /\ goroutine' \in {"none", "working", "done"}
      BY <1>h, <1>g, <2>4
    <2> QED BY <2>2, <2>3, <2>5, <2>6, <2>7, Zenon DEF HttpTyped
  <1> QED BY <1>1, <1>2, <1>3, <1>4, HttpSides

-----------------------------------------------------------------------------
(* What the method makes. *)

\* The method makes nothing, or one more outcome after its items.
Makes ==
    \/ made' = made
    \/ \E o \in HttpOutcomes :
          /\ made' = Append(made, o) /\ ItemsOnly(made)
          /\ kind = "stream" => o.type # "response"

\* A sequence of one outcome is what is appended to none.
LEMMA FirstMade ==
    ASSUME NEW o
    PROVE  <<o>> = Append(<<>>, o) /\ ItemsOnly(<<>>)
  BY DEF ItemsOnly

\* No handler makes an outcome after its last one.
LEMMA RustMakes ==
    ASSUME HttpTyped, RustServing, RustActs, server = "rust"
    PROVE  Makes
  <1>e. \A c \in 1..3 : Value("error", c) \in HttpOutcomes /\ Value("error", c).type = "error"
    BY OutcomesMade DEF StreamOutcomes, Value
  <1>3. Value("error", 3) \in HttpOutcomes /\ Value("error", 3).type = "error"
    BY <1>e
  <1>1. CASE HandleRequest
    <2>1. made = <<>>
      BY <1>1 DEF HandleRequest, RustServing
    <2>2. made' = made \/ \E c \in 1..3 : made' = <<Value("error", c)>>
      BY <1>1 DEF HandleRequest, Refuse, ERR_CODE_UNKNOWN_METHOD, ERR_CODE_DECODE_ERROR
    <2>3. CASE \E c \in 1..3 : made' = <<Value("error", c)>>
      <3>1. PICK c \in 1..3 : made' = <<Value("error", c)>>
        BY <2>3
      <3> DEFINE o == Value("error", c)
      <3>2. o \in HttpOutcomes /\ o.type = "error"
        BY <1>e
      <3>3. made' = Append(made, o) /\ ItemsOnly(made)
        BY <3>1, <2>1, FirstMade
      <3> HIDE DEF o
      <3> QED BY <3>2, <3>3 DEF Makes
    <2> QED BY <2>2, <2>3 DEF Makes
  <1>2. CASE ReturnUnary
    <2>1. made = <<>> /\ kind = "unary"
      BY <1>2 DEF ReturnUnary, RustServing
    <2>2. \E o \in HttpOutcomes : made' = <<o>>
      BY <1>2, <1>3, OutcomesMade DEF ReturnUnary, ERR_CODE_HANDLER_ERROR
    <2>3. PICK o \in HttpOutcomes : made' = <<o>>
      BY <2>2
    <2>4. made' = Append(made, o) /\ ItemsOnly(made)
      BY <2>1, <2>3, FirstMade
    <2> QED BY <2>1, <2>4 DEF Makes
  <1>4. CASE SendItem
    <2>1. /\ handler = "streaming" /\ Len(made) < MaxItems
          /\ made' = Append(made, Value("item", Len(made) + 1))
      BY <1>4 DEF SendItem
    <2>2. ItemsOnly(made)
      BY <2>1 DEF RustServing, Holding
    <2> DEFINE n == Len(made) + 1
    <2>3. n \in 1..MaxItems
      <3>1. made \in Seq(HttpOutcomes)
        BY DEF HttpTyped
      <3>2. Len(made) \in Nat /\ MaxItems \in Nat
        BY <3>1, MaxItemsNat
      <3> QED BY <2>1, <3>2
    <2>4. made' = Append(made, Value("item", n))
      BY <2>1
    <2> HIDE DEF n
    <2> DEFINE o == Value("item", n)
    <2>5. o \in HttpOutcomes /\ o.type = "item"
      BY <2>3, OutcomesMade DEF StreamOutcomes, Value
    <2>6. made' = Append(made, o)
      BY <2>4
    <2> HIDE DEF o
    <2> QED BY <2>2, <2>5, <2>6 DEF Makes
  <1>6. CASE SendFailure
    <2> DEFINE o == Value("error", 3)
    <2>1. handler = "failing" /\ made' = Append(made, o)
      BY <1>6 DEF SendFailure, ERR_CODE_HANDLER_ERROR
    <2>2. ItemsOnly(made)
      BY <2>1 DEF RustServing, Holding
    <2>3. o \in HttpOutcomes /\ o.type = "error"
      BY <1>3
    <2> HIDE DEF o
    <2> QED BY <2>1, <2>2, <2>3 DEF Makes
  <1>7. CASE CloseStream
    <2> DEFINE o == Value("end", 0)
    <2>1. handler = "streaming" /\ made' = Append(made, o)
      BY <1>7 DEF CloseStream
    <2>2. ItemsOnly(made)
      BY <2>1 DEF RustServing, Holding
    <2>3. o \in HttpOutcomes /\ o.type = "end"
      BY OutcomesMade DEF StreamOutcomes, Value
    <2> HIDE DEF o
    <2> QED BY <2>1, <2>2, <2>3 DEF Makes
  <1>8. CASE Respond \/ FailStream \/ ReturnStream \/ PollFrame \/ BodyEnd \/ Disconnect
    BY <1>8 DEF Respond, FailStream, ReturnStream, PollFrame, BodyEnd, Disconnect, httpVars, Makes
  <1> QED BY <1>1, <1>2, <1>4, <1>6, <1>7, <1>8 DEF RustActs, RustServerTask, RustMethod

\* Nor does the goroutine of a request.
LEMMA GoMakes ==
    ASSUME HttpTyped, GoServing, GoActs, server = "go"
    PROVE  Makes
  <1>e. \A c \in 1..3 : Value("error", c) \in HttpOutcomes /\ Value("error", c).type = "error"
    BY OutcomesMade DEF StreamOutcomes, Value
  <1>3. Value("error", 3) \in HttpOutcomes /\ Value("error", 3).type = "error"
    BY <1>e
  <1>1. CASE ServeHTTP
    <2>1. made = <<>>
      BY <1>1 DEF ServeHTTP, GoServing
    <2>2. made' = made \/ \E c \in 1..3 : made' = <<Value("error", c)>>
      BY <1>1 DEF ServeHTTP, ERR_CODE_UNKNOWN_METHOD, ERR_CODE_DECODE_ERROR
    <2>3. CASE \E c \in 1..3 : made' = <<Value("error", c)>>
      <3>1. PICK c \in 1..3 : made' = <<Value("error", c)>>
        BY <2>3
      <3> DEFINE o == Value("error", c)
      <3>2. o \in HttpOutcomes /\ o.type = "error"
        BY <1>e
      <3>3. made' = Append(made, o) /\ ItemsOnly(made)
        BY <3>1, <2>1, FirstMade
      <3> HIDE DEF o
      <3> QED BY <3>2, <3>3 DEF Makes
    <2> QED BY <2>2, <2>3 DEF Makes
  <1>2. CASE GoReturnUnary
    <2>1. made = <<>> /\ kind = "unary"
      BY <1>2 DEF GoReturnUnary, GoServing
    <2>2. \E o \in HttpOutcomes : made' = <<o>>
      BY <1>2, <1>3, OutcomesMade DEF GoReturnUnary, ERR_CODE_HANDLER_ERROR
    <2>3. PICK o \in HttpOutcomes : made' = <<o>>
      BY <2>2
    <2>4. made' = Append(made, o) /\ ItemsOnly(made)
      BY <2>1, <2>3, FirstMade
    <2> QED BY <2>1, <2>4 DEF Makes
  <1>4. CASE SendStreamItem
    <2>1. /\ goroutine = "working" /\ Len(made) < MaxItems
          /\ made' = Append(made, Value("item", Len(made) + 1))
      BY <1>4 DEF SendStreamItem
    <2>2. ItemsOnly(made)
      BY <2>1 DEF GoServing
    <2> DEFINE n == Len(made) + 1
    <2>3. n \in 1..MaxItems
      <3>1. made \in Seq(HttpOutcomes)
        BY DEF HttpTyped
      <3>2. Len(made) \in Nat /\ MaxItems \in Nat
        BY <3>1, MaxItemsNat
      <3> QED BY <2>1, <3>2
    <2>4. made' = Append(made, Value("item", n))
      BY <2>1
    <2> HIDE DEF n
    <2> DEFINE o == Value("item", n)
    <2>5. o \in HttpOutcomes /\ o.type = "item"
      BY <2>3, OutcomesMade DEF StreamOutcomes, Value
    <2>6. made' = Append(made, o)
      BY <2>4
    <2> HIDE DEF o
    <2> QED BY <2>2, <2>5, <2>6 DEF Makes
  <1>5. CASE SendStreamEnd
    <2> DEFINE o == Value("end", 0)
    <2>1. goroutine = "working" /\ made' = Append(made, o)
      BY <1>5 DEF SendStreamEnd
    <2>2. ItemsOnly(made)
      BY <2>1 DEF GoServing
    <2>3. o \in HttpOutcomes /\ o.type = "end"
      BY OutcomesMade DEF StreamOutcomes, Value
    <2> HIDE DEF o
    <2> QED BY <2>1, <2>2, <2>3 DEF Makes
  <1>6. CASE SendError
    <2> DEFINE o == Value("error", 3)
    <2>1. goroutine = "working" /\ made' = Append(made, o)
      BY <1>6 DEF SendError, ERR_CODE_HANDLER_ERROR
    <2>2. ItemsOnly(made)
      BY <2>1 DEF GoServing
    <2>3. o \in HttpOutcomes /\ o.type = "error"
      BY <1>3
    <2> HIDE DEF o
    <2> QED BY <2>1, <2>2, <2>3 DEF Makes
  <1>7. CASE GoReturnGone \/ GoDisconnect
    BY <1>7 DEF GoReturnGone, GoDisconnect, httpVars, Makes
  <1> QED BY <1>1, <1>2, <1>4, <1>5, <1>6, <1>7 DEF GoActs, GoMethod

\* Whoever takes a step, the method makes nothing or one more outcome.
LEMMA EverMakes ==
    ASSUME HttpTyped, RustServing, GoServing, HttpRpcNext
    PROVE  Makes
  <1>1. CASE ClientSide
    BY <1>1, ClientLeaves DEF ClientSide, Makes
  <1>2. CASE RustSide
    BY <1>2, RustMakes DEF RustSide
  <1>3. CASE GoSide
    BY <1>3, GoMakes DEF GoSide
  <1>4. CASE CutSide
    BY <1>4 DEF CutSide, HttpCut, Makes
  <1> QED BY <1>1, <1>2, <1>3, <1>4, HttpSides

\* What was made stays.
LEMMA MadeStays ==
    ASSUME HttpTyped, Makes
    PROVE  /\ made' \in Seq(HttpOutcomes) /\ Len(made') \in Nat
           /\ Len(made) \in Nat /\ Len(made') \in {Len(made), Len(made) + 1}
           /\ \A i \in 1..Len(made) : made'[i] = made[i]
           /\ made' # made => ItemsOnly(made)
           /\ made' # made => Len(made') = Len(made) + 1
  <1>0. made \in Seq(HttpOutcomes)
    BY DEF HttpTyped
  <1>1. made \in Seq(HttpOutcomes) /\ Len(made) \in Nat
    BY <1>0
  <1>2. ASSUME NEW o \in HttpOutcomes, made' = Append(made, o)
        PROVE  /\ made' \in Seq(HttpOutcomes) /\ Len(made') = Len(made) + 1
               /\ \A i \in 1..Len(made) : made'[i] = made[i]
    BY <1>1, <1>2, AppendProperties
  <1>3. CASE made' = made
    BY <1>1, <1>3
  <1>4. CASE made' # made
    <2>1. PICK o \in HttpOutcomes : made' = Append(made, o) /\ ItemsOnly(made)
      BY <1>4 DEF Makes
    <2> DEFINE n == Len(made)
               m == Len(made')
    <2>2. /\ made' \in Seq(HttpOutcomes) /\ m = n + 1
          /\ \A i \in 1..n : made'[i] = made[i]
      BY <1>2, <2>1
    <2>3. n \in Nat
      BY <1>1
    <2> HIDE DEF n, m
    <2>4. m \in Nat /\ m \in {n, n + 1}
      BY <2>2, <2>3
    <2> QED BY <2>1, <2>2, <2>3, <2>4 DEF n, m
  <1> QED BY <1>3, <1>4

\* Outcomes before the last one are items.
LEMMA HttpMadeStep ==
    ASSUME HttpTyped, HttpMade, RustServing, GoServing, HttpRpcNext
    PROVE  HttpMade'
  <1>1. Makes /\ kind' = kind
    <2>1. kind' = kind
      BY HttpSides, ClientLeaves, ServerLeaves DEF ClientSide, RustSide, GoSide, CutSide, HttpCut, callVars
    <2> QED BY <2>1, EverMakes
  <1>2. CASE made' = made
    BY <1>1, <1>2 DEF HttpMade
  <1>3. CASE made' # made
    <2>1. PICK o \in HttpOutcomes : /\ made' = Append(made, o) /\ ItemsOnly(made)
                                    /\ kind = "stream" => o.type # "response"
      BY <1>1, <1>3 DEF Makes
    <2> DEFINE n == Len(made)
    <2>0. made \in Seq(HttpOutcomes)
      BY DEF HttpTyped
    <2>2. made \in Seq(HttpOutcomes) /\ n \in Nat
      BY <2>0
    <2>3. /\ Len(made') = n + 1 /\ made'[n + 1] = o
          /\ \A i \in 1..n : made'[i] = made[i]
      BY <2>1, <2>2, AppendProperties
    <2>4. \A i \in 1..n : made[i].type = "item"
      BY <2>1 DEF ItemsOnly
    <2> HIDE DEF n
    <2>5. ASSUME NEW i \in 1..(n + 1)
          PROVE  /\ i < n + 1 => made'[i].type = "item"
                 /\ kind = "stream" => made'[i].type # "response"
      <3>1. CASE i = n + 1
        <4>1. made'[i] = o
          BY <3>1, <2>3
        <4>2. ~(i < n + 1)
          BY <3>1, <2>2
        <4> QED BY <4>1, <4>2, <2>1
      <3>2. CASE i \in 1..n
        <4>1. made'[i].type = "item"
          BY <3>2, <2>3, <2>4
        <4> QED BY <4>1
      <3> QED BY <3>1, <3>2, <2>2
    <2> QED BY <1>1, <2>3, <2>5 DEF HttpMade
  <1> QED BY <1>2, <1>3

-----------------------------------------------------------------------------
(* The caller, and the servers. *)

\* A response keeps its status.
LEMMA HeadStays ==
    ASSUME HttpTyped, RustServing, GoServing, Replied, HttpRpcNext, head.status # 0
    PROVE  head'.status = head.status
  <1>1. CASE ClientSide
    BY <1>1, ClientLeaves DEF ClientSide
  <1>2. CASE RustSide
    <2>1. ~Respond
      <3>1. server = "rust" => response_tx \notin {"stream", "unary", "error"}
        BY DEF RustServing
      <3>2. ASSUME Respond PROVE response_tx \in {"stream", "unary", "error"}
        <4>1. response_tx # ""
          BY <3>2 DEF Respond
        <4> QED BY <4>1 DEF HttpTyped
      <3> QED BY <1>2, <3>1, <3>2 DEF RustSide
    <2> QED BY <1>2, <2>1 DEF RustSide, RustActs, RustServerTask, RustMethod, HandleRequest, ReturnUnary,
           SendItem, FailStream, SendFailure, CloseStream, ReturnStream, PollFrame, BodyEnd, Disconnect, httpVars, wireVars
  <1>3. CASE GoSide
    <2>1. goroutine = "working" => head.status = 200 /\ kind # "unary"
      BY <1>3 DEF GoSide, GoServing
    <2>2. goroutine # "none"
      BY <1>3 DEF GoSide, GoServing
    <2>3. [status |-> 200, type |-> "rpc-stream"].status = 200
      OBVIOUS
    <2>4. CASE ServeHTTP \/ GoReturnUnary
      BY <2>1, <2>2, <2>4 DEF ServeHTTP, GoReturnUnary
    <2>5. CASE SendStreamItem \/ SendStreamEnd
      BY <2>1, <2>3, <2>5 DEF SendStreamItem, SendStreamEnd, WriteStreamFrame
    <2>6. CASE SendError
      BY <2>1, <2>3, <2>6 DEF SendError, WriteStreamFrame, Streaming
    <2>7. CASE GoReturnGone \/ GoDisconnect
      BY <2>7 DEF GoReturnGone, GoDisconnect, httpVars, wireVars
    <2> QED BY <1>3, <2>4, <2>5, <2>6, <2>7 DEF GoSide, GoActs, GoMethod
  <1>4. CASE CutSide
    BY <1>4 DEF CutSide, HttpCut
  <1> QED BY <1>1, <1>2, <1>3, <1>4, HttpSides

\* Items, and one more.
LEMMA ItemsAppended ==
    ASSUME NEW q \in Seq(HttpTold), NEW e \in HttpTold, ItemsOnly(q), e.type = "item"
    PROVE  ItemsOnly(Append(q, e))
  <1> DEFINE n == Len(q)
             t == Append(q, e)
  <1>1. n \in Nat /\ Len(t) = n + 1 /\ t[n + 1] = e /\ \A i \in 1..n : t[i] = q[i]
    BY AppendProperties
  <1>2. \A i \in 1..n : q[i].type = "item"
    BY DEF ItemsOnly
  <1> HIDE DEF n, t
  <1>3. ASSUME NEW i \in 1..(n + 1) PROVE t[i].type = "item"
    <2>1. CASE i = n + 1
      BY <1>1, <2>1
    <2>2. CASE i \in 1..n
      BY <1>1, <1>2, <2>2
    <2> QED BY <2>1, <2>2, <1>1
  <1>4. ItemsOnly(t)
    BY <1>1, <1>3 DEF ItemsOnly
  <1> QED BY <1>4 DEF t

\* The caller takes its own steps.
LEMMA CallerActs ==
    ASSUME HttpTyped, CallerOK, Queued, ClientActs
    PROVE  CallerOK'
  <1>0. client' = client /\ kind' = kind /\ head' = head
    BY ClientLeaves
  <1>1. CASE Connect
    <2>1. /\ phase = "idle" /\ phase' = "calling" /\ kind # "none" /\ conn' = "up"
          /\ UNCHANGED <<got, buf, events, reader>>
      BY <1>1 DEF Connect
    <2> QED BY <1>0, <2>1 DEF CallerOK
  <1>2. CASE ReadHead
    <2>1. /\ phase = "calling" /\ head.status # 0
          /\ \/ kind = "stream" /\ head.status = 200 /\ phase' = "open" /\ reader' = "reading"
             \/ /\ ~(kind = "stream" /\ head.status = 200)
                /\ phase' = "collecting" /\ reader' = reader
          /\ conn' = conn /\ got' = got /\ buf' = buf /\ events' = events
      BY <1>2 DEF ReadHead, httpVars, wireVars
    <2>2. kind \in {"unary", "stream", "none"}
      BY DEF HttpTyped
    <2>3. ItemsOnly(<<>>)
      BY DEF ItemsOnly
    <2> QED BY <1>0, <2>1, <2>2, <2>3 DEF CallerOK
  <1>3. CASE ConnectFails
    <2>1. phase = "calling" /\ phase' = "over" /\ conn = "cut" /\ UNCHANGED <<conn, buf, events, reader>>
      BY <1>3 DEF ConnectFails, Tell, wireVars
    <2> QED BY <1>0, <2>1 DEF CallerOK
  <1>4. CASE Collect
    <2>1. phase = "collecting" /\ UNCHANGED <<conn, got, phase, events, reader>>
      BY <1>4 DEF Collect
    <2> QED BY <1>0, <2>1 DEF CallerOK
  <1>5. CASE Collected
    <2>1. phase = "collecting" /\ phase' = "over" /\ UNCHANGED <<conn, buf, events, reader>>
      BY <1>5 DEF Collected, Tell, wireVars
    <2> QED BY <1>0, <2>1 DEF CallerOK
  <1>6. CASE Chunk
    <2>1. reader = "reading" /\ UNCHANGED <<conn, got, phase, events, reader>>
      BY <1>6 DEF Chunk, Reading
    <2> QED BY <1>0, <2>1 DEF CallerOK
  <1>7. CASE Emit
    <2>1. /\ reader = "reading" /\ UNCHANGED <<got, phase>>
          /\ \/ UNCHANGED <<reader, conn>>
             \/ reader' = "done" /\ conn' \in {conn, "closed"} /\ (conn' = conn \/ conn = "up")
      BY <1>7 DEF Emit
    <2> QED BY <1>0, <2>1 DEF CallerOK
  <1>8. CASE ReaderEnd
    <2>1. reader = "reading" /\ reader' = "done" /\ UNCHANGED <<conn, got, phase>>
      BY <1>8 DEF ReaderEnd, Reading, httpVars, wireVars
    <2> QED BY <1>0, <2>1 DEF CallerOK
  <1>9. CASE ReaderFails
    <2>1. reader = "reading" /\ reader' = "done" /\ UNCHANGED <<conn, got, phase>>
      BY <1>9 DEF ReaderFails, Reading, httpVars, wireVars
    <2> QED BY <1>0, <2>1 DEF CallerOK
  <1>10. CASE ReaderStop
    <2>1. /\ reader = "reading" /\ reader' = "done" /\ phase = "dropped" /\ UNCHANGED <<got, phase>>
          /\ conn' \in {conn, "closed"} /\ (conn' = conn \/ conn = "up")
      BY <1>10 DEF ReaderStop
    <2> QED BY <1>0, <2>1 DEF CallerOK
  <1>11. CASE Recv
    <2>1. /\ phase = "open" /\ events # <<>> /\ got' = Append(got, Head(events))
          /\ phase' = (IF Head(events).type = "item" THEN "open" ELSE "over")
          /\ UNCHANGED <<conn, buf, reader>>
      BY <1>11 DEF Recv, wireVars
    <2>2. got \in Seq(HttpTold) /\ events \in Seq(HttpTold)
      BY <2>1 DEF HttpTyped
    <2>3. Head(events) \in HttpTold /\ Head(events) = events[1] /\ 1 \in 1..Len(events)
      BY <2>1, <2>2
    <2>4. CASE Head(events).type = "item"
      <3>1. ItemsOnly(got)
        BY <2>1 DEF CallerOK
      <3>2. ItemsOnly(got')
        BY <2>1, <2>2, <2>3, <2>4, <3>1, ItemsAppended
      <3>3. phase' = "open"
        BY <2>1, <2>4
      <3> QED BY <1>0, <2>1, <3>2, <3>3 DEF CallerOK
    <2>5. CASE Head(events).type # "item"
      <3>1. reader # "reading"
        BY <2>1, <2>3, <2>5 DEF Queued, ItemsOnly
      <3>2. phase' = "over"
        BY <2>1, <2>5
      <3> QED BY <1>0, <2>1, <3>1, <3>2 DEF CallerOK
    <2> QED BY <2>4, <2>5
  <1>12. CASE Drop
    <2>1. /\ phase \in {"calling", "collecting", "open"} /\ phase' = "dropped"
          /\ conn' \in {conn, "closed"} /\ (conn' = conn \/ conn = "up")
          /\ reader' = reader
      BY <1>12 DEF Drop
    <2> QED BY <1>0, <2>1 DEF CallerOK
  <1> QED BY <1>1, <1>2, <1>3, <1>4, <1>5, <1>6, <1>7, <1>8, <1>9, <1>10, <1>11, <1>12
          DEF ClientActs, ClientTask

\* The caller keeps count of what it was told.
LEMMA CallerStep ==
    ASSUME HttpTyped, CallerOK, RustServing, GoServing, Replied, Queued, HttpRpcNext
    PROVE  CallerOK'
  <1>0. head.status # 0 => head'.status = head.status
    BY HeadStays
  <1>1. CASE ClientSide
    BY <1>1, CallerActs DEF ClientSide
  <1>2. CASE RustSide
    <2>1. UNCHANGED <<phase, buf, events, reader>>
      BY <1>2 DEF RustSide, clientVars
    <2>2. UNCHANGED <<kind, conn, got>>
      BY <1>2, ServerLeaves DEF RustSide
    <2> QED BY <1>0, <2>1, <2>2 DEF CallerOK
  <1>3. CASE GoSide
    <2>1. UNCHANGED <<phase, buf, events, reader>>
      BY <1>3 DEF GoSide, clientVars
    <2>2. UNCHANGED <<kind, conn, got>>
      BY <1>3, ServerLeaves DEF GoSide
    <2> QED BY <1>0, <2>1, <2>2 DEF CallerOK
  <1>4. CASE CutSide
    <2>1. /\ UNCHANGED <<phase, buf, events, reader, kind, got, head>>
          /\ conn = "up" /\ conn' = "cut"
      BY <1>4 DEF CutSide, clientVars, HttpCut, callVars
    <2> QED BY <2>1 DEF CallerOK
  <1> QED BY <1>1, <1>2, <1>3, <1>4, HttpSides

\* A sequence that ends with an outcome that is no item.
LEMMA LastMade ==
    ASSUME NEW q \in Seq(HttpOutcomes), NEW o \in HttpOutcomes, o.type # "item"
    PROVE  Over(Append(q, o))
  <1> DEFINE n == Len(q)
             t == Append(q, o)
  <1>1. n \in Nat /\ Len(t) = n + 1 /\ t[n + 1] = o
    BY AppendProperties
  <1> HIDE DEF n, t
  <1>2. t[Len(t)] = o /\ Len(t) # 0
    BY <1>1
  <1>3. t # <<>>
    BY <1>2
  <1>4. Over(t)
    BY <1>2, <1>3 DEF Over
  <1> QED BY <1>4 DEF t

\* A method whose only outcome is no item is over.
LEMMA OneMade ==
    ASSUME NEW o, o.type # "item"
    PROVE  Over(<<o>>)
  BY DEF Over

\* Items, and one more.
LEMMA ItemMade ==
    ASSUME NEW q \in Seq(HttpOutcomes), NEW o \in HttpOutcomes, ItemsOnly(q), o.type = "item"
    PROVE  ItemsOnly(Append(q, o))
  <1>1. q \in Seq(HttpTold) /\ o \in HttpTold
    <2>1. HttpOutcomes \subseteq HttpTold
      BY DEF HttpTold
    <2> QED BY <2>1
  <1> QED BY <1>1, ItemsAppended

\* A method that has only made items is not over.
LEMMA ItemsNotOver ==
    ASSUME NEW q \in Seq(HttpOutcomes), ItemsOnly(q)
    PROVE  ~Over(q)
  <1>1. ASSUME q # <<>> PROVE Len(q) \in 1..Len(q)
    BY <1>1
  <1> QED BY <1>1 DEF Over, ItemsOnly

\* The handler takes its own steps.
LEMMA RustServes ==
    ASSUME HttpTyped, RustServing, RustActs, server = "rust"
    PROVE  RustServing'
  <1>0. UNCHANGED <<client, server, kind, conn, got>>
    BY ServerLeaves
  <1>m. made \in Seq(HttpOutcomes)
    BY DEF HttpTyped
  <1>s. server' = "rust"
    BY <1>0
  <1>n. /\ NoHead.status = 0 /\ ItemsOnly(<<>>)
        /\ Value("error", 3).type # "item" /\ Value("response", 0).type # "item" /\ Value("end", 0).type # "item"
        /\ \A c \in 1..3 : Value("error", c).type # "item"
    BY DEF NoHead, ItemsOnly, Value
  <1>1. CASE HandleRequest
    <2>1. handler = "none" /\ conn = "up" /\ UNCHANGED <<head, stream_q, stream_body>>
      BY <1>1 DEF HandleRequest, wireVars
    <2>2. made = <<>> /\ head.status = 0 /\ response_tx = "" /\ stream_body = "none"
      BY <2>1 DEF RustServing
    <2>3. CASE Refuse
      <3>1. PICK c \in 1..3 : made' = <<Value("error", c)>>
        BY <2>3 DEF Refuse, ERR_CODE_UNKNOWN_METHOD, ERR_CODE_DECODE_ERROR
      <3>2. handler' = "done" /\ response_tx' = "error"
        BY <2>3 DEF Refuse
      <3>3. Over(made')
        BY <1>n, <3>1, OneMade
      <3> QED BY <1>0, <1>s, <2>1, <2>2, <3>1, <3>2, <3>3 DEF RustServing, Holding
    <2>4. CASE kind = "unary" /\ handler' = "working" /\ UNCHANGED <<response_tx, made>>
      BY <1>0, <1>s, <2>1, <2>2, <2>4 DEF RustServing, Holding
    <2>5. CASE kind = "stream" /\ handler' = "streaming" /\ response_tx' = "stream" /\ UNCHANGED made
      <3>1. ItemsOnly(made')
        BY <1>n, <2>2, <2>5
      <3> QED BY <1>0, <1>s, <2>1, <2>2, <2>5, <3>1 DEF RustServing, Holding
    <2> QED BY <1>1, <2>3, <2>4, <2>5 DEF HandleRequest
  <1>2. CASE ReturnUnary
    <2>1. handler = "working" /\ handler' = "done" /\ UNCHANGED <<head, stream_q, stream_body>>
      BY <1>2 DEF ReturnUnary, wireVars
    <2>2. kind = "unary" /\ head.status = 0
      BY <2>1 DEF RustServing
    <2>3. CASE made' = <<Value("response", 0)>> /\ response_tx' = "unary"
      <3>1. Over(made')
        BY <1>n, <2>3, OneMade
      <3> QED BY <1>0, <1>s, <2>1, <2>2, <2>3, <3>1 DEF RustServing, Holding
    <2>4. CASE made' = <<Value("error", 3)>> /\ response_tx' = "error"
      <3>1. Over(made')
        BY <1>n, <2>4, OneMade
      <3>2. \E c \in 1..3 : made' = <<Value("error", c)>>
        <4>1. 3 \in 1..3
          OBVIOUS
        <4> QED BY <2>4, <4>1
      <3> QED BY <1>0, <1>s, <2>1, <2>2, <2>4, <3>1, <3>2 DEF RustServing, Holding
    <2> QED BY <1>2, <2>3, <2>4 DEF ReturnUnary, ERR_CODE_HANDLER_ERROR
  <1>3. CASE Respond
    <2>1. response_tx # "" /\ response_tx' = "" /\ UNCHANGED <<made, handler, stream_q>>
      BY <1>3 DEF Respond
    <2>2. handler \notin {"none", "working"} /\ head.status = 0
      <3>1. response_tx \in {"stream", "unary", "error"}
        BY <2>1 DEF HttpTyped
      <3> QED BY <2>1, <3>1 DEF RustServing
    <2>3. \/ stream_body' = stream_body
          \/ kind = "stream" /\ head'.status = 200
      <3>1. response_tx = "stream" =>
              /\ head' = [status |-> 200, type |-> "rpc-stream"]
              /\ kind = "stream"
        BY <1>3 DEF Respond, RustServing
      <3>2. [status |-> 200, type |-> "rpc-stream"].status = 200
        OBVIOUS
      <3>3. response_tx \in {"unary", "error"} => stream_body' = stream_body
        BY <1>3 DEF Respond
      <3>4. response_tx \in {"stream", "unary", "error"}
        BY <2>1 DEF HttpTyped
      <3> QED BY <3>1, <3>2, <3>3, <3>4
    <2>b. stream_body = "none"
      <3>1. stream_body # "none" => head.status = 200
        BY DEF RustServing
      <3> QED BY <2>2, <3>1
    <2>4. stream_body' # "none" => kind' = "stream" /\ head'.status = 200
      BY <1>0, <2>b, <2>3
    <2>5. handler' \notin {"none", "working"} /\ conn' # "none"
      BY <2>1, <2>2, <1>3 DEF Respond
    <2>6. handler' \in Holding => kind' = "stream" /\ ItemsOnly(made')
      BY <1>0, <2>1 DEF RustServing
    <2>7. /\ handler' = "detached" => kind' = "stream"
          /\ handler' \in {"done", "detached"} => Over(made')
      BY <1>0, <2>1 DEF RustServing
    <2>8. handler' = "dropped" /\ conn' = "up" => stream_body' = "ended"
      <3>1. handler = "dropped" /\ conn = "up" => stream_body = "ended"
        BY DEF RustServing
      <3> QED BY <1>0, <2>1, <2>b, <3>1
    <2>9. response_tx' \notin {"unary", "error", "stream"} /\ server' = "rust"
      BY <1>s, <2>1
    <2> QED BY <2>4, <2>5, <2>6, <2>7, <2>8, <2>9 DEF RustServing
  <1>4. CASE SendItem
    <2>1. handler = "streaming" /\ UNCHANGED <<head, handler, response_tx, stream_body>>
      BY <1>4 DEF SendItem, wireVars
    <2>2. PICK o \in HttpOutcomes : made' = Append(made, o) /\ o.type = "item"
      <3>1. made' = Append(made, Value("item", Len(made) + 1)) /\ Len(made) < MaxItems
        BY <1>4 DEF SendItem
      <3> DEFINE n == Len(made) + 1
      <3>2. Len(made) \in Nat /\ MaxItems \in Nat
        BY <1>m, MaxItemsNat
      <3>3. n \in 1..MaxItems /\ made' = Append(made, Value("item", n))
        BY <3>1, <3>2
      <3> HIDE DEF n
      <3>4. Value("item", n) \in HttpOutcomes /\ Value("item", n).type = "item"
        BY <3>3, OutcomesMade DEF StreamOutcomes, Value
      <3> QED BY <3>3, <3>4
    <2>3. ItemsOnly(made)
      BY <2>1 DEF RustServing, Holding
    <2>4. ItemsOnly(made')
      BY <1>m, <2>2, <2>3, ItemMade
    <2> QED BY <1>0, <1>s, <2>1, <2>4 DEF RustServing, Holding
  <1>5. CASE FailStream
    <2>1. /\ handler = "streaming" /\ handler' = "failing"
          /\ UNCHANGED <<head, made, response_tx, stream_q, stream_body>>
      BY <1>5 DEF FailStream, httpVars, wireVars
    <2> QED BY <1>0, <1>s, <2>1 DEF RustServing, Holding
  <1>6. CASE SendFailure
    <2>1. /\ handler = "failing" /\ handler' \in {"done", "detached"}
          /\ UNCHANGED <<head, response_tx, stream_body>>
      BY <1>6 DEF SendFailure, wireVars
    <2>2. Over(made')
      BY <1>6, <1>m, <1>n, OutcomesMade, LastMade DEF SendFailure, ERR_CODE_HANDLER_ERROR, StreamOutcomes
    <2> QED BY <1>0, <1>s, <2>1, <2>2 DEF RustServing, Holding
  <1>7. CASE CloseStream
    <2>1. /\ handler = "streaming" /\ handler' \in {"done", "detached"}
          /\ UNCHANGED <<head, response_tx, stream_body>>
      BY <1>7 DEF CloseStream, wireVars
    <2>2. Over(made')
      BY <1>7, <1>m, <1>n, OutcomesMade, LastMade DEF CloseStream, StreamOutcomes
    <2> QED BY <1>0, <1>s, <2>1, <2>2 DEF RustServing, Holding
  <1>8. CASE ReturnStream
    <2>1. /\ handler = "detached" /\ handler' = "done"
          /\ UNCHANGED <<head, made, response_tx, stream_q, stream_body>>
      BY <1>8 DEF ReturnStream, httpVars, wireVars
    <2> QED BY <1>0, <1>s, <2>1 DEF RustServing, Holding
  <1>9. CASE PollFrame
    <2>1. stream_body = "open" /\ UNCHANGED <<head, made, handler, response_tx, stream_body>>
      BY <1>9 DEF PollFrame
    <2> QED BY <1>0, <1>s, <2>1 DEF RustServing, Holding
  <1>10. CASE BodyEnd
    <2>1. /\ stream_body = "open" /\ stream_body' = "ended" /\ handler \notin Holding
          /\ handler' = (IF handler = "detached" THEN "dropped" ELSE handler)
          /\ UNCHANGED <<head, made, response_tx, stream_q>>
      BY <1>10 DEF BodyEnd
    <2> QED BY <1>0, <1>s, <2>1 DEF RustServing, Holding
  <1>11. CASE Disconnect
    <2>1. /\ conn \in {"closed", "cut"} /\ (handler \in Running \/ response_tx # "" \/ stream_body = "open")
          /\ handler' = (IF handler \in Running THEN "dropped" ELSE handler)
          /\ response_tx' = "" /\ stream_q' = <<>>
          /\ stream_body' = (IF stream_body = "open" THEN "ended" ELSE stream_body)
          /\ UNCHANGED <<head, made>>
      BY <1>11 DEF Disconnect, httpVars, wireVars
    <2>2. handler # "none"
      BY <2>1 DEF RustServing, Running, Holding
    <2> QED BY <1>0, <1>s, <2>1, <2>2 DEF RustServing, Holding, Running
  <1> QED BY <1>1, <1>2, <1>3, <1>4, <1>5, <1>6, <1>7, <1>8, <1>9, <1>10, <1>11
          DEF RustActs, RustServerTask, RustMethod

\* The caller opens the connection, and may close it.
LEMMA CallerConn ==
    ASSUME CallerOK, ClientActs
    PROVE  /\ conn' = "none" => conn = "none"
           /\ conn' = "up" => conn \in {"none", "up"}
           /\ conn' = "cut" <=> conn = "cut"
           /\ conn' = "closed" /\ conn # "closed" => conn = "up"
  <1>1. CASE Connect
    BY <1>1 DEF Connect, CallerOK
  <1>2. CASE Emit \/ ReaderStop \/ Drop
    BY <1>2 DEF Emit, ReaderStop, Drop
  <1> QED BY <1>1, <1>2 DEF ClientActs, ClientTask, ReadHead, ConnectFails, Collect, Collected, Chunk,
             ReaderEnd, ReaderFails, Recv, httpVars, wireVars

\* What the handler made and answered stays true without it.
LEMMA RustServingKept ==
    ASSUME RustServing,
           UNCHANGED <<handler, response_tx, stream_q, stream_body, server, kind, head, made>>,
           conn' = "none" => handler = "none",
           conn' = "up" /\ handler = "dropped" => conn = "up"
    PROVE  RustServing'
  <1>1. server' = "go" \/ conn' = "none" => handler' = "none"
    BY DEF RustServing
  <1>2. handler' = "none" => response_tx' = "" /\ stream_q' = <<>> /\ stream_body' = "none"
    BY DEF RustServing
  <1>3. ASSUME server = "rust"
        PROVE  /\ handler = "none" => made = <<>> /\ head.status = 0
               /\ handler = "working" => kind = "unary" /\ made = <<>> /\ response_tx = "" /\ head.status = 0
               /\ handler \in Holding => kind = "stream" /\ ItemsOnly(made)
               /\ handler = "detached" => kind = "stream"
               /\ handler \in {"done", "detached"} => Over(made)
               /\ response_tx \in {"unary", "error"} => head.status = 0 /\ handler = "done"
               /\ response_tx = "unary" => kind = "unary" /\ made = <<Value("response", 0)>>
               /\ response_tx = "error" => \E c \in 1..3 : made = <<Value("error", c)>>
               /\ response_tx = "stream" => kind = "stream" /\ head.status = 0
               /\ stream_body # "none" => kind = "stream" /\ head.status = 200
    BY <1>3, Zenon DEF RustServing
  <1>4. server = "rust" /\ handler = "dropped" /\ conn' = "up" => stream_body = "ended"
    BY DEF RustServing
  <1>5. /\ handler' = handler /\ response_tx' = response_tx /\ stream_q' = stream_q
        /\ stream_body' = stream_body /\ server' = server /\ kind' = kind
        /\ head' = head /\ made' = made
    OBVIOUS
  <1>6. server' = "rust" =>
            /\ handler' = "none" => made' = <<>> /\ head'.status = 0
            /\ handler' = "working" => kind' = "unary" /\ made' = <<>> /\ response_tx' = "" /\ head'.status = 0
            /\ handler' \in Holding => kind' = "stream" /\ ItemsOnly(made)'
            /\ handler' = "detached" => kind' = "stream"
            /\ handler' \in {"done", "detached"} => Over(made)'
            /\ response_tx' \in {"unary", "error"} => head'.status = 0 /\ handler' = "done"
            /\ response_tx' = "unary" => kind' = "unary" /\ made' = <<Value("response", 0)>>
            /\ response_tx' = "error" => \E c \in 1..3 : made' = <<Value("error", c)>>
            /\ response_tx' = "stream" => kind' = "stream" /\ head'.status = 0
            /\ stream_body' # "none" => kind' = "stream" /\ head'.status = 200
            /\ handler' = "dropped" /\ conn' = "up" => stream_body' = "ended"
    BY <1>3, <1>4, <1>5
  <1> QED BY <1>1, <1>2, <1>6 DEF RustServing

\* The handler goes along with what it made and answered.
LEMMA RustServingStep ==
    ASSUME HttpTyped, CallerOK, RustServing, HttpRpcNext
    PROVE  RustServing'
  <1>1. CASE ClientSide
    <2>1. UNCHANGED <<handler, response_tx, stream_q, stream_body>>
      BY <1>1 DEF ClientSide, rustServerVars
    <2>2. UNCHANGED <<server, kind, head, made>>
      BY <1>1, ClientLeaves DEF ClientSide
    <2>3. /\ conn' = "none" => conn = "none"
          /\ conn' = "up" => conn \in {"none", "up"}
      BY <1>1, CallerConn DEF ClientSide
    <2>4. conn = "none" => handler = "none"
      BY DEF RustServing
    <2> QED BY <2>1, <2>2, <2>3, <2>4, RustServingKept
  <1>2. CASE RustSide
    BY <1>2, RustServes DEF RustSide
  <1>3. CASE GoSide
    <2>1. UNCHANGED <<handler, response_tx, stream_q, stream_body>>
      BY <1>3 DEF GoSide, rustServerVars
    <2>2. UNCHANGED <<server, conn>> /\ server = "go"
      BY <1>3, ServerLeaves DEF GoSide
    <2> QED BY <2>1, <2>2 DEF RustServing
  <1>4. CASE CutSide
    <2>1. UNCHANGED <<handler, response_tx, stream_q, stream_body>>
      BY <1>4 DEF CutSide, rustServerVars
    <2>2. UNCHANGED <<server, kind, head, made>> /\ conn' = "cut"
      BY <1>4 DEF CutSide, HttpCut, callVars
    <2> QED BY <2>1, <2>2, RustServingKept
  <1> QED BY <1>1, <1>2, <1>3, <1>4, HttpSides

\* The goroutine takes its own steps.
LEMMA GoServes ==
    ASSUME HttpTyped, GoServing, Replied, GoActs, server = "go"
    PROVE  GoServing'
  <1>0. UNCHANGED <<client, server, kind, conn, got>>
    BY ServerLeaves
  <1>m. made \in Seq(HttpOutcomes)
    BY DEF HttpTyped
  <1>s. server' = "go"
    BY <1>0
  <1>1. CASE ServeHTTP
    <2>1. conn = "up" /\ goroutine = "none"
      BY <1>1 DEF ServeHTTP
    <2>2. made = <<>> /\ head.status = 0 /\ ~complete
      BY <1>1 DEF ServeHTTP, GoServing, Replied
    <2>3. \/ goroutine' = "done"
          \/ goroutine' = "working" /\ UNCHANGED <<head, complete, made>>
      BY <1>1 DEF ServeHTTP
    <2>4. ItemsOnly(<<>>)
      BY DEF ItemsOnly
    <2> QED BY <1>0, <1>s, <2>1, <2>2, <2>3, <2>4 DEF GoServing
  <1>2. CASE GoReturnUnary \/ SendStreamEnd \/ SendError \/ GoReturnGone
    <2>1. goroutine = "working" /\ goroutine' = "done"
      BY <1>2 DEF GoReturnUnary, SendStreamEnd, SendError, GoReturnGone
    <2> QED BY <1>0, <1>s, <2>1 DEF GoServing
  <1>3. CASE SendStreamItem
    <2>1. /\ kind = "stream" /\ goroutine = "working" /\ UNCHANGED <<complete, goroutine>>
          /\ head' = [status |-> 200, type |-> "rpc-stream"]
      BY <1>3 DEF SendStreamItem, WriteStreamFrame, goServerVars
    <2>h. head'.status = 200
      BY <2>1
    <2>2. PICK o \in HttpOutcomes : made' = Append(made, o) /\ o.type = "item"
      <3>1. made' = Append(made, Value("item", Len(made) + 1)) /\ Len(made) < MaxItems
        BY <1>3 DEF SendStreamItem
      <3> DEFINE n == Len(made) + 1
      <3>2. Len(made) \in Nat /\ MaxItems \in Nat
        BY <1>m, MaxItemsNat
      <3>3. n \in 1..MaxItems /\ made' = Append(made, Value("item", n))
        BY <3>1, <3>2
      <3> HIDE DEF n
      <3>4. Value("item", n) \in HttpOutcomes /\ Value("item", n).type = "item"
        BY <3>3, OutcomesMade DEF StreamOutcomes, Value
      <3> QED BY <3>3, <3>4
    <2>3. ItemsOnly(made) /\ ~complete
      BY <1>s, <1>0, <2>1 DEF GoServing
    <2>4. ItemsOnly(made')
      BY <1>m, <2>2, <2>3, ItemMade
    <2>5. made' # <<>>
      BY <1>m, <2>2
    <2>6. kind' = "stream" /\ goroutine' = "working" /\ ~complete'
      BY <1>0, <2>1, <2>3
    <2> QED BY <1>0, <1>s, <2>1, <2>h, <2>4, <2>5, <2>6 DEF GoServing
  <1>4. CASE GoDisconnect
    <2>1. UNCHANGED <<goroutine, head, complete, made>>
      BY <1>4 DEF GoDisconnect, httpVars, wireVars
    <2> QED BY <1>0, <2>1 DEF GoServing
  <1> QED BY <1>1, <1>2, <1>3, <1>4 DEF GoActs, GoMethod

\* The goroutine goes along with what it made and answered.
LEMMA GoServingStep ==
    ASSUME HttpTyped, CallerOK, GoServing, Replied, HttpRpcNext
    PROVE  GoServing'
  <1>1. CASE ClientSide
    <2>1. UNCHANGED goroutine
      BY <1>1 DEF ClientSide, goServerVars
    <2>2. UNCHANGED <<server, kind, head, complete, made>>
      BY <1>1, ClientLeaves DEF ClientSide
    <2>3. conn' = "none" => conn = "none"
      BY <1>1, CallerConn DEF ClientSide
    <2> QED BY <2>1, <2>2, <2>3 DEF GoServing
  <1>2. CASE RustSide
    <2>1. UNCHANGED goroutine
      BY <1>2 DEF RustSide, goServerVars
    <2>2. UNCHANGED <<server, conn>> /\ server = "rust"
      BY <1>2, ServerLeaves DEF RustSide
    <2> QED BY <2>1, <2>2 DEF GoServing
  <1>3. CASE GoSide
    BY <1>3, GoServes DEF GoSide
  <1>4. CASE CutSide
    <2>1. UNCHANGED <<goroutine, server, kind, head, made>> /\ conn' = "cut"
      BY <1>4 DEF CutSide, HttpCut, callVars, goServerVars
    <2>2. complete' => complete
      BY <1>4 DEF CutSide, HttpCut
    <2> QED BY <2>1, <2>2 DEF GoServing
  <1> QED BY <1>1, <1>2, <1>3, <1>4, HttpSides

-----------------------------------------------------------------------------
(* Responses that are no stream. *)

\* A response is written at once, while the caller waits for its head.
LEMMA ReplyWritten ==
    ASSUME HttpTyped, CallerOK, head.status = 0,
           UNCHANGED <<kind, phase, buf>>,
           head'.status # 0, complete' = TRUE, body' \in Seq(Nat), body' = ReplyBytes',
           \/ head'.status = 200 /\ made' = <<Value("response", 0)>>
           \/ /\ head'.status # 200 /\ head'.type = "rpc-error"
              /\ \E c \in 1..3 : made' = <<Value("error", c)>>
    PROVE  Replied'
  <1>1. phase' \in {"calling", "collecting"} => buf' \o body' = ReplyBytes'
    <2>1. SUFFICES ASSUME phase \in {"calling", "collecting"} PROVE buf' \o body' = ReplyBytes'
      OBVIOUS
    <2>2. buf' = <<>>
      BY <2>1 DEF CallerOK
    <2>3. <<>> \o body' = body'
      OBVIOUS
    <2> QED BY <2>2, <2>3
  <1> QED BY <1>1 DEF Replied

\* A refusal or a failure.
LEMMA ErrorWritten ==
    ASSUME HttpTyped, CallerOK, head.status = 0, UNCHANGED <<kind, phase, buf>>,
           NEW c \in 1..3, made' = <<Value("error", c)>>, ReplyError(c)
    PROVE  Replied'
  <1>1. /\ head'.status \in {400, 404, 500} /\ head'.type = "rpc-error"
        /\ body' = ErrorBody(c) /\ body' \in Seq(Nat) /\ complete' = TRUE
    <2>1. ReplyError(c)
      OBVIOUS
    <2>2. ReplyError(c) => /\ head' \in Heads /\ head'.status \in {400, 404, 500} /\ head'.type = "rpc-error"
                           /\ body' = ErrorBody(c) /\ body' \in Seq(Nat) /\ complete' = TRUE
      BY ErrorReplied
    <2> QED BY <2>1, <2>2
  <1>2. ReplyBytes' = ErrorBody(c)
    <2>1. made'[1].body = c
      BY DEF Value
    <2>2. head'.status # 200
      BY <1>1
    <2> QED BY <2>1, <2>2 DEF ReplyBytes
  <1>3. /\ head'.status # 0 /\ head'.status # 200
        /\ \E d \in 1..3 : made' = <<Value("error", d)>>
    BY <1>1
  <1> QED BY <1>1, <1>2, <1>3, ReplyWritten

\* The response of a unary method.
LEMMA ResponseWritten ==
    ASSUME HttpTyped, CallerOK, head.status = 0, UNCHANGED <<kind, phase, buf>>,
           made' = <<Value("response", 0)>>, Reply(200, "rpc", Payload2)
    PROVE  Replied'
  <1>1. /\ head'.status = 200
        /\ body' = Payload2 /\ body' \in Seq(Nat) /\ complete' = TRUE
    BY ResponseReplied
  <1>2. ReplyBytes' = Payload2
    BY <1>1 DEF ReplyBytes
  <1>3. head'.status # 0
    BY <1>1
  <1> QED BY <1>1, <1>2, <1>3, ReplyWritten

\* What the caller takes of a response it keeps.
LEMMA CallerReads ==
    ASSUME HttpTyped, CallerOK, HttpMade, RustServing, GoServing, Replied, Streamed, ClientActs
    PROVE  Replied'
  <1>0. UNCHANGED <<kind, head, complete, made>>
    BY ClientLeaves
  <1>r. ReplyBytes' = ReplyBytes
    BY <1>0 DEF ReplyBytes
  <1>1. CASE Connect
    <2>1. conn = "none"
      BY <1>1 DEF Connect, CallerOK
    <2>2. head.status = 0
      <3>1. server \in {"rust", "go"}
        BY DEF HttpTyped
      <3> QED BY <2>1, <3>1 DEF RustServing, GoServing
    <2>3. body' = body
      BY <1>1 DEF Connect
    <2> QED BY <1>0, <2>2, <2>3 DEF Replied
  <1>2. CASE Collect
    <2>1. PICK n \in 1..Len(body) : TakePiece(n)
      BY <1>2 DEF Collect
    <2>2. phase = "collecting" /\ phase' = phase
      BY <1>2 DEF Collect
    <2>3. head.status # 0
      BY <2>2 DEF CallerOK
    <2>4. buf' \o body' = buf \o body
      BY <2>1, <2>2, PieceTaken DEF HttpTyped
    <2> QED BY <1>0, <1>r, <2>2, <2>3, <2>4 DEF Replied
  <1>3. CASE Chunk
    <2>1. phase = "open" /\ phase' = phase
      BY <1>3 DEF Chunk, Reading, CallerOK, HttpTyped
    <2>2. head.status # 0
      BY <2>1 DEF CallerOK
    <2> QED BY <1>0, <2>1, <2>2 DEF Replied
  <1>4. CASE ReadHead
    <2>1. phase = "calling" /\ body' = body /\ buf' = buf
      BY <1>4 DEF ReadHead, httpVars, wireVars
    <2> QED BY <1>0, <1>r, <2>1 DEF Replied
  <1>5. CASE ConnectFails \/ Collected \/ Drop \/ Recv
    <2>1. body' = body /\ phase' \notin {"calling", "collecting"}
      BY <1>5 DEF ConnectFails, Collected, Drop, Recv, Tell, wireVars
    <2> QED BY <1>0, <2>1 DEF Replied
  <1>6. CASE Emit \/ ReaderEnd \/ ReaderFails \/ ReaderStop
    <2>1. reader = "reading" /\ body' = body /\ phase' = phase
      BY <1>6 DEF Emit, ReaderEnd, ReaderFails, ReaderStop, Reading, httpVars, wireVars
    <2>2. phase \notin {"calling", "collecting"}
      BY <2>1 DEF CallerOK
    <2> QED BY <1>0, <2>1, <2>2 DEF Replied
  <1> QED BY <1>1, <1>2, <1>3, <1>4, <1>5, <1>6 DEF ClientActs, ClientTask

\* A response that is no stream stays the outcome of its method.
LEMMA RepliedStep ==
    ASSUME HttpTyped, CallerOK, HttpMade, RustServing, GoServing, Replied, Streamed, HttpRpcNext
    PROVE  Replied'
  <1>m. made \in Seq(HttpOutcomes)
    BY DEF HttpTyped
  <1>1. CASE ClientSide
    BY <1>1, CallerReads DEF ClientSide
  <1>2. CASE RustSide
    <2>1. UNCHANGED <<phase, buf>> /\ UNCHANGED kind /\ server = "rust"
      BY <1>2, ServerLeaves DEF RustSide, clientVars
    <2>2. CASE Respond
      <3>1. response_tx # ""
        BY <2>2 DEF Respond
      <3>2. response_tx \in {"unary", "error", "stream"}
        BY <3>1 DEF HttpTyped
      <3>3. CASE response_tx = "unary"
        <4>1. head.status = 0 /\ made = <<Value("response", 0)>>
          BY <2>1, <3>3 DEF RustServing
        <4>2. made' = made /\ Reply(200, "rpc", Payload2)
          BY <2>2, <3>3 DEF Respond
        <4> QED BY <2>1, <4>1, <4>2, ResponseWritten
      <3>4. CASE response_tx = "error"
        <4>1. head.status = 0
          BY <2>1, <3>4 DEF RustServing
        <4>2. PICK c \in 1..3 : made = <<Value("error", c)>>
          BY <2>1, <3>4 DEF RustServing
        <4>3. made' = made /\ ReplyError(c)
          BY <2>2, <3>4, <4>2 DEF Respond, Value
        <4> QED BY <2>1, <4>1, <4>2, <4>3, ErrorWritten
      <3>5. CASE response_tx = "stream"
        <4>1. kind = "stream"
          BY <2>1, <3>5 DEF RustServing
        <4>2. head' = [status |-> 200, type |-> "rpc-stream"]
          BY <2>2, <3>5 DEF Respond
        <4>3. head'.status = 200
          BY <4>2
        <4> QED BY <2>1, <4>1, <4>3 DEF Replied
      <3> QED BY <3>2, <3>3, <3>4, <3>5
    <2>3. CASE PollFrame \/ BodyEnd
      <3>1. stream_body = "open" /\ head' = head
        BY <2>3 DEF PollFrame, BodyEnd
      <3>2. stream_body # "none" => kind = "stream" /\ head.status = 200
        BY <2>1 DEF RustServing
      <3>3. kind' = "stream" /\ head'.status = 200
        BY <2>1, <3>1, <3>2
      <3> QED BY <3>3 DEF Replied
    <2>4. CASE ~Respond /\ ~PollFrame /\ ~BodyEnd
      <3>1. UNCHANGED <<head, body, complete>>
        BY <1>2, <2>4 DEF RustSide, RustActs, RustServerTask, RustMethod, HandleRequest, ReturnUnary,
             SendItem, FailStream, SendFailure, CloseStream, ReturnStream, Disconnect, httpVars, wireVars
      <3>2. CASE head.status # 0 /\ (kind = "unary" \/ head.status # 200)
        <4>1. \/ made = <<Value("response", 0)>>
              \/ \E c \in 1..3 : made = <<Value("error", c)>>
          BY <3>2 DEF Replied
        <4>2. ~ItemsOnly(made)
          BY <4>1 DEF ItemsOnly, Value
        <4>3. made' = made
          BY <1>2, <4>2, RustMakes DEF RustSide, Makes
        <4>4. ReplyBytes' = ReplyBytes
          BY <3>1, <4>3 DEF ReplyBytes
        <4> QED BY <2>1, <3>1, <4>3, <4>4 DEF Replied
      <3>3. CASE ~(head.status # 0 /\ (kind = "unary" \/ head.status # 200))
        BY <2>1, <3>1, <3>3 DEF Replied
      <3> QED BY <3>2, <3>3
    <2> QED BY <2>2, <2>3, <2>4
  <1>3. CASE GoSide
    <2>1. UNCHANGED <<phase, buf>> /\ UNCHANGED kind /\ server = "go"
      BY <1>3, ServerLeaves DEF GoSide, clientVars
    <2>2. CASE ServeHTTP
      <3>1. head.status = 0
        BY <2>1, <2>2 DEF ServeHTTP, GoServing
      <3>2. CASE \E c \in 1..3 : made' = <<Value("error", c)>> /\ ReplyError(c)
        BY <2>1, <3>1, <3>2, ErrorWritten
      <3>3. CASE UNCHANGED <<head, body, complete>>
        BY <3>1, <3>3 DEF Replied
      <3> QED BY <2>2, <3>2, <3>3 DEF ServeHTTP, ERR_CODE_UNKNOWN_METHOD, ERR_CODE_DECODE_ERROR
    <2>3. CASE GoReturnUnary
      <3>1. head.status = 0
        BY <2>1, <2>3 DEF GoReturnUnary, GoServing
      <3>2. CASE made' = <<Value("response", 0)>> /\ Reply(200, "rpc", Payload2)
        BY <2>1, <3>1, <3>2, ResponseWritten
      <3>3. CASE made' = <<Value("error", 3)>> /\ ReplyError(3)
        BY <2>1, <3>1, <3>3, ErrorWritten
      <3> QED BY <2>3, <3>2, <3>3 DEF GoReturnUnary, ERR_CODE_HANDLER_ERROR
    <2>4. ASSUME NEW m, WriteStreamFrame(m), kind = "stream"
          PROVE  Replied'
      <3>1. head' = [status |-> 200, type |-> "rpc-stream"]
        BY <2>4 DEF WriteStreamFrame
      <3>2. head'.status = 200 /\ kind' = "stream"
        BY <2>1, <2>4, <3>1
      <3> QED BY <3>2 DEF Replied
    <2>5. CASE SendStreamItem \/ SendStreamEnd
      BY <2>4, <2>5 DEF SendStreamItem, SendStreamEnd
    <2>6. CASE SendError
      <3>1. kind = "stream" /\ goroutine = "working" /\ made' = Append(made, Value("error", 3))
        BY <2>6 DEF SendError, ERR_CODE_HANDLER_ERROR
      <3>2. CASE WriteStreamFrame(<<STREAM_ERROR>> \o ErrorBody(3))
        BY <2>4, <3>1, <3>2
      <3>3. CASE ~Streaming /\ ReplyError(3)
        <4>1. head.status = 0
          BY <3>3 DEF Streaming
        <4>2. made = <<>>
          BY <2>1, <3>1, <4>1 DEF GoServing
        <4>3. made' = <<Value("error", 3)>>
          BY <3>1, <4>2, FirstMade
        <4> QED BY <2>1, <3>3, <4>1, <4>3, ErrorWritten
      <3> QED BY <2>6, <3>2, <3>3 DEF SendError, ERR_CODE_HANDLER_ERROR
    <2>7. CASE GoReturnGone \/ GoDisconnect
      <3>1. UNCHANGED <<head, body, complete, made>>
        BY <2>7 DEF GoReturnGone, GoDisconnect, httpVars, wireVars
      <3> QED BY <2>1, <3>1 DEF Replied, ReplyBytes
    <2> QED BY <1>3, <2>2, <2>3, <2>5, <2>6, <2>7 DEF GoSide, GoActs, GoMethod
  <1>4. CASE CutSide
    <2>1. UNCHANGED <<phase, buf, kind, head, made>>
      BY <1>4 DEF CutSide, HttpCut, callVars, clientVars
    <2>2. ReplyBytes' = ReplyBytes
      BY <2>1 DEF ReplyBytes
    <2>3. CASE UNCHANGED <<body, complete>>
      BY <2>1, <2>2, <2>3 DEF Replied
    <2>4. CASE complete' = FALSE /\ \E n \in 0..Len(body) : body' = SubSeq(body, 1, n)
      <3>1. body = <<>> => body' = <<>>
        <4>1. \A n \in 0..0 : SubSeq(<<>>, 1, n) = <<>>
          OBVIOUS
        <4>2. Len(<<>>) = 0
          OBVIOUS
        <4> QED BY <2>4, <4>1, <4>2
      <3> QED BY <2>1, <2>4, <3>1 DEF Replied
    <2> QED BY <1>4, <2>3, <2>4 DEF CutSide, HttpCut
  <1> QED BY <1>1, <1>2, <1>3, <1>4, HttpSides

-----------------------------------------------------------------------------
(* Streams. *)

\* A step that moves no message.
LEMMA StreamedSame ==
    ASSUME Streamed, StreamLive' => StreamLive, Emitted' = Emitted, buf' \o body' = buf \o body,
           UNCHANGED <<made, complete, conn, server, response_tx, stream_q>>
    PROVE  Streamed'
  <1>1. \A w \in Nat : Queues(w) => Queues(w)'
    BY DEF Queues
  <1>2. \A w \in Nat : Wires(w) => Wires(w)'
    BY <1>1 DEF Wires
  <1> QED BY <1>2 DEF Streamed

\* A caller that reads a stream is there.
LEMMA LiveCaller ==
    ASSUME HttpTyped, CallerOK, StreamLive
    PROVE  /\ phase # "dropped" /\ conn # "closed"
           /\ buf \in Seq(Nat) /\ body \in Seq(Nat) /\ buf \o body \in Seq(Nat)
           /\ made \in Seq(HttpOutcomes) /\ Len(made) \in Nat
           /\ Emitted \in Nat
  <1>1. phase # "dropped" /\ conn # "closed"
    BY DEF StreamLive, CallerOK
  <1>2. buf \in Seq(Nat) /\ body \in Seq(Nat) /\ made \in Seq(HttpOutcomes)
    BY <1>1 DEF HttpTyped
  <1>3. buf \o body \in Seq(Nat)
    BY <1>2, ConcatProperties
  <1>4. Emitted \in Nat
    BY <1>1, EmittedNat
  <1>5. Len(made) \in Nat
    BY <1>2
  <1> QED BY <1>1, <1>2, <1>3, <1>4, <1>5

\* The first bytes of a sequence that is taken from its front.
LEMMA TakenFront ==
    ASSUME NEW p \in Seq(Nat), NEW q \in Seq(Nat), NEW n \in 0..Len(p)
    PROVE  LET t == Rest(p, n) \o q IN
           /\ t \in Seq(Nat) /\ Len(t) = Len(p \o q) - n /\ n <= Len(p \o q)
           /\ \A i \in 1..Len(t) : t[i] = (p \o q)[n + i]
  <1> DEFINE r == Rest(p, n)
             l == Len(p)
             k == Len(q)
             t == r \o q
             u == p \o q
  <1>1. l \in Nat /\ k \in Nat /\ n \in 0..l
    OBVIOUS
  <1>2. /\ r \in Seq(Nat) /\ Len(r) = l - n
        /\ \A i \in 1..(l - n) : r[i] = p[n + i]
    BY Trailing DEF Rest
  <1>3. /\ u \in Seq(Nat) /\ Len(u) = l + k
        /\ \A i \in 1..(l + k) : u[i] = IF i <= l THEN p[i] ELSE q[i - l]
    BY ConcatProperties
  <1> HIDE DEF r, l, k, u
  <1>4. /\ t \in Seq(Nat) /\ Len(t) = (l - n) + k
        /\ \A i \in 1..((l - n) + k) : t[i] = IF i <= l - n THEN r[i] ELSE q[i - (l - n)]
    <2>1. /\ t \in Seq(Nat) /\ Len(t) = Len(r) + Len(q)
          /\ \A i \in 1..(Len(r) + Len(q)) : t[i] = IF i <= Len(r) THEN r[i] ELSE q[i - Len(r)]
      BY <1>2, ConcatProperties
    <2>2. Len(r) = l - n /\ Len(q) = k
      BY <1>2 DEF k
    <2> HIDE DEF t
    <2> QED BY <2>1, <2>2
  <1> HIDE DEF t
  <1>5. ASSUME NEW i \in 1..((l - n) + k) PROVE t[i] = u[n + i]
    <2>1. n + i \in 1..(l + k)
      BY <1>1
    <2>2. CASE i <= l - n
      <3>1. i \in 1..(l - n) /\ n + i <= l
        BY <1>1, <2>2
      <3>2. t[i] = r[i] /\ r[i] = p[n + i]
        BY <1>2, <1>4, <2>2, <3>1
      <3>3. u[n + i] = p[n + i]
        BY <1>3, <2>1, <3>1
      <3> QED BY <3>2, <3>3
    <2>3. CASE ~(i <= l - n)
      <3>1. ~(n + i <= l) /\ (n + i) - l = i - (l - n)
        BY <1>1, <2>3
      <3>2. t[i] = q[i - (l - n)]
        BY <1>4, <2>3
      <3>3. u[n + i] = q[(n + i) - l]
        BY <1>3, <2>1, <3>1
      <3> QED BY <3>1, <3>2, <3>3
    <2> QED BY <2>2, <2>3
  <1>6. Len(t) = Len(u) - n /\ n <= Len(u)
    BY <1>1, <1>3, <1>4
  <1>7. \A i \in 1..Len(t) : t[i] = u[n + i]
    BY <1>4, <1>5
  <1> QED BY <1>4, <1>6, <1>7 DEF t, u, r

\* An item is parsed and its event queued.
LEMMA ItemEmitted ==
    ASSUME HttpTyped, CallerOK, HttpMade, Streamed, Emit, reader' # "done",
           UNCHANGED <<response_tx, stream_q, server, made, head, complete, kind>>
    PROVE  Streamed'
  <1>1. SUFFICES ASSUME StreamLive' PROVE Streamed'
    BY DEF Streamed
  <1>2. /\ reader = "reading" /\ WholeMessage /\ EventOf(Message).type = "item"
        /\ events' = Append(events, EventOf(Message)) /\ buf' = Rest(Length.rest, Length.v)
        /\ UNCHANGED <<body, got, phase, conn>>
    BY DEF Emit
  <1>3. StreamLive
    BY <1>1, <1>2 DEF StreamLive
  <1>4. PICK w \in Nat : Wires(w)
    BY <1>3 DEF Streamed
  <1> DEFINE o == made[Emitted + 1]
             n == Len(FrameOf(o))
             p == buf \o body
             t == Rest(buf, n) \o body
             m == Len(made)
             E == Emitted
             whole == (complete \/ conn # "cut")
  <1>5. /\ E < w /\ o \in StreamOutcomes /\ n \in 0..Len(buf)
        /\ EventOf(Message) = Contract!Seen(o)
        /\ Rest(Length.rest, Length.v) = Rest(buf, n)
    BY <1>2, <1>3, <1>4, NextMessage
  <1>6. /\ E \in Nat /\ m \in Nat /\ made \in Seq(HttpOutcomes)
        /\ buf \in Seq(Nat) /\ body \in Seq(Nat) /\ p \in Seq(Nat)
        /\ phase # "dropped"
    BY <1>3, LiveCaller
  <1>7. o.type = "item"
    <2>1. o \in HttpOutcomes
      BY <1>5 DEF StreamOutcomes
    <2> HIDE DEF o
    <2> QED BY <1>2, <1>5, <2>1, OutcomeKinds
  <1>8. Emitted' = E + 1
    <2>1. events \in Seq(HttpTold) /\ got \in Seq(HttpTold)
      BY <1>6 DEF HttpTyped
    <2> DEFINE e == EventOf(Message)
    <2> HIDE DEF e
    <2>2. Len(Append(events, e)) = Len(events) + 1
      BY <2>1
    <2>3. Len(events) \in Nat /\ Len(got) \in Nat
      BY <2>1
    <2>4. Len(events') = Len(events) + 1 /\ Len(got') = Len(got)
      BY <1>2, <2>2 DEF e
    <2> QED BY <2>3, <2>4 DEF Emitted
  <1>9. /\ E <= w /\ w <= m /\ Framed(p, made, E, w, whole)
        /\ server = "go" /\ conn = "up" => w = m
        /\ server = "rust" /\ conn = "up" /\ response_tx # "error" => Queues(w)
        /\ complete => /\ Over(made)
                       /\ \/ w = m
                          \/ w + 1 = m /\ made[m].type = "end"
    BY <1>4 DEF Wires
  <1>10. \A i \in 1..m : made[i] \in StreamOutcomes
    BY <1>3, StreamMade DEF StreamLive
  <1>11. \A i \in (E + 1)..w : made[i] \in StreamOutcomes
    <2> HIDE DEF m, E
    <2>1. \A i \in (E + 1)..w : i \in 1..m
      BY <1>6, <1>9
    <2> QED BY <2>1, <1>10
  <1>12. /\ t \in Seq(Nat) /\ Len(t) = Len(p) - n /\ n <= Len(p)
         /\ \A i \in 1..Len(t) : t[i] = p[n + i]
    BY <1>5, <1>6, TakenFront
  <1>13. n \in Nat /\ whole \in BOOLEAN
    BY <1>5, <1>6
  <1>14. buf' \o body' = t
    BY <1>2, <1>5
  <1>15. n = Len(FrameOf(made[E + 1])) /\ made[E + 1] \in StreamOutcomes
    BY <1>5
  <1> HIDE DEF n, t, p, E, whole
  <1>16. Framed(t, made, E + 1, w, whole)
    <2>1. E < w /\ E \in Nat /\ p \in Seq(Nat) /\ Framed(p, made, E, w, whole)
      BY <1>5, <1>6, <1>9
    <2> HIDE DEF o, m
    <2> QED BY <2>1, <1>11, <1>12, <1>13, <1>15, FramedNext
  <1>17. Wires(w)'
    <2>1. Emitted' = E + 1 /\ E + 1 <= w
      BY <1>5, <1>6, <1>8 DEF E
    <2>2. Framed(buf' \o body', made', Emitted', w, (complete' \/ conn' # "cut"))
      BY <1>2, <1>14, <1>16, <2>1 DEF whole
    <2>3. Queues(w) => Queues(w)'
      BY DEF Queues
    <2>4. conn' = conn
      BY <1>2
    <2>5. server' = "rust" /\ conn' = "up" /\ response_tx' # "error" => Queues(w)'
      BY <1>9, <2>3, <2>4
    <2>6. /\ server' = "go" /\ conn' = "up" => w = Len(made')
          /\ complete' => /\ Over(made')
                          /\ \/ w = Len(made')
                             \/ w + 1 = Len(made') /\ made'[Len(made')].type = "end"
          /\ w <= Len(made')
      BY <1>9, <2>4 DEF m, Over
    <2> HIDE DEF m
    <2> QED BY <2>1, <2>2, <2>5, <2>6 DEF Wires
  <1>18. \A i \in 1..(E + 1) : made[i].type = "item"
    <2>1. \A i \in 1..E : made[i].type = "item"
      BY <1>3 DEF Streamed, E
    <2>2. made[E + 1].type = "item"
      BY <1>7 DEF E
    <2> QED BY <1>6, <2>1, <2>2
  <1>19. \A i \in 1..Emitted' : made'[i].type = "item"
    BY <1>8, <1>18 DEF E
  <1> QED BY <1>17, <1>19 DEF Streamed

\* The caller connects.
LEMMA CallerConnects ==
    ASSUME HttpTyped, CallerOK, RustServing, GoServing, Streamed, Connect,
           UNCHANGED <<response_tx, stream_q, server, made, head, complete, kind>>
    PROVE  Streamed'
  <1>1. SUFFICES ASSUME StreamLive' PROVE Streamed'
    BY DEF Streamed
  <1>2. /\ phase = "idle" /\ conn' = "up" /\ UNCHANGED <<got, buf, body, events, reader>>
    BY DEF Connect
  <1>3. StreamLive /\ conn = "none"
    BY <1>1, <1>2 DEF StreamLive, CallerOK
  <1>4. PICK w \in Nat : Wires(w)
    BY <1>3 DEF Streamed
  <1>5. made = <<>> /\ stream_q = <<>>
    <2>1. server \in {"rust", "go"}
      BY DEF HttpTyped
    <2> QED BY <1>3, <2>1 DEF RustServing, GoServing
  <1>6. Emitted' = Emitted
    BY <1>2 DEF Emitted
  <1>7. Len(made) = 0 /\ Len(stream_q) = 0
    BY <1>5
  <1>8. w = 0
    BY <1>4, <1>7 DEF Wires
  <1>9. Queues(w)'
    BY <1>7, <1>8 DEF Queues
  <1>10. Framed(buf \o body, made, Emitted, w, TRUE) /\ Emitted <= w
    BY <1>3, <1>4 DEF Wires
  <1>11. ~complete
    BY <1>4, <1>5 DEF Wires, Over
  <1>12. Wires(w)'
    <2>1. Framed(buf' \o body', made', Emitted', w, (complete' \/ conn' # "cut"))
      BY <1>2, <1>6, <1>10
    <2> QED BY <1>6, <1>7, <1>8, <1>9, <1>10, <1>11, <2>1 DEF Wires
  <1>13. \A i \in 1..Emitted' : made'[i].type = "item"
    BY <1>3, <1>6 DEF Streamed
  <1> QED BY <1>12, <1>13 DEF Streamed

\* The steps of the caller.
LEMMA CallerStreams ==
    ASSUME HttpTyped, CallerOK, HttpMade, RustServing, GoServing, Streamed, ClientSide
    PROVE  Streamed'
  <1>0. UNCHANGED <<response_tx, stream_q, server, made, head, complete, kind>>
    BY ClientLeaves DEF ClientSide, rustServerVars
  <1>1. CASE Connect
    BY <1>0, <1>1, CallerConnects
  <1>2. CASE ReadHead
    <2>1. phase = "calling" /\ UNCHANGED <<conn, got, buf, body, events>>
      BY <1>2 DEF ReadHead, httpVars, wireVars
    <2>2. Emitted' = Emitted
      BY <2>1 DEF Emitted
    <2>3. StreamLive' => StreamLive
      <3>1. reader = "none"
        BY <2>1 DEF CallerOK
      <3> QED BY <1>0, <2>1, <3>1 DEF StreamLive
    <2> QED BY <1>0, <2>1, <2>2, <2>3, StreamedSame
  <1>3. CASE Chunk
    <2>1. PICK n \in 1..Len(body) : TakePiece(n)
      BY <1>3 DEF Chunk
    <2>2. phase # "dropped" /\ UNCHANGED <<conn, got, phase, events, reader>>
      BY <1>3 DEF Chunk, Reading
    <2>3. buf' \o body' = buf \o body
      BY <2>1, <2>2, PieceTaken DEF HttpTyped
    <2>4. Emitted' = Emitted
      BY <2>2 DEF Emitted
    <2>5. StreamLive' => StreamLive
      BY <1>0, <2>2 DEF StreamLive
    <2> QED BY <1>0, <2>2, <2>3, <2>4, <2>5, StreamedSame
  <1>4. CASE Emit
    <2>1. CASE reader' = "done"
      BY <2>1 DEF Streamed, StreamLive
    <2>2. CASE reader' # "done"
      BY <1>0, <1>4, <2>2, ItemEmitted
    <2> QED BY <2>1, <2>2
  <1>5. CASE Recv
    <2>1. /\ phase = "open" /\ events # <<>> /\ got' = Append(got, Head(events))
          /\ events' = Tail(events) /\ UNCHANGED <<conn, body, buf, reader>>
      BY <1>5 DEF Recv, wireVars
    <2>2. events \in Seq(HttpTold) /\ got \in Seq(HttpTold)
      BY <2>1 DEF HttpTyped
    <2>3. Emitted' = Emitted
      <3>1. Len(events) \in Nat \ {0} /\ Len(Tail(events)) = Len(events) - 1
        BY <2>1, <2>2
      <3> DEFINE e == Head(events)
      <3> HIDE DEF e
      <3>2. Len(Append(got, e)) = Len(got) + 1 /\ Len(got) \in Nat
        BY <2>2
      <3>3. Len(got') = Len(got) + 1 /\ Len(events') = Len(events) - 1
        BY <2>1, <3>1, <3>2 DEF e
      <3> QED BY <3>1, <3>2, <3>3 DEF Emitted
    <2>4. StreamLive' => StreamLive
      BY <1>0, <2>1 DEF StreamLive
    <2>5. buf' \o body' = buf \o body
      BY <2>1
    <2> QED BY <1>0, <2>1, <2>3, <2>4, <2>5, StreamedSame
  <1>6. CASE ConnectFails \/ Collect \/ Collected \/ ReaderEnd \/ ReaderFails \/ ReaderStop \/ Drop
    <2>1. ~StreamLive'
      BY <1>6 DEF ConnectFails, Collect, Collected, ReaderEnd, ReaderFails, ReaderStop, Drop, Tell, StreamLive
    <2> QED BY <2>1 DEF Streamed
  <1> QED BY <1>1, <1>2, <1>3, <1>4, <1>5, <1>6 DEF ClientSide, ClientActs, ClientTask

\* What is known of the outcomes of a stream that is read.
LEMMA LiveStream ==
    ASSUME HttpTyped, CallerOK, HttpMade, Streamed, StreamLive
    PROVE  \E w \in Nat :
              /\ Wires(w) /\ Emitted \in Nat /\ Emitted <= w /\ w <= Len(made)
              /\ Framed(buf \o body, made, Emitted, w, complete \/ conn # "cut")
              /\ \A i \in (Emitted + 1)..w : made[i] \in StreamOutcomes
              /\ \A i \in 1..Emitted : made[i].type = "item"
  <1>1. PICK w \in Nat : Wires(w)
    BY DEF Streamed
  <1>2. Emitted \in Nat /\ Len(made) \in Nat
    BY LiveCaller
  <1>3. /\ Emitted <= w /\ w <= Len(made)
        /\ Framed(buf \o body, made, Emitted, w, complete \/ conn # "cut")
    BY <1>1 DEF Wires
  <1>4. \A i \in 1..Len(made) : made[i] \in StreamOutcomes
    BY StreamMade DEF StreamLive
  <1>5. \A i \in (Emitted + 1)..w : made[i] \in StreamOutcomes
    <2> DEFINE E == Emitted
               m == Len(made)
    <2>1. E \in Nat /\ m \in Nat /\ E <= w /\ w <= m
      BY <1>2, <1>3
    <2> HIDE DEF E, m
    <2>2. \A i \in (E + 1)..w : i \in 1..m
      BY <2>1
    <2> QED BY <2>2, <1>4 DEF E, m
  <1>6. \A i \in 1..Emitted : made[i].type = "item"
    BY DEF Streamed
  <1> QED BY <1>1, <1>2, <1>3, <1>5, <1>6

\* A message is queued for the outcome that was made.
LEMMA QueueGrown ==
    ASSUME made \in Seq(HttpOutcomes), stream_q \in Seq(Messages), ItemsOnly(made),
           NEW w \in Nat, Queues(w), NEW o \in HttpOutcomes, made' = Append(made, o),
           MessageOf(o) \in Messages, stream_q' = Append(stream_q, MessageOf(o))
    PROVE  Queues(w)'
  <1> DEFINE m == Len(made)
             k == Len(stream_q)
  <1>1. m \in Nat /\ k \in Nat
    OBVIOUS
  <1>2. /\ Len(made') = m + 1 /\ made'[m + 1] = o
        /\ \A i \in 1..m : made'[i] = made[i]
    BY AppendProperties
  <1>3. /\ Len(stream_q') = k + 1 /\ stream_q'[k + 1] = MessageOf(o)
        /\ \A i \in 1..k : stream_q'[i] = stream_q[i]
    BY AppendProperties
  <1>4. /\ \A i \in 1..k : w + i <= m /\ stream_q[i] = MessageOf(made[w + i])
        /\ w + k = m \/ (w + k + 1 = m /\ made[m].type = "end")
    BY DEF Queues
  <1>5. \A i \in 1..m : made[i].type = "item"
    BY DEF ItemsOnly
  <1> HIDE DEF m, k
  <1>6. w + k = m
    <2>1. w + k + 1 = m => m \in 1..m
      BY <1>1
    <2> QED BY <1>4, <1>5, <2>1
  <1>7. ASSUME NEW i \in 1..(k + 1)
        PROVE  w + i <= m + 1 /\ stream_q'[i] = MessageOf(made'[w + i])
    <2>1. CASE i = k + 1
      <3>1. w + i = m + 1
        BY <1>1, <1>6, <2>1
      <3> QED BY <1>1, <1>2, <1>3, <2>1, <3>1
    <2>2. CASE i \in 1..k
      <3>1. w + i <= m /\ stream_q[i] = MessageOf(made[w + i])
        BY <1>4, <2>2
      <3>2. w + i \in 1..m
        BY <1>1, <2>2, <3>1
      <3>3. stream_q'[i] = stream_q[i] /\ made'[w + i] = made[w + i]
        BY <1>2, <1>3, <2>2, <3>2
      <3>4. w + i <= m + 1
        BY <1>1, <2>2, <3>1
      <3> QED BY <3>1, <3>3, <3>4
    <2>3. i = k + 1 \/ i \in 1..k
      BY <1>1
    <2> QED BY <2>1, <2>2, <2>3
  <1>8. w + (k + 1) = m + 1
    BY <1>1, <1>6
  <1> QED BY <1>2, <1>3, <1>7, <1>8 DEF Queues

\* The end of a stream finds no room.
LEMMA QueueFull ==
    ASSUME made \in Seq(HttpOutcomes), stream_q \in Seq(Messages), ItemsOnly(made),
           NEW w \in Nat, Queues(w), NEW o \in HttpOutcomes, made' = Append(made, o),
           o.type = "end", stream_q' = stream_q
    PROVE  Queues(w)'
  <1> DEFINE m == Len(made)
             k == Len(stream_q)
  <1>1. m \in Nat /\ k \in Nat
    OBVIOUS
  <1>2. /\ Len(made') = m + 1 /\ made'[m + 1] = o
        /\ \A i \in 1..m : made'[i] = made[i]
    BY AppendProperties
  <1>4. /\ \A i \in 1..k : w + i <= m /\ stream_q[i] = MessageOf(made[w + i])
        /\ w + k = m \/ (w + k + 1 = m /\ made[m].type = "end")
    BY DEF Queues
  <1>5. \A i \in 1..m : made[i].type = "item"
    BY DEF ItemsOnly
  <1>3. Len(stream_q') = k
    OBVIOUS
  <1> HIDE DEF m, k
  <1>6. w + k = m
    <2>1. w + k + 1 = m => m \in 1..m
      BY <1>1
    <2> QED BY <1>4, <1>5, <2>1
  <1>7. ASSUME NEW i \in 1..k
        PROVE  w + i <= m + 1 /\ stream_q'[i] = MessageOf(made'[w + i])
    <2>1. w + i <= m /\ stream_q[i] = MessageOf(made[w + i])
      BY <1>4
    <2>2. w + i \in 1..m /\ w + i <= m + 1
      BY <1>1, <2>1
    <2>3. made'[w + i] = made[w + i]
      BY <1>2, <2>2
    <2> QED BY <2>1, <2>2, <2>3
  <1>8. w + k + 1 = m + 1 /\ made'[m + 1].type = "end"
    BY <1>1, <1>2, <1>6
  <1> QED BY <1>2, <1>3, <1>7, <1>8 DEF Queues

\* An outcome is made of which nothing is written yet.
LEMMA MadeMore ==
    ASSUME HttpTyped, CallerOK, HttpMade, Streamed, StreamLive, server = "rust",
           UNCHANGED <<buf, body, complete, conn, got, events, server>>,
           NEW o \in HttpOutcomes, made' = Append(made, o), ItemsOnly(made),
           \A w \in Nat : Wires(w) /\ conn = "up" /\ response_tx' # "error" => Queues(w)'
    PROVE  /\ \A i \in 1..Emitted' : made'[i].type = "item"
           /\ \E w \in Nat : Wires(w)'
  <1>1. PICK w \in Nat :
              /\ Wires(w) /\ Emitted \in Nat /\ Emitted <= w /\ w <= Len(made)
              /\ Framed(buf \o body, made, Emitted, w, complete \/ conn # "cut")
              /\ \A i \in (Emitted + 1)..w : made[i] \in StreamOutcomes
              /\ \A i \in 1..Emitted : made[i].type = "item"
    BY LiveStream
  <1>2. made \in Seq(HttpOutcomes)
    BY LiveCaller
  <1>3. ~complete
    BY <1>1, <1>2, ItemsNotOver DEF Wires
  <1>4. Emitted' = Emitted
    BY DEF Emitted
  <1> DEFINE m == Len(made)
             E == Emitted
             p == buf \o body
             whole == complete \/ conn # "cut"
  <1>5. /\ m \in Nat /\ Len(made') = m + 1
        /\ \A i \in 1..m : made'[i] = made[i]
    BY <1>2, AppendProperties
  <1>6. E \in Nat /\ E <= w /\ w <= m /\ Framed(p, made, E, w, whole) /\ whole \in BOOLEAN
    BY <1>1
  <1> HIDE DEF m, E, p, whole
  <1>7. \A i \in (E + 1)..w : i \in 1..m
    BY <1>5, <1>6
  <1>8. \A i \in (E + 1)..w : made'[i] = made[i]
    BY <1>5, <1>7
  <1>9. Framed(p, made', E, w, whole)
    <2> DEFINE u == made'
    <2>1. \A i \in (E + 1)..w : u[i] = made[i]
      BY <1>8
    <2> HIDE DEF u
    <2>2. Framed(p, u, E, w, whole)
      BY <1>6, <2>1, FramedSame
    <2> QED BY <2>2 DEF u
  <1>10. Framed(buf' \o body', made', Emitted', w, (complete' \/ conn' # "cut"))
    BY <1>4, <1>9 DEF p, E, whole
  <1>11. Emitted' <= w /\ w <= Len(made')
    BY <1>4, <1>5, <1>6 DEF E
  <1>12. conn' = "up" /\ response_tx' # "error" => Queues(w)'
    BY <1>1
  <1>13. server' = "rust" /\ ~complete'
    BY <1>3
  <1>14. Wires(w)'
    BY <1>10, <1>11, <1>12, <1>13 DEF Wires
  <1>15. \A i \in 1..E : i \in 1..m
    BY <1>5, <1>6
  <1>16. \A i \in 1..Emitted' : made'[i].type = "item"
    BY <1>1, <1>4, <1>5, <1>15 DEF E
  <1> QED BY <1>14, <1>16

\* The next frame is written.
LEMMA FrameAdded ==
    ASSUME buf \in Seq(Nat), body \in Seq(Nat), NEW q, NEW r \in Nat, NEW w \in Nat, r <= w,
           Framed(buf \o body, q, r, w, TRUE), \A i \in (r + 1)..(w + 1) : q[i] \in StreamOutcomes,
           NEW whole \in BOOLEAN
    PROVE  Framed(buf \o (body \o FrameOf(q[w + 1])), q, r, w + 1, whole)
  <1> DEFINE f == FrameOf(q[w + 1])
             p == buf \o body
  <1>1. f \in Seq(Nat)
    <2>1. w + 1 \in (r + 1)..(w + 1)
      OBVIOUS
    <2> QED BY <2>1, OutcomeFrame
  <1>2. p \in Seq(Nat)
    BY ConcatProperties
  <1>3. Framed(p \o f, q, r, w + 1, whole)
    <2> HIDE DEF p
    <2>1. Framed(p, q, r, w, TRUE)
      BY DEF p
    <2> QED BY <1>2, <2>1, FramedMore
  <1>4. p \o f = buf \o (body \o f)
    <2> HIDE DEF f
    <2> QED BY <1>1, Joined
  <1> QED BY <1>3, <1>4

\* A message of the channel is written.
LEMMA FrameSent ==
    ASSUME HttpTyped, CallerOK, HttpMade, RustServing, Streamed, StreamLive, server = "rust", PollFrame,
           UNCHANGED <<buf, events, got, server>>
    PROVE  Streamed'
  <1>1. PICK w \in Nat :
              /\ Wires(w) /\ Emitted \in Nat /\ Emitted <= w /\ w <= Len(made)
              /\ Framed(buf \o body, made, Emitted, w, complete \/ conn # "cut")
              /\ \A i \in (Emitted + 1)..w : made[i] \in StreamOutcomes
              /\ \A i \in 1..Emitted : made[i].type = "item"
    BY LiveStream
  <1>2. /\ stream_body = "open" /\ conn = "up" /\ stream_q # <<>>
        /\ body' = body \o StreamFrame(Head(stream_q)) /\ stream_q' = Tail(stream_q)
        /\ UNCHANGED <<conn, complete, made, response_tx>>
    BY DEF PollFrame
  <1>3. response_tx # "error"
    <2>1. stream_body # "none" => head.status = 200
      BY DEF RustServing
    <2>2. response_tx = "error" => head.status = 0
      BY DEF RustServing
    <2> QED BY <1>2, <2>1, <2>2
  <1>4. Queues(w)
    BY <1>1, <1>2, <1>3 DEF Wires
  <1>5. Emitted' = Emitted
    BY DEF Emitted
  <1> DEFINE m == Len(made)
             k == Len(stream_q)
             E == Emitted
             s == stream_q
             f == FrameOf(made[w + 1])
  <1>6. /\ m \in Nat /\ k \in Nat \ {0} /\ s \in Seq(Messages)
        /\ buf \in Seq(Nat) /\ body \in Seq(Nat)
        /\ \A i \in 1..m : made[i] \in StreamOutcomes
    <2>1. s \in Seq(Messages)
      BY DEF HttpTyped
    <2>2. k \in Nat \ {0}
      BY <1>2, <2>1
    <2> QED BY <2>1, <2>2, LiveCaller, StreamMade DEF StreamLive
  <1>7. /\ Head(s) = s[1] /\ Len(Tail(s)) = k - 1 /\ \A i \in 1..(k - 1) : Tail(s)[i] = s[i + 1]
    BY <1>2, <1>6, HeadTailProperties
  <1>8. /\ \A i \in 1..k : w + i <= m /\ s[i] = MessageOf(made[w + i])
        /\ w + k = m \/ (w + k + 1 = m /\ made[m].type = "end")
    BY <1>4 DEF Queues
  <1>9. E \in Nat /\ E <= w /\ w <= m
    BY <1>1
  <1>10. body' = body \o f
    <2>1. 1 \in 1..k
      BY <1>6
    <2>2. s[1] = MessageOf(made[w + 1])
      BY <1>8, <2>1
    <2> QED BY <1>2, <1>7, <2>2 DEF FrameOf
  <1>11. stream_q' = Tail(s)
    BY <1>2
  <1> HIDE DEF m, k, E, s
  <1>12. w + 1 <= m
    <2>1. 1 \in 1..k
      BY <1>6
    <2> QED BY <1>8, <2>1
  <1>13. \A i \in (E + 1)..(w + 1) : made[i] \in StreamOutcomes
    <2>1. \A i \in (E + 1)..(w + 1) : i \in 1..m
      BY <1>6, <1>9, <1>12
    <2> QED BY <1>6, <2>1
  <1>14. Framed(buf \o (body \o f), made, E, w + 1, TRUE)
    <2>1. Framed(buf \o body, made, E, w, TRUE)
      BY <1>1, <1>2 DEF E
    <2> HIDE DEF f
    <2>2. Framed(buf \o (body \o FrameOf(made[w + 1])), made, E, w + 1, TRUE)
      BY <1>6, <1>9, <1>13, <2>1, FrameAdded
    <2> QED BY <2>2 DEF f
  <1> HIDE DEF f
  <1>15. Framed(buf' \o body', made', Emitted', w + 1, (complete' \/ conn' # "cut"))
    BY <1>2, <1>5, <1>10, <1>14 DEF E
  <1>16. Queues(w + 1)'
    <2>1. Len(stream_q') = k - 1
      BY <1>7, <1>11
    <2>2. ASSUME NEW i \in 1..(k - 1)
          PROVE  (w + 1) + i <= m /\ stream_q'[i] = MessageOf(made[(w + 1) + i])
      <3>1. i + 1 \in 1..k /\ w + (i + 1) = (w + 1) + i
        BY <1>6
      <3>2. w + (i + 1) <= m /\ s[i + 1] = MessageOf(made[w + (i + 1)])
        BY <1>8, <3>1
      <3>3. stream_q'[i] = s[i + 1]
        BY <1>7, <1>11
      <3> QED BY <3>1, <3>2, <3>3
    <2>3. (w + 1) + (k - 1) = m \/ ((w + 1) + (k - 1) + 1 = m /\ made[m].type = "end")
      BY <1>6, <1>8
    <2> QED BY <1>2, <2>1, <2>2, <2>3 DEF Queues, m
  <1>17. complete => Over(made) /\ (w + 1 = m \/ (w + 1 + 1 = m /\ made[m].type = "end"))
    <2>1. complete => Over(made) /\ (w = m \/ (w + 1 = m /\ made[m].type = "end"))
      BY <1>1 DEF Wires, m
    <2>2. ~(w = m)
      BY <1>6, <1>12
    <2> QED BY <2>1, <2>2
  <1>18. Emitted' <= w + 1 /\ w + 1 <= Len(made')
    <2>1. E <= w + 1
      BY <1>9
    <2> QED BY <1>2, <1>5, <1>12, <2>1 DEF E, m
  <1>19. Wires(w + 1)'
    <2>1. complete' => /\ Over(made')
                       /\ \/ w + 1 = Len(made')
                          \/ w + 1 + 1 = Len(made') /\ made'[Len(made')].type = "end"
      BY <1>2, <1>17 DEF m, Over
    <2> QED BY <1>15, <1>16, <1>18, <2>1 DEF Wires
  <1>20. \A i \in 1..Emitted' : made'[i].type = "item"
    BY <1>1, <1>2, <1>5
  <1>21. w + 1 \in Nat
    OBVIOUS
  <1> QED BY <1>19, <1>20, <1>21 DEF Streamed

\* The body of a stream ends.
LEMMA BodyEnded ==
    ASSUME HttpTyped, CallerOK, HttpMade, RustServing, Streamed, StreamLive, server = "rust", BodyEnd,
           UNCHANGED <<buf, events, got, server>>
    PROVE  Streamed'
  <1>1. PICK w \in Nat :
              /\ Wires(w) /\ Emitted \in Nat /\ Emitted <= w /\ w <= Len(made)
              /\ Framed(buf \o body, made, Emitted, w, complete \/ conn # "cut")
              /\ \A i \in (Emitted + 1)..w : made[i] \in StreamOutcomes
              /\ \A i \in 1..Emitted : made[i].type = "item"
    BY LiveStream
  <1>2. /\ stream_body = "open" /\ conn = "up" /\ stream_q = <<>> /\ handler \notin Holding
        /\ complete' = TRUE /\ UNCHANGED <<conn, body, made, response_tx, stream_q>>
    BY DEF BodyEnd
  <1>3. response_tx # "error"
    <2>1. stream_body # "none" => head.status = 200
      BY DEF RustServing
    <2>2. response_tx = "error" => head.status = 0
      BY DEF RustServing
    <2> QED BY <1>2, <2>1, <2>2
  <1>4. Queues(w)
    BY <1>1, <1>2, <1>3 DEF Wires
  <1>5. Emitted' = Emitted
    BY DEF Emitted
  <1>6. Over(made)
    <2>1. handler # "none" /\ handler # "dropped" /\ handler # "working"
      <3>1. handler = "none" => stream_body = "none"
        BY DEF RustServing
      <3>2. handler = "dropped" /\ conn = "up" => stream_body = "ended"
        BY DEF RustServing
      <3>3. handler = "working" => kind = "unary"
        BY DEF RustServing
      <3> QED BY <1>2, <3>1, <3>2, <3>3 DEF StreamLive
    <2>2. handler \in {"done", "detached"}
      BY <1>2, <2>1 DEF HttpTyped, Handlers, Running, Holding
    <2> QED BY <2>2 DEF RustServing
  <1>7. w = Len(made) \/ (w + 1 = Len(made) /\ made[Len(made)].type = "end")
    <2>1. Len(stream_q) = 0
      BY <1>2
    <2> QED BY <1>4, <2>1 DEF Queues
  <1>8. Framed(buf' \o body', made', Emitted', w, (complete' \/ conn' # "cut"))
    BY <1>1, <1>2, <1>5
  <1>9. Queues(w)'
    BY <1>2, <1>4 DEF Queues
  <1>10. Wires(w)'
    <2>1. complete' => /\ Over(made')
                       /\ \/ w = Len(made')
                          \/ w + 1 = Len(made') /\ made'[Len(made')].type = "end"
      BY <1>2, <1>6, <1>7 DEF Over
    <2>2. Emitted' <= w /\ w <= Len(made') /\ server' = "rust"
      BY <1>1, <1>2, <1>5
    <2> QED BY <1>8, <1>9, <2>1, <2>2 DEF Wires
  <1>11. \A i \in 1..Emitted' : made'[i].type = "item"
    BY <1>1, <1>2, <1>5
  <1> QED BY <1>10, <1>11 DEF Streamed

\* The steps of the Rust server.
LEMMA RustStreams ==
    ASSUME HttpTyped, CallerOK, HttpMade, RustServing, GoServing, Replied, Streamed,
           RustSide, HttpRpcNext
    PROVE  Streamed'
  <1>1. SUFFICES ASSUME StreamLive' PROVE Streamed'
    BY DEF Streamed
  <1>2. /\ UNCHANGED <<phase, buf, events, reader>> /\ UNCHANGED <<server, kind, conn, got>>
        /\ server = "rust"
    BY ServerLeaves DEF RustSide, clientVars
  <1>3. StreamLive
    <2>1. head.status \in {0, 200}
      BY <1>1, HeadStays DEF StreamLive
    <2> QED BY <1>1, <1>2, <2>1 DEF StreamLive
  <1>4. /\ Emitted' = Emitted
        /\ kind = "stream" /\ conn # "closed"
    BY <1>2, <1>3, LiveCaller DEF Emitted, StreamLive
  <1>t. made \in Seq(HttpOutcomes) /\ stream_q \in Seq(Messages)
    BY DEF HttpTyped
  <1>s. ASSUME UNCHANGED <<body, made, complete, response_tx, stream_q>> PROVE Streamed'
    BY <1>2, <1>3, <1>4, <1>s, StreamedSame
  <1>m. ASSUME NEW o \in HttpOutcomes, made' = Append(made, o), ItemsOnly(made),
               UNCHANGED <<body, complete>>,
               \A w \in Nat : Wires(w) /\ conn = "up" /\ response_tx' # "error" => Queues(w)'
        PROVE  Streamed'
    <2>1. /\ \A i \in 1..Emitted' : made'[i].type = "item"
          /\ \E w \in Nat : Wires(w)'
      BY <1>2, <1>3, <1>m, MadeMore
    <2> QED BY <2>1 DEF Streamed
  <1>5. CASE HandleRequest
    <2>1. handler = "none" /\ UNCHANGED <<body, complete, stream_q>>
      BY <1>5 DEF HandleRequest, wireVars
    <2>2. made = <<>> /\ response_tx = "" /\ head.status = 0
      BY <1>2, <2>1 DEF RustServing
    <2>3. CASE UNCHANGED made
      <3>1. PICK w \in Nat :
                  /\ Wires(w) /\ Emitted \in Nat /\ Emitted <= w /\ w <= Len(made)
                  /\ Framed(buf \o body, made, Emitted, w, complete \/ conn # "cut")
                  /\ \A i \in (Emitted + 1)..w : made[i] \in StreamOutcomes
                  /\ \A i \in 1..Emitted : made[i].type = "item"
        BY <1>3, LiveStream
      <3>2. conn = "up"
        BY <1>5 DEF HandleRequest
      <3>3. Queues(w)
        BY <1>2, <2>2, <3>1, <3>2 DEF Wires
      <3>4. Queues(w)'
        BY <2>1, <2>3, <3>3 DEF Queues
      <3>5. ~complete
        BY <2>2 DEF Replied
      <3>6. Framed(buf' \o body', made', Emitted', w, (complete' \/ conn' # "cut"))
        BY <1>2, <1>4, <2>1, <2>3, <3>1
      <3>7. Emitted' <= w /\ w <= Len(made') /\ server' = "rust" /\ ~complete'
        BY <1>2, <1>4, <2>1, <2>3, <3>1, <3>5
      <3>8. Wires(w)'
        BY <3>4, <3>6, <3>7 DEF Wires
      <3>9. \A i \in 1..Emitted' : made'[i].type = "item"
        BY <1>4, <2>3, <3>1
      <3> QED BY <3>8, <3>9 DEF Streamed
    <2>4. CASE Refuse
      <3>1. PICK c \in 1..3 : made' = <<Value("error", c)>>
        BY <2>4 DEF Refuse, ERR_CODE_UNKNOWN_METHOD, ERR_CODE_DECODE_ERROR
      <3>2. response_tx' = "error"
        BY <2>4 DEF Refuse
      <3> DEFINE o == Value("error", c)
      <3>3. o \in HttpOutcomes
        BY OutcomesMade DEF StreamOutcomes
      <3>4. made' = Append(made, o) /\ ItemsOnly(made)
        BY <2>2, <3>1, FirstMade
      <3> HIDE DEF o
      <3> QED BY <1>m, <2>1, <3>2, <3>3, <3>4
    <2> QED BY <1>5, <2>3, <2>4 DEF HandleRequest
  <1>6. CASE ReturnUnary
    BY <1>2, <1>4, <1>6 DEF ReturnUnary, RustServing
  <1>7. CASE Respond
    <2>1. response_tx # "" /\ response_tx' = "" /\ UNCHANGED <<made, stream_q>>
      BY <1>7 DEF Respond
    <2>2. response_tx = "stream"
      <3>1. response_tx \in {"stream", "unary", "error"}
        BY <2>1 DEF HttpTyped
      <3>2. response_tx # "unary"
        BY <1>2, <1>4 DEF RustServing
      <3>3. response_tx # "error"
        <4>1. SUFFICES ASSUME response_tx = "error" PROVE FALSE
          OBVIOUS
        <4>2. PICK c \in 1..3 : made = <<Value("error", c)>>
          BY <1>2, <4>1 DEF RustServing
        <4>3. ReplyError(c)
          BY <1>7, <4>1, <4>2 DEF Respond, Value
        <4>4. head'.status \in {400, 404, 500}
          <5>1. ReplyError(c) =>
                    /\ head' \in Heads /\ head'.status \in {400, 404, 500} /\ head'.type = "rpc-error"
                    /\ body' = ErrorBody(c) /\ body' \in Seq(Nat) /\ complete' = TRUE
            BY ErrorReplied
          <5> QED BY <4>3, <5>1
        <4> QED BY <1>1, <4>4 DEF StreamLive
      <3> QED BY <3>1, <3>2, <3>3
    <2>3. UNCHANGED <<body, complete>>
      BY <1>7, <2>2 DEF Respond
    <2>4. PICK w \in Nat :
                /\ Wires(w) /\ Emitted \in Nat /\ Emitted <= w /\ w <= Len(made)
                /\ Framed(buf \o body, made, Emitted, w, complete \/ conn # "cut")
                /\ \A i \in (Emitted + 1)..w : made[i] \in StreamOutcomes
                /\ \A i \in 1..Emitted : made[i].type = "item"
      BY <1>3, LiveStream
    <2>5. conn = "up" => Queues(w)
      BY <1>2, <2>2, <2>4 DEF Wires
    <2>6. conn' = "up" => Queues(w)'
      BY <1>2, <2>1, <2>5 DEF Queues
    <2>7. Framed(buf' \o body', made', Emitted', w, (complete' \/ conn' # "cut"))
      BY <1>2, <1>4, <2>1, <2>3, <2>4
    <2>8. complete' => /\ Over(made')
                       /\ \/ w = Len(made')
                          \/ w + 1 = Len(made') /\ made'[Len(made')].type = "end"
      BY <2>1, <2>3, <2>4 DEF Wires, Over
    <2>9. Emitted' <= w /\ w <= Len(made') /\ server' = "rust"
      BY <1>2, <1>4, <2>1, <2>4
    <2>10. Wires(w)'
      BY <2>6, <2>7, <2>8, <2>9 DEF Wires
    <2>11. \A i \in 1..Emitted' : made'[i].type = "item"
      BY <1>4, <2>1, <2>4
    <2> QED BY <2>10, <2>11 DEF Streamed
  <1>q. ASSUME NEW w \in Nat, Wires(w), conn = "up", handler \in Holding PROVE Queues(w)
    <2>1. response_tx # "error"
      BY <1>2, <1>q DEF RustServing, Holding
    <2> QED BY <1>2, <1>q, <2>1 DEF Wires
  <1>8. CASE SendItem
    <2>1. /\ handler = "streaming" /\ UNCHANGED <<body, complete>> /\ Len(made) < MaxItems
          /\ made' = Append(made, Value("item", Len(made) + 1))
          /\ stream_q' = Append(stream_q, <<STREAM_ITEM, Len(made) + 1>>)
      BY <1>8 DEF SendItem, wireVars
    <2>2. ItemsOnly(made) /\ handler \in Holding
      BY <1>2, <2>1 DEF RustServing, Holding
    <2> DEFINE n == Len(made) + 1
    <2>3. n \in 1..MaxItems
      <3>1. Len(made) \in Nat /\ MaxItems \in Nat
        BY <1>t, MaxItemsNat
      <3> QED BY <2>1, <3>1
    <2>4. made' = Append(made, Value("item", n)) /\ stream_q' = Append(stream_q, <<STREAM_ITEM, n>>)
      BY <2>1
    <2> HIDE DEF n
    <2> DEFINE o == Value("item", n)
    <2>5. /\ o \in HttpOutcomes /\ MessageOf(o) = <<STREAM_ITEM, n>> /\ MessageOf(o) \in Messages
      BY <2>3, OutcomesMade, MessagesMade DEF StreamOutcomes
    <2>6. made' = Append(made, o) /\ stream_q' = Append(stream_q, MessageOf(o))
      BY <2>4, <2>5
    <2> HIDE DEF o
    <2>7. \A w \in Nat : Wires(w) /\ conn = "up" => Queues(w)'
      BY <1>q, <1>t, <2>2, <2>5, <2>6, QueueGrown
    <2> QED BY <1>m, <2>1, <2>2, <2>5, <2>6, <2>7
  <1>9. CASE SendFailure
    <2> DEFINE o == Value("error", 3)
    <2>1. /\ handler = "failing" /\ UNCHANGED <<body, complete>>
          /\ made' = Append(made, o)
          /\ stream_q' = Append(stream_q, <<STREAM_ERROR>> \o ErrorBody(3))
      BY <1>9 DEF SendFailure, wireVars, ERR_CODE_HANDLER_ERROR
    <2>2. ItemsOnly(made) /\ handler \in Holding
      BY <1>2, <2>1 DEF RustServing, Holding
    <2>5. /\ o \in HttpOutcomes /\ MessageOf(o) = <<STREAM_ERROR>> \o ErrorBody(3) /\ MessageOf(o) \in Messages
      BY OutcomesMade, MessagesMade DEF StreamOutcomes
    <2>6. made' = Append(made, o) /\ stream_q' = Append(stream_q, MessageOf(o))
      BY <2>1, <2>5
    <2> HIDE DEF o
    <2>7. \A w \in Nat : Wires(w) /\ conn = "up" => Queues(w)'
      BY <1>q, <1>t, <2>2, <2>5, <2>6, QueueGrown
    <2> QED BY <1>m, <2>1, <2>2, <2>5, <2>6, <2>7
  <1>10. CASE CloseStream
    <2> DEFINE o == Value("end", 0)
    <2>1. /\ handler = "streaming" /\ UNCHANGED <<body, complete>>
          /\ made' = Append(made, o)
          /\ stream_q' = Append(stream_q, <<STREAM_END>>) \/ stream_q' = stream_q
      BY <1>10 DEF CloseStream, wireVars
    <2>2. ItemsOnly(made) /\ handler \in Holding
      BY <1>2, <2>1 DEF RustServing, Holding
    <2>5. /\ o \in HttpOutcomes /\ MessageOf(o) = <<STREAM_END>> /\ MessageOf(o) \in Messages
          /\ o.type = "end"
      BY OutcomesMade, MessagesMade DEF StreamOutcomes, Value
    <2>6. stream_q' = Append(stream_q, MessageOf(o)) \/ stream_q' = stream_q
      BY <2>1, <2>5
    <2>8. made' = Append(made, o)
      BY <2>1
    <2> HIDE DEF o
    <2>7. ASSUME NEW w \in Nat, Wires(w), conn = "up" PROVE Queues(w)'
      <3>1. Queues(w)
        BY <1>q, <2>2, <2>7
      <3>2. CASE stream_q' = Append(stream_q, MessageOf(o))
        BY <1>t, <2>2, <2>5, <2>8, <3>1, <3>2, QueueGrown
      <3>3. CASE stream_q' = stream_q
        BY <1>t, <2>2, <2>5, <2>8, <3>1, <3>3, QueueFull
      <3> QED BY <2>6, <3>2, <3>3
    <2> QED BY <1>m, <2>1, <2>2, <2>5, <2>7, <2>8
  <1>11. CASE FailStream \/ ReturnStream
    BY <1>s, <1>11 DEF FailStream, ReturnStream, httpVars, wireVars
  <1>12. CASE PollFrame
    BY <1>2, <1>3, <1>12, FrameSent
  <1>13. CASE BodyEnd
    BY <1>2, <1>3, <1>13, BodyEnded
  <1>14. CASE Disconnect
    <2>1. /\ conn \in {"closed", "cut"} /\ UNCHANGED <<body, made, complete>>
      BY <1>14 DEF Disconnect, httpVars, wireVars
    <2>2. conn = "cut"
      BY <1>4, <2>1
    <2>4. PICK w \in Nat :
                /\ Wires(w) /\ Emitted \in Nat /\ Emitted <= w /\ w <= Len(made)
                /\ Framed(buf \o body, made, Emitted, w, complete \/ conn # "cut")
                /\ \A i \in (Emitted + 1)..w : made[i] \in StreamOutcomes
                /\ \A i \in 1..Emitted : made[i].type = "item"
      BY <1>3, LiveStream
    <2>7. Framed(buf' \o body', made', Emitted', w, (complete' \/ conn' # "cut"))
      BY <1>2, <1>4, <2>1, <2>4
    <2>8. complete' => /\ Over(made')
                       /\ \/ w = Len(made')
                          \/ w + 1 = Len(made') /\ made'[Len(made')].type = "end"
      BY <2>1, <2>4 DEF Wires, Over
    <2>9. Emitted' <= w /\ w <= Len(made') /\ conn' = "cut"
      BY <1>2, <1>4, <2>1, <2>2, <2>4
    <2>10. Wires(w)'
      BY <2>7, <2>8, <2>9 DEF Wires
    <2>11. \A i \in 1..Emitted' : made'[i].type = "item"
      BY <1>4, <2>1, <2>4
    <2> QED BY <2>10, <2>11 DEF Streamed
  <1> QED BY <1>5, <1>6, <1>7, <1>8, <1>9, <1>10, <1>11, <1>12, <1>13, <1>14
          DEF RustSide, RustActs, RustServerTask, RustMethod

\* The goroutine makes an outcome and writes its message.
LEMMA FrameFlushed ==
    ASSUME HttpTyped, CallerOK, HttpMade, Streamed, StreamLive, server = "go", conn = "up",
           ~complete, ItemsOnly(made),
           NEW o \in StreamOutcomes, made' = Append(made, o), body' = body \o FrameOf(o),
           complete' => Over(made'), complete' \in BOOLEAN,
           UNCHANGED <<buf, events, got, conn, server>>
    PROVE  Streamed'
  <1>1. PICK w \in Nat :
              /\ Wires(w) /\ Emitted \in Nat /\ Emitted <= w /\ w <= Len(made)
              /\ Framed(buf \o body, made, Emitted, w, complete \/ conn # "cut")
              /\ \A i \in (Emitted + 1)..w : made[i] \in StreamOutcomes
              /\ \A i \in 1..Emitted : made[i].type = "item"
    BY LiveStream
  <1>2. w = Len(made)
    BY <1>1 DEF Wires
  <1>3. Emitted' = Emitted
    BY DEF Emitted
  <1>4. /\ made \in Seq(HttpOutcomes) /\ w \in Nat /\ buf \in Seq(Nat) /\ body \in Seq(Nat)
        /\ \A i \in 1..w : made[i] \in StreamOutcomes
    BY <1>2, LiveCaller, StreamMade DEF StreamLive
  <1> DEFINE u == made'
             E == Emitted
             b == body \o FrameOf(o)
  <1>5. o \in HttpOutcomes
    BY DEF StreamOutcomes
  <1>6. /\ Len(u) = w + 1 /\ u[w + 1] = o /\ \A i \in 1..w : u[i] = made[i]
    BY <1>2, <1>4, <1>5, AppendProperties
  <1>7. E \in Nat /\ E <= w /\ Framed(buf \o body, made, E, w, TRUE)
    BY <1>1
  <1>8. \A i \in 1..E : made[i].type = "item"
    BY <1>1
  <1>b. body' = b
    OBVIOUS
  <1>c. b = body \o FrameOf(u[w + 1])
    BY <1>6
  <1> HIDE DEF u, E, b
  <1>9. Framed(buf \o body, u, E, w, TRUE)
    <2> DEFINE p == buf \o body
    <2>1. \A i \in (E + 1)..w : i \in 1..w
      BY <1>4, <1>7
    <2>2. \A i \in (E + 1)..w : u[i] = made[i]
      BY <1>6, <2>1
    <2>3. Framed(p, made, E, w, TRUE)
      BY <1>7
    <2> HIDE DEF p
    <2>4. Framed(p, u, E, w, TRUE)
      BY <1>4, <1>7, <2>2, <2>3, FramedSame
    <2> QED BY <2>4 DEF p
  <1>10. \A i \in (E + 1)..(w + 1) : u[i] \in StreamOutcomes
    <2>1. ASSUME NEW i \in (E + 1)..(w + 1) PROVE u[i] \in StreamOutcomes
      <3>1. i = w + 1 \/ i \in 1..w
        BY <1>4, <1>7
      <3> QED BY <1>4, <1>6, <3>1
    <2> QED BY <2>1
  <1>11. Framed(buf \o b, u, E, w + 1, TRUE)
    <2>1. Framed(buf \o (body \o FrameOf(u[w + 1])), u, E, w + 1, TRUE)
      BY <1>4, <1>7, <1>9, <1>10, FrameAdded
    <2> QED BY <1>c, <2>1
  <1>12. Framed(buf' \o body', made', Emitted', w + 1, (complete' \/ conn' # "cut"))
    <2>1. (complete' \/ conn' # "cut") = TRUE
      OBVIOUS
    <2>2. buf' \o body' = buf \o b
      BY <1>b
    <2> QED BY <1>3, <1>11, <2>1, <2>2 DEF u, E
  <1>13. E <= w + 1 /\ w + 1 \in Nat
    BY <1>4, <1>7
  <1>14. Wires(w + 1)'
    <2>1. Emitted' <= w + 1 /\ w + 1 <= Len(made')
      BY <1>3, <1>6, <1>13 DEF u, E
    <2>2. complete' => /\ Over(made')
                       /\ w + 1 = Len(made')
      BY <1>6 DEF u
    <2>3. server' = "go" /\ w + 1 = Len(made')
      BY <1>6 DEF u
    <2> QED BY <1>12, <2>1, <2>2, <2>3 DEF Wires
  <1>15. \A i \in 1..Emitted' : made'[i].type = "item"
    <2>1. \A i \in 1..E : i \in 1..w
      BY <1>4, <1>7
    <2>2. \A i \in 1..E : u[i].type = "item"
      BY <1>6, <1>8, <2>1
    <2> QED BY <1>3, <2>2 DEF u, E
  <1> QED BY <1>13, <1>14, <1>15 DEF Streamed

\* The steps of the Go server.
LEMMA GoStreams ==
    ASSUME HttpTyped, CallerOK, HttpMade, RustServing, GoServing, Replied, Streamed,
           GoSide, HttpRpcNext
    PROVE  Streamed'
  <1>1. SUFFICES ASSUME StreamLive' PROVE Streamed'
    BY DEF Streamed
  <1>2. /\ UNCHANGED <<phase, buf, events, reader>> /\ UNCHANGED <<server, kind, conn, got>>
        /\ server = "go"
    BY ServerLeaves DEF GoSide, clientVars
  <1>3. StreamLive
    <2>1. head.status \in {0, 200}
      BY <1>1, HeadStays DEF StreamLive
    <2> QED BY <1>1, <1>2, <2>1 DEF StreamLive
  <1>4. Emitted' = Emitted /\ kind = "stream"
    BY <1>2, <1>3 DEF Emitted, StreamLive
  <1>t. made \in Seq(HttpOutcomes)
    BY DEF HttpTyped
  <1>r. UNCHANGED <<response_tx, stream_q>>
    BY DEF GoSide, rustServerVars
  <1>s. ASSUME UNCHANGED <<body, made, complete>> PROVE Streamed'
    BY <1>2, <1>3, <1>4, <1>r, <1>s, StreamedSame
  <1>w. ASSUME goroutine = "working" PROVE ItemsOnly(made) /\ ~complete
    BY <1>2, <1>w DEF GoServing
  <1>e. ASSUME NEW c \in 1..3, ReplyError(c) PROVE FALSE
    <2>1. head'.status \in {400, 404, 500}
      <3>1. ReplyError(c) =>
                /\ head' \in Heads /\ head'.status \in {400, 404, 500} /\ head'.type = "rpc-error"
                /\ body' = ErrorBody(c) /\ body' \in Seq(Nat) /\ complete' = TRUE
        BY ErrorReplied
      <3> QED BY <1>e, <3>1
    <2> QED BY <1>1, <2>1 DEF StreamLive
  <1>5. CASE ServeHTTP
    <2>1. CASE \E c \in 1..3 : ReplyError(c)
      BY <1>e, <2>1
    <2>2. CASE UNCHANGED <<body, made, complete>>
      BY <1>s, <2>2
    <2> QED BY <1>5, <2>1, <2>2 DEF ServeHTTP, ERR_CODE_UNKNOWN_METHOD, ERR_CODE_DECODE_ERROR
  <1>6. CASE GoReturnUnary
    BY <1>4, <1>6 DEF GoReturnUnary
  <1>7. CASE SendStreamItem
    <2>1. /\ goroutine = "working" /\ complete' = complete /\ Len(made) < MaxItems /\ conn = "up"
          /\ made' = Append(made, Value("item", Len(made) + 1))
          /\ body' = body \o StreamFrame(<<STREAM_ITEM, Len(made) + 1>>)
      BY <1>7 DEF SendStreamItem, WriteStreamFrame
    <2> DEFINE n == Len(made) + 1
    <2>3. n \in 1..MaxItems
      <3>1. Len(made) \in Nat /\ MaxItems \in Nat
        BY <1>t, MaxItemsNat
      <3> QED BY <2>1, <3>1
    <2>4. made' = Append(made, Value("item", n)) /\ body' = body \o StreamFrame(<<STREAM_ITEM, n>>)
      BY <2>1
    <2> HIDE DEF n
    <2> DEFINE o == Value("item", n)
    <2>5. /\ o \in StreamOutcomes /\ MessageOf(o) = <<STREAM_ITEM, n>>
      BY <2>3, OutcomesMade, MessagesMade
    <2>6. made' = Append(made, o) /\ body' = body \o FrameOf(o)
      BY <2>4, <2>5 DEF FrameOf
    <2>7. ItemsOnly(made) /\ ~complete
      BY <1>w, <2>1
    <2>8. complete' \in BOOLEAN /\ ~complete'
      <3>1. complete \in BOOLEAN
        BY DEF HttpTyped
      <3> QED BY <2>1, <2>7, <3>1
    <2> HIDE DEF o
    <2> QED BY <1>2, <1>3, <2>1, <2>5, <2>6, <2>7, <2>8, FrameFlushed
  <1>8. CASE SendStreamEnd
    <2> DEFINE o == Value("end", 0)
    <2>1. /\ goroutine = "working" /\ complete' = TRUE /\ conn = "up"
          /\ made' = Append(made, o) /\ body' = body \o StreamFrame(<<STREAM_END>>)
      BY <1>8 DEF SendStreamEnd, WriteStreamFrame
    <2>5. /\ o \in StreamOutcomes /\ MessageOf(o) = <<STREAM_END>> /\ o \in HttpOutcomes /\ o.type # "item"
      BY OutcomesMade, MessagesMade DEF StreamOutcomes, Value
    <2>6. made' = Append(made, o) /\ body' = body \o FrameOf(o)
      BY <2>1, <2>5 DEF FrameOf
    <2>7. ItemsOnly(made) /\ ~complete
      BY <1>w, <2>1
    <2> HIDE DEF o
    <2>8. Over(made')
      BY <1>t, <2>5, <2>6, LastMade
    <2> QED BY <1>2, <1>3, <2>1, <2>5, <2>6, <2>7, <2>8, FrameFlushed
  <1>9. CASE SendError
    <2>1. CASE ReplyError(3)
      <3>1. 3 \in 1..3
        OBVIOUS
      <3> QED BY <1>e, <2>1, <3>1
    <2>2. CASE WriteStreamFrame(<<STREAM_ERROR>> \o ErrorBody(3)) /\ complete' = TRUE
      <3> DEFINE o == Value("error", 3)
      <3>1. /\ goroutine = "working" /\ made' = Append(made, o)
        BY <1>9 DEF SendError, ERR_CODE_HANDLER_ERROR
      <3>2. /\ complete' = TRUE /\ conn = "up"
            /\ body' = body \o StreamFrame(<<STREAM_ERROR>> \o ErrorBody(3))
        BY <2>2 DEF WriteStreamFrame
      <3>5. /\ o \in StreamOutcomes /\ MessageOf(o) = <<STREAM_ERROR>> \o ErrorBody(3)
            /\ o \in HttpOutcomes /\ o.type # "item"
        BY OutcomesMade, MessagesMade DEF StreamOutcomes, Value
      <3>6. made' = Append(made, o) /\ body' = body \o FrameOf(o)
        BY <3>1, <3>2, <3>5 DEF FrameOf
      <3>7. ItemsOnly(made) /\ ~complete
        BY <1>w, <3>1
      <3> HIDE DEF o
      <3>8. Over(made')
        BY <1>t, <3>5, <3>6, LastMade
      <3> QED BY <1>2, <1>3, <3>2, <3>5, <3>6, <3>7, <3>8, FrameFlushed
    <2> QED BY <1>9, <2>1, <2>2 DEF SendError, ERR_CODE_HANDLER_ERROR
  <1>10. CASE GoReturnGone \/ GoDisconnect
    BY <1>s, <1>10 DEF GoReturnGone, GoDisconnect, httpVars, wireVars
  <1> QED BY <1>5, <1>6, <1>7, <1>8, <1>9, <1>10 DEF GoSide, GoActs, GoMethod

\* The first bytes of what is under way.
LEMMA CutFront ==
    ASSUME NEW p \in Seq(Nat), NEW q \in Seq(Nat), NEW n \in 0..Len(q)
    PROVE  LET t == p \o SubSeq(q, 1, n) IN
           /\ t \in Seq(Nat) /\ Len(t) <= Len(p \o q)
           /\ \A i \in 1..Len(t) : t[i] = (p \o q)[i]
  <1> DEFINE s == SubSeq(q, 1, n)
             l == Len(p)
             k == Len(q)
             t == p \o s
             u == p \o q
  <1>1. l \in Nat /\ k \in Nat /\ n \in 0..k
    OBVIOUS
  <1>2. s \in Seq(Nat) /\ Len(s) = n /\ \A i \in 1..n : s[i] = q[i]
    BY Leading
  <1>3. /\ u \in Seq(Nat) /\ Len(u) = l + k
        /\ \A i \in 1..(l + k) : u[i] = IF i <= l THEN p[i] ELSE q[i - l]
    BY ConcatProperties
  <1> HIDE DEF s, k, u
  <1>4. /\ t \in Seq(Nat) /\ Len(t) = l + n
        /\ \A i \in 1..(l + n) : t[i] = IF i <= l THEN p[i] ELSE s[i - l]
    <2>1. /\ t \in Seq(Nat) /\ Len(t) = Len(p) + Len(s)
          /\ \A i \in 1..(Len(p) + Len(s)) : t[i] = IF i <= Len(p) THEN p[i] ELSE s[i - Len(p)]
      BY <1>2, ConcatProperties
    <2> HIDE DEF t
    <2> QED BY <1>2, <2>1
  <1> HIDE DEF t, l
  <1>5. ASSUME NEW i \in 1..(l + n) PROVE t[i] = u[i]
    <2>1. i \in 1..(l + k)
      BY <1>1
    <2>2. CASE i <= l
      BY <1>3, <1>4, <2>1, <2>2
    <2>3. CASE ~(i <= l)
      <3>1. i - l \in 1..n
        BY <1>1, <2>3
      <3>2. t[i] = s[i - l] /\ u[i] = q[i - l]
        BY <1>3, <1>4, <2>1, <2>3
      <3> QED BY <1>2, <3>1, <3>2
    <2> QED BY <2>2, <2>3
  <1>6. Len(t) <= Len(u)
    BY <1>1, <1>3, <1>4
  <1>7. \A i \in 1..Len(t) : t[i] = u[i]
    BY <1>4, <1>5
  <1> QED BY <1>4, <1>6, <1>7 DEF t, u, s

\* The connection breaks.
LEMMA CutStreams ==
    ASSUME HttpTyped, CallerOK, HttpMade, Streamed, CutSide
    PROVE  Streamed'
  <1>1. SUFFICES ASSUME StreamLive' PROVE Streamed'
    BY DEF Streamed
  <1>2. UNCHANGED <<phase, buf, events, reader>> /\ UNCHANGED <<server, kind, head, made, got>>
    BY DEF CutSide, HttpCut, callVars, clientVars
  <1>3. conn = "up" /\ conn' = "cut"
    BY DEF CutSide, HttpCut
  <1>4. StreamLive /\ Emitted' = Emitted
    BY <1>1, <1>2 DEF StreamLive, Emitted
  <1>5. PICK w \in Nat :
              /\ Wires(w) /\ Emitted \in Nat /\ Emitted <= w /\ w <= Len(made)
              /\ Framed(buf \o body, made, Emitted, w, complete \/ conn # "cut")
              /\ \A i \in (Emitted + 1)..w : made[i] \in StreamOutcomes
              /\ \A i \in 1..Emitted : made[i].type = "item"
    BY <1>4, LiveStream
  <1>6. buf \in Seq(Nat) /\ body \in Seq(Nat) /\ buf \o body \in Seq(Nat)
    BY <1>4, LiveCaller
  <1>7. Framed(buf \o body, made, Emitted, w, TRUE)
    BY <1>3, <1>5
  <1> DEFINE E == Emitted
             p == buf \o body
  <1>8. /\ E \in Nat /\ E <= w /\ p \in Seq(Nat) /\ Framed(p, made, E, w, TRUE)
        /\ \A i \in (E + 1)..w : made[i] \in StreamOutcomes
    BY <1>5, <1>6, <1>7
  <1>9. CASE UNCHANGED <<body, complete>>
    <2> HIDE DEF E, p
    <2>1. complete \in BOOLEAN
      BY DEF HttpTyped
    <2>3. Framed(p, made, E, w, complete)
      <3> DEFINE u == made
                 whole == TRUE
                 less == complete
      <3>1. \A i \in (E + 1)..w : u[i] = made[i]
        OBVIOUS
      <3>2. E \in Nat /\ E <= w /\ w \in Nat /\ Framed(p, made, E, w, whole)
        BY <1>8
      <3>4. whole \in BOOLEAN /\ less \in BOOLEAN /\ (less => whole)
        BY <2>1
      <3> HIDE DEF u, whole, less
      <3>3. Framed(p, u, E, w, less)
        BY <3>1, <3>2, <3>4, FramedSame
      <3> QED BY <3>3 DEF u, less
    <2>4. Framed(buf' \o body', made', Emitted', w, (complete' \/ conn' # "cut"))
      <3>1. (complete' \/ conn' # "cut") = complete
        BY <1>3, <1>9, <2>1
      <3> QED BY <1>2, <1>4, <1>9, <2>3, <3>1 DEF p, E
    <2>5. complete' => /\ Over(made')
                       /\ \/ w = Len(made')
                          \/ w + 1 = Len(made') /\ made'[Len(made')].type = "end"
      BY <1>2, <1>5, <1>9 DEF Wires, Over
    <2>6. Emitted' <= w /\ w <= Len(made')
      BY <1>2, <1>4, <1>5
    <2>7. Wires(w)'
      BY <1>3, <2>4, <2>5, <2>6 DEF Wires
    <2>8. \A i \in 1..Emitted' : made'[i].type = "item"
      BY <1>2, <1>4, <1>5
    <2> QED BY <2>7, <2>8 DEF Streamed
  <1>10. CASE complete' = FALSE /\ \E n \in 0..Len(body) : body' = SubSeq(body, 1, n)
    <2>1. PICK n \in 0..Len(body) : body' = SubSeq(body, 1, n)
      BY <1>10
    <2> DEFINE t == buf \o SubSeq(body, 1, n)
    <2>2. t \in Seq(Nat) /\ Len(t) <= Len(p) /\ \A i \in 1..Len(t) : t[i] = p[i]
      BY <1>6, CutFront
    <2>t. buf' \o body' = t
      BY <1>2, <2>1
    <2> HIDE DEF E, p, t
    <2>3. Framed(t, made, E, w, FALSE)
      BY <1>8, <2>2, FramedCut
    <2>4. Framed(buf' \o body', made', Emitted', w, (complete' \/ conn' # "cut"))
      <3>1. (complete' \/ conn' # "cut") = FALSE
        BY <1>3, <1>10
      <3> QED BY <1>2, <1>4, <2>t, <2>3, <3>1 DEF E
    <2>6. Emitted' <= w /\ w <= Len(made') /\ ~complete'
      BY <1>2, <1>4, <1>5, <1>10
    <2>7. Wires(w)'
      BY <1>3, <2>4, <2>6 DEF Wires
    <2>8. \A i \in 1..Emitted' : made'[i].type = "item"
      BY <1>2, <1>4, <1>5
    <2> QED BY <2>7, <2>8 DEF Streamed
  <1> QED BY <1>9, <1>10 DEF CutSide, HttpCut

\* A stream that is read stays under way.
LEMMA StreamedStep ==
    ASSUME HttpTyped, CallerOK, HttpMade, RustServing, GoServing, Replied, Streamed, HttpRpcNext
    PROVE  Streamed'
  BY HttpSides, CallerStreams, RustStreams, GoStreams, CutStreams

-----------------------------------------------------------------------------
(* What the caller is told. *)

\* An event that waits stays true of what was made, which only grows.
LEMMA TellsStays ==
    ASSUME HttpTyped, Makes, phase # "dropped", UNCHANGED <<got, events, client>>,
           conn = "cut" => conn' = "cut",
           NEW i \in 1..Len(events), Tells(i)
    PROVE  Tells(i)'
  <1> DEFINE g == Len(got)
             m == Len(made)
             j == g + i
  <1>1. g \in Nat /\ i \in Nat \ {0} /\ j = g + i
    BY EmittedNat
  <1>2. m \in Nat /\ Len(made') \in {m, m + 1} /\ \A k \in 1..m : made'[k] = made[k]
    BY MadeStays
  <1>3. CASE /\ g + i <= m /\ events[i] = Contract!Seen(made[g + i])
             /\ events[i].type # "item" => i = Len(events)
    <2>0. j <= m /\ events[i] = Contract!Seen(made[j])
      BY <1>3
    <2> HIDE DEF g, m, j
    <2>1. j \in 1..m /\ j <= Len(made')
      BY <1>1, <1>2, <2>0
    <2>2. made'[j] = made[j]
      BY <1>2, <2>1
    <2>3. events'[i] = Contract!Seen(made'[j])
      BY <2>0, <2>2
    <2>4. Len(got') + i <= Len(made') /\ events'[i] = Contract!Seen(made'[Len(got') + i])
      BY <2>1, <2>3 DEF j, g
    <2>5. events'[i].type # "item" => i = Len(events')
      BY <1>3
    <2>6. Contract!Seen(made'[Len(got') + i]) = Contract!Seen(made[Len(got) + i])'
      BY DEF Contract!Seen
    <2> QED BY <2>4, <2>5, <2>6 DEF Tells
  <1>4. CASE /\ i = Len(events) /\ conn = "cut"
             /\ events[i] \in {Down, Closed} /\ (client # "go" => events[i] = Down)
    BY <1>4 DEF Tells
  <1> QED BY <1>3, <1>4 DEF Tells

\* While the reader reads, every event is an item that was made.
LEMMA ItemsTold ==
    ASSUME Queued, phase = "open", reader = "reading", NEW i \in 1..Len(events)
    PROVE  /\ Len(got) + i <= Len(made)
           /\ events[i] = Contract!Seen(made[Len(got) + i])
           /\ events[i].type = "item"
  <1>1. events[i].type = "item" /\ Tells(i)
    BY DEF Queued, ItemsOnly
  <1>2. Down.type # "item" /\ Closed.type # "item"
    BY DEF Down, Closed, Value
  <1> QED BY <1>1, <1>2 DEF Tells

\* One more event waits.
LEMMA MoreTold ==
    ASSUME HttpTyped, Queued, phase = "open", reader = "reading",
           UNCHANGED <<got, client, made>>,
           NEW e \in HttpTold, events' = Append(events, e),
           \/ Emitted + 1 <= Len(made) /\ e = Contract!Seen(made[Emitted + 1])
           \/ conn' = "cut" /\ e \in {Down, Closed} /\ (client # "go" => e = Down)
    PROVE  \A i \in 1..Len(events') : Tells(i)'
  <1> DEFINE k == Len(events)
             g == Len(got)
  <1>1. k \in Nat /\ g \in Nat /\ events \in Seq(HttpTold) /\ Emitted = g + k
    BY EmittedNat DEF HttpTyped, Emitted
  <1>2. Len(events') = k + 1 /\ events'[k + 1] = e /\ \A i \in 1..k : events'[i] = events[i]
    BY <1>1, AppendProperties
  <1>3. \A i \in 1..k : g + i <= Len(made) /\ events[i] = Contract!Seen(made[g + i]) /\ events[i].type = "item"
    BY ItemsTold
  <1>4. Len(got') = g /\ made' = made /\ client' = client
    OBVIOUS
  <1> HIDE DEF k, g
  <1>5. ASSUME NEW i \in 1..k PROVE Tells(i)'
    <2>1. g + i <= Len(made) /\ events'[i] = Contract!Seen(made[g + i]) /\ events'[i].type = "item"
      BY <1>2, <1>3
    <2>2. Contract!Seen(made[g + i]) = Contract!Seen(made[Len(got) + i])'
      BY <1>4 DEF Contract!Seen
    <2> QED BY <1>4, <2>1, <2>2 DEF Tells
  <1>6. ASSUME NEW i \in Nat, i = k + 1 PROVE Tells(i)'
    <2>0. i = Len(events') /\ events'[i] = e
      BY <1>2, <1>6
    <2>1. CASE Emitted + 1 <= Len(made) /\ e = Contract!Seen(made[Emitted + 1])
      <3>1. g + i = Emitted + 1
        BY <1>1, <1>6
      <3>2. g + i <= Len(made) /\ e = Contract!Seen(made[g + i])
        BY <2>1, <3>1
      <3>3. Contract!Seen(made[g + i]) = Contract!Seen(made[Len(got) + i])'
        BY <1>4 DEF Contract!Seen
      <3> QED BY <2>0, <1>4, <3>2, <3>3 DEF Tells
    <2>2. CASE conn' = "cut" /\ e \in {Down, Closed} /\ (client # "go" => e = Down)
      BY <2>0, <1>4, <2>2 DEF Tells
    <2> QED BY <2>1, <2>2
  <1>7. ASSUME NEW i \in 1..Len(events') PROVE Tells(i)'
    <2>1. i \in 1..(k + 1)
      BY <1>2
    <2>2. i \in 1..k \/ i = k + 1
      BY <1>1, <2>1
    <2>3. i \in Nat
      OBVIOUS
    <2> QED BY <1>5, <1>6, <2>2, <2>3
  <1> QED BY <1>7

\* An event is queued for the next outcome.
LEMMA EventQueued ==
    ASSUME HttpTyped, CallerOK, HttpMade, Streamed, Queued, Emit,
           UNCHANGED <<client, made>>
    PROVE  Queued'
  <1>1. SUFFICES ASSUME phase' = "open" PROVE Queued'
    BY DEF Queued
  <1>2. /\ reader = "reading" /\ WholeMessage /\ UNCHANGED <<got, phase>> /\ phase = "open"
        /\ events' = Append(events, EventOf(Message))
        /\ EventOf(Message).type # "item" => reader' = "done"
        /\ conn' = conn \/ reader' = "done"
        /\ conn' = conn \/ conn = "up"
    BY <1>1 DEF Emit
  <1>3. StreamLive
    BY <1>2 DEF CallerOK, StreamLive
  <1>4. PICK w \in Nat : Wires(w)
    BY <1>3 DEF Streamed
  <1> DEFINE o == made[Emitted + 1]
             e == EventOf(Message)
  <1>5. Emitted < w /\ o \in StreamOutcomes /\ e = Contract!Seen(o)
    BY <1>2, <1>3, <1>4, NextMessage
  <1>6. Emitted + 1 <= Len(made)
    <2>1. Emitted \in Nat /\ Len(made) \in Nat /\ w <= Len(made)
      BY <1>3, <1>4, LiveCaller DEF Wires
    <2> QED BY <1>5, <2>1
  <1>7. e \in HttpTold
    BY <1>5, OutcomeKinds DEF StreamOutcomes
  <1>8. events' = Append(events, e) /\ e = Contract!Seen(made[Emitted + 1])
    BY <1>2, <1>5
  <1>9. events \in Seq(HttpTold) /\ ItemsOnly(events)
    BY <1>2 DEF HttpTyped, Queued
  <1>10. e.type # "item" => reader' = "done"
    BY <1>2
  <1> HIDE DEF o, e
  <1>11. \A i \in 1..Len(events') : Tells(i)'
    BY <1>2, <1>6, <1>7, <1>8, MoreTold
  <1>12. reader' = "reading" => ItemsOnly(events')
    <2>1. SUFFICES ASSUME reader' = "reading" PROVE ItemsOnly(events')
      OBVIOUS
    <2>2. e.type = "item"
      BY <1>10, <2>1
    <2> QED BY <1>7, <1>8, <1>9, <2>2, ItemsAppended
  <1> QED BY <1>11, <1>12 DEF Queued

\* The body of a stream has ended: only its end is still to be told.
LEMMA EndQueued ==
    ASSUME HttpTyped, CallerOK, HttpMade, Streamed, Queued, ReaderEnd, phase = "open",
           UNCHANGED <<client, made>>
    PROVE  Queued'
  <1>1. /\ reader = "reading" /\ ~WholeMessage /\ body = <<>> /\ complete
        /\ events' = Append(events, Closed) /\ reader' = "done" /\ got' = got
    BY DEF ReaderEnd, Reading, httpVars
  <1>2. StreamLive
    BY <1>1 DEF CallerOK, StreamLive
  <1>3. PICK w \in Nat : Wires(w)
    BY <1>2 DEF Streamed
  <1>4. Emitted \in Nat /\ Len(made) \in Nat /\ Emitted <= w /\ w <= Len(made)
    BY <1>2, <1>3, LiveCaller DEF Wires
  <1>5. Emitted = w
    <2>1. ~(Emitted < w)
      BY <1>1, <1>2, <1>3, NextFrame
    <2> QED BY <1>4, <2>1
  <1>6. Over(made) /\ (w = Len(made) \/ (w + 1 = Len(made) /\ made[Len(made)].type = "end"))
    BY <1>1, <1>3 DEF Wires
  <1>7. w # Len(made)
    <2>1. SUFFICES ASSUME w = Len(made) PROVE FALSE
      OBVIOUS
    <2>2. \A i \in 1..w : made[i].type = "item"
      BY <1>2, <1>5 DEF Streamed
    <2>3. ItemsOnly(made)
      BY <2>1, <2>2 DEF ItemsOnly
    <2>4. made \in Seq(HttpOutcomes)
      BY DEF HttpTyped
    <2> QED BY <1>6, <2>3, <2>4, ItemsNotOver
  <1>8. Emitted + 1 <= Len(made) /\ made[Emitted + 1].type = "end"
    BY <1>4, <1>5, <1>6, <1>7
  <1>9. Closed = Contract!Seen(made[Emitted + 1]) /\ Closed \in HttpTold
    BY <1>8 DEF Contract!Seen, HttpTold
  <1>10. \A i \in 1..Len(events') : Tells(i)'
    BY <1>1, <1>8, <1>9, MoreTold
  <1> QED BY <1>1, <1>10 DEF Queued

\* The body of a stream fails.
LEMMA FailureQueued ==
    ASSUME HttpTyped, Queued, ReaderFails, phase = "open",
           UNCHANGED <<client, made>>
    PROVE  Queued'
  <1>1. /\ reader = "reading" /\ conn = "cut" /\ reader' = "done" /\ got' = got /\ conn' = conn
    BY DEF ReaderFails, Reading, httpVars, wireVars
  <1>2. PICK e \in CutEvents : events' = Append(events, e)
    BY DEF ReaderFails
  <1>3. e \in {Down, Closed} /\ (client # "go" => e = Down)
    BY <1>2 DEF CutEvents
  <1>4. e \in HttpTold
    BY <1>3 DEF HttpTold
  <1>5. conn' = "cut"
    BY <1>1
  <1>6. \A i \in 1..Len(events') : Tells(i)'
    BY <1>1, <1>2, <1>3, <1>4, <1>5, MoreTold
  <1> QED BY <1>1, <1>6 DEF Queued

\* The caller takes an event.
LEMMA EventTaken ==
    ASSUME HttpTyped, Queued, Recv, UNCHANGED <<client, made>>
    PROVE  Queued'
  <1>1. /\ phase = "open" /\ events # <<>> /\ got' = Append(got, Head(events))
        /\ events' = Tail(events) /\ UNCHANGED <<conn, reader>>
    BY DEF Recv, wireVars
  <1> DEFINE k == Len(events)
             g == Len(got)
             e == events
  <1>2. k \in Nat \ {0} /\ g \in Nat /\ e \in Seq(HttpTold) /\ got \in Seq(HttpTold)
    <2>1. events \in Seq(HttpTold) /\ got \in Seq(HttpTold)
      BY <1>1 DEF HttpTyped
    <2>2. Len(events) \in Nat \ {0} /\ Len(got) \in Nat
      BY <1>1, <2>1
    <2> QED BY <2>1, <2>2
  <1>3. Len(Tail(e)) = k - 1 /\ \A i \in 1..(k - 1) : Tail(e)[i] = e[i + 1]
    BY <1>1, <1>2, HeadTailProperties
  <1>4. Len(got') = g + 1
    <2> DEFINE h == Head(events)
    <2> HIDE DEF h
    <2>1. Len(Append(got, h)) = Len(got) + 1
      BY <1>2
    <2> QED BY <1>1, <2>1 DEF h
  <1>5. events' = Tail(e)
    BY <1>1
  <1>6. \A i \in 1..k : Tells(i)
    BY <1>1 DEF Queued
  <1>7. reader = "reading" => \A i \in 1..k : e[i].type = "item"
    BY <1>1 DEF Queued, ItemsOnly
  <1>8. Len(events') = k - 1 /\ \A i \in 1..(k - 1) : events'[i] = e[i + 1]
    BY <1>3, <1>5
  <1>9. ASSUME NEW i \in Nat, i \in 1..(k - 1) PROVE Tells(i)'
    <2> DEFINE j == i + 1
    <2>1. j \in 1..k /\ (j = k <=> i = k - 1) /\ g + j = (g + 1) + i
      <3> HIDE DEF k, g
      <3> QED BY <1>2, <1>9
    <2>2. events'[i] = e[j]
      BY <1>8, <1>9
    <2>3. CASE /\ g + j <= Len(made) /\ e[j] = Contract!Seen(made[g + j])
               /\ e[j].type # "item" => j = k
      <3>1. Len(got') + i = g + j
        BY <1>4, <2>1
      <3>2. Contract!Seen(made[g + j]) = Contract!Seen(made[Len(got) + i])'
        BY <3>1 DEF Contract!Seen
      <3>3. Len(got') + i <= Len(made') /\ events'[i] = Contract!Seen(made[Len(got) + i])'
        BY <2>2, <2>3, <3>1, <3>2
      <3>4. events'[i].type # "item" => i = Len(events')
        BY <1>8, <2>1, <2>2, <2>3
      <3> QED BY <3>3, <3>4 DEF Tells
    <2>4. CASE /\ j = k /\ conn = "cut"
               /\ e[j] \in {Down, Closed} /\ (client # "go" => e[j] = Down)
      <3>1. i = Len(events')
        BY <1>8, <2>1, <2>4
      <3> QED BY <1>1, <2>2, <2>4, <3>1 DEF Tells
    <2> QED BY <1>6, <2>1, <2>3, <2>4 DEF Tells
  <1>10. ASSUME NEW i \in 1..Len(events') PROVE Tells(i)'
    BY <1>8, <1>9
  <1>11. reader' = "reading" => ItemsOnly(events')
    <2>1. SUFFICES ASSUME reader = "reading" PROVE ItemsOnly(events')
      BY <1>1
    <2>2. \A i \in 1..(k - 1) : i + 1 \in 1..k
      <3> HIDE DEF k
      <3> QED BY <1>2
    <2>3. \A i \in 1..(k - 1) : events'[i].type = "item"
      BY <1>7, <1>8, <2>1, <2>2
    <2> QED BY <1>8, <2>3 DEF ItemsOnly
  <1> QED BY <1>10, <1>11 DEF Queued

\* Events are true of what was made.
LEMMA QueuedStep ==
    ASSUME HttpTyped, CallerOK, HttpMade, RustServing, GoServing, Replied, Streamed, Queued, HttpRpcNext
    PROVE  Queued'
  <1>m. Makes
    BY EverMakes
  <1>k. ASSUME UNCHANGED <<phase, events, reader, got, client>>, conn = "cut" => conn' = "cut"
        PROVE  Queued'
    <2>1. SUFFICES ASSUME phase = "open" PROVE Queued'
      BY <1>k DEF Queued
    <2>2. \A i \in 1..Len(events) : Tells(i)'
      BY <1>m, <1>k, <2>1, TellsStays DEF Queued
    <2> QED BY <1>k, <2>1, <2>2 DEF Queued
  <1>1. CASE ClientSide
    <2>0. UNCHANGED <<client, made>>
      BY <1>1, ClientLeaves DEF ClientSide
    <2>1. CASE Connect \/ ConnectFails \/ Collect \/ Collected \/ ReaderStop \/ Drop
      <3>1. phase' # "open"
        BY <2>1 DEF Connect, ConnectFails, Collect, Collected, ReaderStop, Drop, Tell
      <3> QED BY <3>1 DEF Queued
    <2>2. CASE ReadHead
      <3>1. phase = "calling" /\ events' = events
        BY <2>2 DEF ReadHead
      <3>2. events' = <<>>
        BY <3>1 DEF CallerOK
      <3>3. Len(events') = 0 /\ ItemsOnly(events')
        BY <3>2 DEF ItemsOnly
      <3> QED BY <3>3 DEF Queued
    <2>3. CASE Chunk
      BY <1>k, <2>0, <2>3 DEF Chunk
    <2>4. CASE Emit
      BY <2>0, <2>4, EventQueued
    <2>5. CASE ReaderEnd \/ ReaderFails
      <3>1. phase = "open"
        BY <2>5 DEF ReaderEnd, ReaderFails, Reading, CallerOK, HttpTyped
      <3> QED BY <2>0, <2>5, <3>1, EndQueued, FailureQueued
    <2>6. CASE Recv
      BY <2>0, <2>6, EventTaken
    <2> QED BY <1>1, <2>1, <2>2, <2>3, <2>4, <2>5, <2>6 DEF ClientSide, ClientActs, ClientTask
  <1>2. CASE RustSide
    BY <1>2, <1>k, ServerLeaves DEF RustSide, clientVars
  <1>3. CASE GoSide
    BY <1>3, <1>k, ServerLeaves DEF GoSide, clientVars
  <1>4. CASE CutSide
    BY <1>4, <1>k DEF CutSide, HttpCut, callVars, clientVars
  <1> QED BY <1>1, <1>2, <1>3, <1>4, HttpSides

\* What a step tells the caller: the next outcome of the method, or, once
\* the connection is cut, that it failed.
LEMMA TellsNext ==
    ASSUME HttpTyped, CallerOK, HttpMade, Replied, Queued, ClientActs, got' # got
    PROVE  /\ ItemsOnly(got)
           /\ \E e \in HttpTold :
                 /\ got' = Append(got, e)
                 /\ \/ Len(got) + 1 <= Len(made) /\ e = Contract!Seen(made[Len(got) + 1])
                    \/ conn = "cut" /\ e \in {Down, Closed} /\ (client # "go" => e = Down)
  <1>d. Down \in HttpTold
    BY DEF HttpTold
  <1>1. CASE ConnectFails
    <2>1. phase = "calling" /\ conn = "cut" /\ got' = Append(got, Down)
      BY <1>1 DEF ConnectFails, Tell
    <2>2. ItemsOnly(got)
      BY <2>1 DEF CallerOK, ItemsOnly
    <2> QED BY <1>d, <2>1, <2>2
  <1>2. CASE Collected
    <2>1. phase = "collecting" /\ body = <<>>
      BY <1>2 DEF Collected
    <2>2. got = <<>>
      BY <2>1 DEF CallerOK
    <2>3. ItemsOnly(got) /\ Len(got) = 0
      BY <2>2 DEF ItemsOnly
    <2>4. CASE complete
      <3> DEFINE e == IF head.status = 200 THEN Response ELSE parse_http_error
      <3>1. got' = Append(got, e)
        BY <1>2, <2>4 DEF Collected, Tell
      <3>2. Len(made) = 1 /\ made[1] \in HttpOutcomes /\ made[1].type \in {"response", "error"} /\ e = made[1]
        BY <2>1, <2>4, CollectedIs
      <3> HIDE DEF e
      <3>3. e = Contract!Seen(made[1]) /\ e \in HttpTold
        BY <3>2 DEF Contract!Seen, HttpTold
      <3>4. Len(got) + 1 = 1 /\ Len(got) + 1 <= Len(made)
        BY <2>3, <3>2
      <3> QED BY <2>3, <3>1, <3>3, <3>4
    <2>5. CASE ~complete
      <3>1. conn = "cut" /\ got' = Append(got, Down)
        BY <1>2, <2>5 DEF Collected, Tell
      <3> QED BY <1>d, <2>3, <3>1
    <2> QED BY <2>4, <2>5
  <1>3. CASE Recv
    <2>1. phase = "open" /\ events # <<>> /\ got' = Append(got, Head(events))
      BY <1>3 DEF Recv
    <2>2. events \in Seq(HttpTold)
      BY <2>1 DEF HttpTyped
    <2>3. 1 \in 1..Len(events) /\ Head(events) = events[1] /\ Head(events) \in HttpTold
      BY <2>1, <2>2
    <2>4. Tells(1)
      BY <2>1, <2>3 DEF Queued
    <2>5. ItemsOnly(got)
      BY <2>1 DEF CallerOK
    <2> DEFINE e == Head(events)
    <2>6. \/ Len(got) + 1 <= Len(made) /\ e = Contract!Seen(made[Len(got) + 1])
          \/ conn = "cut" /\ e \in {Down, Closed} /\ (client # "go" => e = Down)
      BY <2>3, <2>4 DEF Tells
    <2> HIDE DEF e
    <2>7. got' = Append(got, e) /\ e \in HttpTold
      BY <2>1, <2>3 DEF e
    <2> QED BY <2>5, <2>6, <2>7
  <1> QED BY <1>1, <1>2, <1>3 DEF ClientActs, ClientTask, Connect, ReadHead, Collect, Chunk, Emit, ReaderEnd,
             ReaderFails, ReaderStop, Drop, httpVars

\* Who is told the end of a stream was told of every outcome of it.
LEMMA EndsStep ==
    ASSUME HttpTyped, CallerOK, HttpMade, RustServing, GoServing, Replied, Queued, EndsAreHonest,
           HttpRpcNext
    PROVE  EndsAreHonest'
  <1> DEFINE n == Len(made)
             g == Len(got)
  <1>m. made \in Seq(HttpOutcomes) /\ got \in Seq(HttpTold)
    BY DEF HttpTyped
  <1>n. n \in Nat /\ g \in Nat
    BY <1>m
  <1>c. client' = client
    BY HttpSides, ClientLeaves, ServerLeaves DEF ClientSide, RustSide, GoSide, CutSide, HttpCut, callVars
  <1>1. CASE got' = got
    <2>1. SUFFICES ASSUME client # "go", got # <<>>, got[Len(got)] = Closed
                   PROVE  made' # <<>> /\ made'[Len(made')].type = "end" /\ Len(got) = Len(made')
      BY <1>1, <1>c DEF EndsAreHonest
    <2>2. made # <<>> /\ made[n].type = "end" /\ Len(got) = n
      BY <2>1 DEF EndsAreHonest
    <2>3. made' = made
      <3>1. SUFFICES ASSUME made' # made PROVE FALSE
        OBVIOUS
      <3>2. ItemsOnly(made)
        BY <3>1, EverMakes DEF Makes
      <3>3. n \in 1..n
        BY <1>m, <2>2
      <3> QED BY <2>2, <3>2, <3>3 DEF ItemsOnly
    <2> QED BY <2>2, <2>3
  <1>2. CASE got' # got
    <2>1. ClientActs
      BY <1>2, HttpSides, ServerLeaves DEF ClientSide, RustSide, GoSide, CutSide, HttpCut
    <2>2. made' = made
      BY <2>1, ClientLeaves
    <2>3. PICK e \in HttpTold :
             /\ got' = Append(got, e)
             /\ \/ Len(got) + 1 <= Len(made) /\ e = Contract!Seen(made[Len(got) + 1])
                \/ conn = "cut" /\ e \in {Down, Closed} /\ (client # "go" => e = Down)
      BY <1>2, <2>1, TellsNext
    <2>4. Len(got') = g + 1 /\ got'[g + 1] = e
      BY <1>m, <2>3, AppendProperties
    <2>5. SUFFICES ASSUME client # "go", e = Closed
                   PROVE  made # <<>> /\ made[n].type = "end" /\ g + 1 = n
      BY <1>c, <2>2, <2>4 DEF EndsAreHonest
    <2>6. g + 1 <= n /\ Closed = Contract!Seen(made[g + 1])
      BY <2>3, <2>5 DEF Closed, Down, Value
    <2> HIDE DEF n, g
    <2>7. g + 1 \in 1..n
      BY <1>n, <2>6
    <2> DEFINE o == made[g + 1]
    <2>8. o \in HttpOutcomes
      BY <1>m, <2>7 DEF n
    <2>9. o.type = "end"
      <3> HIDE DEF o
      <3>1. Contract!Seen(o) = Closed
        BY <2>6 DEF o
      <3> QED BY <2>8, <3>1, OutcomeKinds
    <2>10. ~(g + 1 < n)
      <3>1. g + 1 < n => made[g + 1].type = "item"
        BY <2>7 DEF HttpMade, n
      <3> QED BY <2>9, <3>1
    <2>11. g + 1 = n
      BY <1>n, <2>7, <2>10
    <2>12. made # <<>>
      BY <1>n, <2>11 DEF n
    <2> QED BY <2>9, <2>11, <2>12
  <1> QED BY <1>1, <1>2

\* The invariant holds at first.
LEMMA HttpBegins ==
    ASSUME HttpRpcInit
    PROVE  HttpIInv
  <1>1. /\ client \in {"rust", "go", "ts"} /\ server \in {"rust", "go"}
        /\ kind \in {"unary", "stream", "none"}
        /\ conn = "none" /\ head = NoHead /\ body = <<>> /\ complete = FALSE
        /\ made = <<>> /\ got = <<>>
    BY DEF HttpRpcInit, HttpInit
  <1>2. phase = "idle" /\ buf = <<>> /\ events = <<>> /\ reader = "none"
    BY DEF HttpRpcInit, HttpClientInit
  <1>3. handler = "none" /\ response_tx = "" /\ stream_q = <<>> /\ stream_body = "none"
    BY DEF HttpRpcInit, RustServerInit
  <1>4. goroutine = "none"
    BY DEF HttpRpcInit, GoServerInit
  <1>5. NoHead \in Heads /\ NoHead.status = 0 /\ "none" \in Handlers
    BY DEF NoHead, Heads, Handlers
  <1>6. HttpTyped
    <2>1. /\ <<>> \in Seq(HttpOutcomes) /\ <<>> \in Seq(HttpTold)
          /\ <<>> \in Seq(Nat) /\ <<>> \in Seq(Messages)
      OBVIOUS
    <2> QED BY <1>1, <1>2, <1>3, <1>4, <1>5, <2>1 DEF HttpTyped
  <1>7. CallerOK
    BY <1>1, <1>2 DEF CallerOK
  <1>8. HttpMade
    <2>1. 1..Len(made) = {}
      BY <1>1
    <2> QED BY <2>1 DEF HttpMade
  <1>9. RustServing
    BY <1>1, <1>3, <1>5 DEF RustServing, Holding
  <1>10. GoServing
    BY <1>1, <1>4, <1>5 DEF GoServing
  <1>11. Replied
    BY <1>1, <1>5 DEF Replied
  <1>12. Streamed
    <2>1. Len(got) = 0 /\ Len(events) = 0 /\ Len(made) = 0 /\ Len(stream_q) = 0
      BY <1>1, <1>2, <1>3
    <2>2. Emitted = 0
      BY <2>1 DEF Emitted
    <2>3. buf \o body = <<>>
      BY <1>1, <1>2
    <2> DEFINE whole == complete \/ conn # "cut"
    <2>4. whole \in BOOLEAN /\ made = made
      BY <1>1
    <2> HIDE DEF whole
    <2>5. Framed(<<>>, made, 0, 0, whole)
      BY <2>4, FramedNone
    <2>6. Framed(buf \o body, made, Emitted, 0, complete \/ conn # "cut")
      BY <2>2, <2>3, <2>5 DEF whole
    <2>7. Wires(0)
      BY <1>1, <2>1, <2>2, <2>6 DEF Wires
    <2>8. \A i \in 1..Emitted : made[i].type = "item"
      BY <2>2
    <2> QED BY <2>7, <2>8 DEF Streamed
  <1>13. Queued
    BY <1>2 DEF Queued
  <1>14. EndsAreHonest
    BY <1>1 DEF EndsAreHonest
  <1> QED BY <1>6, <1>7, <1>8, <1>9, <1>10, <1>11, <1>12, <1>13, <1>14 DEF HttpIInv

\* Steps of the call keep the invariant.
LEMMA HttpStep ==
    ASSUME HttpIInv, HttpRpcNext
    PROVE  HttpIInv'
  <1>1. /\ HttpTyped /\ CallerOK /\ HttpMade /\ RustServing /\ GoServing
        /\ Replied /\ Streamed /\ Queued /\ EndsAreHonest
    BY DEF HttpIInv
  <1>2. HttpTyped'
    BY <1>1, HttpTypedStep
  <1>3. CallerOK'
    BY <1>1, CallerStep
  <1>4. HttpMade'
    BY <1>1, HttpMadeStep
  <1>5. RustServing' /\ GoServing'
    BY <1>1, RustServingStep, GoServingStep
  <1>6. Replied'
    BY <1>1, RepliedStep
  <1>7. Streamed'
    BY <1>1, StreamedStep
  <1>8. Queued'
    BY <1>1, QueuedStep
  <1>9. EndsAreHonest'
    BY <1>1, EndsStep
  <1> QED BY <1>2, <1>3, <1>4, <1>5, <1>6, <1>7, <1>8, <1>9 DEF HttpIInv

\* So does a step that leaves the call alone.
LEMMA HttpIdle ==
    ASSUME HttpIInv, UNCHANGED httpRpcVars
    PROVE  HttpIInv'
  <1>1. /\ HttpTyped /\ CallerOK /\ HttpMade /\ RustServing /\ GoServing
        /\ Replied /\ Streamed /\ Queued /\ EndsAreHonest
    BY DEF HttpIInv
  <1>2. /\ UNCHANGED <<client, server, kind, conn, head, body, complete, made, got>>
        /\ UNCHANGED <<phase, buf, events, reader>>
        /\ UNCHANGED <<handler, response_tx, stream_q, stream_body, goroutine>>
    BY DEF httpRpcVars, httpVars, callVars, wireVars, clientVars, rustServerVars, goServerVars
  <1>3. HttpTyped'
    <2>1. /\ client' \in {"rust", "go", "ts"} /\ server' \in {"rust", "go"}
          /\ kind' \in {"unary", "stream", "none"} /\ conn' \in {"none", "up", "closed", "cut"}
      BY <1>1, <1>2 DEF HttpTyped
    <2>2. /\ head' \in Heads /\ body' \in Seq(Nat) /\ complete' \in BOOLEAN
          /\ made' \in Seq(HttpOutcomes) /\ got' \in Seq(HttpTold)
      BY <1>1, <1>2 DEF HttpTyped
    <2>3. /\ phase' \in {"idle", "calling", "collecting", "open", "over", "dropped"}
          /\ phase' # "dropped" => buf' \in Seq(Nat) /\ events' \in Seq(HttpTold)
          /\ reader' \in {"none", "reading", "done"}
      BY <1>1, <1>2 DEF HttpTyped
    <2>4. /\ handler' \in Handlers /\ response_tx' \in {"", "stream", "unary", "error"}
          /\ stream_q' \in Seq(Messages) /\ stream_body' \in {"none", "open", "ended"}
          /\ goroutine' \in {"none", "working", "done"}
      BY <1>1, <1>2 DEF HttpTyped
    <2> QED BY <2>1, <2>2, <2>3, <2>4 DEF HttpTyped
  <1>4. CallerOK'
    BY <1>1, <1>2 DEF CallerOK
  <1>5. HttpMade'
    BY <1>1, <1>2 DEF HttpMade
  <1>6. RustServing'
    <2>1. conn = "none" => handler = "none"
      BY <1>1 DEF RustServing
    <2> QED BY <1>1, <1>2, <2>1, RustServingKept
  <1>7. GoServing'
    BY <1>1, <1>2 DEF GoServing
  <1>8. Replied'
    BY <1>1, <1>2 DEF Replied, ReplyBytes
  <1>9. Streamed'
    <2>1. Emitted' = Emitted /\ StreamLive' = StreamLive
      BY <1>2 DEF Emitted, StreamLive
    <2>2. ASSUME NEW w PROVE Wires(w)' = Wires(w)
      BY <1>2, <2>1 DEF Wires, Queues
    <2> QED BY <1>1, <1>2, <2>1, <2>2 DEF Streamed
  <1>10. Queued'
    BY <1>1, <1>2 DEF Queued, Tells, Contract!Seen
  <1>11. EndsAreHonest'
    BY <1>1, <1>2 DEF EndsAreHonest
  <1> QED BY <1>3, <1>4, <1>5, <1>6, <1>7, <1>8, <1>9, <1>10, <1>11 DEF HttpIInv

\* The inductive invariant of the calls over HTTP.
THEOREM HttpInductive == Spec => []HttpIInv
  <1>1. Init => HttpIInv
    BY HttpBegins DEF Init
  <1>2. HttpIInv /\ [Next]_vars => HttpIInv'
    BY HttpStep, HttpIdle DEF Next, vars
  <1> QED BY <1>1, <1>2, PTL DEF Spec

\* Rust and TypeScript callers that are told the end of a stream read every
\* item of a method that ended it.
THEOREM EndsHonest == Spec => []EndsAreHonest
  <1>1. HttpIInv => EndsAreHonest
    BY DEF HttpIInv
  <1> QED BY <1>1, HttpInductive, PTL

-----------------------------------------------------------------------------
(* The calls keep the contract. *)

\* What the method makes, the contract calls produced.
LEMMA ProduceStep ==
    ASSUME HttpTyped, Makes, UNCHANGED <<got, conn>>, made' # made
    PROVE  Contract!Next
  <1>1. PICK o \in HttpOutcomes : made' = Append(made, o) /\ ItemsOnly(made)
    BY DEF Makes
  <1>2. ~Over(made)
    <2>1. made \in Seq(HttpOutcomes)
      BY DEF HttpTyped
    <2> QED BY <1>1, <2>1, ItemsNotOver
  <1>3. ~Contract!Over(<<made>>[1])
    BY <1>2 DEF Contract!Over, Over
  <1>4. <<made'>> = [<<made>> EXCEPT ![1] = Append(@, o)]
    BY <1>1
  <1>5. Contract!Produce(1, o)
    BY <1>3, <1>4 DEF Contract!Produce
  <1>6. o \in {Value("response", 0), Value("end", 0)}
             \cup {Value("item", n) : n \in 1..MaxItems}
             \cup {Value("error", c) : c \in 1..3}
    BY DEF HttpOutcomes, StreamOutcomes
  <1> QED BY <1>5, <1>6 DEF Contract!Next

\* What the caller is told, the contract lets it get.
LEMMA GetStep ==
    ASSUME HttpTyped, CallerOK, HttpMade, Replied, Queued, ClientActs, got' # got
    PROVE  Contract!Next
  <1> DEFINE g == Len(got)
  <1>m. made \in Seq(HttpOutcomes) /\ got \in Seq(HttpTold)
    BY DEF HttpTyped
  <1>n. Len(made) \in Nat /\ g \in Nat
    BY <1>m
  <1>1. UNCHANGED made /\ (conn' = "cut" <=> conn = "cut")
    BY ClientLeaves, CallerConn
  <1>2. PICK e \in HttpTold :
           /\ ItemsOnly(got) /\ got' = Append(got, e)
           /\ \/ Len(got) + 1 <= Len(made) /\ e = Contract!Seen(made[Len(got) + 1])
              \/ conn = "cut" /\ e \in {Down, Closed} /\ (client # "go" => e = Down)
    BY TellsNext
  <1>3. ~Contract!Over(<<got>>[1])
    <2>1. SUFFICES ASSUME got # <<>>, got[Len(got)].type # "item" PROVE FALSE
      BY DEF Contract!Over
    <2>2. Len(got) \in 1..Len(got)
      BY <1>m, <2>1
    <2> QED BY <1>2, <2>1, <2>2 DEF ItemsOnly
  <1>4. <<got'>> = [<<got>> EXCEPT ![1] = Append(@, e)]
    BY <1>2
  <1>5. UNCHANGED <<made>> /\ (conn # "cut")' = (conn # "cut")
    BY <1>1
  <1>6. CASE g + 1 <= Len(made) /\ e = Contract!Seen(made[g + 1])
    <2>1. g < Len(made)
      BY <1>6, <1>n
    <2>2. <<got'>> = [<<got>> EXCEPT ![1] = Append(@, Contract!Seen(<<made>>[1][Len(@) + 1]))]
      BY <1>4, <1>6
    <2>3. Contract!Get(1)
      BY <1>3, <1>5, <2>1, <2>2 DEF Contract!Get
    <2> QED BY <2>3 DEF Contract!Next
  <1>7. CASE conn = "cut" /\ e \in {Down, Closed}
    <2>1. Contract!Fail(1)
      BY <1>3, <1>4, <1>5, <1>7 DEF Contract!Fail
    <2> QED BY <2>1 DEF Contract!Next
  <1> QED BY <1>2, <1>6, <1>7

\* Steps of the call are steps of the contract, or leave it alone.
LEMMA ContractStep ==
    ASSUME HttpIInv, HttpRpcNext
    PROVE  [Contract!Next]_(Contract!vars)
  <1>i. /\ HttpTyped /\ CallerOK /\ HttpMade /\ RustServing /\ GoServing
        /\ Replied /\ Queued
    BY DEF HttpIInv
  <1>m. Makes
    BY <1>i, EverMakes
  <1>s. ASSUME UNCHANGED <<made, got>>, (conn # "cut")' = (conn # "cut")
        PROVE  UNCHANGED Contract!vars
    BY <1>s DEF Contract!vars
  <1>1. CASE ClientSide
    <2>0. ClientActs
      BY <1>1 DEF ClientSide
    <2>1. UNCHANGED made /\ (conn # "cut")' = (conn # "cut")
      BY <1>i, <2>0, ClientLeaves, CallerConn
    <2> QED BY <1>i, <1>s, <2>0, <2>1, GetStep
  <1>2. CASE RustSide \/ GoSide
    <2>1. UNCHANGED <<conn, got>>
      BY <1>2, ServerLeaves DEF RustSide, GoSide
    <2> QED BY <1>i, <1>m, <1>s, <2>1, ProduceStep
  <1>3. CASE CutSide
    <2>1. conn = "up" /\ conn' = "cut" /\ UNCHANGED <<made, got>>
      BY <1>3 DEF CutSide, HttpCut
    <2>2. Contract!Break
      BY <2>1 DEF Contract!Break
    <2> QED BY <2>2 DEF Contract!Next
  <1> QED BY <1>1, <1>2, <1>3, HttpSides

\* The caller gets what the service method of its call made, in order, each
\* once and none skipped.
THEOREM CallsOverHttp == Spec => HttpImplementsContract
  <1>1. Init => Contract!Init
    <2>1. ASSUME Init PROVE made = <<>> /\ got = <<>> /\ conn = "none"
      BY <2>1 DEF Init, HttpRpcInit, HttpInit
    <2>2. <<<<>>>> = [i \in {1} |-> <<>>]
      OBVIOUS
    <2> QED BY <2>1, <2>2 DEF Contract!Init
  <1>2. HttpIInv /\ [Next]_vars => [Contract!Next]_(Contract!vars)
    <2>1. ASSUME UNCHANGED httpRpcVars PROVE UNCHANGED Contract!vars
      BY <2>1 DEF httpRpcVars, httpVars, wireVars, Contract!vars
    <2> QED BY <2>1, ContractStep DEF Next, vars
  <1> QED BY <1>1, <1>2, HttpInductive, PTL DEF Spec, HttpImplementsContract, Contract!Spec

-----------------------------------------------------------------------------
(* Packets in a stream of bytes. *)

\* decodeVarint reads a length that came whole, and counts a byte that did
\* not come as one of the length.
LEMMA Decoded ==
    ASSUME NEW q \in Seq(Nat), NEW v \in Nat \ {0}, v < 2^Bits64,
           NEW e, e = encode_leb128_u64[v],
           \A i \in 1..Len(q) : i <= Len(e) => q[i] = e[i]
    PROVE  /\ Len(q) >= Len(e) => decodeVarint(q).header = Len(e) /\ decodeVarint(q).length = v
           /\ Len(q) < Len(e) => /\ decodeVarint(q).header = Len(q) + 1
                                 /\ decodeVarint(q).length \in Nat
  <1> DEFINE k == Len(e)
             l == Len(q)
             ends == {i \in 1..(l + 1) : i > l \/ q[i] < Continue}
             result[i \in 0..l] ==
                 IF i = 0 THEN 0
                 ELSE result[i - 1] + (q[i] % Continue) * 2^(Group * (i - 1))
  <1>1. /\ k \in Nat \ {0} /\ l \in Nat /\ Continue \in Nat
        /\ e[k] < Continue /\ \A i \in 1..(k - 1) : e[i] >= Continue
    <2>1. Continue \in Nat
      BY ByteSize
    <2>2. IsFrame(e) /\ e[k] < Continue /\ \A i \in 1..(k - 1) : e[i] >= Continue
      BY CodeShape
    <2> QED BY <2>1, <2>2 DEF IsFrame
  <1>2. \A i \in 1..l : i <= k => q[i] = e[i]
    OBVIOUS
  <1>3. Sums(result, q, l)
    BY <1>1, DecoderSums
  <1>4. /\ decodeVarint(q).header = Min(ends)
        /\ decodeVarint(q).length = result[Min({Min(ends), l})]
    BY DEF decodeVarint
  <1> HIDE DEF result, k, l
  <1>5. ASSUME NEW m \in Nat, m <= l, m <= k
        PROVE  Sums(result, e, m)
    <2>1. ASSUME NEW i \in 0..m
          PROVE  result[i] = IF i = 0 THEN 0 ELSE result[i - 1] + Weighs(e, i)
      <3>1. i \in 0..l /\ (i # 0 => i \in 1..l /\ i <= k)
        BY <1>1, <1>5
      <3>2. i # 0 => Weighs(q, i) = Weighs(e, i)
        BY <3>1, <1>2, Zenon DEF Weighs
      <3>3. result[i] = IF i = 0 THEN 0 ELSE result[i - 1] + Weighs(q, i)
        BY <3>1, <1>3 DEF Sums
      <3> QED BY <3>2, <3>3, Zenon
    <2> QED BY <2>1 DEF Sums
  <1>6. CASE l >= k
    <2>1. Min(ends) = k
      <3>1. k \in ends /\ ends \subseteq Nat
        <4>1. k \in 1..(l + 1) /\ q[k] < Continue
          BY <1>1, <1>2, <1>6
        <4> QED BY <4>1
      <3>2. ASSUME NEW j \in ends PROVE k <= j
        <4>1. SUFFICES ASSUME j < k PROVE FALSE
          BY <1>1
        <4>2. j \in 1..l /\ j \in 1..(k - 1) /\ j <= k /\ ~(j > l)
          BY <4>1, <1>1, <1>6
        <4>3. q[j] < Continue /\ q[j] = e[j] /\ e[j] >= Continue
          BY <4>2, <1>1, <1>2
        <4>4. q[j] \in Nat
          BY <4>2, ElementOfSeq DEF l
        <4> HIDE DEF ends
        <4> QED BY <4>3, <4>4, <1>1
      <3> HIDE DEF ends
      <3> QED BY <3>1, <3>2, <1>1, LeastIs
    <2>2. Min({Min(ends), l}) = k
      <3> HIDE DEF ends
      <3>1. k \in {k, l} /\ \A j \in {k, l} : k <= j /\ j \in Nat
        BY <1>1, <1>6
      <3>2. Min({k, l}) = k
        BY <3>1, <1>1, LeastIs
      <3> QED BY <2>1, <3>2
    <2>3. Sums(result, e, k)
      BY <1>1, <1>5, <1>6
    <2>4. result[k] = v
      BY <2>3, CodeCounts DEF k
    <2> HIDE DEF ends
    <2> QED BY <1>1, <1>4, <1>6, <2>1, <2>2, <2>4 DEF k, l
  <1>7. CASE l < k
    <2>1. Min(ends) = l + 1
      <3>1. l + 1 \in ends /\ ends \subseteq Nat
        BY <1>1
      <3>2. ASSUME NEW j \in ends PROVE l + 1 <= j
        <4>1. SUFFICES ASSUME j <= l PROVE FALSE
          BY <1>1
        <4>2. j \in 1..l /\ j \in 1..(k - 1) /\ j <= k /\ ~(j > l)
          BY <4>1, <1>1, <1>7
        <4>3. q[j] < Continue /\ q[j] = e[j] /\ e[j] >= Continue
          BY <4>2, <1>1, <1>2
        <4>4. q[j] \in Nat
          BY <4>2, ElementOfSeq DEF l
        <4> HIDE DEF ends
        <4> QED BY <4>3, <4>4, <1>1
      <3>3. l + 1 \in Nat
        BY <1>1
      <3> HIDE DEF ends
      <3> QED BY <3>1, <3>2, <3>3, LeastIs
    <2>2. Min({Min(ends), l}) = l
      <3> HIDE DEF ends
      <3>1. l \in {l + 1, l} /\ \A j \in {l + 1, l} : l <= j /\ j \in Nat
        BY <1>1
      <3>2. Min({l + 1, l}) = l
        BY <3>1, <1>1, LeastIs
      <3> QED BY <2>1, <3>2
    <2>3. Sums(result, e, l)
      BY <1>1, <1>5, <1>7
    <2>4. result[l] \in Nat
      <3>1. l \in 0..k /\ k = Len(encode_leb128_u64[v]) /\ Sums(result, encode_leb128_u64[v], l) /\ l \in 0..l
        BY <1>1, <1>7, <2>3 DEF k
      <3>2. PICK b : Left(b, result[l], Group * l, v)
        BY <3>1, <1>7, CodeSums
      <3> QED BY <3>2 DEF Left
    <2> HIDE DEF ends
    <2> QED BY <1>1, <1>4, <1>7, <2>1, <2>2, <2>4 DEF k, l
  <1> QED BY <1>1, <1>6, <1>7

\* The bytes of a packet on the wire.
PacketFrame(p) == encode_leb128_u64[Len(p)] \o p

\* Those of each of the packets s.
PacketFrames(s) == [i \in Nat |-> PacketFrame(s[i])]

\* The bytes f are those of the packets s after the first r, unless the end
\* of them was lost.
Carried(f, s, r, lost) ==
    \E w \in r..Len(s) :
        (~lost => w = Len(s)) /\ Pieces(f, PacketFrames(s), r, w, ~lost)

\* A packet and its length.
LEMMA PacketBytes ==
    ASSUME NEW p \in Packets
    PROVE  LET e == encode_leb128_u64[Len(p)] IN
           /\ p \in Seq(Nat) /\ Len(p) \in Nat \ {0} /\ Len(p) < 2^Bits64
           /\ IsFrame(e) /\ IsFrame(PacketFrame(p))
           /\ Len(PacketFrame(p)) = Len(e) + Len(p)
           /\ \A i \in 1..Len(e) : PacketFrame(p)[i] = e[i]
           /\ \A j \in 1..Len(p) : PacketFrame(p)[Len(e) + j] = p[j]
  <1> DEFINE e == encode_leb128_u64[Len(p)]
  <1>1. p \in Seq(Nat) /\ Len(p) \in Nat \ {0} /\ Len(p) < 2^Bits64
    <2>1. p \in Seq(0..(2 * Continue - 1)) /\ Len(p) \in 1..(2^Bits64 - 1)
      BY PacketAssumption
    <2>2. 0..(2 * Continue - 1) \subseteq Nat
      BY ByteSize
    <2>3. p \in Seq(Nat)
      BY <2>1, <2>2, SeqMonotonic
    <2> QED BY <2>1, <2>3, ByteSize
  <1>2. IsFrame(e) /\ e \in Seq(Nat) /\ Len(e) \in Nat \ {0}
    BY <1>1, CodeBytes DEF IsFrame
  <1>3. PacketFrame(p) = e \o p
    BY DEF PacketFrame
  <1> HIDE DEF e
  <1>4. /\ e \o p \in Seq(Nat) /\ Len(e \o p) = Len(e) + Len(p)
        /\ \A i \in 1..(Len(e) + Len(p)) :
               (e \o p)[i] = IF i <= Len(e) THEN e[i] ELSE p[i - Len(e)]
    BY <1>1, <1>2, ConcatProperties
  <1> DEFINE k == Len(e)
             l == Len(p)
             f == e \o p
  <1>5. k \in Nat \ {0} /\ l \in Nat \ {0}
    BY <1>1, <1>2
  <1>6. Len(f) = k + l /\ f \in Seq(Nat)
        /\ \A i \in 1..(k + l) : f[i] = IF i <= k THEN e[i] ELSE p[i - k]
    BY <1>4, Zenon
  <1> HIDE DEF k, l, f
  <1>7. ASSUME NEW i \in 1..k PROVE f[i] = e[i]
    <2>1. i \in 1..(k + l) /\ i <= k
      BY <1>5
    <2> QED BY <1>6, <2>1, Zenon
  <1>8. ASSUME NEW j \in 1..l PROVE f[k + j] = p[j]
    <2>1. k + j \in 1..(k + l) /\ ~(k + j <= k) /\ (k + j) - k = j
      BY <1>5
    <2> QED BY <1>6, <2>1, Zenon
  <1>9. IsFrame(f)
    BY <1>5, <1>6 DEF IsFrame
  <1> QED BY <1>1, <1>2, <1>3, <1>6, <1>7, <1>8, <1>9, Zenon DEF e, f, k, l

\* Packets have frames.
LEMMA PacketsFramed ==
    ASSUME NEW s \in Seq(Packets)
    PROVE  \A i \in 1..Len(s) :
               s[i] \in Packets /\ PacketFrames(s)[i] = PacketFrame(s[i])
               /\ IsFrame(PacketFrames(s)[i])
  <1> SUFFICES ASSUME NEW i \in 1..Len(s)
               PROVE  s[i] \in Packets /\ PacketFrames(s)[i] = PacketFrame(s[i])
                      /\ IsFrame(PacketFrames(s)[i])
    OBVIOUS
  <1>1. s[i] \in Packets /\ i \in Nat
    BY ElementOfSeq
  <1>2. PacketFrames(s)[i] = PacketFrame(s[i])
    BY <1>1 DEF PacketFrames
  <1> QED BY <1>1, <1>2, PacketBytes

\* Nothing was sent.
LEMMA CarriedNone == Carried(<<>>, <<>>, 0, FALSE)
  <1>1. Pieces(<<>>, PacketFrames(<<>>), 0, 0, TRUE)
    BY PiecesNone
  <1>2. 0 \in 0..Len(<<>>) /\ Len(<<>>) = 0 /\ (~FALSE) = TRUE
    OBVIOUS
  <1> QED BY <1>1, <1>2 DEF Carried

\* A packet is given to send, and its bytes come last, or are lost.
LEMMA CarriedSent ==
    ASSUME NEW f \in Seq(Nat), NEW s \in Seq(Packets), NEW r \in 0..Len(s), NEW p \in Packets,
           NEW lost \in BOOLEAN, Carried(f, s, r, lost)
    PROVE  Carried(IF lost THEN f ELSE f \o PacketFrame(p), Append(s, p), r, lost)
  <1> DEFINE n == Len(s)
             u == Append(s, p)
  <1>1. /\ n \in Nat /\ u \in Seq(Packets) /\ Len(u) = n + 1 /\ r \in Nat
        /\ u[n + 1] = p /\ \A i \in 1..n : u[i] = s[i]
    BY LenProperties, AppendProperties
  <1> HIDE DEF u
  <1>2. PICK w \in r..n : (~lost => w = n) /\ Pieces(f, PacketFrames(s), r, w, ~lost)
    BY DEF Carried
  <1>3. w \in Nat /\ r <= w /\ (~lost) \in BOOLEAN
    BY <1>1
  <1>4. \A i \in (r + 1)..w : PacketFrames(u)[i] = PacketFrames(s)[i]
    <2> SUFFICES ASSUME NEW i \in (r + 1)..w
                 PROVE  PacketFrames(u)[i] = PacketFrames(s)[i]
      OBVIOUS
    <2>1. i \in 1..n /\ i \in 1..Len(u)
      BY <1>1
    <2> HIDE DEF n
    <2> QED BY <1>1, <2>1 DEF PacketFrames
  <1>5. Pieces(f, PacketFrames(u), r, w, ~lost)
    BY <1>1, <1>2, <1>3, <1>4, PiecesSame
  <1> HIDE DEF n
  <1>6. CASE lost
    <2>1. w \in r..Len(u)
      BY <1>1
    <2> QED BY <1>5, <1>6, <2>1 DEF Carried, u
  <1>7. CASE ~lost
    <2>1. Pieces(f, PacketFrames(u), r, n, TRUE)
      BY <1>2, <1>5, <1>7
    <2>2. \A i \in (r + 1)..(n + 1) : IsFrame(PacketFrames(u)[i])
      <3>1. \A i \in (r + 1)..(n + 1) : i \in 1..Len(u)
        BY <1>1
      <3> QED BY <1>1, <3>1, PacketsFramed
    <2>3. r <= n
      BY <1>1
    <2>4. Pieces(f \o PacketFrames(u)[n + 1], PacketFrames(u), r, n + 1, TRUE)
      BY <1>1, <2>1, <2>2, <2>3, PiecesMore
    <2>5. PacketFrames(u)[n + 1] = PacketFrame(p)
      BY <1>1 DEF PacketFrames
    <2>6. n + 1 \in r..Len(u) /\ (~lost) = TRUE
      BY <1>1, <1>7
    <2>7. Carried(f \o PacketFrame(p), u, r, lost)
      BY <1>1, <2>4, <2>5, <2>6 DEF Carried
    <2> QED BY <1>7, <2>7 DEF u
  <1> QED BY <1>6, <1>7

\* The end of the bytes is lost.
LEMMA CarriedCut ==
    ASSUME NEW f \in Seq(Nat), NEW t \in Seq(Nat), NEW s \in Seq(Packets),
           NEW r \in 0..Len(s), NEW lost \in BOOLEAN, Carried(f, s, r, lost),
           Len(t) <= Len(f), \A i \in 1..Len(t) : t[i] = f[i]
    PROVE  Carried(t, s, r, TRUE)
  <1> DEFINE n == Len(s)
  <1>1. n \in Nat /\ r \in Nat
    BY LenProperties
  <1>2. PICK w \in r..n : (~lost => w = n) /\ Pieces(f, PacketFrames(s), r, w, ~lost)
    BY DEF Carried
  <1>3. w \in Nat /\ r <= w /\ (~lost) \in BOOLEAN
    BY <1>1
  <1>4. \A i \in (r + 1)..w : IsFrame(PacketFrames(s)[i])
    <2>1. \A i \in (r + 1)..w : i \in 1..Len(s)
      BY <1>1
    <2> QED BY <2>1, PacketsFramed
  <1>5. Pieces(t, PacketFrames(s), r, w, FALSE)
    BY <1>1, <1>2, <1>3, <1>4, PiecesCut
  <1>6. (~TRUE) = FALSE
    OBVIOUS
  <1> QED BY <1>5, <1>6 DEF Carried

\* The next packet is where the bytes begin.
LEMMA CarriedFirst ==
    ASSUME NEW f \in Seq(Nat), NEW s \in Seq(Packets), NEW r \in 0..Len(s),
           NEW lost \in BOOLEAN, Carried(f, s, r, lost)
    PROVE  /\ f # <<>> => r < Len(s)
           /\ f # <<>> => \A i \in 1..Len(f) :
                              i <= Len(PacketFrame(s[r + 1])) => f[i] = PacketFrame(s[r + 1])[i]
           /\ r < Len(s) /\ ~lost => Len(f) >= Len(PacketFrame(s[r + 1]))
  <1> DEFINE n == Len(s)
  <1>1. n \in Nat /\ r \in Nat /\ r + 1 \in Nat
    BY LenProperties
  <1>2. PICK w \in r..n : (~lost => w = n) /\ Pieces(f, PacketFrames(s), r, w, ~lost)
    BY DEF Carried
  <1>3. w \in Nat /\ r <= w /\ (~lost) \in BOOLEAN /\ w <= n
    BY <1>1
  <1>4. CASE r = w
    <2>1. f = <<>>
      BY <1>1, <1>2, <1>3, <1>4, PiecesEmpty
    <2>2. ~lost => ~(r < n)
      BY <1>1, <1>2, <1>4
    <2> QED BY <2>1, <2>2
  <1>5. CASE r # w
    <2>1. r < w /\ r < n /\ r + 1 \in 1..Len(s)
      BY <1>1, <1>3, <1>5
    <2>2. PacketFrames(s)[r + 1] = PacketFrame(s[r + 1]) /\ IsFrame(PacketFrames(s)[r + 1])
      BY <2>1, PacketsFramed
    <2> DEFINE F == PacketFrames(s)
    <2>3. /\ \A i \in 1..Len(f) : i <= Len(F[r + 1]) => f[i] = F[r + 1][i]
          /\ ~lost => Len(f) >= Len(F[r + 1])
      <3>1. Pieces(f, F, r, w, ~lost) /\ IsFrame(F[r + 1])
        BY <1>2, <2>2
      <3> DEFINE whole == ~lost
      <3>2. whole \in BOOLEAN /\ Pieces(f, F, r, w, whole) /\ w \in Nat /\ r \in Nat
        BY <1>1, <1>3, <3>1
      <3> HIDE DEF F, whole
      <3>3. /\ \A i \in 1..Len(f) : i <= Len(F[r + 1]) => f[i] = F[r + 1][i]
            /\ whole => Len(f) >= Len(F[r + 1])
        BY <2>1, <3>1, <3>2, PiecesFirst
      <3> QED BY <3>3 DEF whole
    <2> QED BY <2>1, <2>2, <2>3
  <1> QED BY <1>4, <1>5

\* The next packet is read, and leaves the others.
LEMMA CarriedNext ==
    ASSUME NEW f \in Seq(Nat), NEW t \in Seq(Nat), NEW s \in Seq(Packets), NEW r \in 0..Len(s),
           NEW lost \in BOOLEAN, Carried(f, s, r, lost), r < Len(s),
           NEW n, n = Len(PacketFrame(s[r + 1])), n <= Len(f), Leaves(t, f, n)
    PROVE  Carried(t, s, r + 1, lost)
  <1>1. Len(s) \in Nat /\ r \in Nat /\ r + 1 \in 1..Len(s)
    BY LenProperties
  <1>2. PICK w \in r..Len(s) :
            (~lost => w = Len(s)) /\ Pieces(f, PacketFrames(s), r, w, ~lost)
    BY DEF Carried
  <1>3. w \in Nat /\ r <= w /\ (~lost) \in BOOLEAN /\ w <= Len(s)
    BY <1>1
  <1>4. PacketFrames(s)[r + 1] = PacketFrame(s[r + 1]) /\ IsFrame(PacketFrames(s)[r + 1])
    BY <1>1, PacketsFramed
  <1>5. n \in Nat \ {0} /\ n = Len(PacketFrames(s)[r + 1])
    BY <1>4 DEF IsFrame
  <1>6. r < w
    <2>1. SUFFICES ASSUME r = w PROVE FALSE
      BY <1>1, <1>3
    <2>2. f = <<>>
      BY <1>1, <1>2, <1>3, <2>1, PiecesEmpty
    <2>3. Len(f) = 0
      BY <2>2
    <2> QED BY <1>5, <2>3
  <1>7. AllFrames(PacketFrames(s), r + 1, w)
    <2>1. \A i \in (r + 1)..w : i \in 1..Len(s)
      BY <1>1, <1>3
    <2> QED BY <2>1, PacketsFramed DEF AllFrames
  <1> DEFINE F == PacketFrames(s)
  <1>8. Pieces(t, F, r + 1, w, ~lost)
    <2>1. Pieces(f, F, r, w, ~lost) /\ IsFrame(F[r + 1]) /\ n = Len(F[r + 1]) /\ n \in Nat
          /\ AllFrames(F, r + 1, w)
      BY <1>2, <1>4, <1>5, <1>7
    <2> HIDE DEF F
    <2> QED BY <1>1, <1>3, <1>6, <2>1, PiecesNext
  <1>9. w \in (r + 1)..Len(s)
    BY <1>1, <1>3, <1>6
  <1> QED BY <1>2, <1>8, <1>9 DEF Carried

\* What was read of the stream begins with the bytes of the next packet.
LEMMA PacketBegins ==
    ASSUME NEW b \in Seq(Nat), NEW q \in Seq(Nat), NEW s \in Seq(Packets), NEW r \in 0..Len(s),
           NEW lost \in BOOLEAN, Carried(b \o q, s, r, lost), b \o q # <<>>
    PROVE  /\ r < Len(s)
           /\ \A i \in 1..Len(b \o q) :
                  i <= Len(PacketFrame(s[r + 1])) => (b \o q)[i] = PacketFrame(s[r + 1])[i]
           /\ \A i \in 1..Len(b) :
                  i <= Len(PacketFrame(s[r + 1])) => b[i] = PacketFrame(s[r + 1])[i]
  <1> DEFINE f == b \o q
             F == PacketFrame(s[r + 1])
  <1>1. f \in Seq(Nat) /\ Len(f) = Len(b) + Len(q) /\ Len(b) \in Nat /\ Len(q) \in Nat
        /\ \A i \in 1..(Len(b) + Len(q)) : f[i] = IF i <= Len(b) THEN b[i] ELSE q[i - Len(b)]
    BY ConcatProperties
  <1>2. f # <<>> /\ Carried(f, s, r, lost)
    OBVIOUS
  <1> HIDE DEF f
  <1>3. r < Len(s) /\ \A i \in 1..Len(f) : i <= Len(F) => f[i] = F[i]
    BY <1>1, <1>2, CarriedFirst
  <1> HIDE DEF F
  <1>4. ASSUME NEW i \in 1..Len(b), i <= Len(F) PROVE b[i] = F[i]
    <2>1. i \in 1..(Len(b) + Len(q)) /\ i <= Len(b) /\ i \in 1..Len(f)
      BY <1>1
    <2>2. f[i] = b[i]
      BY <1>1, <2>1
    <2> QED BY <1>3, <1>4, <2>1, <2>2
  <1> QED BY <1>3, <1>4 DEF f, F

\* Bytes that are those of p from the k-th on.
LEMMA Middle ==
    ASSUME NEW b \in Seq(Nat), NEW k \in Nat, NEW l \in Nat \ {0}, k + l <= Len(b),
           NEW p \in Seq(Nat), Len(p) = l, \A j \in 1..l : b[k + j] = p[j]
    PROVE  SubSeq(b, k + 1, k + l) = p
  <1> DEFINE a == k + 1
             n == k + l
             t == SubSeq(b, a, n)
  <1>1. a \in Int /\ n \in Int /\ n - a + 1 = l /\ a <= n /\ Len(b) \in Nat
        /\ \A i \in a..n : i \in 1..Len(b)
    BY LenProperties
  <1>2. \A i \in a..n : b[i] \in Nat
    <2> HIDE DEF a, n
    <2> QED BY <1>1, ElementOfSeq
  <1>3. t \in Seq(Nat) /\ Len(t) = l /\ \A i \in 1..l : t[i] = b[a + i - 1]
    <2> HIDE DEF a, n
    <2>1. /\ SubSeq(b, a, n) \in Seq(Nat)
          /\ Len(SubSeq(b, a, n)) = IF a <= n THEN n - a + 1 ELSE 0
          /\ \A i \in 1..(n - a + 1) : SubSeq(b, a, n)[i] = b[a + i - 1]
      BY <1>1, <1>2, SubSeqProperties
    <2> QED BY <1>1, <2>1
  <1> HIDE DEF t
  <1>4. ASSUME NEW i \in 1..l PROVE t[i] = p[i]
    <2>1. a + i - 1 = k + i
      BY <1>1
    <2>2. t[i] = b[k + i]
      BY <1>3, <2>1
    <2> QED BY <2>2
  <1>5. t = p
    BY <1>3, <1>4, SeqEqual
  <1> QED BY <1>5 DEF t

\* The first n of the bytes b are those of the next packet, after k of its
\* length.
Comes(b, q, s, r, lost, k, n) ==
    /\ n \in 0..Len(b)
    /\ SubSeq(b, k + 1, n) = s[r + 1]
    /\ Carried(Rest(b, n) \o q, s, r + 1, lost)

\* Bytes of which enough came hold the next packet, and what follows it.
LEMMA PacketComes ==
    ASSUME NEW b \in Seq(Nat), NEW q \in Seq(Nat), NEW s \in Seq(Packets), NEW r \in 0..Len(s),
           NEW lost \in BOOLEAN, Carried(b \o q, s, r, lost), r < Len(s),
           NEW k, k = Len(encode_leb128_u64[Len(s[r + 1])]),
           k + Len(s[r + 1]) <= Len(b)
    PROVE  Comes(b, q, s, r, lost, k, k + Len(s[r + 1]))
  <1> DEFINE p == s[r + 1]
             l == Len(p)
             n == k + l
             F == PacketFrame(p)
             f == b \o q
  <1>1. r + 1 \in 1..Len(s) /\ r \in Nat /\ Len(s) \in Nat
    BY LenProperties
  <1>2. p \in Packets
    BY <1>1, ElementOfSeq
  <1>3. /\ p \in Seq(Nat) /\ l \in Nat \ {0} /\ k \in Nat \ {0} /\ Len(F) = n
        /\ \A j \in 1..l : F[k + j] = p[j]
    <2> HIDE DEF p
    <2>1. /\ p \in Seq(Nat) /\ l \in Nat \ {0}
          /\ \A j \in 1..l : F[k + j] = p[j]
      BY <1>2, PacketBytes DEF p
    <2>2. IsFrame(encode_leb128_u64[l])
      BY <1>2, PacketBytes
    <2>3. Len(F) = n
      BY <1>2, PacketBytes DEF p
    <2>4. k \in Nat \ {0}
      BY <2>2 DEF IsFrame, p
    <2> QED BY <2>1, <2>3, <2>4
  <1>4. Len(b) \in Nat /\ f \in Seq(Nat) /\ Len(f) = Len(b) + Len(q) /\ Len(q) \in Nat
    BY ConcatProperties, LenProperties
  <1>5. n \in Nat \ {0} /\ n <= Len(b) /\ n \in 0..Len(b)
    <2>1. n <= Len(b)
      OBVIOUS
    <2>2. k \in Nat \ {0} /\ l \in Nat \ {0}
      BY <1>3
    <2> HIDE DEF l
    <2> QED BY <1>4, <2>1, <2>2
  <1>6. Carried(f, s, r, lost) /\ F = PacketFrame(s[r + 1])
    OBVIOUS
  <1> HIDE DEF n, l
  <1>7. Rest(b, n) \o q \in Seq(Nat) /\ n <= Len(f) /\ Leaves(Rest(b, n) \o q, f, n)
    BY <1>5, TakenFront DEF Leaves
  <1>8. Carried(Rest(b, n) \o q, s, r + 1, lost)
    <2> DEFINE t == Rest(b, n) \o q
    <2>1. t \in Seq(Nat) /\ Leaves(t, f, n) /\ n <= Len(f) /\ n = Len(PacketFrame(s[r + 1]))
      BY <1>3, <1>7
    <2> HIDE DEF t, f, F
    <2>2. Carried(t, s, r + 1, lost)
      BY <1>4, <1>6, <2>1, CarriedNext
    <2> QED BY <2>2 DEF t
  <1>9. \A i \in 1..Len(b) : i <= n => b[i] = F[i]
    <2>1. b \o q # <<>>
      <3>1. Len(f) # 0
        BY <1>4, <1>5
      <3> QED BY <3>1
    <2>2. \A i \in 1..Len(b) :
              i <= Len(PacketFrame(s[r + 1])) => b[i] = PacketFrame(s[r + 1])[i]
      <3> HIDE DEF F, p
      <3> QED BY <2>1, PacketBegins
    <2> QED BY <1>3, <2>2
  <1>10. SubSeq(b, k + 1, n) = p
    <2>1. k \in Nat /\ k + l <= Len(b) /\ Len(p) = l
      BY <1>3, <1>5 DEF n, l
    <2> HIDE DEF F, p
    <2>2. \A i \in 1..Len(b) : i <= k + l => b[i] = F[i]
      BY <1>9 DEF n
    <2>3. p \in Seq(Nat) /\ l \in Nat \ {0} /\ \A j \in 1..l : F[k + j] = p[j]
      BY <1>3
    <2>4. SubSeq(b, k + 1, k + l) = p
      <3> HIDE DEF l
      <3>1. \A j \in 1..l : b[k + j] = p[j]
        <4> SUFFICES ASSUME NEW j \in 1..l PROVE b[k + j] = p[j]
          OBVIOUS
        <4>1. k + j \in 1..Len(b) /\ k + j <= k + l
          <5>1. \A x, y, z \in Nat : \A w \in 1..y :
                    x + y <= z => x + w \in 1..z /\ x + w <= x + y
            OBVIOUS
          <5>2. Len(b) \in Nat /\ l \in Nat
            BY <1>4, <2>3
          <5> QED BY <2>1, <5>1, <5>2, Zenon
        <4> QED BY <2>2, <2>3, <4>1
      <3> QED BY <2>1, <2>3, <3>1, Middle
    <2> QED BY <2>4 DEF n
  <1>11. Comes(b, q, s, r, lost, k, n)
    BY <1>5, <1>8, <1>10 DEF Comes
  <1> QED BY <1>11 DEF n, l

-----------------------------------------------------------------------------
(* The invariant of the TCP transports. *)

\* What send has still to write, unless the connection broke.
Pending ==
    IF broken \/ writing = <<>> THEN <<>>
    ELSE IF Len(writing) = 1 THEN writing[1] ELSE writing[1] \o writing[2]

\* The bytes of sent packets, from those c on that recv has taken from the
\* socket and not returned.
Bytes(c) == c \o (link \o Pending)

\* What write_all has left.
Chunks == Seq(Nat) \ {<<>>}

\* The types of the variables.
TcpTyped ==
    /\ sent \in Seq(Packets) /\ received \in Seq(Packets) /\ link \in Seq(Nat)
    /\ failed \in BOOLEAN /\ sender \in BOOLEAN /\ broken \in BOOLEAN
    /\ \/ writing = <<>>
       \/ \E a \in Chunks : writing = <<a>>
       \/ \E a, b \in Chunks : writing = <<a, b>>
    /\ reading \in [phase : {"prefix", "data"}, length : Nat, shift : Nat, data : Seq(Nat)]
    /\ buffer \in Seq(Nat) /\ waiting \in BOOLEAN /\ closed \in BOOLEAN

\* recv has read the bytes c of the next packet.
Halfway(c) ==
    \/ reading = AtPrefix /\ c = <<>>
    \/ /\ Len(received) < Len(sent)
       /\ LET v == Len(sent[Len(received) + 1]) IN
          \/ /\ reading.phase = "prefix" /\ reading.data = <<>>
             /\ Left(c, reading.length, reading.shift, v)
          \/ /\ reading.phase = "data" /\ reading.length = v /\ Len(reading.data) < v
             /\ c = encode_leb128_u64[v] \o reading.data

\* recv, or TypeScript's buffer, holds c.
Taken(c) == IF transport = "tcp" THEN Halfway(c) ELSE c = buffer

\* The first packets arrived.
Arrived ==
    /\ Len(received) <= Len(sent)
    /\ \A i \in 1..Len(received) : received[i] = sent[i]

\* Who has left writes no more, and recv does not wait behind the end.
TcpEnds ==
    /\ ~sender => writing = <<>>
    /\ transport = "ts tcp" => /\ waiting => ~failed /\ ~closed
                               /\ closed => broken \/ ~sender

\* The packets that were not returned are under way, byte for byte.
TcpIInv ==
    /\ transport \in Tcp
    /\ TcpTyped /\ Arrived /\ TcpEnds
    /\ \E c \in Seq(Nat) : Taken(c) /\ Carried(Bytes(c), sent, Len(received), broken)

\* The steps of the TCP transports.
TcpAll ==
    \/ TcpDrop /\ UNCHANGED tsVars
    \/ (\E p \in Packets : TcpSend(p)) /\ UNCHANGED tsVars
    \/ TcpWrite /\ UNCHANGED tsVars
    \/ Cut /\ UNCHANGED <<tcpVars, tsVars>>
    \/ transport = "tcp" /\ TcpReadPrefix /\ UNCHANGED tsVars
    \/ transport = "tcp" /\ TcpReadData /\ UNCHANGED tsVars
    \/ transport = "tcp" /\ TcpReadFails /\ UNCHANGED tsVars
    \/ transport = "ts tcp" /\ TsTcpData /\ UNCHANGED tcpVars
    \/ transport = "ts tcp" /\ TsTcpClosed /\ UNCHANGED tcpVars
    \/ transport = "ts tcp" /\ TsTcpRecv /\ UNCHANGED tcpVars
    \/ UNCHANGED <<linkVars, tcpVars, tsVars>>

\* There are no others.
LEMMA TcpSteps ==
    ASSUME transport \in Tcp, [Next]_vars
    PROVE  TcpAll /\ transport' = transport
  <1>1. transport \notin WebSocket /\ transport \notin {"websocket", "go websocket"}
    BY DEF WebSocket, Tcp
  <1>2. CASE PacketNext
    <2>1. transport' = transport /\ (PacketEnvironment \/ Writes \/ Reads \/ Recvs)
      BY <1>2 DEF PacketNext
    <2>2. CASE PacketEnvironment
      BY <1>1, <2>1, <2>2 DEF PacketEnvironment, TcpAll, TcpWriter
    <2>3. CASE Writes
      BY <1>1, <2>1, <2>3 DEF Writes, TcpAll
    <2>4. CASE Reads
      BY <1>1, <2>1, <2>4 DEF Reads, TcpAll, WebSocket
    <2>5. CASE Recvs
      BY <1>1, <2>1, <2>5 DEF Recvs, TcpAll, WebSocket, TcpReader
    <2> QED BY <2>1, <2>2, <2>3, <2>4, <2>5
  <1>3. CASE UNCHANGED packetVars
    BY <1>3 DEF packetVars, TcpAll
  <1> QED BY <1>2, <1>3 DEF Next, vars

\* What is still to be written, and bytes on their way.
LEMMA BytesTyped ==
    ASSUME TcpTyped
    PROVE  /\ Pending \in Seq(Nat) /\ link \o Pending \in Seq(Nat)
           /\ \A c \in Seq(Nat) : Bytes(c) \in Seq(Nat)
  <1>1. <<>> \in Seq(Nat) /\ \A s, t \in Seq(Nat) : s \o t \in Seq(Nat)
    BY EmptySeq, ConcatProperties
  <1>2. Pending \in Seq(Nat)
    <2>1. CASE writing = <<>>
      BY <1>1, <2>1 DEF Pending
    <2>2. ASSUME NEW a \in Chunks, writing = <<a>> PROVE Pending \in Seq(Nat)
      <3>1. a \in Seq(Nat) /\ Len(writing) = 1 /\ writing[1] = a
        BY <2>2 DEF Chunks
      <3> QED BY <1>1, <3>1 DEF Pending
    <2>3. ASSUME NEW a \in Chunks, NEW b \in Chunks, writing = <<a, b>>
          PROVE  Pending \in Seq(Nat)
      <3>1. a \in Seq(Nat) /\ b \in Seq(Nat) /\ Len(writing) = 2
            /\ writing[1] = a /\ writing[2] = b
        BY <2>3 DEF Chunks
      <3>2. a \o b \in Seq(Nat)
        BY <1>1, <3>1, Zenon
      <3> QED BY <1>1, <3>1, <3>2 DEF Pending
    <2> QED BY <2>1, <2>2, <2>3 DEF TcpTyped
  <1>3. link \o Pending \in Seq(Nat)
    BY <1>1, <1>2 DEF TcpTyped
  <1> QED BY <1>1, <1>2, <1>3, Zenon DEF Bytes

\* A connection begins with nothing on it.
LEMMA TcpBegins ==
    ASSUME Init, transport \in Tcp
    PROVE  TcpIInv
  <1>1. /\ sent = <<>> /\ received = <<>> /\ link = <<>> /\ writing = <<>>
        /\ reading = AtPrefix /\ buffer = <<>> /\ failed = FALSE /\ sender = TRUE
        /\ broken = FALSE /\ waiting = FALSE /\ closed = FALSE
    BY DEF Init, PacketInit, LinkInit, TcpInit, TsInit
  <1>2. <<>> \in Seq(Packets) /\ <<>> \in Seq(Nat) /\ Len(<<>>) = 0
        /\ <<>> \o <<>> = <<>>
    BY EmptySeq
  <1>3. TcpTyped
    <2>1. reading \in [phase : {"prefix", "data"}, length : Nat, shift : Nat, data : Seq(Nat)]
      BY <1>1, <1>2 DEF AtPrefix
    <2> QED BY <1>1, <1>2, <2>1 DEF TcpTyped
  <1>4. Arrived /\ TcpEnds
    <2>1. Len(received) = 0 /\ Len(sent) = 0 /\ \A i \in 1..0 : FALSE
      BY <1>1, <1>2
    <2>2. Arrived
      BY <2>1 DEF Arrived
    <2>3. TcpEnds
      BY <1>1 DEF TcpEnds
    <2> QED BY <2>2, <2>3
  <1>5. Taken(<<>>)
    BY <1>1 DEF Taken, Halfway
  <1>6. Bytes(<<>>) = <<>>
    BY <1>1, <1>2 DEF Bytes, Pending
  <1>7. Carried(Bytes(<<>>), sent, Len(received), broken)
    BY <1>1, <1>2, <1>6, CarriedNone
  <1> QED BY <1>2, <1>3, <1>4, <1>5, <1>7 DEF TcpIInv

\* A piece and the rest.
LEMMA SplitAt ==
    ASSUME NEW a \in Seq(Nat), NEW n \in 0..Len(a)
    PROVE  /\ SubSeq(a, 1, n) \in Seq(Nat) /\ Len(SubSeq(a, 1, n)) = n
           /\ Rest(a, n) \in Seq(Nat) /\ Len(Rest(a, n)) = Len(a) - n
           /\ SubSeq(a, 1, n) \o Rest(a, n) = a
  <1> DEFINE s == SubSeq(a, 1, n)
             t == Rest(a, n)
  <1>1. s \in Seq(Nat) /\ Len(s) = n /\ \A i \in 1..n : s[i] = a[i]
    BY Leading
  <1>2. t \in Seq(Nat) /\ Len(t) = Len(a) - n /\ \A i \in 1..(Len(a) - n) : t[i] = a[n + i]
    BY Trailing DEF Rest
  <1>3. Len(a) \in Nat /\ n \in Nat /\ n <= Len(a)
    BY LenProperties
  <1> HIDE DEF s, t
  <1>4. /\ s \o t \in Seq(Nat) /\ Len(s \o t) = Len(s) + Len(t)
        /\ \A i \in 1..(Len(s) + Len(t)) : (s \o t)[i] = IF i <= Len(s) THEN s[i] ELSE t[i - Len(s)]
    BY <1>1, <1>2, ConcatProperties
  <1>5. Len(s \o t) = Len(a)
    BY <1>1, <1>2, <1>3, <1>4
  <1>6. ASSUME NEW i \in 1..Len(a) PROVE (s \o t)[i] = a[i]
    <2>1. (s \o t)[i] = IF i <= n THEN s[i] ELSE t[i - n]
      BY <1>1, <1>4, <1>5
    <2>2. i <= n => i \in 1..n
      OBVIOUS
    <2>3. ~(i <= n) => i - n \in 1..(Len(a) - n) /\ n + (i - n) = i
      BY <1>3
    <2> QED BY <1>1, <1>2, <2>1, <2>2, <2>3
  <1>7. s \o t = a
    BY <1>4, <1>5, <1>6, SeqEqual
  <1> QED BY <1>1, <1>2, <1>7 DEF s, t

\* Three sequences in one, joined from either side.
IsJoined(s, t, u) == (s \o t) \o u = s \o (t \o u)

\* Sequences may be joined in either order.
LEMMA AnyOrder ==
    ASSUME NEW s \in Seq(Nat), NEW t \in Seq(Nat), NEW u \in Seq(Nat)
    PROVE  IsJoined(s, t, u)
  BY Joined, Zenon DEF IsJoined

\* x at the end of l or in front of y.
IsMoved(l, x, y, z) == (l \o x) \o (y \o z) = l \o ((x \o y) \o z)

\* A piece goes from the front of the one to the end of the other.
LEMMA Moved ==
    ASSUME NEW l \in Seq(Nat), NEW x \in Seq(Nat), NEW y \in Seq(Nat), NEW z \in Seq(Nat)
    PROVE  IsMoved(l, x, y, z)
  <1>1. y \o z \in Seq(Nat)
    BY ConcatProperties
  <1>2. (l \o x) \o (y \o z) = l \o (x \o (y \o z))
    <2>1. \A w \in Seq(Nat) : (l \o x) \o w = l \o (x \o w)
      BY Joined, Zenon
    <2> QED BY <1>1, <2>1, Zenon
  <1>3. (x \o y) \o z = x \o (y \o z)
    BY Joined, Zenon
  <1> QED BY <1>2, <1>3, Zenon DEF IsMoved

\* Two sequences of one element each make a pair.
LEMMA PairOf ==
    ASSUME NEW S, NEW x \in S, NEW y \in S
    PROVE  <<x>> \o <<y>> = <<x, y>>
  <1> DEFINE a == <<x>>
             b == <<y>>
             c == <<x, y>>
  <1>1. a \in Seq(S) /\ b \in Seq(S) /\ Len(a) = 1 /\ Len(b) = 1 /\ a[1] = x /\ b[1] = y
    OBVIOUS
  <1>2. c \in Seq(S) /\ Len(c) = 2 /\ c[1] = x /\ c[2] = y
    OBVIOUS
  <1> HIDE DEF a, b, c
  <1>3. a \o b \in Seq(S) /\ Len(a \o b) = 2 /\ (a \o b)[1] = x /\ (a \o b)[2] = y
    <2>1. /\ a \o b \in Seq(S) /\ Len(a \o b) = Len(a) + Len(b)
          /\ \A i \in 1..(Len(a) + Len(b)) :
                 (a \o b)[i] = IF i <= Len(a) THEN a[i] ELSE b[i - Len(a)]
      BY <1>1, ConcatProperties
    <2> QED BY <1>1, <2>1
  <1>4. \A i \in 1..2 : (a \o b)[i] = c[i]
    BY <1>2, <1>3
  <1>5. a \o b = c
    BY <1>2, <1>3, <1>4, SeqEqual
  <1> QED BY <1>5 DEF a, b, c

\* What TcpWrite writes was to be written.
LEMMA Written ==
    ASSUME TcpTyped, TcpWrite
    PROVE  /\ link' \in Seq(Nat)
           /\ \/ writing' = <<>>
              \/ \E a \in Chunks : writing' = <<a>>
              \/ \E a, b \in Chunks : writing' = <<a, b>>
           /\ link' \o Pending' = link \o Pending
  <1>1. broken' = broken /\ writing # <<>> /\ link \in Seq(Nat) /\ broken \in BOOLEAN
    BY DEF TcpWrite, TcpTyped
  <1>2. CASE broken
    <2>1. writing' = <<>> /\ link' = link
      BY <1>2 DEF TcpWrite
    <2>2. Pending = <<>> /\ Pending' = <<>>
      BY <1>1, <1>2, <2>1 DEF Pending
    <2> QED BY <1>1, <2>1, <2>2
  <1>3. ASSUME ~broken, NEW a \in Chunks, NEW w, NEW z \in Seq(Nat),
               Head(writing) = a, Tail(writing) = w,
               \/ w = <<>> /\ z = <<>>
               \/ z \in Chunks /\ w = <<z>>,
               Pending = a \o z
        PROVE  /\ link' \in Seq(Nat)
               /\ \/ writing' = <<>>
                  \/ \E x \in Chunks : writing' = <<x>>
                  \/ \E x, y \in Chunks : writing' = <<x, y>>
               /\ link' \o Pending' = link \o Pending
    <2>1. PICK n \in 1..Len(a) :
              /\ link' = link \o SubSeq(a, 1, n)
              /\ writing' = IF n = Len(a) THEN w ELSE <<Rest(a, n)>> \o w
      BY <1>3 DEF TcpWrite
    <2>2. a \in Seq(Nat) /\ Len(a) \in Nat /\ n \in 0..Len(a) /\ n \in Nat
      BY <1>3, LenProperties DEF Chunks
    <2> DEFINE s == SubSeq(a, 1, n)
               t == Rest(a, n)
    <2>3. /\ s \in Seq(Nat) /\ Len(s) = n /\ t \in Seq(Nat) /\ Len(t) = Len(a) - n
          /\ s \o t = a
      BY <2>2, SplitAt
    <2> HIDE DEF s, t
    <2>4. link' = link \o s /\ writing' = IF n = Len(a) THEN w ELSE <<t>> \o w
      BY <2>1 DEF s, t
    <2>5. link \o s \in Seq(Nat)
      BY <1>1, <2>3, ConcatProperties, Zenon
    <2>6. (link \o s) \o (t \o z) = link \o ((s \o t) \o z)
      <3>1. IsMoved(link, s, t, z)
        BY <1>1, <1>3, <2>3, Moved, Zenon
      <3> QED BY <3>1, Zenon DEF IsMoved
    <2>7. CASE n = Len(a)
      <3>1. t = <<>> /\ <<>> \o z = z
        BY <1>3, <2>2, <2>3, <2>7, EmptySeq, ConcatEmptySeq
      <3>2. writing' = w
        BY <2>4, <2>7
      <3>3. Pending' = z
        <4>1. CASE w = <<>> /\ z = <<>>
          BY <1>1, <3>2, <4>1 DEF Pending
        <4>2. CASE z \in Chunks /\ w = <<z>>
          <5>1. writing' # <<>> /\ Len(writing') = 1 /\ writing'[1] = z
            BY <3>2, <4>2
          <5> QED BY <1>1, <1>3, <5>1 DEF Pending
        <4> QED BY <1>3, <4>1, <4>2
      <3>4. link' \o Pending' = link \o Pending
        BY <1>3, <2>3, <2>4, <2>6, <3>1, <3>3, Zenon
      <3> QED BY <1>3, <2>4, <2>5, <3>2, <3>4, Zenon
    <2>8. CASE n # Len(a)
      <3>1. t \in Chunks
        BY <2>2, <2>3, <2>8, EmptySeq DEF Chunks
      <3>2. writing' = <<t>> \o w
        BY <2>4, <2>8
      <3>3. CASE w = <<>> /\ z = <<>>
        <4>1. <<t>> \o w = <<t>>
          BY <3>3
        <4>2. writing' = <<t>>
          BY <3>2, <4>1, Zenon
        <4>3. writing' # <<>> /\ Len(writing') = 1 /\ writing'[1] = t
          BY <4>2
        <4>4. Pending' = t
          BY <1>1, <1>3, <4>3 DEF Pending
        <4>5. t \o z = t
          BY <2>3, <3>3, ConcatEmptySeq
        <4>6. link' \o Pending' = link \o Pending
          BY <1>3, <2>3, <2>4, <2>6, <4>4, <4>5, Zenon
        <4> QED BY <2>4, <2>5, <3>1, <4>2, <4>6, Zenon
      <3>4. CASE z \in Chunks /\ w = <<z>>
        <4>1. <<t>> \o w = <<t, z>>
          <5>1. \A x, y \in Chunks : <<x>> \o <<y>> = <<x, y>>
            BY PairOf, Zenon
          <5> QED BY <3>1, <3>4, <5>1, Zenon
        <4>2. writing' = <<t, z>>
          BY <3>2, <4>1, Zenon
        <4>3. writing' # <<>> /\ Len(writing') = 2 /\ writing'[1] = t /\ writing'[2] = z
          BY <4>2
        <4>4. Pending' = t \o z
          BY <1>1, <1>3, <4>3 DEF Pending
        <4>5. link' \o Pending' = link \o Pending
          BY <1>3, <2>3, <2>4, <2>6, <4>4, Zenon
        <4> QED BY <2>4, <2>5, <3>1, <3>4, <4>2, <4>5, Zenon
      <3> QED BY <1>3, <3>3, <3>4
    <2> QED BY <2>7, <2>8
  <1>4. ASSUME ~broken, NEW a \in Chunks, writing = <<a>>
        PROVE  /\ Head(writing) = a /\ Tail(writing) = <<>> /\ Pending = a \o <<>>
               /\ <<>> \in Seq(Nat)
    <2>1. a \in Seq(Nat) /\ a \o <<>> = a
      BY ConcatEmptySeq DEF Chunks
    <2>2. Len(writing) = 1 /\ writing[1] = a /\ Head(writing) = a /\ Tail(writing) = <<>>
      BY <1>4
    <2> QED BY <1>1, <1>4, <2>1, <2>2, EmptySeq DEF Pending
  <1>5. ASSUME ~broken, NEW a \in Chunks, NEW b \in Chunks, writing = <<a, b>>
        PROVE  Head(writing) = a /\ Tail(writing) = <<b>> /\ Pending = a \o b
    <2>1. /\ Len(writing) = 2 /\ writing[1] = a /\ writing[2] = b
          /\ Head(writing) = a /\ Tail(writing) = <<b>>
      BY <1>5
    <2> QED BY <1>1, <1>5, <2>1 DEF Pending
  <1>6. CASE ~broken /\ \E a \in Chunks : writing = <<a>>
    BY <1>3, <1>4, <1>6, Zenon
  <1>7. CASE ~broken /\ \E a, b \in Chunks : writing = <<a, b>>
    <2>1. PICK a \in Chunks, b \in Chunks : writing = <<a, b>>
      BY <1>7
    <2>2. b \in Seq(Nat)
      BY DEF Chunks
    <2> QED BY <1>3, <1>5, <1>7, <2>1, <2>2, Zenon
  <1> QED BY <1>1, <1>2, <1>6, <1>7 DEF TcpTyped

\* The length and the bytes of a packet are to be written.
LEMMA SentTyped ==
    ASSUME TcpTyped, NEW p \in Packets, TcpSend(p)
    PROVE  /\ \E a, b \in Chunks : writing' = <<a, b>>
           /\ sent' \in Seq(Packets)
           /\ Pending = <<>>
           /\ Pending' = IF broken THEN <<>> ELSE PacketFrame(p)
  <1> DEFINE e == encode_leb128_u64[Len(p)]
  <1>1. /\ p \in Seq(Nat) /\ Len(p) \in Nat \ {0}
        /\ e \in Seq(Nat) /\ Len(e) \in Nat \ {0}
    BY PacketBytes DEF IsFrame
  <1>2. p \in Chunks /\ e \in Chunks
    BY <1>1 DEF Chunks
  <1>3. writing = <<>> /\ writing' = <<e, p>> /\ broken' = broken
    BY DEF TcpSend
  <1>4. PacketFrame(p) = e \o p
    BY DEF PacketFrame
  <1> HIDE DEF e
  <1>5. writing' # <<>> /\ Len(writing') = 2 /\ writing'[1] = e /\ writing'[2] = p
    BY <1>3
  <1>6. Pending' = IF broken THEN <<>> ELSE PacketFrame(p)
    BY <1>3, <1>4, <1>5 DEF Pending
  <1>7. Pending = <<>>
    BY <1>3 DEF Pending
  <1>8. sent' \in Seq(Packets)
    BY AppendProperties DEF TcpSend, TcpTyped
  <1> QED BY <1>2, <1>3, <1>6, <1>7, <1>8

\* Bytes whose end is lost are the first ones.
LEMMA EndLost ==
    ASSUME NEW c \in Seq(Nat), NEW l \in Seq(Nat), NEW p \in Seq(Nat), NEW n \in 0..Len(l)
    PROVE  LET t == c \o (SubSeq(l, 1, n) \o <<>>)
               f == c \o (l \o p)
           IN /\ t \in Seq(Nat) /\ f \in Seq(Nat)
              /\ Len(t) <= Len(f) /\ \A i \in 1..Len(t) : t[i] = f[i]
  <1>1. PICK x \in Seq(Nat), y \in Seq(Nat) : x = SubSeq(l, 1, n) /\ x \o y = l
    <2>1. /\ SubSeq(l, 1, n) \in Seq(Nat) /\ Rest(l, n) \in Seq(Nat)
          /\ SubSeq(l, 1, n) \o Rest(l, n) = l
      BY SplitAt
    <2> QED BY <2>1, Zenon
  <1>2. x \o <<>> = x
    BY <1>1, ConcatEmptySeq
  <1>3. /\ y \o p \in Seq(Nat) /\ c \o x \in Seq(Nat) /\ c \o (l \o p) \in Seq(Nat)
        /\ c \o (l \o p) = (c \o x) \o (y \o p)
    <2>1. \A a, b \in Seq(Nat) : a \o b \in Seq(Nat)
      BY ConcatProperties
    <2>2. y \o p \in Seq(Nat) /\ c \o x \in Seq(Nat) /\ c \o (l \o p) \in Seq(Nat)
      BY <2>1
    <2>3. (c \o x) \o (y \o p) = c \o ((x \o y) \o p)
      <3>1. IsMoved(c, x, y, p)
        BY Moved
      <3> QED BY <3>1, Zenon DEF IsMoved
    <2> QED BY <1>1, <2>2, <2>3, Zenon
  <1> DEFINE t == c \o x
             u == y \o p
             f == c \o (l \o p)
  <1>4. t \in Seq(Nat) /\ u \in Seq(Nat) /\ f \in Seq(Nat) /\ f = t \o u
    BY <1>3
  <1> HIDE DEF t, u, f
  <1>5. /\ Len(t \o u) = Len(t) + Len(u) /\ Len(t) \in Nat /\ Len(u) \in Nat
        /\ \A i \in 1..(Len(t) + Len(u)) : (t \o u)[i] = IF i <= Len(t) THEN t[i] ELSE u[i - Len(t)]
    BY <1>4, ConcatProperties, LenProperties
  <1>6. ASSUME NEW i \in 1..Len(t) PROVE t[i] = f[i]
    <2>1. i \in 1..(Len(t) + Len(u)) /\ i <= Len(t)
      BY <1>5
    <2> QED BY <1>4, <1>5, <2>1, Zenon
  <1>7. Len(t) <= Len(f)
    BY <1>4, <1>5
  <1> QED BY <1>1, <1>2, <1>4, <1>6, <1>7, Zenon DEF t, f

\* The connection breaks, and the end of what is under way is lost.
LEMMA Breaking ==
    ASSUME TcpTyped, Arrived, UNCHANGED <<sent, received>>, broken' = TRUE,
           NEW n \in 0..Len(link), link' = SubSeq(link, 1, n),
           NEW c \in Seq(Nat), Carried(Bytes(c), sent, Len(received), broken)
    PROVE  Carried(Bytes(c)', sent', Len(received'), broken')
  <1> DEFINE t == c \o (SubSeq(link, 1, n) \o <<>>)
             f == c \o (link \o Pending)
             r == Len(received)
  <1>1. link \in Seq(Nat) /\ Pending \in Seq(Nat) /\ sent \in Seq(Packets) /\ broken \in BOOLEAN
    BY BytesTyped DEF TcpTyped
  <1>2. /\ t \in Seq(Nat) /\ f \in Seq(Nat)
        /\ Len(t) <= Len(f) /\ \A i \in 1..Len(t) : t[i] = f[i]
    BY <1>1, EndLost
  <1>3. r \in 0..Len(sent)
    BY LenProperties DEF TcpTyped, Arrived
  <1>4. Pending' = <<>>
    BY DEF Pending
  <1>5. Bytes(c)' = t
    BY <1>4 DEF Bytes
  <1>6. Carried(f, sent, r, broken)
    BY DEF Bytes
  <1> HIDE DEF t, f, r
  <1>7. Carried(t, sent, r, TRUE)
    BY <1>1, <1>2, <1>3, <1>6, CarriedCut
  <1> QED BY <1>5, <1>7 DEF r

\* Bytes that are sent come last.
LEMMA Sending ==
    ASSUME TcpTyped, Arrived, NEW p \in Packets, TcpSend(p),
           NEW c \in Seq(Nat), Carried(Bytes(c), sent, Len(received), broken)
    PROVE  Carried(Bytes(c)', sent', Len(received'), broken')
  <1> DEFINE f == Bytes(c)
             F == PacketFrame(p)
             r == Len(received)
  <1>1. /\ link \in Seq(Nat) /\ sent \in Seq(Packets) /\ broken \in BOOLEAN /\ f \in Seq(Nat)
        /\ F \in Seq(Nat)
    BY BytesTyped, PacketBytes DEF TcpTyped, IsFrame
  <1>2. r \in 0..Len(sent)
    BY LenProperties DEF TcpTyped, Arrived
  <1>3. Pending = <<>> /\ Pending' = IF broken THEN <<>> ELSE F
    BY SentTyped
  <1>4. link' = link /\ received' = received /\ broken' = broken /\ sent' = Append(sent, p)
    BY DEF TcpSend
  <1>5. Bytes(c)' = c \o (link \o Pending')
    BY <1>4 DEF Bytes
  <1>6. link \o <<>> = link
    BY <1>1, ConcatEmptySeq
  <1> HIDE DEF F
  <1>7. Bytes(c)' = IF broken THEN f ELSE f \o F
    <2>1. f = c \o link
      BY <1>3, <1>6 DEF Bytes
    <2>2. (c \o link) \o F = c \o (link \o F)
      <3>1. \A a, b \in Seq(Nat) : (c \o a) \o b = c \o (a \o b)
        BY Joined, Zenon
      <3> QED BY <1>1, <3>1, Zenon
    <2>3. CASE broken
      BY <1>3, <1>5, <1>6, <2>1, <2>3
    <2>4. CASE ~broken
      <3>1. Pending' = F
        BY <1>3, <2>4
      <3>2. Bytes(c)' = c \o (link \o F)
        BY <1>5, <3>1, Zenon
      <3> QED BY <2>1, <2>2, <2>4, <3>2, Zenon
    <2> QED BY <2>3, <2>4
  <1>8. Carried(f, sent, r, broken)
    OBVIOUS
  <1> HIDE DEF f, r
  <1>9. Carried(IF broken THEN f ELSE f \o F, Append(sent, p), r, broken)
    BY <1>1, <1>2, <1>8, CarriedSent DEF F
  <1>10. Carried(Bytes(c)', Append(sent, p), r, broken)
    BY <1>7, <1>9, Zenon
  <1>11. Len(received') = r
    BY <1>4 DEF r
  <1> QED BY <1>4, <1>10, <1>11, Zenon

\* The writer's steps, and the network's, keep what the bytes are.
LEMMA WriterCarries ==
    ASSUME TcpTyped, Arrived,
           \/ TcpDrop \/ (\E p \in Packets : TcpSend(p)) \/ TcpWrite
           \/ Cut /\ UNCHANGED tcpVars,
           NEW c \in Seq(Nat), Carried(Bytes(c), sent, Len(received), broken)
    PROVE  Carried(Bytes(c)', sent', Len(received'), broken')
  <1>0. link \in Seq(Nat) /\ broken \in BOOLEAN
    BY DEF TcpTyped
  <1>1. ASSUME Bytes(c)' = Bytes(c), UNCHANGED <<sent, received, broken>>
        PROVE  Carried(Bytes(c)', sent', Len(received'), broken')
    <2>1. Len(received') = Len(received)
      BY <1>1
    <2> QED BY <1>1, <2>1, Zenon
  <1>2. CASE TcpDrop
    <2>1. UNCHANGED <<sent, received, link>> /\ broken' = (broken \/ writing # <<>>)
          /\ writing' = <<>>
      BY <1>2 DEF TcpDrop
    <2>2. CASE writing # <<>>
      <3>1. Len(link) \in 0..Len(link) /\ SubSeq(link, 1, Len(link)) = link
        <4>1. Len(link) \in 0..Len(link)
          BY <1>0, LenProperties
        <4> QED BY <1>0, SubSeqFull
      <3>2. broken' = TRUE /\ link' = SubSeq(link, 1, Len(link))
        BY <1>0, <2>1, <2>2, <3>1
      <3> QED BY <2>1, <3>1, <3>2, Breaking
    <2>3. CASE writing = <<>>
      <3>1. broken' = broken /\ Pending' = Pending
        BY <1>0, <2>1, <2>3 DEF Pending
      <3>2. Bytes(c)' = Bytes(c)
        BY <2>1, <3>1 DEF Bytes
      <3> QED BY <1>1, <2>1, <3>1, <3>2
    <2> QED BY <2>2, <2>3
  <1>3. CASE \E p \in Packets : TcpSend(p)
    BY <1>3, Sending
  <1>4. CASE TcpWrite
    <2>1. UNCHANGED <<sent, received, broken>> /\ link' \o Pending' = link \o Pending
      BY <1>4, Written DEF TcpWrite
    <2>2. Bytes(c)' = Bytes(c)
      BY <2>1 DEF Bytes
    <2> QED BY <1>1, <2>1, <2>2
  <1>5. CASE Cut
    <2>1. PICK n \in 0..Len(link) : link' = SubSeq(link, 1, n)
      BY <1>5 DEF Cut
    <2>2. UNCHANGED <<sent, received>> /\ broken' = TRUE
      BY <1>5 DEF Cut
    <2> QED BY <2>1, <2>2, Breaking
  <1> QED BY <1>2, <1>3, <1>4, <1>5

\* What send, drop and the network do.
WriterSteps ==
    \/ TcpDrop \/ (\E p \in Packets : TcpSend(p)) \/ TcpWrite
    \/ Cut /\ UNCHANGED tcpVars

\* The writer's steps, and the network's, leave what was received, and
\* keep what was sent.
LEMMA WriterLeaves ==
    ASSUME TcpTyped, Arrived, WriterSteps
    PROVE  /\ UNCHANGED <<received, failed, reading>>
           /\ sent' \in Seq(Packets) /\ Len(sent) <= Len(sent')
           /\ \A i \in 1..Len(sent) : sent'[i] = sent[i]
           /\ link' \in Seq(Nat) /\ sender' \in BOOLEAN /\ broken' \in BOOLEAN
           /\ \/ writing' = <<>>
              \/ \E a \in Chunks : writing' = <<a>>
              \/ \E a, b \in Chunks : writing' = <<a, b>>
           /\ ~sender /\ writing = <<>> => ~sender' /\ writing' = <<>>
           /\ ~sender' => ~sender \/ writing' = <<>>
           /\ broken => broken'
           /\ ~sender => ~sender'
  <1>1. /\ sent \in Seq(Packets) /\ link \in Seq(Nat) /\ sender \in BOOLEAN /\ broken \in BOOLEAN
        /\ Len(sent) \in Nat /\ Len(sent) <= Len(sent)
    BY LenProperties DEF TcpTyped
  <1>2. \/ writing = <<>>
        \/ \E a \in Chunks : writing = <<a>>
        \/ \E a, b \in Chunks : writing = <<a, b>>
    BY DEF TcpTyped
  <1>3. CASE TcpDrop
    <2>1. /\ UNCHANGED <<sent, received, failed, link, reading>> /\ writing' = <<>>
          /\ sender' = FALSE /\ broken' = (broken \/ writing # <<>>)
      BY <1>3 DEF TcpDrop
    <2>2. broken' \in BOOLEAN /\ (broken => broken')
      BY <2>1
    <2> QED BY <1>1, <2>1, <2>2
  <1>4. ASSUME NEW p \in Packets, TcpSend(p)
        PROVE  /\ UNCHANGED <<received, failed, reading, link, sender, broken>>
               /\ sent' \in Seq(Packets) /\ Len(sent) <= Len(sent')
               /\ \A i \in 1..Len(sent) : sent'[i] = sent[i]
               /\ sender /\ \E a, b \in Chunks : writing' = <<a, b>>
    <2>1. /\ UNCHANGED <<received, failed, reading, link, sender, broken>>
          /\ sent' = Append(sent, p) /\ sender
      BY <1>4 DEF TcpSend
    <2>2. \E a, b \in Chunks : writing' = <<a, b>>
      BY <1>4, SentTyped
    <2>3. sent' \in Seq(Packets) /\ Len(sent') = Len(sent) + 1
          /\ \A i \in 1..Len(sent) : sent'[i] = sent[i]
      BY <1>1, <2>1, AppendProperties
    <2> QED BY <1>1, <2>1, <2>2, <2>3
  <1>5. CASE \E p \in Packets : TcpSend(p)
    BY <1>1, <1>4, <1>5, Zenon
  <1>6. CASE TcpWrite
    <2>1. UNCHANGED <<sent, received, failed, sender, broken, reading>> /\ writing # <<>>
      BY <1>6 DEF TcpWrite
    <2>2. /\ link' \in Seq(Nat)
          /\ \/ writing' = <<>>
             \/ \E a \in Chunks : writing' = <<a>>
             \/ \E a, b \in Chunks : writing' = <<a, b>>
      BY <1>6, Written
    <2> QED BY <1>1, <2>1, <2>2
  <1>7. CASE Cut /\ UNCHANGED tcpVars
    <2>1. /\ UNCHANGED <<sent, received, failed, sender, writing, reading>> /\ broken' = TRUE
      BY <1>7 DEF Cut, tcpVars
    <2>2. PICK n \in 0..Len(link) : link' = SubSeq(link, 1, n)
      BY <1>7 DEF Cut
    <2>3. link' \in Seq(Nat)
      BY <1>1, <2>2, Leading
    <2> QED BY <1>1, <1>2, <2>1, <2>3
  <1> QED BY <1>3, <1>5, <1>6, <1>7 DEF WriterSteps

\* The writer's steps, and the network's, keep the invariant.
LEMMA WriterKeeps ==
    ASSUME TcpIInv, WriterSteps, UNCHANGED tsVars, transport' = transport
    PROVE  TcpIInv'
  <1>1. /\ UNCHANGED <<received, failed, reading>>
        /\ sent' \in Seq(Packets) /\ Len(sent) <= Len(sent')
        /\ \A i \in 1..Len(sent) : sent'[i] = sent[i]
        /\ link' \in Seq(Nat) /\ sender' \in BOOLEAN /\ broken' \in BOOLEAN
        /\ \/ writing' = <<>>
           \/ \E a \in Chunks : writing' = <<a>>
           \/ \E a, b \in Chunks : writing' = <<a, b>>
        /\ ~sender /\ writing = <<>> => ~sender' /\ writing' = <<>>
        /\ ~sender' => ~sender \/ writing' = <<>>
        /\ broken => broken'
        /\ ~sender => ~sender'
    BY WriterLeaves DEF TcpIInv
  <1>2. UNCHANGED <<buffer, waiting, closed>>
    BY DEF tsVars
  <1>3. TcpTyped /\ Arrived /\ TcpEnds /\ transport \in Tcp
        /\ Len(received) \in Nat /\ Len(sent) \in Nat /\ Len(sent') \in Nat
    BY <1>1, LenProperties DEF TcpIInv, TcpTyped
  <1>4. TcpTyped'
    BY <1>1, <1>2, <1>3 DEF TcpTyped
  <1>5. Arrived'
    <2>1. Len(received) <= Len(sent) /\ \A i \in 1..Len(received) : received[i] = sent[i]
      BY <1>3 DEF Arrived
    <2>2. Len(received) <= Len(sent')
      BY <1>1, <1>3, <2>1
    <2>3. ASSUME NEW i \in 1..Len(received) PROVE received[i] = sent'[i]
      <3>1. i \in 1..Len(sent)
        BY <1>3, <2>1
      <3> QED BY <1>1, <2>1, <3>1
    <2> QED BY <1>1, <2>2, <2>3 DEF Arrived
  <1>6. TcpEnds'
    <2>1. /\ ~sender => writing = <<>>
          /\ transport = "ts tcp" => /\ waiting => ~failed /\ ~closed
                                     /\ closed => broken \/ ~sender
      BY <1>3 DEF TcpEnds
    <2>2. ~sender' => writing' = <<>>
      BY <1>1, <2>1
    <2> QED BY <1>1, <1>2, <2>1, <2>2 DEF TcpEnds
  <1>7. ASSUME NEW c \in Seq(Nat), Taken(c) PROVE Taken(c)'
    <2>1. CASE transport = "tcp"
      <3>1. Halfway(c)
        BY <1>7, <2>1 DEF Taken
      <3>2. CASE reading = AtPrefix /\ c = <<>>
        BY <1>1, <2>1, <3>2 DEF Taken, Halfway
      <3>3. CASE Len(received) < Len(sent)
        <4>1. /\ Len(received') < Len(sent')
              /\ sent'[Len(received') + 1] = sent[Len(received) + 1]
          <5>1. Len(received) + 1 \in 1..Len(sent) /\ Len(received) < Len(sent')
            BY <1>1, <1>3, <3>3
          <5> QED BY <1>1, <5>1
        <4>2. Len(sent'[Len(received') + 1]) = Len(sent[Len(received) + 1])
          BY <4>1
        <4>3. Halfway(c)'
          BY <1>1, <3>1, <4>1, <4>2 DEF Halfway
        <4> QED BY <2>1, <4>3 DEF Taken
      <3> QED BY <3>1, <3>2, <3>3 DEF Halfway
    <2>2. CASE transport # "tcp"
      BY <1>2, <1>7, <2>2 DEF Taken
    <2> QED BY <2>1, <2>2
  <1>8. PICK c \in Seq(Nat) : Taken(c) /\ Carried(Bytes(c), sent, Len(received), broken)
    BY DEF TcpIInv
  <1>9. Carried(Bytes(c)', sent', Len(received'), broken')
    BY <1>3, <1>8, WriterCarries DEF WriterSteps
  <1>10. \E d \in Seq(Nat) : Taken(d)' /\ Carried(Bytes(d)', sent', Len(received'), broken')
    BY <1>7, <1>8, <1>9
  <1> QED BY <1>3, <1>4, <1>5, <1>6, <1>10 DEF TcpIInv

\* The next packet arrives.
LEMMA Arrives ==
    ASSUME TcpTyped, Arrived, sent' = sent, Len(received) < Len(sent),
           received' = Append(received, sent[Len(received) + 1])
    PROVE  Arrived' /\ received' \in Seq(Packets) /\ Len(received') = Len(received) + 1
  <1> DEFINE r == Len(received)
             p == sent[r + 1]
  <1>1. /\ sent \in Seq(Packets) /\ received \in Seq(Packets) /\ r \in Nat /\ Len(sent) \in Nat
        /\ r + 1 \in 1..Len(sent)
    BY LenProperties DEF TcpTyped
  <1>2. p \in Packets
    BY <1>1, ElementOfSeq
  <1>3. received' = Append(received, p) /\ r < Len(sent)
    OBVIOUS
  <1> HIDE DEF p
  <1>4. /\ received' \in Seq(Packets) /\ Len(received') = r + 1 /\ received'[r + 1] = p
        /\ \A i \in 1..r : received'[i] = received[i]
    BY <1>1, <1>2, <1>3, AppendProperties
  <1>5. \A i \in 1..r : received[i] = sent[i]
    BY DEF Arrived
  <1> HIDE DEF r
  <1>6. ASSUME NEW i \in 1..(r + 1) PROVE received'[i] = sent'[i]
    <2>1. i \in 1..r \/ i = r + 1
      BY <1>1
    <2> QED BY <1>4, <1>5, <2>1 DEF p
  <1>7. r + 1 <= Len(sent')
    BY <1>1, <1>3
  <1>8. Arrived'
    BY <1>4, <1>6, <1>7 DEF Arrived
  <1> QED BY <1>4, <1>8 DEF r

\* A byte of a length, in its turn.
LEMMA TakesByte ==
    ASSUME NEW c \in Seq(Nat), NEW q \in Seq(Nat), NEW x \in Nat,
           NEW s \in Seq(Packets), NEW r \in 0..Len(s), NEW lost \in BOOLEAN,
           Carried((c \o <<x>>) \o q, s, r, lost), NEW l, NEW h,
           r < Len(s) => Left(c, l, h, Len(s[r + 1]))
    PROVE  r < Len(s) /\ NextByte(Len(s[r + 1]), c, l, h, x) /\ c \o <<x>> \in Seq(Nat)
  <1> DEFINE d == c \o <<x>>
             k == Len(c)
             v == Len(s[r + 1])
             e == encode_leb128_u64[v]
             F == PacketFrame(s[r + 1])
  <1>1. /\ d \in Seq(Nat) /\ Len(d) = k + 1 /\ d[k + 1] = x /\ k \in Nat
    <2>1. <<x>> \in Seq(Nat) /\ Len(<<x>>) = 1 /\ <<x>>[1] = x /\ Len(c) \in Nat
      BY LenProperties
    <2>2. /\ d \in Seq(Nat) /\ Len(d) = Len(c) + Len(<<x>>)
          /\ \A i \in 1..(Len(c) + Len(<<x>>)) :
                 d[i] = IF i <= Len(c) THEN c[i] ELSE <<x>>[i - Len(c)]
      BY <2>1, ConcatProperties
    <2>3. k + 1 \in 1..(Len(c) + Len(<<x>>)) /\ ~(k + 1 <= Len(c)) /\ (k + 1) - Len(c) = 1
      BY <2>1
    <2> HIDE DEF d
    <2> QED BY <2>1, <2>2, <2>3
  <1>2. d \o q # <<>> /\ Carried(d \o q, s, r, lost)
    <2>1. Carried(d \o q, s, r, lost)
      OBVIOUS
    <2> HIDE DEF d
    <2>2. Len(d \o q) = Len(d) + Len(q) /\ Len(q) \in Nat
      BY <1>1, ConcatProperties, LenProperties
    <2>3. Len(d \o q) # 0
      BY <1>1, <2>2
    <2> QED BY <2>1, <2>3
  <1>3. r < Len(s) /\ \A i \in 1..Len(d) : i <= Len(F) => d[i] = F[i]
    <2> HIDE DEF d
    <2> QED BY <1>1, <1>2, PacketBegins
  <1>4. s[r + 1] \in Packets
    <2>1. r + 1 \in 1..Len(s)
      BY <1>3, LenProperties
    <2> QED BY <2>1, ElementOfSeq
  <1>5. /\ v \in Nat \ {0} /\ v < 2^Bits64 /\ Len(e) \in Nat \ {0}
        /\ Len(F) = Len(e) + v /\ \A i \in 1..Len(e) : F[i] = e[i]
    BY <1>4, PacketBytes DEF IsFrame
  <1>6. Left(c, l, h, v)
    BY <1>3
  <1>7. k < Len(e)
    <2> DEFINE y == e[k + 1]
    <2>1. v \in Nat /\ y = encode_leb128_u64[v][Len(c) + 1]
      BY <1>5
    <2> HIDE DEF y, e, v, F
    <2>2. NextByte(v, c, l, h, y)
      BY <1>5, <1>6, <2>1, PrefixByte
    <2> QED BY <2>2, Zenon DEF NextByte, e
  <1> HIDE DEF d, F, k
  <1>8. x = e[k + 1]
    <2>1. k + 1 \in 1..Len(d) /\ k + 1 <= Len(F) /\ k + 1 \in 1..Len(e)
      <3> HIDE DEF e, v
      <3> QED BY <1>1, <1>5, <1>7
    <2> HIDE DEF e
    <2> QED BY <1>1, <1>3, <1>5, <2>1
  <1>9. NextByte(v, c, l, h, x)
    <2>1. v \in Nat /\ x = encode_leb128_u64[v][Len(c) + 1]
      BY <1>5, <1>8 DEF k
    <2> HIDE DEF v, e
    <2> QED BY <1>5, <1>6, <2>1, PrefixByte
  <1> QED BY <1>1, <1>3, <1>9 DEF d

\* b is behind a.
Follows(a, b) ==
    /\ a \o b \in Seq(Nat) /\ Len(a \o b) = Len(a) + Len(b)
    /\ \A j \in 1..Len(b) : (a \o b)[Len(a) + j] = b[j]

\* The second of two sequences is where the first one ends.
LEMMA Behind ==
    ASSUME NEW a \in Seq(Nat), NEW b \in Seq(Nat)
    PROVE  Follows(a, b)
  <1>1. /\ a \o b \in Seq(Nat) /\ Len(a \o b) = Len(a) + Len(b)
        /\ \A i \in 1..(Len(a) + Len(b)) :
               (a \o b)[i] = IF i <= Len(a) THEN a[i] ELSE b[i - Len(a)]
        /\ Len(a) \in Nat /\ Len(b) \in Nat
    BY ConcatProperties, LenProperties
  <1>2. ASSUME NEW j \in 1..Len(b) PROVE (a \o b)[Len(a) + j] = b[j]
    <2>1. /\ Len(a) + j \in 1..(Len(a) + Len(b)) /\ ~(Len(a) + j <= Len(a))
          /\ (Len(a) + j) - Len(a) = j
      BY <1>1
    <2> QED BY <1>1, <2>1
  <1> QED BY <1>1, <1>2 DEF Follows

\* The bytes e of a length, b of its packet and q behind them.
CarriedBehind(e, b, q, s, r, lost) == Carried((e \o b) \o q, s, r, lost)

\* b is the next packet, and q is what is behind it.
IsRead(b, q, s, r, lost) == b = s[r + 1] /\ Carried(q, s, r + 1, lost)

\* A packet whose last byte came.
LEMMA PacketRead ==
    ASSUME NEW e, NEW b \in Seq(Nat), NEW q \in Seq(Nat),
           NEW s \in Seq(Packets), NEW r \in 0..Len(s), NEW lost \in BOOLEAN,
           r < Len(s), e = encode_leb128_u64[Len(s[r + 1])], Len(b) = Len(s[r + 1]),
           CarriedBehind(e, b, q, s, r, lost)
    PROVE  IsRead(b, q, s, r, lost)
  <1> DEFINE p == s[r + 1]
             l == Len(p)
             k == Len(e)
             n == k + l
             d == e \o b
  <1>1. r + 1 \in 1..Len(s)
    BY LenProperties
  <1>2. p \in Packets
    BY <1>1, ElementOfSeq
  <1>3. p \in Seq(Nat) /\ l \in Nat \ {0} /\ e \in Seq(Nat) /\ k \in Nat \ {0}
    <2>1. p \in Seq(Nat) /\ l \in Nat \ {0} /\ IsFrame(encode_leb128_u64[l])
      BY <1>2, PacketBytes
    <2> QED BY <2>1 DEF IsFrame
  <1>4. e = encode_leb128_u64[l] /\ Len(b) = l /\ Carried(d \o q, s, r, lost)
    BY DEF CarriedBehind
  <1> HIDE DEF p, l
  <1>5. /\ d \in Seq(Nat) /\ Len(d) = n /\ n \in Nat /\ \A j \in 1..l : d[k + j] = b[j]
    <2>1. Follows(e, b)
      BY <1>3, Behind
    <2>2. d \in Seq(Nat) /\ Len(d) = k + Len(b) /\ \A j \in 1..Len(b) : d[k + j] = b[j]
      BY <2>1, Zenon DEF Follows
    <2> HIDE DEF d, k
    <2> QED BY <1>3, <1>4, <2>2
  <1> HIDE DEF d, k, n
  <1>6. SubSeq(d, k + 1, n) = b
    <2>1. k + l <= Len(d) /\ k \in Nat
      BY <1>3, <1>5 DEF n
    <2>2. SubSeq(d, k + 1, k + l) = b
      BY <1>3, <1>4, <1>5, <2>1, Middle
    <2> QED BY <2>2 DEF n
  <1>7. SubSeq(d, k + 1, n) = p /\ Carried(Rest(d, n) \o q, s, r + 1, lost)
    <2>1. k = Len(encode_leb128_u64[Len(s[r + 1])]) /\ k + Len(s[r + 1]) <= Len(d)
          /\ n = k + Len(s[r + 1])
      <3>1. k + l <= Len(d)
        BY <1>3, <1>5 DEF n
      <3> QED BY <1>4, <3>1 DEF k, l, p, n
    <2>2. Comes(d, q, s, r, lost, k, k + Len(s[r + 1]))
      BY <1>4, <1>5, <2>1, PacketComes
    <2> QED BY <2>1, <2>2, Zenon DEF Comes, p
  <1>8. Rest(d, n) \o q = q
    <2>1. Rest(d, n) \in Seq(Nat) /\ Len(Rest(d, n)) = 0
      <3>1. n \in 0..Len(d) /\ Len(d) - n = 0
        BY <1>5
      <3> QED BY <1>5, <3>1, SplitAt
    <2>2. Rest(d, n) = <<>>
      BY <2>1, EmptySeq
    <2> QED BY <2>2, ConcatEmptySeq
  <1> QED BY <1>6, <1>7, <1>8, Zenon DEF p, IsRead

\* The buffer b, before the bytes q, begins with the next packet.
Holds(b, q, s, r, lost) ==
    /\ r < Len(s) /\ Payload(b) = s[r + 1]
    /\ Remainder(b) \in Seq(Nat)
    /\ Carried(Remainder(b) \o q, s, r + 1, lost)

\* A buffer in which recv finds a packet.
LEMMA BufferHolds ==
    ASSUME NEW b \in Seq(Nat), NEW q \in Seq(Nat),
           NEW s \in Seq(Packets), NEW r \in 0..Len(s), NEW lost \in BOOLEAN,
           Carried(b \o q, s, r, lost), Complete(b)
    PROVE  Holds(b, q, s, r, lost)
  <1> DEFINE p == s[r + 1]
             v == Len(p)
             e == encode_leb128_u64[v]
             k == Len(e)
             F == PacketFrame(p)
             h == decodeVarint(b).header
             m == decodeVarint(b).length
  <1>1. b # <<>> /\ Len(b) >= h + m /\ Len(b) \in Nat
    BY LenProperties DEF Complete
  <1>2. b \o q # <<>>
    <2>1. Len(b \o q) = Len(b) + Len(q) /\ Len(q) \in Nat /\ Len(b) # 0
      BY <1>1, ConcatProperties, LenProperties, EmptySeq
    <2>2. Len(b \o q) # 0
      BY <1>1, <2>1
    <2> QED BY <2>2
  <1>3. r < Len(s) /\ \A i \in 1..Len(b) : i <= Len(F) => b[i] = F[i]
    BY <1>2, PacketBegins
  <1>4. p \in Packets
    <2>1. r + 1 \in 1..Len(s)
      BY <1>3, LenProperties
    <2> QED BY <2>1, ElementOfSeq
  <1>5. /\ v \in Nat \ {0} /\ v < 2^Bits64 /\ k \in Nat \ {0}
        /\ Len(F) = k + v /\ \A i \in 1..k : F[i] = e[i]
    BY <1>4, PacketBytes DEF IsFrame
  <1>6. \A i \in 1..Len(b) : i <= k => b[i] = e[i]
    <2> HIDE DEF F, k, e, v, p
    <2> SUFFICES ASSUME NEW i \in 1..Len(b), i <= k PROVE b[i] = e[i]
      OBVIOUS
    <2>1. i \in 1..k /\ i <= Len(F)
      BY <1>1, <1>5
    <2> QED BY <1>3, <1>5, <2>1
  <1>7. /\ Len(b) >= k => h = k /\ m = v
        /\ Len(b) < k => h = Len(b) + 1 /\ m \in Nat
    <2>1. v \in Nat \ {0} /\ v < 2^Bits64 /\ e = encode_leb128_u64[v]
          /\ \A i \in 1..Len(b) : i <= Len(e) => b[i] = e[i]
      BY <1>5, <1>6
    <2> HIDE DEF v, e
    <2> QED BY <2>1, Decoded
  <1> HIDE DEF h, m, v, k, F
  <1>8. h = k /\ m = v /\ k + v <= Len(b)
    <2>1. Len(b) >= k
      BY <1>1, <1>5, <1>7
    <2> QED BY <1>1, <1>5, <1>7, <2>1
  <1>9. LET n == k + v IN
        /\ n \in 0..Len(b) /\ SubSeq(b, k + 1, n) = p
        /\ Carried(Rest(b, n) \o q, s, r + 1, lost)
    <2>1. k = Len(encode_leb128_u64[Len(s[r + 1])]) /\ k + Len(s[r + 1]) <= Len(b)
      BY <1>8 DEF k, v
    <2>2. v = Len(s[r + 1]) /\ p = s[r + 1]
      BY DEF v
    <2>3. Comes(b, q, s, r, lost, k, k + Len(s[r + 1]))
      BY <1>3, <2>1, PacketComes
    <2> HIDE DEF p
    <2> QED BY <2>2, <2>3, Zenon DEF Comes
  <1>10. Payload(b) = SubSeq(b, k + 1, k + v) /\ Remainder(b) = Rest(b, k + v)
    BY <1>8 DEF Payload, Remainder, h, m
  <1>11. Rest(b, k + v) \in Seq(Nat)
    BY <1>9, SplitAt
  <1>12. r < Len(s) /\ Payload(b) = p /\ Remainder(b) \in Seq(Nat)
    BY <1>3, <1>9, <1>10, <1>11
  <1>13. Carried(Remainder(b) \o q, s, r + 1, lost)
    BY <1>9, <1>10, Zenon
  <1> QED BY <1>12, <1>13, Zenon DEF Holds

\* A piece that recv takes.
LEMMA Taking ==
    ASSUME TcpTyped, UNCHANGED <<writing, broken>>, NEW c \in Seq(Nat),
           NEW x \in Seq(Nat), link = x \o link', link' \in Seq(Nat)
    PROVE  /\ Pending' = Pending /\ link' \o Pending \in Seq(Nat) /\ c \o x \in Seq(Nat)
           /\ Bytes(c) = (c \o x) \o (link' \o Pending)
           /\ \A d \in Seq(Nat) : Bytes(d)' = d \o (link' \o Pending)
  <1>1. Pending' = Pending
    BY DEF Pending
  <1>2. /\ Pending \in Seq(Nat) /\ c \in Seq(Nat) /\ x \in Seq(Nat) /\ link' \in Seq(Nat)
        /\ \A s, t \in Seq(Nat) : s \o t \in Seq(Nat)
    BY BytesTyped, ConcatProperties
  <1>3. link' \o Pending \in Seq(Nat) /\ c \o x \in Seq(Nat)
    BY <1>2, Zenon
  <1>4. IsMoved(c, x, link', Pending)
    BY <1>2, Moved, Zenon
  <1>5. (c \o x) \o (link' \o Pending) = c \o (link \o Pending)
    BY <1>4, Zenon DEF IsMoved
  <1>6. Bytes(c) = (c \o x) \o (link' \o Pending)
    BY <1>5, Zenon DEF Bytes
  <1>7. \A d \in Seq(Nat) : Bytes(d)' = d \o (link' \o Pending)
    BY <1>1, Zenon DEF Bytes
  <1> QED BY <1>1, <1>3, <1>6, <1>7

\* A sequence that is not empty begins with its head.
LEMMA HeadFirst ==
    ASSUME NEW q \in Seq(Nat), q # <<>>
    PROVE  /\ Head(q) \in Nat /\ Tail(q) \in Seq(Nat) /\ <<Head(q)>> \in Seq(Nat)
           /\ q = <<Head(q)>> \o Tail(q)
  <1> DEFINE x == Head(q)
             s == <<x>>
             t == Tail(q)
  <1>1. /\ x \in Nat /\ t \in Seq(Nat) /\ Len(t) = Len(q) - 1 /\ x = q[1]
        /\ Len(q) \in Nat \ {0}
    BY HeadTailProperties, EmptySeq, LenProperties
  <1>2. \A i \in 1..Len(t) : t[i] = q[i + 1]
    BY HeadTailProperties
  <1>3. s \in Seq(Nat) /\ Len(s) = 1 /\ s[1] = x
    BY <1>1
  <1> HIDE DEF s, t, x
  <1>4. /\ s \o t \in Seq(Nat) /\ Len(s \o t) = Len(s) + Len(t)
        /\ \A i \in 1..(Len(s) + Len(t)) : (s \o t)[i] = IF i <= Len(s) THEN s[i] ELSE t[i - Len(s)]
    BY <1>1, <1>3, ConcatProperties
  <1>5. Len(s \o t) = Len(q)
    BY <1>1, <1>3, <1>4
  <1>6. ASSUME NEW i \in 1..Len(q) PROVE (s \o t)[i] = q[i]
    <2>1. (s \o t)[i] = IF i <= 1 THEN s[i] ELSE t[i - 1]
      BY <1>3, <1>4, <1>5
    <2>2. i <= 1 => i = 1
      BY <1>1
    <2>3. ~(i <= 1) => i - 1 \in 1..Len(t) /\ (i - 1) + 1 = i
      BY <1>1
    <2> QED BY <1>1, <1>2, <1>3, <2>1, <2>2, <2>3
  <1>7. s \o t = q
    BY <1>4, <1>5, <1>6, SeqEqual
  <1> QED BY <1>1, <1>3, <1>7 DEF s, t, x

\* recv of a TCP transport reads a byte of a length.
LEMMA ReadPrefixKeeps ==
    ASSUME TcpIInv, transport = "tcp", TcpReadPrefix, UNCHANGED tsVars, transport' = transport
    PROVE  TcpIInv'
  <1> DEFINE r == Len(received)
  <1>0. PICK x : x = Head(link)
    OBVIOUS
  <1>1. /\ link # <<>> /\ reading.phase = "prefix" /\ link' = Tail(link)
        /\ reading' = [reading EXCEPT
               !.length = @ + (x % Continue) * 2^reading.shift,
               !.shift  = @ + Group,
               !.phase  = IF x < Continue THEN "data" ELSE @]
        /\ UNCHANGED <<sent, received, failed, sender, broken, writing, buffer, waiting, closed>>
    BY <1>0 DEF TcpReadPrefix, tsVars
  <1>2. /\ TcpTyped /\ Arrived /\ TcpEnds /\ sent \in Seq(Packets) /\ broken \in BOOLEAN
        /\ reading \in [phase : {"prefix", "data"}, length : Nat, shift : Nat, data : Seq(Nat)]
        /\ link \in Seq(Nat) /\ Group \in Nat
    BY ByteSize DEF TcpIInv, TcpTyped
  <1>3. x \in Nat /\ <<x>> \in Seq(Nat) /\ link' \in Seq(Nat) /\ link = <<x>> \o link'
    BY <1>0, <1>1, <1>2, HeadFirst
  <1>4. r \in 0..Len(sent)
    BY <1>2, LenProperties DEF Arrived, TcpTyped
  <1>5. PICK c \in Seq(Nat) : Halfway(c) /\ Carried(Bytes(c), sent, r, broken)
    BY DEF TcpIInv, Taken
  <1> DEFINE d == c \o <<x>>
             q == link' \o Pending
             v == Len(sent[r + 1])
             l == reading.length
             h == reading.shift
  <1>6. /\ q \in Seq(Nat) /\ d \in Seq(Nat) /\ Bytes(c) = d \o q /\ Bytes(d)' = d \o q
    BY <1>1, <1>2, <1>3, Taking
  <1>7. r < Len(sent) => Left(c, l, h, v) /\ reading.data = <<>>
    <2>1. CASE reading = AtPrefix /\ c = <<>>
      <3>1. l = 0 /\ h = 0 /\ reading.data = <<>>
        BY <2>1 DEF AtPrefix
      <3>2. ASSUME r < Len(sent) PROVE Left(<<>>, 0, 0, v)
        <4>1. r + 1 \in 1..Len(sent)
          BY <1>4, <3>2, LenProperties
        <4>2. sent[r + 1] \in Packets
          BY <1>2, <4>1, ElementOfSeq
        <4>3. v \in Nat \ {0}
          BY <4>2, PacketBytes
        <4> HIDE DEF v
        <4> QED BY <4>3, NothingRead
      <3> QED BY <2>1, <3>1, <3>2
    <2>2. CASE ~(reading = AtPrefix /\ c = <<>>)
      BY <1>1, <1>5, <2>2 DEF Halfway
    <2> QED BY <2>1, <2>2
  <1>8. Carried(d \o q, sent, r, broken)
    BY <1>5, <1>6, Zenon
  <1>9. r < Len(sent) /\ NextByte(v, c, l, h, x)
    <2> HIDE DEF q, l, h, r
    <2> QED BY <1>2, <1>3, <1>4, <1>6, <1>7, <1>8, TakesByte
  <1> DEFINE m == l + (x % Continue) * 2^h
  <1>10. /\ reading'.length = m /\ reading'.shift = h + Group
         /\ reading'.phase = IF x < Continue THEN "data" ELSE "prefix"
         /\ reading'.data = <<>>
    <2>1. reading.data = <<>>
      BY <1>7, <1>9
    <2> QED BY <1>1, <1>2, <2>1
  <1>11. /\ x < Continue => m = v /\ encode_leb128_u64[v] = d
         /\ x >= Continue => Left(d, m, h + Group, v)
    BY <1>9, Zenon DEF NextByte
  <1>12. (x < Continue \/ x >= Continue) /\ v \in Nat \ {0} /\ h \in Nat
    <2>1. Continue \in Nat
      BY ByteSize
    <2>2. r + 1 \in 1..Len(sent)
      BY <1>4, <1>9, LenProperties
    <2>3. sent[r + 1] \in Packets
      BY <1>2, <2>2, ElementOfSeq
    <2> QED BY <1>2, <1>3, <2>1, <2>3, PacketBytes
  <1> HIDE DEF m
  <1>13. m \in Nat
    BY <1>11, <1>12 DEF Left
  <1>14. reading' \in [phase : {"prefix", "data"}, length : Nat, shift : Nat, data : Seq(Nat)]
    <2> DEFINE R == [phase : {"prefix", "data"}, length : Nat, shift : Nat, data : Seq(Nat)]
               y == IF x < Continue THEN "data" ELSE reading.phase
    <2>1. reading' = [phase |-> y, length |-> m, shift |-> h + Group, data |-> reading.data]
      BY <1>1, <1>2 DEF m
    <2>2. y \in {"prefix", "data"} /\ h + Group \in Nat /\ reading.data \in Seq(Nat)
      BY <1>1, <1>2
    <2> QED BY <1>13, <2>1, <2>2
  <1>15. Halfway(d)'
    <2>1. received' = received /\ sent' = sent
      BY <1>1
    <2>2. Len(received') < Len(sent') /\ Len(sent'[Len(received') + 1]) = v
      BY <1>9, <2>1
    <2>3. CASE x < Continue
      <3>1. reading'.phase = "data" /\ reading'.length = v /\ Len(reading'.data) < v
        BY <1>10, <1>11, <1>12, <2>3
      <3>2. d = encode_leb128_u64[v] \o reading'.data
        BY <1>6, <1>10, <1>11, <2>3, ConcatEmptySeq
      <3> HIDE DEF d, v
      <3> QED BY <2>2, <3>1, <3>2, Zenon DEF Halfway
    <2>4. CASE x >= Continue
      <3>1. ~(x < Continue)
        BY <1>3, <2>4, ByteSize
      <3>2. /\ reading'.phase = "prefix" /\ reading'.data = <<>>
            /\ Left(d, reading'.length, reading'.shift, v)
        BY <1>10, <1>11, <2>4, <3>1
      <3> HIDE DEF d, v
      <3> QED BY <2>2, <3>2, Zenon DEF Halfway
    <2> QED BY <1>12, <2>3, <2>4
  <1>16. TcpTyped' /\ Arrived' /\ TcpEnds'
    <2>1. Arrived'
      BY <1>1, <1>2 DEF Arrived
    <2>2. TcpEnds'
      BY <1>1, <1>2 DEF TcpEnds
    <2>3. TcpTyped'
      BY <1>1, <1>2, <1>3, <1>14 DEF TcpTyped
    <2> QED BY <2>1, <2>2, <2>3
  <1>17. Taken(d)' /\ Carried(Bytes(d)', sent', Len(received'), broken')
    <2>1. Taken(d)'
      BY <1>15 DEF Taken
    <2>2. Carried(Bytes(d)', sent, r, broken)
      BY <1>6, <1>8, Zenon
    <2> QED BY <1>1, <2>1, <2>2
  <1>18. transport' \in Tcp
    BY DEF TcpIInv
  <1> HIDE DEF d
  <1>19. \E a \in Seq(Nat) : Taken(a)' /\ Carried(Bytes(a)', sent', Len(received'), broken')
    BY <1>6, <1>17
  <1> QED BY <1>16, <1>18, <1>19 DEF TcpIInv

\* recv of a TCP transport reads a piece of a packet.
LEMMA ReadDataKeeps ==
    ASSUME TcpIInv, transport = "tcp", TcpReadData, UNCHANGED tsVars, transport' = transport
    PROVE  TcpIInv'
  <1> DEFINE r == Len(received)
  <1>1. PICK n \in 1..Min({Len(link), reading.length - Len(reading.data)}) :
            LET data == reading.data \o SubSeq(link, 1, n) IN
            /\ link' = Rest(link, n)
            /\ IF Len(data) = reading.length
                 THEN reading' = AtPrefix /\ received' = Append(received, data)
                 ELSE reading' = [reading EXCEPT !.data = data] /\ UNCHANGED received
    BY DEF TcpReadData
  <1>2. /\ reading.phase = "data" /\ link # <<>>
        /\ UNCHANGED <<sent, failed, sender, broken, writing, buffer, waiting, closed>>
    BY DEF TcpReadData, tsVars
  <1>3. /\ TcpTyped /\ Arrived /\ TcpEnds /\ sent \in Seq(Packets) /\ broken \in BOOLEAN
        /\ reading \in [phase : {"prefix", "data"}, length : Nat, shift : Nat, data : Seq(Nat)]
        /\ link \in Seq(Nat) /\ received \in Seq(Packets)
    BY DEF TcpIInv, TcpTyped
  <1>4. r \in 0..Len(sent) /\ r \in Nat /\ Len(sent) \in Nat
    BY <1>3, LenProperties DEF Arrived
  <1>5. PICK c \in Seq(Nat) : Halfway(c) /\ Carried(Bytes(c), sent, r, broken)
    BY DEF TcpIInv, Taken
  <1>6. PICK y, z, v, e : /\ y = reading.data /\ z = SubSeq(link, 1, n)
                          /\ v = Len(sent[r + 1]) /\ e = encode_leb128_u64[v]
    OBVIOUS
  <1>7. /\ r < Len(sent) /\ reading.length = v /\ Len(y) < v /\ c = e \o y
    <2>1. reading # AtPrefix /\ reading.phase # "prefix"
      BY <1>2 DEF AtPrefix
    <2>2. /\ r < Len(sent) /\ reading.length = Len(sent[r + 1])
          /\ Len(reading.data) < Len(sent[r + 1])
          /\ c = encode_leb128_u64[Len(sent[r + 1])] \o reading.data
      BY <1>5, <2>1, Zenon DEF Halfway
    <2> HIDE DEF r
    <2> QED BY <1>6, <2>2
  <1>8. v \in Nat \ {0} /\ e \in Seq(Nat) /\ y \in Seq(Nat) /\ Len(y) \in Nat /\ Len(link) \in Nat
    <2>1. r + 1 \in 1..Len(sent)
      BY <1>4, <1>7
    <2>2. sent[r + 1] \in Packets
      BY <1>3, <2>1, ElementOfSeq
    <2>3. v \in Nat \ {0} /\ e \in Seq(Nat)
      BY <1>6, <2>2, PacketBytes DEF IsFrame
    <2> QED BY <1>3, <1>6, <2>3, LenProperties
  <1>9. n \in 1..Len(link) /\ n \in 0..Len(link) /\ n <= v - Len(y)
    <2>1. Len(link) # 0
      BY <1>2, <1>3, EmptySeq
    <2> DEFINE a == Len(link)
               b == v - Len(y)
    <2>2. a \in Nat \ {0} /\ b \in Nat \ {0}
      BY <1>7, <1>8, <2>1
    <2>3. n \in 1..Min({a, b})
      BY <1>6, <1>7
    <2> HIDE DEF a, b
    <2>4. Min({a, b}) \in {a, b} /\ Min({a, b}) <= a /\ Min({a, b}) <= b
      <3>1. CASE a <= b
        <4>1. Min({a, b}) = a
          <5>1. a \in {a, b} /\ \A j \in {a, b} : a <= j /\ j \in Nat
            BY <2>2, <3>1
          <5> QED BY <2>2, <5>1, LeastIs
        <4> QED BY <2>2, <3>1, <4>1
      <3>2. CASE b <= a
        <4>1. Min({a, b}) = b
          <5>1. b \in {a, b} /\ \A j \in {a, b} : b <= j /\ j \in Nat
            BY <2>2, <3>2
          <5> QED BY <2>2, <5>1, LeastIs
        <4> QED BY <2>2, <3>2, <4>1
      <3> QED BY <2>2, <3>1, <3>2
    <2>5. n \in 1..a /\ n \in 0..a /\ n <= b
      BY <2>2, <2>3, <2>4
    <2> QED BY <2>5 DEF a, b
  <1>10. /\ z \in Seq(Nat) /\ Len(z) = n /\ link' \in Seq(Nat) /\ link = z \o link'
    BY <1>1, <1>3, <1>6, <1>9, SplitAt
  <1> DEFINE q == link' \o Pending
             b == y \o z
  <1>11. /\ q \in Seq(Nat) /\ Bytes(c) = (c \o z) \o q /\ c \o z \in Seq(Nat)
         /\ \A d \in Seq(Nat) : Bytes(d)' = d \o q
    BY <1>2, <1>3, <1>10, Taking
  <1>12. /\ b \in Seq(Nat) /\ Len(b) = Len(y) + n /\ Len(b) <= v /\ e \o b \in Seq(Nat)
         /\ c \o z = e \o b
    <2>1. \A s, t \in Seq(Nat) : s \o t \in Seq(Nat) /\ Len(s \o t) = Len(s) + Len(t)
      BY ConcatProperties
    <2>2. b \in Seq(Nat) /\ Len(b) = Len(y) + n /\ e \o b \in Seq(Nat)
      BY <1>8, <1>10, <2>1
    <2>3. (e \o y) \o z = e \o (y \o z)
      <3>1. IsJoined(e, y, z)
        BY <1>8, <1>10, AnyOrder
      <3> QED BY <3>1, Zenon DEF IsJoined
    <2>4. Len(b) <= v
      BY <1>8, <1>9, <2>2
    <2> QED BY <1>7, <2>2, <2>3, <2>4, Zenon
  <1>13. Carried((e \o b) \o q, sent, r, broken)
    BY <1>5, <1>11, <1>12, Zenon
  <1>14. /\ Len(b) = v => reading' = AtPrefix /\ received' = Append(received, b)
         /\ Len(b) # v => reading' = [reading EXCEPT !.data = b] /\ received' = received
    BY <1>1, <1>6, <1>7
  <1> HIDE DEF q, b
  <1>15. TcpEnds' /\ transport' \in Tcp
    BY <1>2, <1>3 DEF TcpEnds, TcpIInv
  <1>16. CASE Len(b) = v
    <2>1. b = sent[r + 1] /\ Carried(q, sent, r + 1, broken)
      <3>1. e = encode_leb128_u64[Len(sent[r + 1])] /\ Len(b) = Len(sent[r + 1])
        BY <1>6, <1>16
      <3>2. CarriedBehind(e, b, q, sent, r, broken)
        BY <1>13, Zenon DEF CarriedBehind
      <3>3. /\ b \in Seq(Nat) /\ q \in Seq(Nat) /\ sent \in Seq(Packets)
            /\ r \in 0..Len(sent) /\ r < Len(sent) /\ broken \in BOOLEAN
        BY <1>3, <1>4, <1>7, <1>11, <1>12
      <3> HIDE DEF r
      <3>4. IsRead(b, q, sent, r, broken)
        BY <3>1, <3>2, <3>3, PacketRead, Zenon
      <3> QED BY <3>4, Zenon DEF IsRead
    <2>2. received' = Append(received, sent[r + 1]) /\ reading' = AtPrefix
      BY <1>14, <1>16, <2>1
    <2>3. Arrived' /\ received' \in Seq(Packets) /\ Len(received') = r + 1
      BY <1>2, <1>3, <1>7, <2>2, Arrives
    <2>4. reading' \in [phase : {"prefix", "data"}, length : Nat, shift : Nat, data : Seq(Nat)]
      BY <2>2, EmptySeq DEF AtPrefix
    <2>5. TcpTyped'
      BY <1>2, <1>3, <1>10, <2>3, <2>4 DEF TcpTyped
    <2>6. Taken(<<>>)'
      BY <2>2 DEF Taken, Halfway
    <2>7. <<>> \in Seq(Nat) /\ <<>> \o q = q
      BY <1>11, EmptySeq, ConcatEmptySeq
    <2>8. Bytes(<<>>)' = q
      BY <1>11, <2>7, Zenon
    <2>9. Carried(Bytes(<<>>)', sent', Len(received'), broken')
      BY <1>2, <2>1, <2>3, <2>8
    <2>10. \E a \in Seq(Nat) : Taken(a)' /\ Carried(Bytes(a)', sent', Len(received'), broken')
      BY <2>6, <2>7, <2>9
    <2> QED BY <1>15, <2>3, <2>5, <2>10 DEF TcpIInv
  <1>17. CASE Len(b) # v
    <2>1. received' = received /\ reading' = [reading EXCEPT !.data = b]
      BY <1>14, <1>17
    <2>2. reading' \in [phase : {"prefix", "data"}, length : Nat, shift : Nat, data : Seq(Nat)]
      BY <1>3, <1>12, <2>1
    <2>3. TcpTyped'
      BY <1>2, <1>3, <1>10, <2>1, <2>2 DEF TcpTyped
    <2>4. Arrived'
      BY <1>2, <1>3, <2>1 DEF Arrived
    <2> DEFINE d == e \o b
    <2>5. /\ reading'.phase = "data" /\ reading'.length = v /\ reading'.data = b
      BY <1>2, <1>3, <1>7, <2>1
    <2>6. Len(b) < v
      <3>1. Len(b) \in Nat /\ v \in Nat /\ Len(b) <= v
        BY <1>8, <1>12, LenProperties
      <3> QED BY <1>17, <3>1
    <2>7. Len(received') < Len(sent') /\ Len(sent'[Len(received') + 1]) = v
      BY <1>2, <1>6, <1>7, <2>1
    <2>8. d = encode_leb128_u64[v] \o reading'.data
      BY <1>6, <2>5
    <2>9. d \in Seq(Nat)
      BY <1>12
    <2> HIDE DEF d
    <2>10. Halfway(d)'
      BY <2>5, <2>6, <2>7, <2>8 DEF Halfway
    <2>11. Taken(d)'
      BY <2>10 DEF Taken
    <2>12. Carried(Bytes(d)', sent', Len(received'), broken')
      <3>1. Bytes(d)' = d \o q
        BY <1>11, <2>9, Zenon
      <3>2. Carried(Bytes(d)', sent, r, broken)
        BY <1>13, <3>1, Zenon DEF d
      <3> QED BY <1>2, <2>1, <3>2
    <2>13. \E a \in Seq(Nat) : Taken(a)' /\ Carried(Bytes(a)', sent', Len(received'), broken')
      BY <2>9, <2>11, <2>12
    <2> QED BY <1>15, <2>3, <2>4, <2>13 DEF TcpIInv
  <1> QED BY <1>16, <1>17

\* Numbers from zero on.
LEMMA UpTo ==
    /\ \A a, b \in Nat : a <= b => a \in 0..b
    /\ \A b \in Nat : \A i \in 1..b : i \in 0..b
  OBVIOUS

\* The end of a stream is an error.
LEMMA ReadFailsKeeps ==
    ASSUME TcpIInv, transport = "tcp", TcpReadFails, UNCHANGED tsVars, transport' = transport
    PROVE  TcpIInv'
  <1>1. /\ UNCHANGED <<sent, received, sender, broken, link, writing, reading>>
        /\ UNCHANGED <<buffer, waiting, closed>> /\ failed' = TRUE
    BY DEF TcpReadFails, tcpVars, tsVars
  <1>2. TcpTyped /\ Arrived /\ TcpEnds /\ transport \in Tcp
    BY DEF TcpIInv
  <1>3. TcpTyped'
    BY <1>1, <1>2 DEF TcpTyped
  <1>4. Arrived'
    BY <1>1, <1>2 DEF Arrived
  <1>5. TcpEnds'
    BY <1>1, <1>2 DEF TcpEnds
  <1>6. \E c \in Seq(Nat) : Taken(c) /\ Carried(Bytes(c), sent, Len(received), broken)
    BY DEF TcpIInv
  <1>7. \A c : Taken(c)' = Taken(c) /\ Bytes(c)' = Bytes(c)
    BY <1>1 DEF Taken, Halfway, Bytes, Pending
  <1>8. Len(received') = Len(received)
    BY <1>1
  <1>9. \E c \in Seq(Nat) : Taken(c)' /\ Carried(Bytes(c)', sent', Len(received'), broken')
    BY <1>1, <1>6, <1>7, <1>8, Zenon
  <1> QED BY <1>2, <1>3, <1>4, <1>5, <1>9 DEF TcpIInv

\* A packet is returned from the buffer.
LEMMA BufferReturns ==
    ASSUME TcpIInv, transport = "ts tcp",
           UNCHANGED <<sent, failed, sender, broken, writing, reading, closed, transport>>,
           link' \in Seq(Nat), link' \o Pending \in Seq(Nat), waiting' = FALSE,
           NEW b \in Seq(Nat), Complete(b),
           Carried(b \o (link' \o Pending), sent, Len(received), broken),
           received' = Append(received, Payload(b)), buffer' = Remainder(b)
    PROVE  TcpIInv'
  <1> DEFINE r == Len(received)
             q == link' \o Pending
  <1>1. /\ TcpTyped /\ Arrived /\ TcpEnds /\ transport \in Tcp /\ sent \in Seq(Packets)
        /\ broken \in BOOLEAN
    BY DEF TcpIInv, TcpTyped
  <1>2. r \in 0..Len(sent)
    <2>1. r \in Nat /\ Len(sent) \in Nat
      BY <1>1, LenProperties DEF TcpTyped
    <2>2. r <= Len(sent)
      BY <1>1 DEF Arrived
    <2> HIDE DEF r
    <2> QED BY <2>1, <2>2, UpTo, Zenon
  <1>3. Holds(b, q, sent, r, broken)
    <2>1. q \in Seq(Nat) /\ Carried(b \o q, sent, r, broken)
      OBVIOUS
    <2> HIDE DEF q, r
    <2> QED BY <1>1, <1>2, <2>1, BufferHolds
  <1>4. PICK e : e = Remainder(b)
    OBVIOUS
  <1>5. /\ r < Len(sent) /\ Payload(b) = sent[r + 1] /\ e \in Seq(Nat)
        /\ Carried(e \o q, sent, r + 1, broken)
    <2> HIDE DEF q, r
    <2> QED BY <1>3, <1>4, Zenon DEF Holds
  <1>6. received' = Append(received, sent[r + 1]) /\ buffer' = e
    BY <1>4, <1>5
  <1>7. Arrived' /\ received' \in Seq(Packets) /\ Len(received') = r + 1
    BY <1>1, <1>5, <1>6, Arrives
  <1>8. TcpTyped'
    BY <1>1, <1>5, <1>6, <1>7 DEF TcpTyped
  <1>9. TcpEnds'
    BY <1>1 DEF TcpEnds
  <1>10. Bytes(e)' = e \o q
    <2>1. Pending' = Pending
      BY DEF Pending
    <2> QED BY <2>1, Zenon DEF Bytes
  <1>11. Taken(e)'
    BY <1>6 DEF Taken
  <1>12. Carried(Bytes(e)', sent', Len(received'), broken')
    <2>1. sent' = sent /\ broken' = broken
      OBVIOUS
    <2> HIDE DEF q, r
    <2> QED BY <1>5, <1>7, <1>10, <2>1, Zenon
  <1>13. \E a \in Seq(Nat) : Taken(a)' /\ Carried(Bytes(a)', sent', Len(received'), broken')
    BY <1>5, <1>11, <1>12, Zenon
  <1>14. transport' \in Tcp
    BY <1>1
  <1> QED BY <1>7, <1>8, <1>9, <1>13, <1>14 DEF TcpIInv

\* The buffer b keeps what came.
LEMMA BufferKeeps ==
    ASSUME TcpIInv, transport = "ts tcp",
           UNCHANGED <<sent, received, sender, broken, writing, reading, transport>>,
           link' \in Seq(Nat), failed' \in BOOLEAN, waiting' \in BOOLEAN, closed' \in BOOLEAN,
           waiting' => ~failed' /\ ~closed', closed' => broken \/ ~sender,
           NEW b \in Seq(Nat), buffer' = b,
           Carried(b \o (link' \o Pending), sent, Len(received), broken)
    PROVE  TcpIInv'
  <1>1. TcpTyped /\ Arrived /\ TcpEnds /\ transport \in Tcp
    BY DEF TcpIInv
  <1>2. TcpTyped'
    BY <1>1 DEF TcpTyped
  <1>3. Arrived'
    BY <1>1 DEF Arrived
  <1>4. TcpEnds'
    BY <1>1 DEF TcpEnds
  <1>5. Bytes(b)' = b \o (link' \o Pending)
    <2>1. Pending' = Pending
      BY DEF Pending
    <2> QED BY <2>1, Zenon DEF Bytes
  <1>6. Taken(b)'
    BY DEF Taken
  <1>7. Carried(Bytes(b)', sent', Len(received'), broken')
    <2>1. sent' = sent /\ broken' = broken /\ Len(received') = Len(received)
      OBVIOUS
    <2> QED BY <1>5, <2>1, Zenon
  <1>8. \E a \in Seq(Nat) : Taken(a)' /\ Carried(Bytes(a)', sent', Len(received'), broken')
    BY <1>6, <1>7, Zenon
  <1>9. transport' \in Tcp
    BY <1>1
  <1> QED BY <1>2, <1>3, <1>4, <1>8, <1>9 DEF TcpIInv

\* What a TypeScript transport has taken is in its buffer.
LEMMA InBuffer ==
    ASSUME TcpIInv, transport = "ts tcp"
    PROVE  /\ buffer \in Seq(Nat) /\ link \in Seq(Nat) /\ link \o Pending \in Seq(Nat)
           /\ Carried(Bytes(buffer), sent, Len(received), broken)
           /\ failed \in BOOLEAN /\ waiting \in BOOLEAN /\ closed \in BOOLEAN
           /\ waiting => ~failed /\ ~closed
           /\ closed => broken \/ ~sender
  <1>1. PICK c \in Seq(Nat) : Taken(c) /\ Carried(Bytes(c), sent, Len(received), broken)
    BY DEF TcpIInv
  <1>2. c = buffer
    BY <1>1 DEF Taken
  <1>3. Carried(Bytes(buffer), sent, Len(received), broken)
    BY <1>1, <1>2, Zenon
  <1>4. TcpTyped /\ TcpEnds
    BY DEF TcpIInv
  <1>5. link \o Pending \in Seq(Nat)
    BY <1>4, BytesTyped
  <1> QED BY <1>3, <1>4, <1>5 DEF TcpTyped, TcpEnds

\* "data" of the socket.
LEMMA TsDataKeeps ==
    ASSUME TcpIInv, transport = "ts tcp", TsTcpData, UNCHANGED tcpVars, transport' = transport
    PROVE  TcpIInv'
  <1>1. /\ buffer \in Seq(Nat) /\ link \in Seq(Nat)
        /\ Carried(Bytes(buffer), sent, Len(received), broken)
        /\ failed \in BOOLEAN /\ waiting \in BOOLEAN /\ closed \in BOOLEAN
        /\ waiting => ~failed /\ ~closed
        /\ closed => broken \/ ~sender
    BY InBuffer
  <1>2. UNCHANGED <<sent, failed, sender, broken, closed, writing, reading>>
    BY DEF TsTcpData, tcpVars
  <1>3. PICK n \in 1..Len(link) : LET z == buffer \o SubSeq(link, 1, n) IN
         /\ link' = Rest(link, n)
         /\ IF waiting /\ Complete(z)
              THEN /\ received' = Append(received, Payload(z))
                   /\ buffer' = Remainder(z) /\ waiting' = FALSE
              ELSE /\ buffer' = z /\ UNCHANGED <<received, waiting>>
    BY DEF TsTcpData
  <1>4. PICK c, x, b : c = buffer /\ x = SubSeq(link, 1, n) /\ b = c \o x
    OBVIOUS
  <1>5. x \in Seq(Nat) /\ link' \in Seq(Nat) /\ link = x \o link'
    <2>1. n \in 0..Len(link)
      <3>1. Len(link) \in Nat
        BY <1>1, LenProperties
      <3> QED BY <3>1, UpTo, Zenon
    <2> QED BY <1>1, <1>3, <1>4, <2>1, SplitAt
  <1>6. /\ link' \o Pending \in Seq(Nat) /\ b \in Seq(Nat)
        /\ Bytes(c) = b \o (link' \o Pending)
    <2>1. c \in Seq(Nat) /\ TcpTyped
      BY <1>1, <1>4 DEF TcpIInv
    <2>2. /\ link' \o Pending \in Seq(Nat) /\ c \o x \in Seq(Nat)
          /\ Bytes(c) = (c \o x) \o (link' \o Pending)
      BY <1>2, <1>5, <2>1, Taking
    <2> QED BY <1>4, <2>2, Zenon
  <1>7. Carried(b \o (link' \o Pending), sent, Len(received), broken)
    BY <1>1, <1>4, <1>6, Zenon
  <1>8. CASE waiting /\ Complete(b)
    <2>1. received' = Append(received, Payload(b)) /\ buffer' = Remainder(b) /\ waiting' = FALSE
      BY <1>3, <1>4, <1>8
    <2> QED BY <1>2, <1>5, <1>6, <1>7, <1>8, <2>1, BufferReturns
  <1>9. CASE ~(waiting /\ Complete(b))
    <2>1. buffer' = b /\ received' = received /\ waiting' = waiting
      BY <1>3, <1>4, <1>9
    <2> QED BY <1>1, <1>2, <1>5, <1>6, <1>7, <2>1, BufferKeeps
  <1> QED BY <1>8, <1>9

\* "close" and "error" of the socket.
LEMMA TsClosedKeeps ==
    ASSUME TcpIInv, transport = "ts tcp", TsTcpClosed, UNCHANGED tcpVars, transport' = transport
    PROVE  TcpIInv'
  <1>1. /\ buffer \in Seq(Nat) /\ link \in Seq(Nat)
        /\ Carried(Bytes(buffer), sent, Len(received), broken)
        /\ failed \in BOOLEAN /\ waiting \in BOOLEAN /\ closed \in BOOLEAN
    BY InBuffer
  <1>2. /\ UNCHANGED <<sent, received, sender, broken, link, buffer, writing, reading>>
        /\ closed' = TRUE /\ waiting' = FALSE /\ failed' = (failed \/ waiting)
        /\ broken \/ ~sender
    BY DEF TsTcpClosed, TsReject, tcpVars
  <1>3. PICK b : b = buffer
    OBVIOUS
  <1>4. /\ b \in Seq(Nat) /\ buffer' = b /\ link' \in Seq(Nat)
        /\ failed' \in BOOLEAN /\ waiting' \in BOOLEAN /\ closed' \in BOOLEAN
    BY <1>1, <1>2, <1>3
  <1>5. Carried(b \o (link' \o Pending), sent, Len(received), broken)
    BY <1>1, <1>2, <1>3, Zenon DEF Bytes
  <1> QED BY <1>2, <1>4, <1>5, BufferKeeps

\* recv of a TypeScript transport.
LEMMA TsRecvKeeps ==
    ASSUME TcpIInv, transport = "ts tcp", TsTcpRecv, UNCHANGED tcpVars, transport' = transport
    PROVE  TcpIInv'
  <1>1. /\ buffer \in Seq(Nat) /\ link \in Seq(Nat) /\ link \o Pending \in Seq(Nat)
        /\ Carried(Bytes(buffer), sent, Len(received), broken)
        /\ failed \in BOOLEAN /\ waiting \in BOOLEAN /\ closed \in BOOLEAN
        /\ waiting => ~failed /\ ~closed
        /\ closed => broken \/ ~sender
    BY InBuffer
  <1>2. /\ UNCHANGED <<sent, sender, broken, link, closed, writing, reading>>
        /\ ~waiting /\ ~failed
    BY DEF TsTcpRecv, tcpVars
  <1>3. PICK b : b = buffer
    OBVIOUS
  <1>4. Carried(b \o (link' \o Pending), sent, Len(received), broken)
    BY <1>1, <1>2, <1>3, Zenon DEF Bytes
  <1>5. CASE closed
    <2>1. UNCHANGED <<received, buffer, waiting>> /\ failed' = TRUE
      BY <1>5 DEF TsTcpRecv
    <2>2. b \in Seq(Nat) /\ buffer' = b /\ link' \in Seq(Nat)
      BY <1>1, <1>2, <1>3, <2>1
    <2> QED BY <1>1, <1>2, <1>4, <2>1, <2>2, BufferKeeps
  <1>6. CASE ~closed /\ Complete(buffer)
    <2>1. /\ received' = Append(received, Payload(b)) /\ buffer' = Remainder(b)
          /\ failed' = failed /\ waiting' = waiting
      BY <1>3, <1>6 DEF TsTcpRecv
    <2>2. b \in Seq(Nat) /\ Complete(b) /\ link' \in Seq(Nat) /\ link' \o Pending \in Seq(Nat)
          /\ waiting' = FALSE
      BY <1>1, <1>2, <1>3, <1>6, <2>1
    <2> QED BY <1>2, <1>4, <2>1, <2>2, BufferReturns
  <1>7. CASE ~closed /\ ~Complete(buffer)
    <2>1. UNCHANGED <<received, buffer, failed>> /\ waiting' = TRUE
      BY <1>7 DEF TsTcpRecv
    <2>2. b \in Seq(Nat) /\ buffer' = b /\ link' \in Seq(Nat)
      BY <1>1, <1>2, <1>3, <2>1
    <2> QED BY <1>1, <1>2, <1>4, <1>7, <2>1, <2>2, BufferKeeps
  <1> QED BY <1>5, <1>6, <1>7

\* Each step keeps the invariant.
LEMMA TcpKept ==
    ASSUME TcpIInv, [Next]_vars
    PROVE  TcpIInv'
  <1>1. TcpAll /\ transport' = transport /\ transport \in Tcp
    BY TcpSteps DEF TcpIInv
  <1>2. CASE WriterSteps /\ UNCHANGED tsVars
    BY <1>1, <1>2, WriterKeeps
  <1>3. CASE /\ transport = "tcp" /\ UNCHANGED tsVars
             /\ TcpReadPrefix \/ TcpReadData \/ TcpReadFails
    BY <1>1, <1>3, ReadPrefixKeeps, ReadDataKeeps, ReadFailsKeeps
  <1>4. CASE /\ transport = "ts tcp" /\ UNCHANGED tcpVars
             /\ TsTcpData \/ TsTcpClosed \/ TsTcpRecv
    BY <1>1, <1>4, TsDataKeeps, TsClosedKeeps, TsRecvKeeps
  <1>5. CASE UNCHANGED <<linkVars, tcpVars, tsVars>>
    <2>1. /\ UNCHANGED <<sent, received, failed, sender, broken, link>>
          /\ UNCHANGED <<writing, reading, buffer, waiting, closed>>
      BY <1>5 DEF linkVars, tcpVars, tsVars
    <2>2. TcpTyped' = TcpTyped /\ Arrived' = Arrived
      BY <2>1 DEF TcpTyped, Arrived
    <2>3. TcpEnds' = TcpEnds
      BY <1>1, <2>1 DEF TcpEnds
    <2>4. \A c : Taken(c)' = Taken(c) /\ Bytes(c)' = Bytes(c)
      BY <1>1, <2>1 DEF Taken, Halfway, Bytes, Pending
    <2>5. Len(received') = Len(received)
      BY <2>1
    <2>6. \E c \in Seq(Nat) : Taken(c) /\ Carried(Bytes(c), sent, Len(received), broken)
      BY DEF TcpIInv
    <2>7. \E c \in Seq(Nat) : Taken(c)' /\ Carried(Bytes(c)', sent', Len(received'), broken')
      BY <2>1, <2>4, <2>5, <2>6, Zenon
    <2> QED BY <1>1, <2>2, <2>3, <2>7 DEF TcpIInv
  <1> QED BY <1>1, <1>2, <1>3, <1>4, <1>5 DEF TcpAll, WriterSteps

\* What flows over a TCP connection, and how much of it recv has read, in
\* every reachable state.
THEOREM TcpInductive == Spec /\ transport \in Tcp => []TcpIInv
  <1>1. Init /\ transport \in Tcp => TcpIInv
    BY TcpBegins
  <1>2. TcpIInv /\ [Next]_vars => TcpIInv'
    BY TcpKept
  <1> QED BY <1>1, <1>2, PTL DEF Spec

\* What is returned is the next packet.
LEMMA NextReturned ==
    ASSUME TcpIInv, TcpIInv', sent' = sent, NEW p, received' = Append(received, p)
    PROVE  Len(received) < Len(sent) /\ p = sent[Len(received) + 1]
  <1>1. /\ received \in Seq(Packets) /\ received' \in Seq(Packets)
        /\ Len(received) \in Nat /\ Len(sent) \in Nat
    BY LenProperties DEF TcpIInv, TcpTyped
  <1>2. p = received'[Len(received) + 1] /\ Len(received') = Len(received) + 1
    BY <1>1
  <1>3. Len(received') <= Len(sent) /\ \A i \in 1..Len(received') : received'[i] = sent[i]
    BY DEF TcpIInv, Arrived
  <1>4. Len(received) + 1 \in 1..Len(received') /\ Len(received) < Len(sent)
    BY <1>1, <1>2, <1>3
  <1> QED BY <1>2, <1>3, <1>4

\* Less than a sum.
LEMMA Shorter ==
    ASSUME NEW a \in Nat \ {0}, NEW b \in Nat \ {0}
    PROVE  /\ 0 < a + b
           /\ \A n \in Nat : n < a => n < a + b
           /\ \A n \in Nat : n < b => a + n < a + b
  OBVIOUS

\* What came of the next packet is not all of it.
LEMMA NotYet ==
    ASSUME NEW c \in Seq(Nat), NEW p \in Packets,
           \/ c = <<>>
           \/ \E l, h : Left(c, l, h, Len(p))
           \/ \E b \in Seq(Nat) : c = encode_leb128_u64[Len(p)] \o b /\ Len(b) < Len(p)
    PROVE  Len(c) < Len(PacketFrame(p))
  <1> DEFINE v == Len(p)
             e == encode_leb128_u64[v]
             F == PacketFrame(p)
  <1>1. /\ v \in Nat \ {0} /\ v < 2^Bits64 /\ e \in Seq(Nat) /\ Len(e) \in Nat \ {0}
        /\ Len(F) = Len(e) + v
    BY PacketBytes DEF IsFrame
  <1> HIDE DEF F
  <1>2. CASE c = <<>>
    <2>1. Len(c) = 0
      BY <1>2
    <2> HIDE DEF v, e
    <2> QED BY <1>1, <2>1, Shorter, Zenon DEF F
  <1>3. CASE \E l, h : Left(c, l, h, v)
    <2>1. PICK l, h : Left(c, l, h, v)
      BY <1>3
    <2>2. PICK y : y = encode_leb128_u64[v][Len(c) + 1]
      OBVIOUS
    <2> HIDE DEF v, e
    <2>3. NextByte(v, c, l, h, y)
      BY <1>1, <2>1, <2>2, PrefixByte
    <2>4. Len(c) < Len(e) /\ Len(c) \in Nat
      BY <2>3, LenProperties DEF NextByte, e
    <2> HIDE DEF e
    <2> QED BY <1>1, <2>4, Shorter, Zenon DEF F
  <1>4. CASE \E b \in Seq(Nat) : c = e \o b /\ Len(b) < v
    <2>1. PICK b \in Seq(Nat) : c = e \o b /\ Len(b) < v
      BY <1>4
    <2> HIDE DEF v, e
    <2>2. Follows(e, b)
      BY <1>1, Behind
    <2>3. Len(c) = Len(e) + Len(b) /\ Len(b) \in Nat
      BY <2>1, <2>2, LenProperties DEF Follows
    <2> QED BY <1>1, <2>1, <2>3, Shorter, Zenon DEF F
  <1> QED BY <1>2, <1>3, <1>4

\* recv of Rust and Go meets the end of a stream that was not cut when
\* everything was returned.
LEMMA AllReturned ==
    ASSUME TcpIInv, transport = "tcp", link = <<>>, ~broken, ~sender
    PROVE  received = sent
  <1> DEFINE r == Len(received)
  <1>1. /\ sent \in Seq(Packets) /\ received \in Seq(Packets) /\ writing = <<>>
        /\ r \in Nat /\ Len(sent) \in Nat /\ r <= Len(sent)
        /\ \A i \in 1..r : received[i] = sent[i]
    BY LenProperties DEF TcpIInv, TcpTyped, TcpEnds, Arrived
  <1>2. PICK c \in Seq(Nat) : Halfway(c) /\ Carried(Bytes(c), sent, r, broken)
    BY DEF TcpIInv, Taken
  <1>3. Bytes(c) = c
    <2>1. Pending = <<>>
      BY <1>1 DEF Pending
    <2>2. <<>> \o <<>> = <<>> /\ c \o <<>> = c
      BY ConcatEmptySeq, EmptySeq
    <2> QED BY <2>1, <2>2 DEF Bytes
  <1>4. Carried(c, sent, r, FALSE)
    <2>1. broken = FALSE
      BY DEF TcpIInv, TcpTyped
    <2> QED BY <1>2, <1>3, <2>1, Zenon
  <1>5. ASSUME r < Len(sent) PROVE FALSE
    <2>1. r \in 0..Len(sent) /\ r + 1 \in 1..Len(sent)
      BY <1>1, <1>5
    <2>2. PICK p \in Packets : p = sent[r + 1]
      BY <1>1, <2>1, ElementOfSeq
    <2>3. Len(c) >= Len(PacketFrame(p))
      <3> HIDE DEF r
      <3>1. Len(c) >= Len(PacketFrame(sent[r + 1]))
        BY <1>1, <1>4, <1>5, <2>1, CarriedFirst
      <3> QED BY <2>2, <3>1
    <2>4. Len(c) < Len(PacketFrame(p))
      <3>1. \/ c = <<>>
            \/ \E l, h : Left(c, l, h, Len(p))
            \/ \E b \in Seq(Nat) : c = encode_leb128_u64[Len(p)] \o b /\ Len(b) < Len(p)
        <4>1. reading.data \in Seq(Nat)
          BY DEF TcpIInv, TcpTyped
        <4>2. \/ c = <<>>
              \/ Left(c, reading.length, reading.shift, Len(p))
              \/ /\ c = encode_leb128_u64[Len(p)] \o reading.data
                 /\ reading.length = Len(p) /\ Len(reading.data) < reading.length
          BY <1>2, <2>2 DEF Halfway
        <4> QED BY <4>1, <4>2
      <3> QED BY <3>1, NotYet
    <2>5. Len(c) \in Nat /\ Len(PacketFrame(p)) \in Nat
      BY PacketBytes, LenProperties DEF IsFrame
    <2> QED BY <2>3, <2>4, <2>5
  <1>6. Len(received) = Len(sent)
    BY <1>1, <1>5
  <1> QED BY <1>1, <1>6, SeqEqual

\* A step over TCP is one of the channel, or none.
LEMMA TcpChannelStep ==
    ASSUME TcpIInv, TcpIInv', TcpAll, transport' = transport
    PROVE  [Channel!Next]_(Channel!vars)
  <1> DEFINE quiet == UNCHANGED <<sent, received, failed>>
  <1>0. /\ transport \in Tcp /\ failed \in BOOLEAN /\ received \in Seq(Packets)
        /\ broken \in BOOLEAN /\ sender \in BOOLEAN /\ waiting \in BOOLEAN
        /\ closed \in BOOLEAN /\ TcpEnds
    BY DEF TcpIInv, TcpTyped
  <1>1. ASSUME quiet, broken' = broken, sender' = sender
        PROVE  UNCHANGED Channel!vars
    <2>1. connection' = connection
      BY <1>1 DEF connection
    <2> QED BY <1>1, <2>1 DEF Channel!vars
  <1>2. ASSUME NEW p, sent' = sent, received' = Append(received, p), ~failed,
               failed' = failed, broken' = broken, sender' = sender
        PROVE  Channel!Receive
    <2>1. connection' = connection
      BY <1>2 DEF connection
    <2>2. Len(received) < Len(sent) /\ p = sent[Len(received) + 1]
      BY <1>2, NextReturned
    <2> QED BY <1>2, <2>1, <2>2 DEF Channel!Receive
  <1>3. ASSUME sent' = sent, received' = received, broken' = broken, sender' = sender,
               ~failed, failed' = TRUE,
               connection = "broken" \/ (connection = "closed" /\ received = sent)
        PROVE  Channel!Fail
    <2>1. connection' = connection
      BY <1>3 DEF connection
    <2> QED BY <1>3, <2>1 DEF Channel!Fail
  <1>4. ASSUME quiet, connection' # connection, connection' = "broken"
        PROVE  Channel!Next
    BY <1>4 DEF Channel!Next, Channel!Break
  <1>5. CASE TcpDrop
    <2>1. /\ quiet /\ sender /\ ~sender' /\ broken' = (broken \/ writing # <<>>)
      BY <1>5 DEF TcpDrop
    <2>2. CASE connection' = "broken"
      <3>1. CASE connection' = connection
        BY <2>1, <3>1 DEF Channel!vars
      <3>2. CASE connection' # connection
        BY <1>4, <2>1, <2>2, <3>2
      <3> QED BY <3>1, <3>2
    <2>3. CASE connection' # "broken"
      <3>1. ~broken' /\ transport \notin LossyAtClose
        BY <2>1, <2>3 DEF connection
      <3>2. ~broken
        BY <2>1, <3>1
      <3>3. connection = "open" /\ connection' = "closed"
        BY <2>1, <3>1, <3>2 DEF connection
      <3> QED BY <2>1, <3>3 DEF Channel!Next, Channel!Close
    <2> QED BY <2>2, <2>3
  <1>6. ASSUME NEW p \in Packets, TcpSend(p)
        PROVE  Channel!Next
    <2>1. connection # "closed" /\ connection' = connection
      BY <1>6 DEF TcpSend, connection
    <2> QED BY <1>6, <2>1 DEF TcpSend, Channel!Next, Channel!Send
  <1>7. CASE TcpWrite
    BY <1>1, <1>7 DEF TcpWrite
  <1>8. CASE Cut
    <2>1. quiet /\ ~broken /\ broken' /\ sender' = sender
      BY <1>8 DEF Cut
    <2>2. connection' = "broken"
      BY <2>1 DEF connection
    <2>3. CASE connection = "broken"
      BY <2>1, <2>2, <2>3 DEF Channel!vars
    <2>4. CASE connection # "broken"
      BY <1>4, <2>1, <2>2, <2>4
    <2> QED BY <2>3, <2>4
  <1>9. CASE TcpReadPrefix
    BY <1>1, <1>9 DEF TcpReadPrefix
  <1>10. CASE TcpReadData
    <2>1. UNCHANGED <<sent, failed, sender, broken>> /\ ~failed
      BY <1>10 DEF TcpReadData
    <2>2. received' = received \/ \E p : received' = Append(received, p)
      BY <1>10 DEF TcpReadData
    <2>3. CASE received' = received
      BY <1>1, <2>1, <2>3
    <2>4. CASE \E p : received' = Append(received, p)
      <3>1. Channel!Receive
        BY <1>2, <2>1, <2>4
      <3> QED BY <3>1 DEF Channel!Next
    <2> QED BY <2>2, <2>3, <2>4
  <1>11. CASE transport = "tcp" /\ TcpReadFails
    <2>1. /\ UNCHANGED <<sent, received, sender, broken>> /\ ~failed /\ failed' = TRUE
          /\ link = <<>> /\ (broken \/ ~sender)
      BY <1>11 DEF TcpReadFails
    <2>2. CASE broken
      <3>1. connection = "broken"
        BY <2>2 DEF connection
      <3> QED BY <1>3, <2>1, <3>1 DEF Channel!Next
    <2>3. CASE ~broken
      <3>1. ~sender
        BY <2>1, <2>3
      <3>2. received = sent
        BY <1>11, <2>1, <2>3, <3>1, AllReturned
      <3>3. connection = "closed"
        BY <1>11, <2>3, <3>1 DEF connection, LossyAtClose
      <3> QED BY <1>3, <2>1, <3>2, <3>3 DEF Channel!Next
    <2> QED BY <2>2, <2>3
  <1>12. transport = "ts tcp" =>
             /\ waiting => ~failed /\ ~closed
             /\ closed => connection = "broken"
    BY <1>0 DEF TcpEnds, connection, LossyAtClose
  <1>13. CASE transport = "ts tcp" /\ TsTcpData
    <2>1. UNCHANGED <<sent, failed, sender, broken>>
      BY <1>13 DEF TsTcpData
    <2>2. \/ received' = received
          \/ waiting /\ \E p : received' = Append(received, p)
      BY <1>13 DEF TsTcpData
    <2>3. CASE received' = received
      BY <1>1, <2>1, <2>3
    <2>4. CASE waiting /\ \E p : received' = Append(received, p)
      <3>1. Channel!Receive
        BY <1>2, <1>12, <1>13, <2>1, <2>4
      <3> QED BY <3>1 DEF Channel!Next
    <2> QED BY <2>2, <2>3, <2>4
  <1>14. CASE transport = "ts tcp" /\ TsTcpClosed
    <2>1. /\ UNCHANGED <<sent, received, broken, sender>> /\ failed' = (failed \/ waiting)
          /\ broken \/ ~sender
      BY <1>14 DEF TsTcpClosed, TsReject
    <2>2. CASE waiting
      <3>1. ~failed /\ failed' = TRUE
        BY <1>12, <1>14, <2>1, <2>2
      <3>2. connection = "broken"
        BY <1>14, <2>1 DEF connection, LossyAtClose
      <3> QED BY <1>3, <2>1, <3>1, <3>2 DEF Channel!Next
    <2>3. CASE ~waiting
      <3>1. failed' = failed
        BY <1>0, <2>1, <2>3
      <3> QED BY <1>1, <2>1, <3>1
    <2> QED BY <2>2, <2>3
  <1>15. CASE transport = "ts tcp" /\ TsTcpRecv
    <2>1. UNCHANGED <<sent, broken, sender>> /\ ~failed
      BY <1>15 DEF TsTcpRecv
    <2>2. CASE closed
      <3>1. received' = received /\ failed' = TRUE
        BY <1>15, <2>2 DEF TsTcpRecv
      <3>2. connection = "broken"
        BY <1>12, <1>15, <2>2
      <3> QED BY <1>3, <2>1, <3>1, <3>2 DEF Channel!Next
    <2>3. CASE ~closed
      <3>1. failed' = failed
            /\ (received' = received \/ \E p : received' = Append(received, p))
        BY <1>15, <2>3 DEF TsTcpRecv
      <3>2. CASE received' = received
        BY <1>1, <2>1, <3>1, <3>2
      <3>3. CASE \E p : received' = Append(received, p)
        <4>1. Channel!Receive
          BY <1>2, <2>1, <3>1, <3>3
        <4> QED BY <4>1 DEF Channel!Next
      <3> QED BY <3>1, <3>2, <3>3
    <2> QED BY <2>2, <2>3
  <1>16. CASE UNCHANGED <<linkVars, tcpVars, tsVars>>
    BY <1>1, <1>16 DEF linkVars
  <1> QED
    BY <1>5, <1>6, <1>7, <1>8, <1>9, <1>10, <1>11, <1>13, <1>14, <1>15, <1>16 DEF TcpAll

\* doc/rpc_transport.md:36 of the TCP transports of Rust, Go and
\* TypeScript: packets arrive whole, each once, in order, whatever the
\* pieces in which their bytes come and wherever the connection breaks, and
\* recv fails only when the connection broke or everything was returned (at
\* a close, TypeScript may fail sooner: LossyAtClose).
THEOREM TcpAreChannels == Spec /\ transport \in Tcp => ImplementsChannel
  <1>1. Init /\ transport \in Tcp => Channel!Init
    BY DEF Init, PacketInit, LinkInit, Channel!Init, connection
  <1>2. TcpIInv /\ TcpIInv' /\ [Next]_vars => [Channel!Next]_(Channel!vars)
    <2> SUFFICES ASSUME TcpIInv, TcpIInv', [Next]_vars PROVE [Channel!Next]_(Channel!vars)
      OBVIOUS
    <2>1. TcpAll /\ transport' = transport
      BY TcpSteps DEF TcpIInv
    <2> QED BY <2>1, TcpChannelStep
  <1> QED BY <1>1, <1>2, TcpInductive, PTL DEF Spec, ImplementsChannel, Channel!Spec

\* Where no connection is made nothing happens to it.
LEMMA NoneStays ==
    ASSUME transport = "none", [Next]_vars
    PROVE  transport' = "none" /\ UNCHANGED Channel!vars
  <1>1. UNCHANGED packetVars
    BY DEF Next, vars, PacketNext, PacketEnvironment, Writes, Reads, Recvs, Tcp, WebSocket
  <1>2. UNCHANGED <<sent, received, failed, sender, broken, transport>>
    BY <1>1 DEF packetVars, linkVars
  <1> QED BY <1>2 DEF Channel!vars, connection

\* Each of the packet transports is the channel that the RPC clients and
\* servers are written for.
THEOREM TransportsAreChannels == Spec => ImplementsChannel
  <1>1. Init => transport \in Tcp \/ transport \in WebSocket \/ transport = "none"
    BY DEF Init, PacketInit
  <1>2. Init /\ transport = "none" => Channel!Init
    BY DEF Init, PacketInit, LinkInit, Channel!Init, connection
  <1>3. transport = "none" /\ [Next]_vars => (transport = "none")'
    BY NoneStays
  <1>4. transport = "none" /\ [Next]_vars => [Channel!Next]_(Channel!vars)
    BY NoneStays
  <1>5. Spec /\ transport = "none" => ImplementsChannel
    BY <1>2, <1>3, <1>4, PTL DEF Spec, ImplementsChannel, Channel!Spec
  <1> QED BY <1>1, <1>5, TcpAreChannels, WebSocketsAreChannels, PTL DEF Spec
=============================================================================
